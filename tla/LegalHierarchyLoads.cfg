SPECIFICATION Spec
CONSTANTS
    Object = Object
    NoClass = NoClass
    A = A
    B = B
    C = C
    Classes = {Object, A, B, C}
    Providers <- LegalProviders
INVARIANTS
    LegalHierarchyLoads
