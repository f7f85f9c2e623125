SPECIFICATION Spec
CONSTANTS
    Object = Object
    NoClass = NoClass
    A = A
    B = B
    C = C
    Classes = {Object, A, B}
    Providers <- AllProviders
INVARIANTS
    LoadingMeansInProgress
