\* Every provider over three classes.
SPECIFICATION Spec
CONSTANTS
    Object = Object
    NoClass = NoClass
    A = A
    B = B
    C = C
    Classes = {Object, A, B}
    Providers <- AllProviders
INVARIANTS
    TypeOK
    SuperLinked
    NoSuperCycle
    NoReentrantLoad
    ReportComplete
    FieldTypesLinked
    ActivationsConsistent
    NothingLost
PROPERTIES
    LinkedForever
    LoadTerminates
    ImplementsContract
