\* A super call where the direct superclass has the method.
SPECIFICATION Spec
CONSTANTS
    Object = Object
    NoSuper = NoSuper
    Str = Str
    A = A
    B = B
    C = C
    Face = Face
    OneText = OneText
    Text = Str
    Classes = {Object, Str, A, B, C, Face}
    Methods = {"init", "get", "set", "keep", "put", "at", "wide", "char", "run", "same", "sub"}
    NoMethod = NoMethod
    Hierarchies <- Chains
    Params <- MCParams
    Ret <- MCRet
    IsStatic <- MCIsStatic
    IsInit <- MCIsInit
    Natives <- MCNatives
    Kind <- MCKind
    MaxWord = 2
    MaxFrames = 3
    MaxStack = 3
    MaxLocal = 1
INVARIANTS
    SuperCallsAsSpecified
CHECK_DEADLOCK FALSE
