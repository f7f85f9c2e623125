\* castore on an array of two chars.
SPECIFICATION Spec
CONSTANTS
    Object = Object
    Text = Text
    P = P
    Q = Q
    R = R
    Classes = {Object, Text, P, Q, R}
    Super <- MCSuper
    Fields <- MCFields
    Chars = "chars"
    Values <- MCValues
    Lengths <- MCLengths
    Literals <- MCLiterals
    NoRef = NoRef
    Junk = Junk
    Capacity = 2
    MaxSize = 15
    Fuel = 4
INVARIANTS
    StoresInBounds
CHECK_DEADLOCK FALSE
