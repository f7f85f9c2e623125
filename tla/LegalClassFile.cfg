\* A legal class file with a long constant.
SPECIFICATION Spec
CONSTANTS
    Files <- LongFiles
    Magic <- MagicNumber
    ObjectName <- LObject
    CodeName <- CodeText
    ConstantValueName <- ConstantText
INVARIANTS
    LegalClassesRead
CHECK_DEADLOCK FALSE
