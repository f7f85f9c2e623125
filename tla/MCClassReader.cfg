\* Whole, cut and damaged files of small classes, and every decodable opcode.
SPECIFICATION Spec
CONSTANTS
    Files <- AllFiles
    Magic <- MagicNumber
    ObjectName <- LObject
    CodeName <- CodeText
    ConstantValueName <- ConstantText
INVARIANTS
    ReaderTypeOK
    FieldsDisjoint
    
    DescriptorsReadBack
    CodeInStep
    CodecAgrees
CHECK_DEADLOCK FALSE
