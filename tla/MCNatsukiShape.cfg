CONSTANTS
    A = A
    B = B
    C = C
    f1 = f1
    Names <- MCNames
    ClassNames <- MCNames
    FieldNames <- MCFieldNames
    EnumNames = {}
    TypeDefs = {}
    UnionDefs = {}
    FieldLists <- MCFieldLists
    NodeCode <- MCNodeCode
    OptionSets = {}
    FileCode = {}
    IncludeAllowed = FALSE
    Spellings = {"int"}
    PointerSpellings = {}
    MaxDecls = 4

SPECIFICATION Spec
SYMMETRY MCSymmetry
INVARIANT OneLevelInheritance
INVARIANT DeclarationOrder
