CONSTANTS
    P = P
    Q = Q
    K = K
    f1 = f1
    f2 = f2
    Names <- MCNames
    ClassNames <- MCClassNames
    FieldNames <- MCFieldNames
    EnumNames = {}
    TypeDefs <- MCTypeDefs
    UnionDefs = {}
    FieldLists <- MCFieldListsRepeated
    NodeCode <- MCNodeCode
    OptionSets = {}
    FileCode = {}
    IncludeAllowed = FALSE
    Spellings = {"int"}
    PointerSpellings = {}
    MaxDecls = 3

SPECIFICATION Spec
INVARIANT NamesUnique
