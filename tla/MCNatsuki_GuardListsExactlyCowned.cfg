CONSTANTS
    P = P
    Q = Q
    K = K
    f1 = f1
    f2 = f2
    Names <- MCNames
    ClassNames <- MCClassNames
    FieldNames <- MCFieldNames
    EnumNames = {}
    TypeDefs <- MCTypeDefs
    UnionDefs = {}
    FieldLists <- MCFieldLists
    NodeCode <- MCNodeCode
    OptionSets = {}
    FileCode = {}
    IncludeAllowed = FALSE
    Spellings = {"int"}
    PointerSpellings = {}
    MaxDecls = 3

SPECIFICATION Spec
INVARIANT GuardListsExactlyCowned
