CONSTANTS
    U = U
    X = X
    Y = Y
    E = E
    T = T
    W = W
    f1 = f1
    f2 = f2
    Names <- MCNames
    ClassNames = {W}
    FieldNames <- MCFieldNames
    EnumNames = {E}
    TypeDefs <- MCTypeDefs
    UnionDefs <- MCUnionDefs
    FieldLists <- MCFieldLists
    NodeCode <- MCNodeCode
    OptionSets <- MCOptionSets
    FileCode = {"public", "private"}
    IncludeAllowed = TRUE
    Spellings = {"int"}
    PointerSpellings = {}
    MaxDecls = 4

SPECIFICATION Spec
INVARIANT GuardsRegistered
INVARIANT ResolvedFieldsWellFormed
INVARIANT DeclarationOrder
