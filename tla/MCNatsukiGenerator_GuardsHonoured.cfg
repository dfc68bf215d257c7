CONSTANTS
    U = U
    X = X
    E = E
    W = W
    V = V
    T = T
    f1 = f1
    f2 = f2
    Names <- MCNames
    ClassNames = {W, V}
    FieldNames <- MCFieldNames
    EnumNames = {E}
    TypeDefs = {}
    UnionDefs <- MCUnionDefs
    FieldLists <- MCFieldLists
    NodeCode <- MCNodeCode
    OptionSets <- MCOptionSets
    FileCode = {}
    IncludeAllowed = FALSE
    Spellings = {"int"}
    PointerSpellings = {}
    MaxDecls = 4
    ArgSets <- MCArgSets
    EmptyEnums = {E}

SPECIFICATION GenSpec
INVARIANT GuardsHonoured
