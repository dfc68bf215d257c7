CONSTANTS
    U = U
    X = X
    E = E
    W = W
    V = V
    T = T
    f1 = f1
    f2 = f2
    Names <- MCNames
    ClassNames = {W, V}
    FieldNames <- MCFieldNames
    EnumNames = {E}
    TypeDefs <- MCTypeDefsEmpty
    UnionDefs <- MCUnionDefsRepeated
    FieldLists <- MCFieldListsFaults
    NodeCode <- MCNodeCodeTrait
    OptionSets <- MCOptionSets
    FileCode = {}
    IncludeAllowed = FALSE
    Spellings = {"int", ""}
    PointerSpellings = {}
    MaxDecls = 3
    ArgSets <- MCArgSetsNodes
    EmptyEnums = {E}

SPECIFICATION GenSpec
INVARIANT NoUncaughtException
