-------------------------- MODULE MCNatsukiUnions --------------------------
(* A union U declared in braced and single-variant form, an enumeration E, *)
(* a custom type T, a class W holding a U, and the file-level              *)
(* declarations: #include, [[...]]; and PUBLIC/PRIVATE blocks.             *)
EXTENDS NatsukiResolver

CONSTANTS U, X, Y, E, T, W, f1, f2

MCNames == {U, X, Y, E, T, W}
MCFieldNames == {f1, f2}

Attrs(keys) == [k \in keys |-> ""]
FieldDef(n, t, keys) == [names |-> <<n>>, type |-> t, attrs |-> Attrs(keys)]

MCTypeDefs == {[name |-> T, spelling |-> "int"]}

MCUnionDefs ==
    { [name |-> U, multi |-> TRUE,
       variants |-> << [name |-> X, fields |-> <<FieldDef(f1, W, {"cowned"})>>],
                       [name |-> Y, fields |-> <<FieldDef(f1, E, {}),
                                                 FieldDef(f2, T, {"array"})>>] >>],
      [name |-> U, multi |-> FALSE,
       variants |-> << [name |-> X, fields |-> <<FieldDef(f2, W, {"optional", "cowned"})>>] >>] }

MCFieldLists == { <<>>, <<FieldDef(f1, U, {})>>, <<FieldDef(f1, U, {"optional"})>>,
                  <<FieldDef(f2, W, {"optional", "reference"})>> }
MCNodeCode == { <<>> }
MCOptionSets == { {"namespace"} }
=============================================================================
