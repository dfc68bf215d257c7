------------------------- MODULE MCNatsukiGenerator -------------------------
(* Classes W and V, a union U whose variant X holds a conditionally-owned *)
(* W, and an enumeration E declared with no literal.  A class holds a U,  *)
(* a W[][] (a tuple no backend has a handler for), or an E.  The file may *)
(* be visitable, and main() may be asked for every output or for the      *)
(* debug implementation only.  For the uncaught-exception run a class may *)
(* also carry a public trait block.                                         *)
EXTENDS NatsukiGenerator

CONSTANTS U, X, E, W, V, T, f1, f2

MCNames == {U, X, E, W, V, T}
MCFieldNames == {f1, f2}

Attrs(keys) == [k \in keys |-> ""]
FieldDef(n, t, keys) == [names |-> <<n>>, type |-> t, attrs |-> Attrs(keys)]

MCUnionDefs ==
    { [name |-> U, multi |-> FALSE,
       variants |-> << [name |-> X, fields |-> <<FieldDef(f1, W, {"cowned"})>>] >>] }

MCFieldLists == { <<>>, <<FieldDef(f2, U, {})>>, <<FieldDef(f2, W, {"darray"})>>,
                  <<FieldDef(f2, E, {})>> }
(* For the dispatch run: one field of each shape a backend must dispatch  *)
(* on, with the decorations of spec section 4.3 steps 8-10: optional,     *)
(* array, conditionally-owned, reference, and visitable Enum fields, which *)
(* no traveller handles.                                                   *)
MCShapes == { <<U, {}>>, <<W, {"darray"}>>, <<E, {}>>, <<W, {"optional"}>>,
              <<W, {"array", "cowned"}>>, <<W, {"optional", "cowned"}>>,
              <<W, {"reference"}>>, <<E, {"array"}>>, <<E, {"visitable"}>> }
MCFieldListsWide == {<<>>} \cup {<<FieldDef(f2, sh[1], sh[2])>> : sh \in MCShapes}

MCNodeCode == { <<>> }
(* A class may carry a public trait block.                                 *)
MCNodeCodeTrait == { <<>>, <<[vis |-> "public", trait |-> TRUE]>> }
(* For the uncaught-exception run: `#define T` with nothing after the     *)
(* name (line 987), a braced union naming variant X twice (line 598), and *)
(* a field of type T, or a multimap keyed by the enum E (line 1058).       *)
MCTypeDefsEmpty == { [name |-> T, spelling |-> ""] }
MCUnionDefsRepeated ==
    { [name |-> U, multi |-> TRUE,
       variants |-> << [name |-> X, fields |-> <<>>], [name |-> X, fields |-> <<>>] >>] }
MCFieldListsFaults ==
    MCFieldLists \cup { <<FieldDef(f2, T, {})>>,
                        <<[names |-> <<f2>>, type |-> W, attrs |-> ("mmap" :> E)]>> }

MCOptionSets == { {"visitable"} }
MCArgSets == { {"generate_h", "generate_cpp", "generate_nodes", "generate_debug"},
               {"generate_cpp", "generate_debug"} }
(* Only the nodes implementation, where the initialisers are dispatched.   *)
MCArgSetsNodes == { {"generate_cpp", "generate_nodes"} }
=============================================================================
