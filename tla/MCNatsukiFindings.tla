------------------------- MODULE MCNatsukiFindings -------------------------
(* Inputs that reach the disagreements between the code and the spec:     *)
(* a class and a custom type of the same name, a parent with a public     *)
(* trait block, a conditionally-owned trait field, and a map field        *)
(* declared under two names (`f1, f2 : P<K>`) or as a trait, or one name *)
(* twice.                                                                   *)
EXTENDS NatsukiResolver

CONSTANTS P, Q, K, f1, f2

MCNames == {P, Q, K}
MCClassNames == {P, Q}
MCFieldNames == {f1, f2}
MCTypeDefs == {[name |-> K, spelling |-> "int"], [name |-> P, spelling |-> "int"]}

Attrs(keys) == [k \in keys |-> ""]

MCFieldLists ==
    { <<>>,
      <<[names |-> <<f1>>, type |-> P, attrs |-> Attrs({"istrait", "cowned"})]>>,
      <<[names |-> <<f1, f2>>, type |-> P, attrs |-> ("map" :> K)]>> }

(* A trait map field, `f1 : P<K> [[istrait]]`, which a child copies from  *)
(* its parent after the parent's resolution rewrote the key (line 1049).   *)
TraitMapField == <<[names |-> <<f1>>, type |-> P, attrs |-> ("map" :> K) @@ ("istrait" :> "")]>>

MCFieldListsMapKeys == MCFieldLists \cup {TraitMapField}

(* A field name given twice in one definition, as `(f1, f1 : P)`.          *)
MCFieldListsRepeated ==
    MCFieldLists \cup { <<[names |-> <<f1, f1>>, type |-> P, attrs |-> Attrs({})]>> }

MCNodeCode ==
    { <<>>,
      <<[vis |-> "public", trait |-> TRUE]>>,
      <<[vis |-> "private", trait |-> FALSE], [vis |-> "public", trait |-> TRUE]>> }
=============================================================================
