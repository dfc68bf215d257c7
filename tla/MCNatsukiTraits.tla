-------------------------- MODULE MCNatsukiTraits --------------------------
(* A parent P and a child Q with trait, conditionally-owned, map,          *)
(* reference and visitable fields and trait verbatim blocks; K is a        *)
(* pointer custom type usable as a map key.                                *)
EXTENDS NatsukiResolver

CONSTANTS P, Q, K, f1, f2

MCNames == {P, Q, K}
MCClassNames == {P, Q}
MCFieldNames == {f1, f2}
MCTypeDefs == {[name |-> K, spelling |-> "int*"]}

Attrs(keys) == [k \in keys |-> ""]

MCFieldLists ==
    { <<>>,
      <<[names |-> <<f1>>, type |-> P, attrs |-> Attrs({"istrait", "cowned"})]>>,
      <<[names |-> <<f1>>, type |-> K, attrs |-> Attrs({"istrait", "optional"})]>>,
      <<[names |-> <<f2>>, type |-> P, attrs |-> ("map" :> K) @@ Attrs({"cowned"})]>>,
      <<[names |-> <<f2>>, type |-> Q, attrs |-> Attrs({"reference", "visitable"})]>> }

MCNodeCode ==
    { <<>>,
      <<[vis |-> "private", trait |-> TRUE]>> }
=============================================================================
