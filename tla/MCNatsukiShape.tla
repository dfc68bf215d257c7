--------------------------- MODULE MCNatsukiShape ---------------------------
(* Classes and `->` subnodes only, declared, merged and re-attached in      *)
(* every order up to MaxDecls declarations.                                 *)
EXTENDS NatsukiResolver

CONSTANTS A, B, C, f1

MCNames == {A, B, C}
MCFieldNames == {f1}
MCFieldLists == {<<>>}
MCNodeCode == {<<>>}
MCSymmetry == Permutations({A, B, C})
=============================================================================
