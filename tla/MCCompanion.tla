----------------------------- MODULE MCCompanion -----------------------------
(* Small instances of Companion: each configuration names the actors it has *)
EXTENDS Companion

OneItem == [n \in Names |-> CHOOSE i \in Items : TRUE]

=============================================================================
