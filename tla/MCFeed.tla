------------------------------- MODULE MCFeed -------------------------------
(* A small instance of CompanionFeed: more critical items than a pass takes, *)
(* and one of the lowest severity.                                           *)
EXTENDS CompanionFeed, TLC

CONSTANTS c1, c2, n1, p1, p2

Accounts2 == [i \in Items |-> IF i = c1 THEN "acme" ELSE "beta"]
Severity2 == [i \in Items |-> IF i = n1 THEN 2 ELSE 0]
Place2 == c1 :> 1 @@ c2 :> 2 @@ n1 :> 0
Filters2 == {{"acme", "beta"}, {"acme"}}
=============================================================================
