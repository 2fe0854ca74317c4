------------------------------- MODULE MCWatch -------------------------------
(* Small instances of WatchStalls. *)
EXTENDS WatchStalls, TLC

CONSTANTS deal, deal2, acme

\* Both deals are of one account.
OneAccount == [p \in Pursuits |-> acme]

\* The heading of deal2 begins with the heading of deal.
Prefixed == {<<deal, deal2>>}

Interchangeable == Permutations(Scans)
=============================================================================
