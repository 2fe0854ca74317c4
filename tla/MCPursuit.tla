----------------------------- MODULE MCPursuit -----------------------------
(* Small instances of PursuitFile: commands a and b, a pursuit and the name it *)
(* may be renamed to.                                                          *)
EXTENDS PursuitFile, TLC

CONSTANTS a, b, old, new

\* One rename, from the name there is to one there may be.
OldToNew == {<<old, new>>}

\* Nothing tells two commands, or two workbooks, apart.
Interchangeable == Permutations(Procs) \cup Permutations(Docs)
=============================================================================
