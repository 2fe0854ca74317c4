------------------------------ MODULE MCIngest ------------------------------
(* Small instances of Ingest: runs r1, r2 and sources s1, s2, s3. *)
EXTENDS Ingest, TLC

\* Nothing tells two runs, or two sources, apart.
Interchangeable == Permutations(Runs) \cup Permutations(Sources)

\* No two meetings of an account have the same date and title.
OwnNotes == [s \in Sources |-> s]

\* All have.
SharedNote == [s \in Sources |-> "note"]

=============================================================================
