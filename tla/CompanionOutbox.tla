--------------------------- MODULE CompanionOutbox ---------------------------
(***************************************************************************)
(* The companion outbox (companion/outbox.py): one file per proposal name, *)
(* each replaced atomically, and one persistent flock per name.  A file is *)
(* an envelope [prop, kind, tries, born]:                                  *)
(*   prop   identifies the payload (its argv and text, written once);      *)
(*   kind   "approvable": command_argv is an argv;                         *)
(*          "marker":     the execution marker a claim leaves in its place;*)
(*          "note":       a valid envelope without a command;              *)
(*          "legacy":     an older release's llm/invalid-command envelope; *)
(*          "none":       no file has the name;                            *)
(*   tries  how often a failed claim has rewritten the payload: the pair   *)
(*          (prop, tries) stands for the (device, inode, mtime) identity,  *)
(*          new for every rewrite, that the code compares;                 *)
(*   born   the envelope's created_at.                                     *)
(* Every operator here is what happens inside one locked section, or one   *)
(* listing: nothing but an operator's `rm` can fall inside either.         *)
(***************************************************************************)
EXTENDS Naturals, FiniteSets

CONSTANTS Names,        \* proposal basenames: <date>-<item id>-<slug>.proposal.json
          Items,        \* attention items
          ItemOf,       \* the item id each basename carries
          Procs,        \* every process that takes a proposal lock
          Free,         \* the holder of a lock nobody holds
          MaxProposals, \* bound: payloads ever published
          MaxTries,     \* bound: failed claims of one payload
          MaxTime       \* bound: the clock

ASSUME OutboxAssumption ==
    /\ IsFiniteSet(Names)
    /\ ItemOf \in [Names -> Items]
    /\ Free \notin Procs
    /\ MaxProposals \in Nat
    /\ MaxTries \in Nat
    /\ MaxTime \in Nat

VARIABLES file,      \* name -> envelope
          lock,      \* name -> holder of its flock
          published, \* number of payloads published so far
          now        \* the wall clock

outboxVars == <<file, lock, published, now>>

Props == 1..MaxProposals
Kinds == {"approvable", "marker", "note", "legacy"}
Envelopes == [prop: Props, kind: Kinds, tries: 0..MaxTries, born: 0..MaxTime]
NoFile == [prop |-> 0, kind |-> "none", tries |-> 0, born |-> 0]

OutboxTypeOK ==
    /\ file \in [Names -> Envelopes \cup {NoFile}]
    /\ lock \in [Names -> Procs \cup {Free}]
    /\ published \in 0..MaxProposals
    /\ now \in 0..MaxTime

\* What list_proposals() returns, as the names it lists.
Listed == {n \in Names : file[n] # NoFile}

\* proposal_item_ids(): the items a readable envelope stands for.
ProposedItems == {ItemOf[n] : n \in Listed}

Approvable(n) == file[n].kind = "approvable"

\* Mutant of ClaimStatus: the locked read is not revalidated.
ClaimStatusUnchecked(n) == "claimed"

\* _claim_payload(): what a locked read finds, as the claim's status.
ClaimStatus(n) ==
    CASE file[n] = NoFile -> "missing"
      [] file[n] # NoFile /\ ~Approvable(n) -> "not-approvable"
      [] Approvable(n) -> "claimed"

\* _write_atomic(): temporary file, fsync, rename over the name.
WriteAtomic(n, envelope) == file' = [file EXCEPT ![n] = envelope]

Unlink(n) == file' = [file EXCEPT ![n] = NoFile]

\* write_proposal() and replace_invalid_command_proposal(): a new payload
\* takes the name, whatever has it, once the lock is free.  No other process
\* can take the lock between the two, so the section is one step.
PublishEnvelope(n, kind) ==
    /\ lock[n] = Free
    /\ published < MaxProposals
    /\ published' = published + 1
    /\ WriteAtomic(n, [prop |-> published + 1, kind |-> kind,
                       tries |-> 0, born |-> now])
    /\ UNCHANGED <<lock, now>>

\* Mutant of Marker: the envelope keeps its command while it runs.
MarkerWithCommand(envelope) == envelope

\* claim_proposal(): the marker keeps the payload and loses the command.
Marker(envelope) == [envelope EXCEPT !.kind = "marker"]

\* Mutant of OwnsMarker: finish() does not compare identities.
OwnsMarkerUnchecked(n, claim) == TRUE

\* ProposalClaim.finish(): the name still has the marker this claim wrote.
OwnsMarker(n, claim) == file[n] = Marker(claim)

\* finish(success=False): the claimed payload, as a new generation.
RestorePayload(n, claim) == WriteAtomic(n, [claim EXCEPT !.tries = @ + 1])

Acquire(n, p) == lock' = [lock EXCEPT ![n] = p]
Release(n) == lock' = [lock EXCEPT ![n] = Free]

\* A process that ends, however it ends, gives up the flocks it holds.
ReleaseAll(p) == lock' = [n \in Names |-> IF lock[n] = p THEN Free ELSE lock[n]]

\* The outbox as an earlier release may have left it: at most one envelope
\* per name, every one a payload of its own, published before the clock starts.
OutboxInit(kinds) ==
    /\ \E old \in SUBSET Names :
         /\ Cardinality(old) <= MaxProposals
         /\ published = Cardinality(old)
         /\ \E id \in [old -> 1..Cardinality(old)], kind \in [old -> kinds] :
              /\ \A n, m \in old : id[n] = id[m] => n = m
              /\ file = [n \in Names |->
                          IF n \in old
                          THEN [prop |-> id[n], kind |-> kind[n], tries |-> 0, born |-> 0]
                          ELSE NoFile]
    /\ lock = [n \in Names |-> Free]
    /\ now = 0

\* The operator handles a proposal and deletes its file, taking no lock.
OperatorDeletes(n) ==
    /\ n \in Listed
    /\ Unlink(n)
    /\ UNCHANGED <<lock, published, now>>

Tick ==
    /\ now < MaxTime
    /\ now' = now + 1
    /\ UNCHANGED <<file, lock, published>>

=============================================================================
