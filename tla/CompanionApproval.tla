-------------------------- MODULE CompanionApproval --------------------------
(***************************************************************************)
(* Approving a proposal from the dashboard (web/actions.py approve(),      *)
(* companion/outbox.py claim_proposal() and ProposalClaim).  An approver   *)
(* is a request thread of the web server: it shows a listing, and on the   *)
(* click claims the name, runs the recorded command, settles the file and  *)
(* records the outcome.  The flock is held from the claim to the close.    *)
(***************************************************************************)
EXTENDS CompanionSuppress, Sequences

CONSTANT Approvers

ASSUME ApprovalAssumption == Approvers \subseteq Procs

VARIABLES app,     \* approver -> its request
          runs,    \* history: payload -> times its command was started
          effects, \* history: payload -> times the command took effect
          log      \* companion-proposal-outcomes-*.jsonl

approvalVars == <<app, runs, effects, log>>

\* exit 0; exit nonzero; killed at the timeout after taking effect (the runner
\* reports exit 1); refused by the gate.
Results == {"executed", "failed", "timedout", "denied"}

IdleRequest == [pc |-> "idle", name |-> "", claim |-> NoFile,
                result |-> ""]

Outcome(name, prop, outcome, at) ==
    [name |-> name, prop |-> prop, outcome |-> outcome, at |-> at]

Requests == [pc: {"idle", "reviewed", "claimed", "ran", "removed"},
             name: Names \cup {""}, claim: Envelopes \cup {NoFile}, result: Results \cup {""}]

Outcomes == [name: Names, prop: Props, outcome: {"approved", "expired"},
             at: 0..MaxTime]

ApprovalTypeOK ==
    /\ app \in [Approvers -> Requests]
    /\ runs \in [Props -> Nat]
    /\ effects \in [Props -> Nat]
    /\ log \in Seq(Outcomes)

\* The command has been claimed and is not settled yet.
Running(a) == app[a].pc \in {"claimed", "ran"}

ApprovalInit ==
    /\ app = [a \in Approvers |-> IdleRequest]
    /\ runs = [p \in Props |-> 0]
    /\ effects = [p \in Props |-> 0]
    /\ log = <<>>

\* The Outbox tab shows the listing; the operator reads one proposal.
Review(a, n) ==
    /\ app[a].pc = "idle"
    /\ Approvable(n)
    /\ app' = [app EXCEPT ![a] = [IdleRequest EXCEPT !.pc = "reviewed", !.name = n]]
    /\ UNCHANGED <<outboxVars, until, runs, effects, log>>

\* Mutant of Claim: the payload is read and neither locked nor marked.
ClaimReadOnly(a) ==
    LET n == app[a].name IN
    /\ app[a].pc = "reviewed"
    /\ lock[n] = Free
    /\ ClaimStatus(n) = "claimed"
    /\ app' = [app EXCEPT ![a].pc = "claimed", ![a].claim = file[n]]
    /\ UNCHANGED <<outboxVars, until, runs, effects, log>>

\* claim_proposal(): the lock, then the file as it is now, whichever
\* generation that is; the request carries only the name.
Claim(a) ==
    LET n == app[a].name IN
    /\ app[a].pc = "reviewed"
    /\ lock[n] = Free
    /\ ClaimStatus(n) = "claimed"
    /\ file[n].tries < MaxTries
    /\ Acquire(n, a)
    /\ WriteAtomic(n, Marker(file[n]))
    /\ app' = [app EXCEPT ![a].pc = "claimed", ![a].claim = file[n]]
    /\ UNCHANGED <<published, now, until, runs, effects, log>>

\* claim_proposal() finds nothing to claim and gives the lock back.
ClaimRefused(a) ==
    LET n == app[a].name IN
    /\ app[a].pc = "reviewed"
    /\ lock[n] = Free
    /\ ClaimStatus(n) \in {"missing", "not-approvable"}
    /\ app' = [app EXCEPT ![a] = IdleRequest]
    /\ UNCHANGED <<outboxVars, until, runs, effects, log>>

\* run_action(): the gate, then a subprocess with a timeout.
Run(a) ==
    LET p == app[a].claim.prop IN
    /\ app[a].pc = "claimed"
    /\ \E r \in Results :
         /\ app' = [app EXCEPT ![a].pc = "ran", ![a].result = r]
         /\ runs' = [runs EXCEPT ![p] = @ + (IF r = "denied" THEN 0 ELSE 1)]
         /\ effects' = [effects EXCEPT
                         ![p] = @ + (IF r \in {"executed", "timedout"} THEN 1 ELSE 0)]
    /\ UNCHANGED <<outboxVars, until, log>>

\* Mutant of FinishSuccess: every finished run counts as a success.
FinishAlwaysSuccess(a) ==
    LET n == app[a].name IN
    /\ app[a].pc = "ran"
    /\ OwnsMarker(n, app[a].claim)
    /\ Unlink(n)
    /\ app' = [app EXCEPT ![a].pc = "removed"]
    /\ UNCHANGED <<lock, published, now, until, runs, effects, log>>

\* finish(success=True) unlinks the marker; the lock stays until the outcome
\* is recorded.
FinishSuccess(a) ==
    LET n == app[a].name IN
    /\ app[a].pc = "ran"
    /\ app[a].result = "executed"
    /\ OwnsMarker(n, app[a].claim)
    /\ Unlink(n)
    /\ app' = [app EXCEPT ![a].pc = "removed"]
    /\ UNCHANGED <<lock, published, now, until, runs, effects, log>>

\* finish(success=False) puts the payload back; close() frees the lock.
FinishFailure(a) ==
    LET n == app[a].name IN
    /\ app[a].pc = "ran"
    /\ app[a].result # "executed"
    /\ OwnsMarker(n, app[a].claim)
    /\ RestorePayload(n, app[a].claim)
    /\ Release(n)
    /\ app' = [app EXCEPT ![a] = IdleRequest]
    /\ UNCHANGED <<published, now, until, runs, effects, log>>

\* Mutant of FinishConflict: the early return forgets the lock.
FinishConflictHolding(a) ==
    /\ app[a].pc = "ran"
    /\ ~OwnsMarker(app[a].name, app[a].claim)
    /\ app' = [app EXCEPT ![a] = IdleRequest]
    /\ UNCHANGED <<outboxVars, until, runs, effects, log>>

\* finish() finds another identity under the name, or none, and leaves it.
FinishConflict(a) ==
    LET n == app[a].name IN
    /\ app[a].pc = "ran"
    /\ ~OwnsMarker(n, app[a].claim)
    /\ Release(n)
    /\ app' = [app EXCEPT ![a] = IdleRequest]
    /\ UNCHANGED <<file, published, now, until, runs, effects, log>>

\* record_outcome(outcome="approved"), then close().
RecordApproved(a) ==
    LET n == app[a].name IN
    /\ app[a].pc = "removed"
    /\ log' = Append(log, Outcome(n, app[a].claim.prop, "approved", now))
    /\ Release(n)
    /\ app' = [app EXCEPT ![a] = IdleRequest]
    /\ UNCHANGED <<file, published, now, until, runs, effects>>

\* Mutant of AbandonApproval: the close of an unfinished claim puts its payload
\* back, as if a run nobody reported had failed.
AbandonRestoring(a) ==
    /\ Running(a)
    /\ OwnsMarker(app[a].name, app[a].claim)
    /\ RestorePayload(app[a].name, app[a].claim)
    /\ ReleaseAll(a)
    /\ app' = [app EXCEPT ![a] = IdleRequest]
    /\ UNCHANGED <<published, now, until, runs, effects, log>>

\* The server dies, or the runner, the unlink or the append raises: the
\* finally clause closes the claim without settling it.
AbandonApproval(a) ==
    /\ app[a].pc # "idle"
    /\ ReleaseAll(a)
    /\ app' = [app EXCEPT ![a] = IdleRequest]
    /\ UNCHANGED <<file, published, now, until, runs, effects, log>>

Settle(a) == Run(a) \/ FinishSuccess(a) \/ FinishFailure(a) \/ FinishConflict(a)
             \/ RecordApproved(a)

ApprovalNext ==
    \E a \in Approvers :
        \/ \E n \in Names : Review(a, n)
        \/ Claim(a)
        \/ ClaimRefused(a)
        \/ Run(a)
        \/ FinishSuccess(a)
        \/ FinishFailure(a)
        \/ FinishConflict(a)
        \/ RecordApproved(a)
        \/ AbandonApproval(a)

=============================================================================
