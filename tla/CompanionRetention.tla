-------------------------- MODULE CompanionRetention --------------------------
(***************************************************************************)
(* Retention of proposals (companion/lifecycle.py): the confirmed prune    *)
(* pass, which expires old approvable proposals one at a time, and the     *)
(* reconciliation of envelopes an older release left without a command.    *)
(* Both choose their candidates from an unlocked listing and revalidate    *)
(* each one under its lock.                                                *)
(***************************************************************************)
EXTENDS CompanionApproval

CONSTANTS Pruners,      \* prune passes that may overlap
          Reconcilers,  \* reconcile-invalid passes
          Retention,    \* --older-than
          PruneLimit    \* --limit

ASSUME RetentionAssumption ==
    /\ Pruners \subseteq Procs
    /\ Reconcilers \subseteq Procs
    /\ Retention \in Nat \ {0}
    /\ PruneLimit \in Nat \ {0}

VARIABLES prune, \* pruner -> its pass
          recon  \* reconciler -> the candidates it has still to replace

retentionVars == <<prune, recon>>

NoCandidate == <<"", NoFile>>
IdlePrune == [pc |-> "idle", moment |-> 0, chosen |-> {}, held |-> NoCandidate]

\* A listed proposal: its name and the envelope seen under it.
Candidates == Names \X Envelopes

PrunePasses == [pc: {"idle", "choosing", "locked", "cooled", "removed"},
                moment: 0..MaxTime, chosen: SUBSET Candidates,
                held: Candidates \cup {NoCandidate}]

RetentionTypeOK ==
    /\ prune \in [Pruners -> PrunePasses]
    /\ recon \in [Reconcilers -> SUBSET Candidates]

RetentionInit ==
    /\ prune = [p \in Pruners |-> IdlePrune]
    /\ recon = [r \in Reconcilers |-> {}]

Seen(n) == <<n, file[n]>>

\* _partition_proposals(): markers, notes and unreadable files are unsafe.
Eligible == {n \in Names : Approvable(n) /\ now - file[n].born >= Retention}

\* The oldest first, up to the limit.
OldestFirst(names) ==
    {chosen \in SUBSET names :
        /\ \A n \in chosen, m \in names \ chosen : file[n].born <= file[m].born
        /\ Cardinality(chosen) <= PruneLimit
        /\ chosen # names => Cardinality(chosen) = PruneLimit}

\* prune_proposals(confirm=True): one moment, one listing for the whole pass.
BeginPrune(p) ==
    /\ prune[p].pc = "idle"
    /\ Eligible # {}
    /\ \E chosen \in OldestFirst(Eligible) :
         prune' = [prune EXCEPT ![p] = [IdlePrune EXCEPT !.pc = "choosing",
                     !.moment = now, !.chosen = {Seen(n) : n \in chosen}]]
    /\ UNCHANGED <<outboxVars, until, approvalVars, recon>>

\* Mutant of LockCandidate: the name is locked, not the listed generation.
LockCandidateByName(p, n) ==
    /\ prune[p].pc = "choosing"
    /\ \E c \in prune[p].chosen :
         /\ c[1] = n
         /\ prune' = [prune EXCEPT ![p].pc = "locked", ![p].held = Seen(n),
                                   ![p].chosen = @ \ {c}]
    /\ lock[n] = Free
    /\ file[n] # NoFile
    /\ Acquire(n, p)
    /\ UNCHANGED <<file, published, now, until, approvalVars, recon>>

\* lock_proposal_for_retention(), and `current == candidate`.
LockCandidate(p, n) ==
    /\ prune[p].pc = "choosing"
    /\ Seen(n) \in prune[p].chosen
    /\ lock[n] = Free
    /\ ClaimStatus(n) = "claimed"
    /\ Acquire(n, p)
    /\ prune' = [prune EXCEPT ![p].pc = "locked", ![p].held = Seen(n),
                              ![p].chosen = @ \ {Seen(n)}]
    /\ UNCHANGED <<file, published, now, until, approvalVars, recon>>

\* The candidate changed since the listing: skipped as a conflict.
SkipCandidate(p, c) ==
    /\ prune[p].pc = "choosing"
    /\ c \in prune[p].chosen
    /\ lock[c[1]] = Free
    /\ Seen(c[1]) # c
    /\ prune' = [prune EXCEPT ![p].chosen = @ \ {c}]
    /\ UNCHANGED <<outboxVars, until, approvalVars, recon>>

\* Mutant of CoolCandidate: no cooldown is written.
CoolNothing(p) ==
    /\ prune[p].pc = "locked"
    /\ prune' = [prune EXCEPT ![p].pc = "cooled"]
    /\ UNCHANGED <<outboxVars, until, approvalVars, recon>>

\* The cooldown goes in before the file goes away.
CoolCandidate(p) ==
    /\ prune[p].pc = "locked"
    /\ AddCooldown(ItemOf[prune[p].held[1]], prune[p].moment)
    /\ prune' = [prune EXCEPT ![p].pc = "cooled"]
    /\ UNCHANGED <<outboxVars, approvalVars, recon>>

\* Mutant of RemoveCandidate: the file goes away before the cooldown goes in.
RemoveFirst(p) ==
    LET n == prune[p].held[1] IN
    /\ prune[p].pc \in {"locked", "cooled"}
    /\ Seen(n) = prune[p].held
    /\ Unlink(n)
    /\ prune' = [prune EXCEPT ![p].pc = "removed"]
    /\ UNCHANGED <<lock, published, now, until, approvalVars, recon>>

\* Mutant of RemoveCandidate: a failed unlink is reported as a removal.
RemoveIgnoringErrors(p) ==
    LET n == prune[p].held[1] IN
    /\ prune[p].pc = "cooled"
    /\ Seen(n) = prune[p].held
    /\ \/ Unlink(n)
       \/ UNCHANGED file
    /\ prune' = [prune EXCEPT ![p].pc = "removed"]
    /\ UNCHANGED <<lock, published, now, until, approvalVars, recon>>

\* ProposalRetention.finish(): the generation that was locked is unlinked.
RemoveCandidate(p) ==
    LET n == prune[p].held[1] IN
    /\ prune[p].pc = "cooled"
    /\ Seen(n) = prune[p].held
    /\ Unlink(n)
    /\ prune' = [prune EXCEPT ![p].pc = "removed"]
    /\ UNCHANGED <<lock, published, now, until, approvalVars, recon>>

\* finish() finds the operator deleted the file first: a conflict.
KeepCandidate(p) ==
    LET n == prune[p].held[1] IN
    /\ prune[p].pc = "cooled"
    /\ Seen(n) # prune[p].held
    /\ Release(n)
    /\ prune' = [prune EXCEPT ![p].pc = "choosing", ![p].held = NoCandidate]
    /\ UNCHANGED <<file, published, now, until, approvalVars, recon>>

\* record_outcome(outcome="expired") under the pass's moment, then close().
RecordExpired(p) ==
    LET n == prune[p].held[1] IN
    /\ prune[p].pc = "removed"
    /\ log' = Append(log, Outcome(n, prune[p].held[2].prop, "expired", prune[p].moment))
    /\ Release(n)
    /\ prune' = [prune EXCEPT ![p].pc = "choosing", ![p].held = NoCandidate]
    /\ UNCHANGED <<file, published, now, until, app, runs, effects, recon>>

EndPrune(p) ==
    /\ prune[p].pc = "choosing"
    /\ prune[p].chosen = {}
    /\ prune' = [prune EXCEPT ![p] = IdlePrune]
    /\ UNCHANGED <<outboxVars, until, approvalVars, recon>>

\* The command dies, or a write raises, between two steps.
AbandonPrune(p) ==
    /\ prune[p].pc # "idle"
    /\ ReleaseAll(p)
    /\ prune' = [prune EXCEPT ![p] = IdlePrune]
    /\ UNCHANGED <<file, published, now, until, approvalVars, recon>>

\* reconcile_invalid_command_proposals(confirm=True): the listing.
BeginReconcile(r) ==
    /\ recon[r] = {}
    /\ \E n \in Names : file[n].kind = "legacy"
    /\ recon' = [recon EXCEPT ![r] = {Seen(n) : n \in {m \in Names : file[m].kind = "legacy"}}]
    /\ UNCHANGED <<outboxVars, until, approvalVars, prune>>

\* Mutant of Reconcile: whatever has the listed name by now is rewritten.
ReconcileByName(r, n) ==
    /\ \E c \in recon[r] : c[1] = n /\ recon' = [recon EXCEPT ![r] = @ \ {c}]
    /\ PublishEnvelope(n, "approvable")
    /\ UNCHANGED <<until, approvalVars, prune>>

\* replace_invalid_command_proposal(): an unchanged candidate is rewritten
\* with the deterministic command, as a payload of its own.
Reconcile(r, n) ==
    /\ Seen(n) \in recon[r]
    /\ PublishEnvelope(n, "approvable")
    /\ recon' = [recon EXCEPT ![r] = @ \ {Seen(n)}]
    /\ UNCHANGED <<until, approvalVars, prune>>

\* It changed, or went away: a conflict.
SkipReconcile(r, c) ==
    /\ c \in recon[r]
    /\ lock[c[1]] = Free
    /\ Seen(c[1]) # c
    /\ recon' = [recon EXCEPT ![r] = @ \ {c}]
    /\ UNCHANGED <<outboxVars, until, approvalVars, prune>>

AbandonReconcile(r) ==
    /\ recon[r] # {}
    /\ recon' = [recon EXCEPT ![r] = {}]
    /\ UNCHANGED <<outboxVars, until, approvalVars, prune>>

PruneStep(p) ==
    \/ \E n \in Names : LockCandidate(p, n)
    \/ \E c \in prune[p].chosen : SkipCandidate(p, c)
    \/ CoolCandidate(p)
    \/ RemoveCandidate(p)
    \/ KeepCandidate(p)
    \/ RecordExpired(p)
    \/ EndPrune(p)

RetentionNext ==
    \/ \E p \in Pruners : BeginPrune(p) \/ PruneStep(p) \/ AbandonPrune(p)
    \/ \E r \in Reconcilers :
         \/ BeginReconcile(r)
         \/ \E n \in Names : Reconcile(r, n)
         \/ \E c \in recon[r] : SkipReconcile(r, c)
         \/ AbandonReconcile(r)

=============================================================================
