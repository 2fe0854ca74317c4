------------------------------ MODULE Companion ------------------------------
(***************************************************************************)
(* The companion's proposal workflow: loop passes, dashboard requests,     *)
(* prune and reconcile passes, and an operator who deletes files, over one *)
(* outbox, one cooldown map and one outcome journal.  The actors are       *)
(* processes or threads that share nothing but those files.                *)
(***************************************************************************)
EXTENDS CompanionRetention, CompanionLoop

CONSTANT InitialKinds  \* what an earlier release may have left in the outbox

ASSUME CompanionAssumption ==
    /\ InitialKinds \subseteq {"approvable", "note", "legacy"}
    /\ Pruners \cap Approvers = {}

vars == <<outboxVars, until, approvalVars, loopVars, retentionVars>>

TypeOK ==
    /\ OutboxTypeOK
    /\ SuppressTypeOK
    /\ ApprovalTypeOK
    /\ LoopTypeOK
    /\ RetentionTypeOK

Init ==
    /\ OutboxInit(InitialKinds)
    /\ SuppressInit
    /\ ApprovalInit
    /\ LoopInit
    /\ RetentionInit

Environment ==
    /\ (\E n \in Names : OperatorDeletes(n)) \/ Tick
    /\ UNCHANGED <<until, approvalVars, loopVars, retentionVars>>

Next ==
    \/ ApprovalNext /\ UNCHANGED <<loopVars, retentionVars>>
    \/ LoopNext /\ UNCHANGED <<approvalVars, retentionVars>>
    \/ RetentionNext /\ UNCHANGED loopVars
    \/ Environment

Spec == Init /\ [][Next]_vars

\* What a pass does by itself.  It passes an item over for reasons of the item,
\* which no fairness promises, or when the bound leaves it nothing to publish.
FairPassStep(l) ==
    LoopStep(l) /\ (published < MaxProposals => \A i \in Items : ~PassOver(l, i))

\* A request that holds a lock works through bounded steps (the command has a
\* timeout), and a process blocked in flock() is granted the lock if it keeps
\* coming free.  What a process starts by choice, crashes and deletions are not
\* fair.
FairSpec ==
    /\ Spec
    /\ \A a \in Approvers : WF_vars(Settle(a) /\ UNCHANGED <<loopVars, retentionVars>>)
    /\ \A l \in Loops : SF_vars(FairPassStep(l) /\ UNCHANGED <<approvalVars, retentionVars>>)
    /\ \A p \in Pruners : SF_vars(PruneStep(p) /\ UNCHANGED loopVars)

-----------------------------------------------------------------------------
(* Safety *)

OnDisk(p) == \E n \in Names : file[n].prop = p

\* A payload that can be approved has been started at most once for every
\* failure reported to the operator: a command that succeeded, or whose outcome
\* nobody reported (claim_proposal's marker, finish, a crash between them), can
\* never be started again from the same proposal.
RerunOnlyAfterFailure ==
    \A n \in Names : Approvable(n) => runs[file[n].prop] <= file[n].tries

\* Two requests never run one payload at a time (claim_proposal's flock and the
\* marker, held by the first until it settles).
OneRunnerPerPayload ==
    \A a, b \in Approvers :
        Running(a) /\ Running(b) /\ app[a].claim.prop = app[b].claim.prop => a = b

\* A payload gets at most one terminal outcome, although an approval and a prune
\* pass may both be after it (record_outcome's two callers).
OneOutcomePerPayload ==
    \A j, k \in 1..Len(log) : log[j].prop = log[k].prop => j = k

\* The journal is the truth about what is gone: "approved" only for a command
\* that took effect, and nothing that has an outcome is still in the outbox.
OutcomesAreEarned ==
    \A k \in 1..Len(log) :
        /\ ~OnDisk(log[k].prop)
        /\ log[k].outcome = "approved" => effects[log[k].prop] > 0

\* An item whose proposal was expired stays withheld until the pass's moment
\* plus the cooldown (_retire_candidate cools before it unlinks), whatever else
\* writes the cooldown map in the meantime.
ExpiredItemStaysWithheld ==
    \A k \in 1..Len(log) :
        log[k].outcome = "expired" /\ now < log[k].at + TTL
            => ItemOf[log[k].name] \in Withheld

-----------------------------------------------------------------------------
(* What a step may never do *)

\* A payload that left the outbox -- approved, expired, replaced, or deleted by
\* the operator, even under a running approval -- never returns (finish compares
\* the marker's identity before it restores the payload).
GoneIsGone ==
    [][\A p \in 1..published : ~OnDisk(p) => ~OnDisk(p)']_vars

\* No prune or reconcile pass touches an execution marker: "outcome unknown" is
\* evidence only its claimer or the operator may clear, or a new proposal.
RetentionSparesMarkers ==
    [][prune' # prune \/ recon' # recon
        => \A n \in Names : file[n].kind = "marker" => file'[n] = file[n]]_vars

\* A prune pass withdraws an item's proposal only while the cooldown it wrote is
\* there to withhold the item, unless the pass itself outlived that cooldown.
ExpiryNeverUncovers ==
    [][\A p \in Pruners, i \in Items :
        prune'[p] # prune[p] /\ i \in Withheld /\ i \notin Withheld'
            => now >= prune[p].moment + TTL]_vars

\* What a prune pass removes was old enough when the pass listed it, although
\* the name may have been republished since.
OnlyOldExpires ==
    [][\A p \in Pruners, n \in Names :
        prune'[p] # prune[p] /\ file'[n] # file[n]
            => prune[p].moment - file[n].born >= Retention]_vars

-----------------------------------------------------------------------------
(* Liveness *)

\* No approval wedges its name: the flock it took is free again in the end.
LocksComeBack == \A n \in Names, a \in Approvers : lock[n] = a ~> lock[n] # a

\* A pass that has read its feed gets through it, though its writes wait for
\* locks that approvals and prune passes keep taking.
PassesEnd == \A l \in Loops : pass[l].pc = "fed" ~> pass[l].pc = "idle"

-----------------------------------------------------------------------------
(* The abstract specification *)

\* Where payload p is in its life, read off the files and the requests.
Life(p) ==
    IF p > published THEN "unborn"
    ELSE IF \E n \in Names : file[n].prop = p /\ file[n].kind # "marker" THEN "pending"
    ELSE IF \E a \in Approvers : app[a].pc = "claimed" /\ app[a].claim.prop = p THEN "claimed"
    ELSE IF \E a \in Approvers : app[a].pc = "ran" /\ app[a].claim.prop = p THEN "ran"
    ELSE "closed"

Abstract == INSTANCE ProposalLife WITH life <- [p \in Props |-> Life(p)], runs <- runs

\* Files, locks, markers and crashes implement the life of a recorded payload.
ImplementsProposalLife == Abstract!LifeSpec

-----------------------------------------------------------------------------
(* What the documents say and the code does not do *)

\* "write one companion-outbox proposal per item"
OneProposalPerItem ==
    \A n, m \in Names : Approvable(n) /\ Approvable(m) /\ ItemOf[n] = ItemOf[m] => n = m

=============================================================================
