------------------------ MODULE CompanionOutcomeProofs ------------------------
(***************************************************************************)
(* Outcomes, retention and the abstract life of a payload, for every set   *)
(* of names, requests and passes.                                          *)
(*   JournalInv   what somebody has removed and not journaled is gone, one *)
(*                removed it, and nothing journaled comes back: a payload  *)
(*                has one outcome.                                         *)
(*   EffectsShown an approval stands for an effect.                        *)
(*   ListedInv    a pass listed nothing but what it may touch.             *)
(*   CoveredInv   what is expired, or about to be, has a cooldown that     *)
(*                lasts.  It needs prune passes that do not overlap: the   *)
(*                cooldown of a later pass may be replaced by that of an   *)
(*                earlier one.                                             *)
(* The last part maps every step of the files and the requests to a step   *)
(* of ProposalLife, or to none.                                            *)
(***************************************************************************)
EXTENDS CompanionPayloadProofs, SequenceTheorems

-----------------------------------------------------------------------------
(* The inductive invariant of the journal *)

\* A request or a prune pass that has removed a payload and not journaled it.
Closers == Approvers \cup Pruners
Closing(x) == IF x \in Approvers THEN app[x].pc = "removed" ELSE prune[x].pc = "removed"
ClosedProp(x) == IF x \in Approvers THEN app[x].claim.prop ELSE prune[x].held[2].prop

\* Published once and no longer under any name.
Gone(q) == q \in 1..published /\ ~OnDisk(q)

\* What somebody is about to journal, or has journaled, is gone.
ClosedIsGone == \A x \in Closers : Closing(x) => Gone(ClosedProp(x))
LoggedIsGone == \A k \in 1..Len(log) : Gone(log[k].prop)

\* One removed it, and whoever did has not journaled it yet.
OneCloser ==
    \A x, y \in Closers : Closing(x) /\ Closing(y) /\ ClosedProp(x) = ClosedProp(y) => x = y
ClosesOnce ==
    \A x \in Closers, k \in 1..Len(log) : Closing(x) => log[k].prop # ClosedProp(x)

\* From the exit code to the journal, an approval stands for an effect.
EffectsShown ==
    /\ \A a \in Approvers :
         \/ app[a].pc = "ran" /\ app[a].result = "executed"
         \/ app[a].pc = "removed"
         => effects[app[a].claim.prop] > 0
    /\ \A k \in 1..Len(log) : log[k].outcome = "approved" => effects[log[k].prop] > 0

JournalInv == ClosedIsGone /\ LoggedIsGone /\ OneCloser /\ ClosesOnce /\ OneOutcomePerPayload

-----------------------------------------------------------------------------
(* What a step does to the journal *)

LEMMA CloserFacts ==
    /\ \A a \in Approvers : a \in Closers /\ (Closing(a) <=> app[a].pc = "removed")
                            /\ ClosedProp(a) = app[a].claim.prop
    /\ \A p \in Pruners : p \in Closers /\ (Closing(p) <=> prune[p].pc = "removed")
                          /\ ClosedProp(p) = prune[p].held[2].prop
BY CompanionAssumption DEF Closers, Closing, ClosedProp

LEMMA CloserFactsAfter ==
    /\ \A a \in Approvers : (Closing(a)' <=> app'[a].pc = "removed")
                            /\ ClosedProp(a)' = app'[a].claim.prop
    /\ \A p \in Pruners : (Closing(p)' <=> prune'[p].pc = "removed")
                          /\ ClosedProp(p)' = prune'[p].held[2].prop
BY CompanionAssumption DEF Closers, Closing, ClosedProp

\* Whoever closes a payload after the step closed it before.
StillCloses(x) == Closing(x)' => Closing(x) /\ ClosedProp(x)' = ClosedProp(x)

\* Nothing is removed or journaled.
Quiet == log' = log /\ \A x \in Closers : StillCloses(x)

\* x takes the payload it closes off the disk.
Removes(x) ==
    /\ log' = log
    /\ \A y \in Closers \ {x} : StillCloses(y)
    /\ \E q \in 1..published : ClosedProp(x)' = q /\ OnDisk(q) /\ ~OnDisk(q)'

\* x journals the payload it removed.
Journals(x) ==
    /\ Closing(x) /\ ~Closing(x)'
    /\ \A y \in Closers \ {x} : StillCloses(y)
    /\ \E name \in Names, outcome \in {"approved", "expired"}, at \in 0..MaxTime :
         log' = Append(log, Outcome(name, ClosedProp(x), outcome, at))

LEMMA AppendFacts ==
    ASSUME NEW o
    PROVE  TypeInv /\ log' = Append(log, o) =>
             /\ Len(log) \in Nat /\ Len(log') = Len(log) + 1
             /\ \A k \in 1..Len(log) : log'[k] = log[k]
             /\ log'[Len(log) + 1] = o
<1> SUFFICES ASSUME TypeInv, log' = Append(log, o)
             PROVE  /\ Len(log) \in Nat /\ Len(log') = Len(log) + 1
                    /\ \A k \in 1..Len(log) : log'[k] = log[k]
                    /\ log'[Len(log) + 1] = o
  OBVIOUS
<1>1. log \in Seq(Outcomes)
  BY DEF TypeInv, TypeOK, ApprovalTypeOK
<1>2. log \in Seq(Outcomes \cup {o}) /\ o \in Outcomes \cup {o}
  BY <1>1, SeqDef
<1> QED BY <1>2

\* An unlinked payload is under no name.
LEMMA UnlinkedIsGone ==
    ASSUME TypeInv, ClaimInv, NEW n \in Names, file[n].kind # "none", Unlink(n)
    PROVE  \E q \in 1..published : q = file[n].prop /\ OnDisk(q) /\ ~OnDisk(q)'
<1>1. /\ OutboxTypeOK /\ file[n].prop \in Props
      /\ file[n].prop \in 1..published
  BY FileFacts DEF TypeInv, TypeOK, OutboxTypeOK, ClaimInv, OnlyPublished, Props
<1>2. \A m \in Names : m # n => file'[m] = file[m] /\ file[m].prop # file[n].prop
  BY <1>1 DEF Unlink, OutboxTypeOK, ClaimInv, OneName
<1>3. file'[n].prop = 0
  BY <1>1 DEF Unlink, OutboxTypeOK, NoFile
<1> QED BY <1>1, <1>2, <1>3 DEF OnDisk, Props

LEMMA ApprovalJournal ==
    ASSUME TypeInv, ClaimInv, ApprovalNext, UNCHANGED retentionVars
    PROVE  Quiet \/ \E x \in Closers : Removes(x) \/ Journals(x)
<1>0. app \in [Approvers -> Requests] /\ OutboxTypeOK
  BY DEF TypeInv, TypeOK, ApprovalTypeOK
<1>1. \A p \in Pruners : StillCloses(p)
  BY CloserFacts, CloserFactsAfter DEF StillCloses, retentionVars
<1>2. PICK a \in Approvers :
        \/ \E n \in Names : Review(a, n)
        \/ Claim(a)
        \/ ClaimRefused(a)
        \/ Run(a)
        \/ FinishSuccess(a)
        \/ FinishFailure(a)
        \/ FinishConflict(a)
        \/ RecordApproved(a)
        \/ AbandonApproval(a)
  BY DEF ApprovalNext
<1>3. \A b \in Approvers : b # a => app'[b] = app[b]
  BY <1>0, <1>2 DEF Review, Claim, ClaimRefused, Run, FinishSuccess, FinishFailure, FinishConflict,
     RecordApproved, AbandonApproval
<1>4. \A y \in Closers \ {a} : StillCloses(y)
  BY <1>1, <1>3, CloserFacts, CloserFactsAfter DEF StillCloses, Closers
<1>5. CASE FinishSuccess(a)
  <2> DEFINE n == app[a].name
  <2>1. HasClaim(a)
    BY <1>5 DEF HasClaim, FinishSuccess
  <2>2. n \in Names /\ file[n] = Marker(app[a].claim) /\ app[a].claim \in Envelopes
    BY <1>5, <2>1, ClaimFacts DEF FinishSuccess, OwnsMarker
  <2>3. file[n].kind # "none" /\ file[n].prop = app[a].claim.prop
    BY <2>2, MarkerFacts
  <2>4. app'[a].claim = app[a].claim
    BY <1>0, <1>5 DEF FinishSuccess, Requests
  <2>5. ClosedProp(a)' = file[n].prop
    BY <2>3, <2>4, CloserFactsAfter
  <2>6. Removes(a)
    BY <1>4, <1>5, <2>2, <2>3, <2>5, UnlinkedIsGone DEF FinishSuccess, Removes
  <2> QED BY <2>6, CloserFacts
<1>6. CASE RecordApproved(a)
  <2>1. Closing(a) /\ ~Closing(a)'
    BY <1>0, <1>6, CloserFacts, CloserFactsAfter DEF RecordApproved, IdleRequest
  <2>2. app[a].name \in Names /\ now \in 0..MaxTime
    BY <1>0, <1>6 DEF RecordApproved, TypeInv, RequestShape, OutboxTypeOK
  <2>3. log' = Append(log, Outcome(app[a].name, ClosedProp(a), "approved", now))
    BY <1>6, CloserFacts DEF RecordApproved
  <2> QED BY <1>4, <2>1, <2>2, <2>3, CloserFacts DEF Journals
<1>7. CASE \/ \E n \in Names : Review(a, n)
           \/ Claim(a) \/ ClaimRefused(a) \/ Run(a)
           \/ FinishFailure(a) \/ FinishConflict(a) \/ AbandonApproval(a)
  <2>1. log' = log
    BY <1>7 DEF Review, Claim, ClaimRefused, Run, FinishFailure, FinishConflict, AbandonApproval
  <2>2. app'[a].pc # "removed"
    <3>1. IdleRequest.pc = "idle" /\ \A n : [IdleRequest EXCEPT !.pc = "reviewed", !.name = n].pc = "reviewed"
      BY DEF IdleRequest
    <3>2. CASE \E n \in Names : Review(a, n)
      BY <1>0, <3>1, <3>2 DEF Review
    <3>3. CASE Claim(a)
      BY <1>0, <3>3 DEF Claim, Requests
    <3>5. CASE Run(a)
      <4>1. PICK r \in Results : app' = [app EXCEPT ![a].pc = "ran", ![a].result = r]
        BY <3>5 DEF Run
      <4>2. app'[a] = [app[a] EXCEPT !.pc = "ran", !.result = r]
        BY <1>0, <4>1
      <4> QED BY <1>0, <4>2 DEF Requests
    <3>4. CASE ClaimRefused(a) \/ FinishFailure(a) \/ FinishConflict(a) \/ AbandonApproval(a)
      BY <1>0, <3>1, <3>4 DEF ClaimRefused, FinishFailure, FinishConflict, AbandonApproval
    <3> QED BY <1>7, <3>2, <3>3, <3>4, <3>5
  <2> QED BY <1>4, <2>1, <2>2, CloserFacts, CloserFactsAfter DEF Quiet, StillCloses, Closers
<1> QED BY <1>2, <1>5, <1>6, <1>7

LEMMA RetentionJournal ==
    ASSUME TypeInv, ClaimInv, RetentionNext
    PROVE  Quiet \/ \E x \in Closers : Removes(x) \/ Journals(x)
<1>0. prune \in [Pruners -> PrunePasses] /\ OutboxTypeOK
  BY DEF TypeInv, TypeOK, RetentionTypeOK
<1>1. app' = app
  BY DEF RetentionNext, PruneStep, BeginPrune, LockCandidate, SkipCandidate, CoolCandidate,
         RemoveCandidate, KeepCandidate, RecordExpired, EndPrune, AbandonPrune, BeginReconcile,
         Reconcile, SkipReconcile, AbandonReconcile, approvalVars
<1>2. \A b \in Approvers : StillCloses(b)
  BY <1>1, CloserFacts, CloserFactsAfter DEF StillCloses
<1>3. ASSUME NEW r \in Reconcilers,
             \/ BeginReconcile(r)
             \/ \E n \in Names : Reconcile(r, n)
             \/ \E c \in recon[r] : SkipReconcile(r, c)
             \/ AbandonReconcile(r)
      PROVE  Quiet
  <2>1. log' = log /\ prune' = prune
    BY <1>3 DEF BeginReconcile, Reconcile, SkipReconcile, AbandonReconcile, approvalVars
  <2> QED BY <1>2, <2>1, CloserFacts, CloserFactsAfter DEF Quiet, StillCloses, Closers
<1>4. ASSUME NEW p \in Pruners, BeginPrune(p) \/ PruneStep(p) \/ AbandonPrune(p)
      PROVE  Quiet \/ Removes(p) \/ Journals(p)
  <2>1. \A q \in Pruners : q # p => prune'[q] = prune[q]
    BY <1>0, <1>4 DEF PruneStep, BeginPrune, LockCandidate, SkipCandidate, CoolCandidate,
         RemoveCandidate, KeepCandidate, RecordExpired, EndPrune, AbandonPrune
  <2>2. \A y \in Closers \ {p} : StillCloses(y)
    BY <1>2, <2>1, CloserFacts, CloserFactsAfter DEF StillCloses, Closers
  <2>3. CASE RemoveCandidate(p)
    <3> DEFINE n == prune[p].held[1]
    <3>1. n \in Names /\ prune[p].held \in Candidates /\ prune[p].held[2].kind = "approvable"
      BY <2>3 DEF RemoveCandidate, TypeInv, PruneShape, Candidates
    <3>2. prune[p].held[2] = file[n]
      BY <2>3 DEF RemoveCandidate, Seen
    <3>3. file[n].kind # "none"
      BY <3>1, <3>2
    <3>4. prune'[p].held = prune[p].held
      BY <1>0, <2>3 DEF RemoveCandidate, PrunePasses
    <3>5. ClosedProp(p)' = file[n].prop
      BY <3>2, <3>4, CloserFactsAfter
    <3>6. log' = log /\ Unlink(n)
      BY <2>3 DEF RemoveCandidate, approvalVars
    <3> QED BY <2>2, <3>1, <3>3, <3>5, <3>6, UnlinkedIsGone DEF Removes
  <2>4. CASE RecordExpired(p)
    <3>1. Closing(p) /\ ~Closing(p)'
      BY <1>0, <2>4, CloserFacts, CloserFactsAfter DEF RecordExpired, PrunePasses
    <3>2. prune[p].held[1] \in Names /\ prune[p].moment \in 0..MaxTime
      BY <1>0, <2>4 DEF RecordExpired, TypeInv, PruneShape, Candidates, PrunePasses
    <3>3. log' = Append(log, Outcome(prune[p].held[1], ClosedProp(p), "expired", prune[p].moment))
      BY <2>4, CloserFacts DEF RecordExpired
    <3> QED BY <2>2, <3>1, <3>2, <3>3 DEF Journals
  <2>5. CASE \/ BeginPrune(p)
             \/ \E n \in Names : LockCandidate(p, n)
             \/ \E c \in prune[p].chosen : SkipCandidate(p, c)
             \/ CoolCandidate(p) \/ KeepCandidate(p) \/ EndPrune(p) \/ AbandonPrune(p)
    <3>1. log' = log
      BY <2>5 DEF BeginPrune, LockCandidate, SkipCandidate, CoolCandidate, KeepCandidate, EndPrune,
         AbandonPrune, approvalVars
    <3>2. prune'[p].pc # "removed"
      <4>1. prune[p] \in PrunePasses /\ IdlePrune.pc = "idle"
        BY <1>0 DEF IdlePrune
      <4>2. CASE BeginPrune(p)
        BY <1>0, <4>2 DEF BeginPrune, IdlePrune
      <4>3. CASE \/ \E n \in Names : LockCandidate(p, n)
                 \/ CoolCandidate(p) \/ KeepCandidate(p)
        <5>1. \/ \E n \in Names : prune'[p] = [prune[p] EXCEPT !.pc = "locked", !.held = Seen(n),
                                                               !.chosen = @ \ {Seen(n)}]
              \/ prune'[p] = [prune[p] EXCEPT !.pc = "cooled"]
              \/ prune'[p] = [prune[p] EXCEPT !.pc = "choosing", !.held = NoCandidate]
          BY <1>0, <4>3 DEF LockCandidate, CoolCandidate, KeepCandidate
        <5> QED BY <4>1, <5>1 DEF PrunePasses
      <4>4. CASE \E c \in prune[p].chosen : SkipCandidate(p, c)
        <5>1. PICK c \in prune[p].chosen : prune' = [prune EXCEPT ![p].chosen = @ \ {c}]
          BY <4>4 DEF SkipCandidate
        <5>2. prune[p].pc # "removed"
          BY <4>4 DEF SkipCandidate
        <5> QED BY <1>0, <4>1, <5>1, <5>2 DEF PrunePasses
      <4>5. CASE EndPrune(p) \/ AbandonPrune(p)
        BY <1>0, <4>1, <4>5 DEF EndPrune, AbandonPrune
      <4> QED BY <2>5, <4>2, <4>3, <4>4, <4>5
    <3> QED BY <2>2, <3>1, <3>2, CloserFacts, CloserFactsAfter DEF Quiet, StillCloses, Closers
  <2> QED BY <1>4, <2>3, <2>4, <2>5 DEF PruneStep
<1> QED BY <1>3, <1>4, CloserFacts DEF RetentionNext

LEMMA StepJournal ==
    ASSUME TypeInv, ClaimInv, [Next]_vars
    PROVE  Quiet \/ \E x \in Closers : Removes(x) \/ Journals(x)
<1>1. CASE UNCHANGED <<log, app, prune>>
  BY <1>1, CloserFacts, CloserFactsAfter DEF Quiet, StillCloses, Closers
<1>2. LoopNext /\ UNCHANGED <<approvalVars, retentionVars>> => UNCHANGED <<log, app, prune>>
  BY DEF approvalVars, retentionVars
<1>3. Environment \/ UNCHANGED vars => UNCHANGED <<log, app, prune>>
  BY DEF Environment, vars, approvalVars, retentionVars
<1> QED BY <1>1, <1>2, <1>3, ApprovalJournal, RetentionJournal DEF Next

-----------------------------------------------------------------------------
(* The journal invariant is inductive *)

LEMMA InitJournal == Init => JournalInv
<1>1. Init => log = <<>> /\ \A x \in Closers : ~Closing(x)
  <2>1. IdleRequest.pc = "idle" /\ IdlePrune.pc = "idle"
    BY DEF IdleRequest, IdlePrune
  <2> QED BY <2>1, CloserFacts DEF Init, ApprovalInit, RetentionInit, Closers
<1>2. Len(<<>>) = 0
  OBVIOUS
<1> QED BY <1>1, <1>2 DEF JournalInv, ClosedIsGone, LoggedIsGone, OneCloser, ClosesOnce,
               OneOutcomePerPayload

\* The number of published payloads never falls.
LEMMA PublishedGrows ==
    ASSUME TypeInv, [Next]_vars
    PROVE  published \in Nat /\ published' \in Nat /\ published <= published'
<1>0. published \in Nat
  BY DEF TypeInv, TypeOK, OutboxTypeOK
<1>1. published' \in {published, published + 1}
  BY DEF Next, ApprovalNext, Review, Claim, ClaimRefused, Run, FinishSuccess, FinishFailure,
         FinishConflict, RecordApproved, AbandonApproval, LoopNext, LoopStep, ReadCooldowns,
         ReadFeed, Snapshot, PassOver, Triage, Propose, SkipProposed, ExecuteCandidate, EndPass,
         AbandonPass, DispatchCheck, DispatchWrite, RetentionNext, PruneStep, BeginPrune,
         LockCandidate, SkipCandidate, CoolCandidate, RemoveCandidate, KeepCandidate,
         RecordExpired, EndPrune, AbandonPrune, BeginReconcile, Reconcile, SkipReconcile,
         AbandonReconcile, PublishEnvelope, Environment, OperatorDeletes, Tick, vars, outboxVars
<1> QED BY <1>0, <1>1

LEMMA StaysGone ==
    ASSUME TypeInv, [Next]_vars, NEW q, Gone(q)
    PROVE  Gone(q)'
<1>1. FilesComeFromDisk
  BY StepFromDisk
<1>2. q \notin {0, published + 1} /\ q \in 1..published'
  BY PublishedGrows DEF Gone
<1> QED BY <1>1, <1>2 DEF Gone, FilesComeFromDisk, OnDisk

LEMMA QuietJournal ==
    ASSUME TypeInv, JournalInv, [Next]_vars, Quiet
    PROVE  JournalInv'
<1>1. ClosedIsGone'
  BY StaysGone DEF JournalInv, ClosedIsGone, Quiet, StillCloses
<1>2. LoggedIsGone'
  BY StaysGone DEF JournalInv, LoggedIsGone, Quiet
<1>3. OneCloser' /\ ClosesOnce' /\ OneOutcomePerPayload'
  BY DEF JournalInv, OneCloser, ClosesOnce, OneOutcomePerPayload, Quiet, StillCloses
<1> QED BY <1>1, <1>2, <1>3 DEF JournalInv

LEMMA RemovalJournal ==
    ASSUME TypeInv, JournalInv, [Next]_vars, NEW x \in Closers, Removes(x)
    PROVE  JournalInv'
<1>1. PICK q \in 1..published : ClosedProp(x)' = q /\ OnDisk(q) /\ ~OnDisk(q)'
  BY DEF Removes
<1>2. Gone(q)' /\ ~Gone(q)
  BY <1>1, PublishedGrows DEF Gone
<1>3. log' = log /\ \A y \in Closers : y # x => StillCloses(y)
  BY DEF Removes
<1>4. ClosedIsGone'
  <2> SUFFICES ASSUME NEW y \in Closers, Closing(y)' PROVE Gone(ClosedProp(y))'
    BY DEF ClosedIsGone
  <2>1. CASE y = x
    BY <1>1, <1>2, <2>1
  <2>2. CASE y # x
    BY <1>3, <2>2, StaysGone DEF JournalInv, ClosedIsGone, StillCloses
  <2> QED BY <2>1, <2>2
<1>5. LoggedIsGone'
  BY <1>3, StaysGone DEF JournalInv, LoggedIsGone
<1>6. \A y \in Closers : y # x /\ Closing(y)' => ClosedProp(y)' # q
  BY <1>2, <1>3 DEF JournalInv, ClosedIsGone, StillCloses
<1>7. OneCloser'
  BY <1>1, <1>3, <1>6 DEF JournalInv, OneCloser, StillCloses
<1>8. ClosesOnce'
  BY <1>1, <1>2, <1>3 DEF JournalInv, ClosesOnce, LoggedIsGone, StillCloses
<1>9. OneOutcomePerPayload'
  BY <1>3 DEF JournalInv, OneOutcomePerPayload
<1> QED BY <1>4, <1>5, <1>7, <1>8, <1>9 DEF JournalInv

LEMMA RecordJournal ==
    ASSUME TypeInv, JournalInv, [Next]_vars, NEW x \in Closers, Journals(x)
    PROVE  JournalInv'
<1>1. PICK name \in Names, outcome \in {"approved", "expired"}, at \in 0..MaxTime :
         log' = Append(log, Outcome(name, ClosedProp(x), outcome, at))
  BY DEF Journals
<1> DEFINE o == Outcome(name, ClosedProp(x), outcome, at)
<1>2. o.prop = ClosedProp(x)
  BY DEF Outcome
<1>3. log' = Append(log, o)
  BY <1>1
<1> HIDE DEF o
<1>4. /\ Len(log) \in Nat /\ Len(log') = Len(log) + 1
      /\ \A k \in 1..Len(log) : log'[k] = log[k]
      /\ log'[Len(log) + 1] = o
  BY <1>3, AppendFacts
<1>5. \A k \in 1..Len(log') : k \in 1..Len(log) \/ k = Len(log) + 1
  BY <1>4
<1>6. /\ Closing(x) /\ ~Closing(x)'
      /\ \A y \in Closers : y # x => StillCloses(y)
  BY DEF Journals
<1>7. Gone(ClosedProp(x)) /\ \A k \in 1..Len(log) : log[k].prop # ClosedProp(x)
  BY <1>6 DEF JournalInv, ClosedIsGone, ClosesOnce
<1>8. ClosedIsGone'
  BY <1>6, StaysGone DEF JournalInv, ClosedIsGone, StillCloses
<1>9. LoggedIsGone'
  <2>1. \A q : Gone(q) => Gone(q)'
    BY StaysGone
  <2>2. \A k \in 1..Len(log') : Gone(log'[k].prop)
    BY <1>2, <1>4, <1>5, <1>7 DEF JournalInv, LoggedIsGone
  <2> QED BY <2>1, <2>2 DEF LoggedIsGone, Gone
<1>10. OneCloser'
  BY <1>6 DEF JournalInv, OneCloser, StillCloses
<1>11. ClosesOnce'
  <2> SUFFICES ASSUME NEW y \in Closers, NEW k \in 1..Len(log'), Closing(y)'
               PROVE  log'[k].prop # ClosedProp(y)'
    BY DEF ClosesOnce
  <2>1. Closing(y) /\ ClosedProp(y)' = ClosedProp(y) /\ y # x
    BY <1>6 DEF StillCloses
  <2>2. ClosedProp(y) # ClosedProp(x)
    BY <1>6, <2>1 DEF JournalInv, OneCloser
  <2> QED BY <1>2, <1>4, <1>5, <2>1, <2>2 DEF JournalInv, ClosesOnce
<1>12. OneOutcomePerPayload'
  BY <1>2, <1>4, <1>5, <1>7 DEF JournalInv, OneOutcomePerPayload
<1> QED BY <1>8, <1>9, <1>10, <1>11, <1>12 DEF JournalInv

LEMMA JournalInductive == TypeInv /\ ClaimInv /\ JournalInv /\ [Next]_vars => JournalInv'
BY StepJournal, QuietJournal, RemovalJournal, RecordJournal

LEMMA JournalHolds == Spec => []JournalInv
BY InitJournal, JournalInductive, TypesHold, ClaimsHold, PTL DEF Spec

\* A payload gets at most one terminal outcome, whoever was after it
\* (ProposalClaim.finish, ProposalRetention.finish, record_outcome).
THEOREM OneOutcome == Spec => []OneOutcomePerPayload
<1>1. JournalInv => OneOutcomePerPayload
  BY DEF JournalInv
<1> QED BY <1>1, JournalHolds, PTL

-----------------------------------------------------------------------------
(* Approvals stand for effects *)

LEMMA InitEffects == Init => EffectsShown
<1>1. Len(<<>>) = 0 /\ IdleRequest.pc = "idle"
  BY DEF IdleRequest
<1> QED BY <1>1 DEF Init, ApprovalInit, EffectsShown

LEMMA SameEffects ==
    ASSUME TypeInv, EffectsShown, UNCHANGED <<app, effects, log>>
    PROVE  EffectsShown'
BY DEF EffectsShown

LEMMA ExpiredEffects ==
    ASSUME TypeInv, EffectsShown, NEW o, o.outcome = "expired", log' = Append(log, o),
           UNCHANGED <<app, effects>>
    PROVE  EffectsShown'
<1>1. /\ Len(log) \in Nat /\ Len(log') = Len(log) + 1
      /\ \A k \in 1..Len(log) : log'[k] = log[k]
      /\ log'[Len(log) + 1] = o
  BY AppendFacts
<1>2. \A k \in 1..Len(log') : k \in 1..Len(log) \/ k = Len(log) + 1
  BY <1>1
<1> QED BY <1>1, <1>2 DEF EffectsShown

LEMMA RetentionEffects ==
    ASSUME TypeInv, EffectsShown, RetentionNext
    PROVE  EffectsShown'
<1>1. ASSUME NEW p \in Pruners, RecordExpired(p) PROVE EffectsShown'
  <2> DEFINE o == Outcome(prune[p].held[1], prune[p].held[2].prop, "expired", prune[p].moment)
  <2>1. log' = Append(log, o) /\ o.outcome = "expired"
    BY <1>1 DEF RecordExpired, Outcome
  <2>2. UNCHANGED <<app, effects>>
    BY <1>1 DEF RecordExpired
  <2> QED BY <2>1, <2>2, ExpiredEffects
<1>2. CASE UNCHANGED <<app, effects, log>>
  BY <1>2, SameEffects
<1>3. UNCHANGED <<app, effects, log>> \/ \E p \in Pruners : RecordExpired(p)
  BY DEF RetentionNext, PruneStep, BeginPrune, LockCandidate, SkipCandidate, CoolCandidate,
         RemoveCandidate, KeepCandidate, EndPrune, AbandonPrune, BeginReconcile,
         Reconcile, SkipReconcile, AbandonReconcile, approvalVars
<1> QED BY <1>1, <1>2, <1>3

\* A request that starts nothing: it goes on with what it had, or ends.
LEMMA RequestEffects ==
    ASSUME TypeInv, EffectsShown, NEW a \in Approvers,
           UNCHANGED <<effects, log>>,
           \A b \in Approvers : b # a => app'[b] = app[b],
           \/ app'[a].pc \notin {"ran", "removed"}
           \/ /\ app'[a].pc = "removed" /\ app'[a].claim = app[a].claim
              /\ app[a].pc = "ran" /\ app[a].result = "executed"
    PROVE  EffectsShown'
<1> SUFFICES ASSUME NEW b \in Approvers,
                    \/ app'[b].pc = "ran" /\ app'[b].result = "executed"
                    \/ app'[b].pc = "removed"
             PROVE  effects[app'[b].claim.prop] > 0
  BY DEF EffectsShown
<1>1. CASE b = a
  BY <1>1 DEF EffectsShown
<1>2. CASE b # a
  BY <1>2 DEF EffectsShown
<1> QED BY <1>1, <1>2

LEMMA RunEffects ==
    ASSUME TypeInv, EffectsShown, LoggedIsGone, NEW a \in Approvers, Run(a)
    PROVE  EffectsShown'
<1> DEFINE q == app[a].claim.prop
<1>0. app \in [Approvers -> Requests] /\ effects \in [Props -> Nat] /\ q \in Props
  BY ClaimFacts DEF TypeInv, TypeOK, ApprovalTypeOK, Run, HasClaim
<1>1. PICK r \in Results :
         /\ app' = [app EXCEPT ![a].pc = "ran", ![a].result = r]
         /\ effects' = [effects EXCEPT
                         ![q] = @ + (IF r \in {"executed", "timedout"} THEN 1 ELSE 0)]
  BY DEF Run
<1>2. /\ \A b \in Approvers : b # a => app'[b] = app[b]
      /\ app'[a].claim = app[a].claim /\ app'[a].pc = "ran" /\ app'[a].result = r
  <2>1. app'[a] = [app[a] EXCEPT !.pc = "ran", !.result = r]
    BY <1>0, <1>1
  <2>2. /\ app'[a].claim = app[a].claim /\ app'[a].pc = "ran" /\ app'[a].result = r
    BY <1>0, <2>1 DEF Requests
  <2> QED BY <1>0, <1>1, <2>2
<1>3. \A p \in Props : effects'[p] \in Nat /\ effects'[p] >= effects[p]
  BY <1>0, <1>1
<1>4. r = "executed" => effects'[q] > 0
  BY <1>0, <1>1
<1> HIDE DEF q
<1>5. \A b \in Approvers : HasClaim(b) => app[b].claim.prop \in Props
  BY ClaimFacts
<1>6. \A k \in 1..Len(log) : log[k].prop \in Props
  BY OutboxAssumption DEF LoggedIsGone, Gone, TypeInv, TypeOK, OutboxTypeOK, Props
<1>7. log' = log
  BY DEF Run
<1>8. ASSUME NEW b \in Approvers,
             \/ app'[b].pc = "ran" /\ app'[b].result = "executed"
             \/ app'[b].pc = "removed"
      PROVE  effects'[app'[b].claim.prop] > 0
  <2>1. CASE b = a
    BY <1>2, <1>4, <1>8, <2>1 DEF q
  <2>2. CASE b # a
    <3>1. app'[b] = app[b] /\ HasClaim(b)
      BY <1>2, <1>8, <2>2 DEF HasClaim
    <3>2. effects[app[b].claim.prop] > 0
      BY <1>8, <3>1 DEF EffectsShown
    <3> QED BY <1>0, <1>3, <1>5, <3>1, <3>2
  <2> QED BY <2>1, <2>2
<1>9. ASSUME NEW k \in 1..Len(log), log[k].outcome = "approved"
      PROVE  effects'[log[k].prop] > 0
  BY <1>0, <1>3, <1>6, <1>9 DEF EffectsShown
<1> QED BY <1>7, <1>8, <1>9 DEF EffectsShown

LEMMA ApprovedEffects ==
    ASSUME TypeInv, EffectsShown, NEW a \in Approvers, RecordApproved(a)
    PROVE  EffectsShown'
<1> DEFINE o == Outcome(app[a].name, app[a].claim.prop, "approved", now)
<1>0. app \in [Approvers -> Requests]
  BY DEF TypeInv, TypeOK, ApprovalTypeOK
<1>1. o.prop = app[a].claim.prop
  BY DEF Outcome
<1>2. log' = Append(log, o) /\ effects' = effects
  BY DEF RecordApproved
<1>3. /\ app'[a].pc = "idle"
      /\ \A b \in Approvers : b # a => app'[b] = app[b]
  BY <1>0 DEF RecordApproved, IdleRequest
<1>4. effects[o.prop] > 0
  BY <1>1 DEF EffectsShown, RecordApproved
<1> HIDE DEF o
<1>5. /\ Len(log) \in Nat /\ Len(log') = Len(log) + 1
      /\ \A k \in 1..Len(log) : log'[k] = log[k]
      /\ log'[Len(log) + 1] = o
  BY <1>2, AppendFacts
<1>6. \A k \in 1..Len(log') : k \in 1..Len(log) \/ k = Len(log) + 1
  BY <1>5
<1> QED BY <1>2, <1>3, <1>4, <1>5, <1>6 DEF EffectsShown

LEMMA ApprovalEffects ==
    ASSUME TypeInv, EffectsShown, LoggedIsGone, ApprovalNext
    PROVE  EffectsShown'
<1>0. app \in [Approvers -> Requests]
  BY DEF TypeInv, TypeOK, ApprovalTypeOK
<1>1. PICK a \in Approvers :
        \/ \E n \in Names : Review(a, n)
        \/ Claim(a)
        \/ ClaimRefused(a)
        \/ Run(a)
        \/ FinishSuccess(a)
        \/ FinishFailure(a)
        \/ FinishConflict(a)
        \/ RecordApproved(a)
        \/ AbandonApproval(a)
  BY DEF ApprovalNext
<1>2. \A b \in Approvers : b # a => app'[b] = app[b]
  BY <1>0, <1>1 DEF Review, Claim, ClaimRefused, Run, FinishSuccess, FinishFailure, FinishConflict,
     RecordApproved, AbandonApproval
<1>3. CASE \E n \in Names : Review(a, n)
  <2>1. \A n : [IdleRequest EXCEPT !.pc = "reviewed", !.name = n].pc = "reviewed"
    BY DEF IdleRequest
  <2>2. app'[a].pc = "reviewed" /\ UNCHANGED <<effects, log>>
    BY <1>0, <1>3, <2>1 DEF Review
  <2> QED BY <1>2, <2>2, RequestEffects
<1>4. CASE Claim(a)
  <2>1. app'[a].pc = "claimed" /\ UNCHANGED <<effects, log>>
    BY <1>0, <1>4 DEF Claim, Requests
  <2> QED BY <1>2, <2>1, RequestEffects
<1>5. CASE ClaimRefused(a) \/ FinishFailure(a) \/ FinishConflict(a) \/ AbandonApproval(a)
  <2>1. IdleRequest.pc = "idle"
    BY DEF IdleRequest
  <2>2. app'[a] = IdleRequest /\ UNCHANGED <<effects, log>>
    BY <1>0, <1>5 DEF ClaimRefused, FinishFailure, FinishConflict, AbandonApproval
  <2> QED BY <1>2, <2>1, <2>2, RequestEffects
<1>6. CASE FinishSuccess(a)
  <2>1. /\ app'[a].pc = "removed" /\ app'[a].claim = app[a].claim
        /\ app[a].pc = "ran" /\ app[a].result = "executed"
        /\ UNCHANGED <<effects, log>>
    BY <1>0, <1>6 DEF FinishSuccess, Requests
  <2> QED BY <1>2, <2>1, RequestEffects
<1> QED BY <1>1, <1>3, <1>4, <1>5, <1>6, RunEffects, ApprovedEffects

LEMMA EffectsInductive ==
    TypeInv /\ JournalInv /\ EffectsShown /\ [Next]_vars => EffectsShown'
<1>1. (LoopNext /\ UNCHANGED <<approvalVars, retentionVars>>) \/ Environment \/ UNCHANGED vars
        => UNCHANGED <<app, effects, log>>
  BY DEF Environment, vars, approvalVars
<1> QED BY <1>1, SameEffects, RetentionEffects, ApprovalEffects DEF Next, JournalInv

LEMMA EffectsHold == Spec => []EffectsShown
BY InitEffects, EffectsInductive, TypesHold, JournalHolds, PTL DEF Spec

\* What the journal calls approved took effect, and what it calls closed is not
\* in the outbox (approve()'s order: run, finish, record_outcome).
THEOREM EarnedOutcomes == Spec => []OutcomesAreEarned
<1>1. JournalInv /\ EffectsShown => OutcomesAreEarned
  BY DEF JournalInv, LoggedIsGone, Gone, EffectsShown, OutcomesAreEarned
<1> QED BY <1>1, JournalHolds, EffectsHold, PTL

-----------------------------------------------------------------------------
(* What the passes listed *)

\* A reconcile pass listed envelopes without a valid command.
LegacyListed == \A r \in Reconcilers : \A c \in recon[r] : c[2].kind = "legacy"

\* A prune pass listed what was old at its moment, which is past.
Old(e, moment) == e.kind = "approvable" /\ moment - e.born >= Retention
OldListed ==
    \A p \in Pruners :
        /\ prune[p].moment <= now
        /\ \A c \in prune[p].chosen : Old(c[2], prune[p].moment)
        /\ prune[p].pc \in {"locked", "cooled", "removed"} => Old(prune[p].held[2], prune[p].moment)

ListedInv == LegacyListed /\ OldListed

LEMMA SeenFacts == \A n \in Names : Seen(n)[1] = n /\ Seen(n)[2] = file[n]
BY DEF Seen

\* One pass goes on, and keeps its candidates or takes one of them up.
LEMMA OnePassListed ==
    ASSUME TypeInv, OldListed, NEW p \in Pruners, now' = now,
           \A q \in Pruners : q # p => prune'[q] = prune[q],
           prune'[p].moment = prune[p].moment,
           prune'[p].chosen \subseteq prune[p].chosen,
           prune'[p].pc \in {"locked", "cooled", "removed"} =>
             \/ prune'[p].held \in prune[p].chosen
             \/ /\ prune[p].pc \in {"locked", "cooled", "removed"}
                /\ prune'[p].held = prune[p].held
    PROVE  OldListed'
<1> SUFFICES ASSUME NEW q \in Pruners
             PROVE  /\ prune'[q].moment <= now
                    /\ \A c \in prune'[q].chosen : Old(c[2], prune'[q].moment)
                    /\ prune'[q].pc \in {"locked", "cooled", "removed"}
                         => Old(prune'[q].held[2], prune'[q].moment)
  BY DEF OldListed, Old
<1>1. CASE q = p
  BY <1>1 DEF OldListed
<1>2. CASE q # p
  BY <1>2 DEF OldListed
<1> QED BY <1>1, <1>2

LEMMA IdleListed ==
    ASSUME TypeInv, OldListed, NEW p \in Pruners, now' = now, prune' = [prune EXCEPT ![p] = IdlePrune]
    PROVE  OldListed'
<1>1. IdlePrune.pc = "idle" /\ IdlePrune.moment = 0 /\ IdlePrune.chosen = {}
  BY DEF IdlePrune
<1>2. now \in Nat /\ prune \in [Pruners -> PrunePasses]
  BY DEF TypeInv, TypeOK, OutboxTypeOK, RetentionTypeOK
<1>3. prune'[p] = IdlePrune /\ \A q \in Pruners : q # p => prune'[q] = prune[q]
  BY <1>2
<1> QED BY <1>1, <1>2, <1>3 DEF OldListed, Old

LEMMA PruneListed ==
    ASSUME TypeInv, OldListed, NEW p \in Pruners, BeginPrune(p) \/ PruneStep(p) \/ AbandonPrune(p)
    PROVE  OldListed'
<1>0. /\ prune \in [Pruners -> PrunePasses] /\ prune[p] \in PrunePasses
      /\ OutboxTypeOK /\ now \in Nat
  BY DEF TypeInv, TypeOK, RetentionTypeOK, OutboxTypeOK
<1>1. CASE BeginPrune(p)
  <2>1. PICK chosen \in OldestFirst(Eligible) :
          prune' = [prune EXCEPT ![p] = [IdlePrune EXCEPT !.pc = "choosing",
                       !.moment = now, !.chosen = {Seen(n) : n \in chosen}]]
    BY <1>1 DEF BeginPrune
  <2>2. /\ prune'[p].pc = "choosing" /\ prune'[p].moment = now
        /\ prune'[p].chosen = {Seen(n) : n \in chosen}
    BY <1>0, <2>1 DEF IdlePrune
  <2>3. \A n \in chosen : Old(Seen(n)[2], now)
    BY SeenFacts DEF OldestFirst, Eligible, Approvable, Old
  <2>4. now' = now /\ \A q \in Pruners : q # p => prune'[q] = prune[q]
    BY <1>0, <1>1, <2>1 DEF BeginPrune, outboxVars
  <2> SUFFICES ASSUME NEW q \in Pruners
               PROVE  /\ prune'[q].moment <= now
                      /\ \A c \in prune'[q].chosen : Old(c[2], prune'[q].moment)
                      /\ prune'[q].pc \in {"locked", "cooled", "removed"}
                           => Old(prune'[q].held[2], prune'[q].moment)
    BY <2>4 DEF OldListed, Old
  <2>5. CASE q = p
    BY <1>0, <2>2, <2>3, <2>5
  <2>6. CASE q # p
    BY <2>4, <2>6 DEF OldListed
  <2> QED BY <2>5, <2>6
<1>2. CASE EndPrune(p) \/ AbandonPrune(p)
  BY <1>2, IdleListed DEF EndPrune, AbandonPrune, outboxVars
<1>3. CASE \/ \E n \in Names : LockCandidate(p, n)
           \/ \E c \in prune[p].chosen : SkipCandidate(p, c)
           \/ CoolCandidate(p) \/ RemoveCandidate(p) \/ KeepCandidate(p) \/ RecordExpired(p)
  <2>1. now' = now /\ \A q \in Pruners : q # p => prune'[q] = prune[q]
    BY <1>0, <1>3 DEF LockCandidate, SkipCandidate, CoolCandidate, RemoveCandidate, KeepCandidate,
       RecordExpired, outboxVars
  <2>2. ASSUME NEW n \in Names, LockCandidate(p, n)
        PROVE  OldListed'
    <3>1. prune'[p] = [prune[p] EXCEPT !.pc = "locked", !.held = Seen(n), !.chosen = @ \ {Seen(n)}]
      BY <1>0, <2>2 DEF LockCandidate
    <3>2. Seen(n) \in prune[p].chosen
      BY <2>2 DEF LockCandidate
    <3>3. /\ prune'[p].moment = prune[p].moment /\ prune'[p].held = Seen(n)
          /\ prune'[p].chosen \subseteq prune[p].chosen
      BY <1>0, <3>1 DEF PrunePasses
    <3> QED BY <2>1, <3>2, <3>3, OnePassListed
  <2>3. ASSUME NEW c \in prune[p].chosen, SkipCandidate(p, c)
        PROVE  OldListed'
    <3>1. prune'[p] = [prune[p] EXCEPT !.chosen = @ \ {c}]
      BY <1>0, <2>3 DEF SkipCandidate
    <3>2. /\ prune'[p].moment = prune[p].moment /\ prune'[p].held = prune[p].held
          /\ prune'[p].pc = prune[p].pc /\ prune'[p].chosen \subseteq prune[p].chosen
      BY <1>0, <3>1 DEF PrunePasses
    <3> QED BY <2>1, <3>2, OnePassListed
  <2>4. CASE CoolCandidate(p) \/ RemoveCandidate(p)
    <3>1. prune[p].pc \in {"locked", "cooled", "removed"}
      BY <2>4 DEF CoolCandidate, RemoveCandidate
    <3>2. /\ prune'[p].moment = prune[p].moment /\ prune'[p].held = prune[p].held
          /\ prune'[p].chosen = prune[p].chosen
      BY <1>0, <2>4 DEF CoolCandidate, RemoveCandidate, PrunePasses
    <3> QED BY <2>1, <3>1, <3>2, OnePassListed
  <2>5. CASE KeepCandidate(p) \/ RecordExpired(p)
    <3>1. /\ prune'[p].moment = prune[p].moment /\ prune'[p].pc = "choosing"
          /\ prune'[p].chosen = prune[p].chosen
      BY <1>0, <2>5 DEF KeepCandidate, RecordExpired, PrunePasses
    <3> QED BY <2>1, <3>1, OnePassListed
  <2> QED BY <1>3, <2>2, <2>3, <2>4, <2>5
<1> QED BY <1>1, <1>2, <1>3 DEF PruneStep

LEMMA ReconcileListed ==
    ASSUME TypeInv, LegacyListed, NEW r \in Reconcilers,
           \/ BeginReconcile(r)
           \/ \E n \in Names : Reconcile(r, n)
           \/ \E c \in recon[r] : SkipReconcile(r, c)
           \/ AbandonReconcile(r)
    PROVE  LegacyListed'
<1>0. recon \in [Reconcilers -> SUBSET Candidates]
  BY DEF TypeInv, TypeOK, RetentionTypeOK
<1>1. CASE BeginReconcile(r)
  BY <1>0, <1>1, SeenFacts DEF BeginReconcile, LegacyListed
<1>2. CASE \/ \E n \in Names : Reconcile(r, n)
           \/ \E c \in recon[r] : SkipReconcile(r, c)
           \/ AbandonReconcile(r)
  <2>1. \A s \in Reconcilers : recon'[s] \subseteq recon[s]
    BY <1>0, <1>2 DEF Reconcile, SkipReconcile, AbandonReconcile
  <2> QED BY <2>1 DEF LegacyListed
<1> QED BY <1>1, <1>2

LEMMA ListedInitially == Init => ListedInv
<1>1. IdlePrune.pc = "idle" /\ IdlePrune.moment = 0 /\ IdlePrune.chosen = {}
  BY DEF IdlePrune
<1> QED BY <1>1 DEF Init, OutboxInit, RetentionInit, ListedInv, LegacyListed, OldListed, Old

LEMMA ListedInductive == TypeInv /\ ListedInv /\ [Next]_vars => ListedInv'
<1> SUFFICES ASSUME TypeInv, ListedInv, [Next]_vars PROVE ListedInv'
  OBVIOUS
<1>0. now \in Nat /\ \A p \in Pruners : prune[p].moment \in Nat
  BY DEF TypeInv, TypeOK, RetentionTypeOK, OutboxTypeOK, PrunePasses
<1>1. CASE UNCHANGED retentionVars
  <2>1. now' = now \/ now' = now + 1
    BY <1>1 DEF Next, ApprovalNext, Review, Claim, ClaimRefused, Run, FinishSuccess, FinishFailure,
         FinishConflict, RecordApproved, AbandonApproval, LoopNext, LoopStep, ReadCooldowns,
         ReadFeed, Snapshot, PassOver, Triage, Propose, SkipProposed, ExecuteCandidate, EndPass,
         AbandonPass, DispatchCheck, DispatchWrite, RetentionNext, PruneStep, BeginPrune,
         LockCandidate, SkipCandidate, CoolCandidate, RemoveCandidate, KeepCandidate,
         RecordExpired, EndPrune, AbandonPrune, BeginReconcile, Reconcile, SkipReconcile,
         AbandonReconcile, PublishEnvelope, Environment, OperatorDeletes, Tick, vars, outboxVars
  <2> QED BY <1>0, <1>1, <2>1 DEF ListedInv, LegacyListed, OldListed, Old, retentionVars
<1>2. ASSUME NEW p \in Pruners, BeginPrune(p) \/ PruneStep(p) \/ AbandonPrune(p)
      PROVE  ListedInv'
  <2>1. recon' = recon
    BY <1>2 DEF PruneStep, BeginPrune, LockCandidate, SkipCandidate, CoolCandidate,
       RemoveCandidate, KeepCandidate, RecordExpired, EndPrune, AbandonPrune
  <2> QED BY <1>2, <2>1, PruneListed DEF ListedInv, LegacyListed
<1>3. ASSUME NEW r \in Reconcilers,
             \/ BeginReconcile(r)
             \/ \E n \in Names : Reconcile(r, n)
             \/ \E c \in recon[r] : SkipReconcile(r, c)
             \/ AbandonReconcile(r)
      PROVE  ListedInv'
  <2>1. prune' = prune /\ now' = now
    BY <1>3 DEF BeginReconcile, Reconcile, SkipReconcile, AbandonReconcile, PublishEnvelope, outboxVars
  <2> QED BY <1>3, <2>1, ReconcileListed DEF ListedInv, OldListed, Old
<1> QED BY <1>1, <1>2, <1>3 DEF Next, RetentionNext, Environment, vars

LEMMA ListedHolds == Spec => []ListedInv
BY ListedInitially, ListedInductive, TypesHold, PTL DEF Spec

\* The only files a prune or reconcile pass changes: the old generation the
\* prune pass holds, or a legacy envelope the reconcile pass rewrites.
LEMMA RetentionFiles ==
    ASSUME TypeInv, ListedInv, [Next]_vars, prune' # prune \/ recon' # recon,
           NEW n \in Names, file'[n] # file[n]
    PROVE  \/ \E p \in Pruners :
                /\ RemoveCandidate(p) /\ n = prune[p].held[1] /\ Old(file[n], prune[p].moment)
           \/ file[n].kind = "legacy" /\ prune' = prune
<1>0. file \in [Names -> Envelopes \cup {NoFile}]
  BY DEF TypeInv, TypeOK, OutboxTypeOK
<1>1. RetentionNext
  BY DEF Next, Environment, vars, retentionVars
<1>2. \/ \E p \in Pruners : RemoveCandidate(p)
      \/ \E r \in Reconcilers, m \in Names : Reconcile(r, m)
  BY <1>1 DEF RetentionNext, PruneStep, BeginPrune, LockCandidate, SkipCandidate, CoolCandidate,
     KeepCandidate, RecordExpired, EndPrune, AbandonPrune, BeginReconcile, SkipReconcile,
     AbandonReconcile, outboxVars
<1>3. ASSUME NEW p \in Pruners, RemoveCandidate(p)
      PROVE  n = prune[p].held[1] /\ Old(file[n], prune[p].moment)
  <2>1. n = prune[p].held[1]
    BY <1>0, <1>3 DEF RemoveCandidate, Unlink
  <2>2. prune[p].held[2] = file[n]
    BY <1>3, <2>1 DEF RemoveCandidate, Seen
  <2> QED BY <1>3, <2>1, <2>2 DEF RemoveCandidate, ListedInv, OldListed
<1>4. ASSUME NEW r \in Reconcilers, NEW m \in Names, Reconcile(r, m)
      PROVE  file[n].kind = "legacy" /\ prune' = prune
  <2>1. n = m
    BY <1>0, <1>4 DEF Reconcile, PublishEnvelope, WriteAtomic
  <2>2. Seen(m) \in recon[r] /\ prune' = prune
    BY <1>4 DEF Reconcile
  <2> QED BY <2>1, <2>2, SeenFacts DEF ListedInv, LegacyListed
<1> QED BY <1>2, <1>3, <1>4

\* No prune or reconcile pass touches an execution marker (lifecycle.py revalidates
\* every candidate it listed under the lock).
THEOREM MarkersSpared == Spec => RetentionSparesMarkers
<1>1. TypeInv /\ ListedInv /\ [Next]_vars
        => [prune' # prune \/ recon' # recon
             => \A n \in Names : file[n].kind = "marker" => file'[n] = file[n]]_vars
  BY RetentionFiles DEF Old
<1> QED BY <1>1, TypesHold, ListedHolds, PTL DEF Spec, RetentionSparesMarkers

\* A prune pass removes only what was old when it was listed, even from a name
\* that was published anew since (ProposalRetention compares the generation).
THEOREM OldExpire == Spec => OnlyOldExpires
<1>1. ASSUME TypeInv, ListedInv, [Next]_vars, NEW p \in Pruners, NEW n \in Names,
             prune'[p] # prune[p], file'[n] # file[n]
      PROVE  prune[p].moment - file[n].born >= Retention
  <2>0. prune \in [Pruners -> PrunePasses]
    BY <1>1 DEF TypeInv, TypeOK, RetentionTypeOK
  <2>1. PICK q \in Pruners : RemoveCandidate(q) /\ Old(file[n], prune[q].moment)
    BY <1>1, RetentionFiles
  <2>2. q = p
    BY <1>1, <2>0, <2>1 DEF RemoveCandidate
  <2> QED BY <2>1, <2>2 DEF Old
<1>2. TypeInv /\ ListedInv /\ [Next]_vars
        => [\A p \in Pruners, n \in Names : prune'[p] # prune[p] /\ file'[n] # file[n]
             => prune[p].moment - file[n].born >= Retention]_vars
  BY <1>1
<1> QED BY <1>2, TypesHold, ListedHolds, PTL DEF Spec, OnlyOldExpires

-----------------------------------------------------------------------------
(* Expired items stay withheld when prune passes do not overlap *)

\* No two prune passes run at a time, as when one operator runs the command.
PassesApart ==
    \A p, q \in Pruners : prune[p].pc # "idle" /\ prune[q].pc # "idle" => p = q

\* The cooldown of item i lasts for TTL after `moment`, or that time is over.
Covered(i, moment) == until[i] >= moment + TTL \/ now >= moment + TTL

\* A candidate is covered from its cooldown on, and so is what was expired: at
\* the moment of a pass that is over, or of the one that is running.
CoveredPasses ==
    \A p \in Pruners :
        prune[p].pc \in {"cooled", "removed"}
            => Covered(ItemOf[prune[p].held[1]], prune[p].moment)
CoveredLog ==
    \A k \in 1..Len(log) : log[k].outcome = "expired" =>
        /\ Covered(ItemOf[log[k].name], log[k].at)
        /\ log[k].at <= now
        /\ \A p \in Pruners : prune[p].pc # "idle" => log[k].at <= prune[p].moment

CoveredInv == CoveredPasses /\ CoveredLog

LEMMA CoolTypes ==
    ASSUME TypeInv
    PROVE  /\ now \in Nat /\ TTL \in Nat
           /\ \A i \in Items : until[i] \in Nat
           /\ \A p \in Pruners : prune[p].moment \in Nat
           /\ \A p \in Pruners : prune[p].pc \in {"locked", "cooled", "removed"} =>
                prune[p].held[1] \in Names /\ ItemOf[prune[p].held[1]] \in Items
           /\ \A k \in 1..Len(log) : log[k].at \in Nat /\ log[k].name \in Names
                                     /\ ItemOf[log[k].name] \in Items
<1> USE OutboxAssumption, SuppressAssumption
<1>1. now \in Nat /\ TTL \in Nat /\ \A i \in Items : until[i] \in Nat
  BY DEF TypeInv, TypeOK, OutboxTypeOK, SuppressTypeOK
<1>2. \A p \in Pruners : prune[p].moment \in Nat
  BY DEF TypeInv, TypeOK, RetentionTypeOK, PrunePasses
<1>3. \A p \in Pruners : prune[p].pc \in {"locked", "cooled", "removed"} =>
         prune[p].held[1] \in Names /\ ItemOf[prune[p].held[1]] \in Items
  BY DEF TypeInv, PruneShape, Candidates
<1>4. \A k \in 1..Len(log) : log[k] \in Outcomes
  BY DEF TypeInv, TypeOK, ApprovalTypeOK
<1>5. \A k \in 1..Len(log) : log[k].at \in Nat /\ log[k].name \in Names
  BY <1>4 DEF Outcomes
<1> QED BY <1>1, <1>2, <1>3, <1>5

LEMMA NewCooldown ==
    ASSUME TypeInv, NEW i \in Items, NEW moment \in Nat, AddCooldown(i, moment)
    PROVE  Covered(i, moment)'
BY CoolTypes DEF AddCooldown, Covered

LEMMA ClockMoves ==
    ASSUME TypeInv, [Next]_vars
    PROVE  now' = now \/ now' = now + 1
BY DEF Next, ApprovalNext, Review, Claim, ClaimRefused, Run, FinishSuccess, FinishFailure,
       FinishConflict, RecordApproved, AbandonApproval, LoopNext, LoopStep, ReadCooldowns,
       ReadFeed, Snapshot, PassOver, Triage, Propose, SkipProposed, ExecuteCandidate, EndPass,
       AbandonPass, DispatchCheck, DispatchWrite, RetentionNext, PruneStep, BeginPrune,
       LockCandidate, SkipCandidate, CoolCandidate, RemoveCandidate, KeepCandidate,
       RecordExpired, EndPrune, AbandonPrune, BeginReconcile, Reconcile, SkipReconcile,
       AbandonReconcile, PublishEnvelope, Environment, OperatorDeletes, Tick, vars, outboxVars

\* Cooldowns are written by a triage, now, and by a prune pass, for its moment.
LEMMA CooldownWriters ==
    ASSUME TypeInv, [Next]_vars
    PROVE  \/ until' = until
           \/ now' = now /\ \E i \in Items : AddCooldown(i, now)
           \/ now' = now /\ \E p \in Pruners : CoolCandidate(p)
BY DEF Next, ApprovalNext, Review, Claim, ClaimRefused, Run, FinishSuccess, FinishFailure,
       FinishConflict, RecordApproved, AbandonApproval, LoopNext, LoopStep, ReadCooldowns,
       ReadFeed, Snapshot, PassOver, Triage, Propose, SkipProposed, ExecuteCandidate, EndPass,
       AbandonPass, DispatchCheck, DispatchWrite, RetentionNext, PruneStep, BeginPrune,
       LockCandidate, SkipCandidate, CoolCandidate, RemoveCandidate, KeepCandidate,
       RecordExpired, EndPrune, AbandonPrune, BeginReconcile, Reconcile, SkipReconcile,
       AbandonReconcile, PublishEnvelope, Environment, vars, outboxVars

\* What is covered stays covered while no running pass is older.
LEMMA StaysCovered ==
    ASSUME TypeInv, ListedInv, [Next]_vars, NEW j \in Items, NEW at \in Nat, Covered(j, at),
           at <= now, \A p \in Pruners : prune[p].pc # "idle" => at <= prune[p].moment
    PROVE  Covered(j, at)'
<1>0. now \in Nat /\ TTL \in Nat /\ until[j] \in Nat
  BY CoolTypes
<1>1. ASSUME NEW i \in Items, NEW moment \in Nat, AddCooldown(i, moment),
             at <= moment, moment <= now, now' = now
      PROVE  Covered(j, at)'
  <2>1. until'[j] = IF j = i THEN moment + TTL ELSE IF until[j] > moment THEN until[j] ELSE 0
    BY <1>1 DEF AddCooldown
  <2> QED BY <1>0, <1>1, <2>1 DEF Covered
<1>2. CASE until' = until
  BY <1>0, <1>2, ClockMoves DEF Covered
<1>3. ASSUME now' = now, NEW i \in Items, AddCooldown(i, now)
      PROVE  Covered(j, at)'
  BY <1>0, <1>1, <1>3
<1>4. ASSUME now' = now, NEW p \in Pruners, CoolCandidate(p)
      PROVE  Covered(j, at)'
  <2>1. prune[p].pc = "locked" /\ AddCooldown(ItemOf[prune[p].held[1]], prune[p].moment)
    BY <1>4 DEF CoolCandidate
  <2>2. prune[p].moment \in Nat /\ prune[p].moment <= now /\ ItemOf[prune[p].held[1]] \in Items
    BY <2>1, CoolTypes DEF ListedInv, OldListed
  <2> QED BY <1>1, <1>4, <2>1, <2>2
<1> QED BY <1>2, <1>3, <1>4, CooldownWriters

\* Nobody else touches what a pass remembers.
LEMMA ItsOwnPass ==
    ASSUME TypeInv, [Next]_vars, NEW p \in Pruners, prune'[p] # prune[p]
    PROVE  BeginPrune(p) \/ PruneStep(p) \/ AbandonPrune(p)
<1>0. prune \in [Pruners -> PrunePasses]
  BY DEF TypeInv, TypeOK, RetentionTypeOK
<1>1. ASSUME NEW q \in Pruners, q # p, BeginPrune(q) \/ PruneStep(q) \/ AbandonPrune(q)
      PROVE  FALSE
  BY <1>0, <1>1 DEF PruneStep, BeginPrune, LockCandidate, SkipCandidate, CoolCandidate,
     RemoveCandidate, KeepCandidate, RecordExpired, EndPrune, AbandonPrune
<1>2. \E q \in Pruners : BeginPrune(q) \/ PruneStep(q) \/ AbandonPrune(q)
  BY DEF Next, RetentionNext, BeginReconcile, Reconcile, SkipReconcile, AbandonReconcile,
     Environment, vars, retentionVars
<1> QED BY <1>1, <1>2

\* A pass keeps its moment, and starts now.
LEMMA PassMoments ==
    ASSUME TypeInv, [Next]_vars, NEW p \in Pruners
    PROVE  /\ prune'[p].pc # "idle" =>
                \/ prune[p].pc # "idle" /\ prune'[p].moment = prune[p].moment
                \/ prune'[p].moment = now
           /\ prune'[p].pc \in {"cooled", "removed"} =>
                /\ prune'[p].held = prune[p].held
                /\ prune'[p].moment = prune[p].moment
                /\ prune[p].pc \in {"cooled", "removed"} \/ CoolCandidate(p)
<1> DEFINE Goal ==
      /\ prune'[p].pc # "idle" =>
           \/ prune[p].pc # "idle" /\ prune'[p].moment = prune[p].moment
           \/ prune'[p].moment = now
      /\ prune'[p].pc \in {"cooled", "removed"} =>
           /\ prune'[p].held = prune[p].held
           /\ prune'[p].moment = prune[p].moment
           /\ prune[p].pc \in {"cooled", "removed"} \/ CoolCandidate(p)
<1>0. prune \in [Pruners -> PrunePasses] /\ prune[p] \in PrunePasses
  BY DEF TypeInv, TypeOK, RetentionTypeOK
<1>1. CASE prune'[p] = prune[p]
  BY <1>1
<1>2. ASSUME BeginPrune(p) PROVE Goal
  <2>1. PICK names : prune' = [prune EXCEPT ![p] = [IdlePrune EXCEPT !.pc = "choosing",
                       !.moment = now, !.chosen = {Seen(n) : n \in names}]]
    BY <1>2 DEF BeginPrune
  <2>2. prune'[p].pc = "choosing" /\ prune'[p].moment = now
    BY <1>0, <2>1 DEF IdlePrune
  <2> QED BY <2>2
<1>3. ASSUME NEW n \in Names, LockCandidate(p, n) PROVE Goal
  <2>1. prune'[p] = [prune[p] EXCEPT !.pc = "locked", !.held = Seen(n), !.chosen = @ \ {Seen(n)}]
    BY <1>0, <1>3 DEF LockCandidate
  <2>2. prune'[p].pc = "locked" /\ prune'[p].moment = prune[p].moment /\ prune[p].pc = "choosing"
    BY <1>0, <1>3, <2>1 DEF LockCandidate, PrunePasses
  <2> QED BY <2>2
<1>4. ASSUME NEW c \in prune[p].chosen, SkipCandidate(p, c) PROVE Goal
  <2>1. prune'[p] = [prune[p] EXCEPT !.chosen = @ \ {c}]
    BY <1>0, <1>4 DEF SkipCandidate
  <2>2. prune'[p].pc = prune[p].pc /\ prune'[p].moment = prune[p].moment /\ prune[p].pc = "choosing"
    BY <1>0, <1>4, <2>1 DEF SkipCandidate, PrunePasses
  <2> QED BY <2>2
<1>5. ASSUME CoolCandidate(p) PROVE Goal
  <2>1. prune'[p].moment = prune[p].moment /\ prune'[p].held = prune[p].held /\ prune[p].pc = "locked"
    BY <1>0, <1>5 DEF CoolCandidate, PrunePasses
  <2> QED BY <1>5, <2>1
<1>6. ASSUME RemoveCandidate(p) PROVE Goal
  <2>1. prune'[p].moment = prune[p].moment /\ prune'[p].held = prune[p].held /\ prune[p].pc = "cooled"
    BY <1>0, <1>6 DEF RemoveCandidate, PrunePasses
  <2> QED BY <2>1
<1>7. ASSUME KeepCandidate(p) \/ RecordExpired(p) PROVE Goal
  <2>1. /\ prune'[p].moment = prune[p].moment /\ prune'[p].pc = "choosing"
        /\ prune[p].pc \in {"cooled", "removed"}
    BY <1>0, <1>7 DEF KeepCandidate, RecordExpired, PrunePasses
  <2> QED BY <2>1
<1>8. ASSUME EndPrune(p) \/ AbandonPrune(p) PROVE Goal
  <2>1. prune'[p].pc = "idle"
    BY <1>0, <1>8 DEF EndPrune, AbandonPrune, IdlePrune
  <2> QED BY <2>1
<1> HIDE DEF Goal
<1>9. ASSUME BeginPrune(p) \/ PruneStep(p) \/ AbandonPrune(p) PROVE Goal
  BY <1>2, <1>3, <1>4, <1>5, <1>6, <1>7, <1>8, <1>9 DEF PruneStep
<1>10. Goal
  BY <1>1, <1>9, ItsOwnPass DEF Goal
<1> QED BY <1>10 DEF Goal

\* What is journaled is an approval, or what a prune pass removed.
LEMMA LogSteps ==
    ASSUME TypeInv, [Next]_vars
    PROVE  \/ log' = log
           \/ \E o : o.outcome = "approved" /\ log' = Append(log, o)
           \/ \E p \in Pruners : RecordExpired(p)
<1>1. ASSUME NEW a \in Approvers, RecordApproved(a)
      PROVE  \E o : o.outcome = "approved" /\ log' = Append(log, o)
  <2> DEFINE o == Outcome(app[a].name, app[a].claim.prop, "approved", now)
  <2>1. o.outcome = "approved" /\ log' = Append(log, o)
    BY <1>1 DEF RecordApproved, Outcome
  <2> QED BY <2>1
<1>2. \/ log' = log
      \/ \E a \in Approvers : RecordApproved(a)
      \/ \E p \in Pruners : RecordExpired(p)
  BY DEF Next, ApprovalNext, Review, Claim, ClaimRefused, Run, FinishSuccess, FinishFailure,
         FinishConflict, AbandonApproval, RetentionNext, PruneStep, BeginPrune,
         LockCandidate, SkipCandidate, CoolCandidate, RemoveCandidate, KeepCandidate,
         EndPrune, AbandonPrune, BeginReconcile, Reconcile, SkipReconcile,
         AbandonReconcile, Environment, vars, approvalVars
<1> QED BY <1>1, <1>2

LEMMA CoveredInitially == Init => CoveredInv
<1>1. IdlePrune.pc = "idle" /\ Len(<<>>) = 0
  BY DEF IdlePrune
<1> QED BY <1>1 DEF Init, ApprovalInit, RetentionInit, CoveredInv, CoveredPasses, CoveredLog

LEMMA CoveredInductive ==
    TypeInv /\ ListedInv /\ PassesApart /\ CoveredInv /\ [Next]_vars => CoveredInv'
<1> SUFFICES ASSUME TypeInv, ListedInv, PassesApart, CoveredInv, [Next]_vars PROVE CoveredInv'
  OBVIOUS
<1>0. now \in Nat /\ (now' = now \/ now' = now + 1)
  BY CoolTypes, ClockMoves
<1>1. ASSUME NEW p \in Pruners, prune[p].pc \in {"cooled", "removed"},
             NEW i \in Items, i = ItemOf[prune[p].held[1]], NEW at \in Nat, at = prune[p].moment
      PROVE  Covered(i, at)' /\ at <= now
  <2>1. at <= now /\ Covered(i, at)
    BY <1>1 DEF ListedInv, OldListed, CoveredInv, CoveredPasses
  <2>2. \A q \in Pruners : prune[q].pc # "idle" => at <= prune[q].moment
    <3>1. \A q \in Pruners : prune[q].pc # "idle" => q = p
      BY <1>1 DEF PassesApart
    <3> QED BY <1>1, <3>1
  <2> QED BY <2>1, <2>2, StaysCovered
<1>2. CoveredPasses'
  <2> SUFFICES ASSUME NEW p \in Pruners, prune'[p].pc \in {"cooled", "removed"},
                      NEW i, i = ItemOf[prune[p].held[1]], NEW at, at = prune[p].moment
               PROVE  Covered(i, at)'
    BY PassMoments DEF CoveredPasses, Covered
  <2>1. CASE prune[p].pc \in {"cooled", "removed"}
    BY <1>1, <2>1, CoolTypes
  <2>2. CASE CoolCandidate(p)
    <3>1. prune[p].pc = "locked" /\ AddCooldown(i, at)
      BY <2>2 DEF CoolCandidate
    <3> QED BY <3>1, CoolTypes, NewCooldown
  <2> QED BY <2>1, <2>2, PassMoments
<1>3. ASSUME NEW k \in 1..Len(log), log[k].outcome = "expired",
             NEW i \in Items, i = ItemOf[log[k].name], NEW at \in Nat, at = log[k].at
      PROVE  /\ Covered(i, at)'
             /\ at <= now'
             /\ \A p \in Pruners : prune'[p].pc # "idle" => at <= prune'[p].moment
  <2>1. /\ Covered(i, at)
        /\ at <= now
        /\ \A p \in Pruners : prune[p].pc # "idle" => at <= prune[p].moment
    BY <1>3 DEF CoveredInv, CoveredLog
  <2>2. Covered(i, at)'
    BY <2>1, StaysCovered
  <2>3. \A p \in Pruners : prune'[p].pc # "idle" => at <= prune'[p].moment
    BY <2>1, PassMoments
  <2> QED BY <1>0, <2>1, <2>2, <2>3
<1>4. \A k \in 1..Len(log) : ItemOf[log[k].name] \in Items /\ log[k].at \in Nat
  BY CoolTypes
<1>5. CASE log' = log
  BY <1>2, <1>3, <1>4, <1>5 DEF CoveredInv, CoveredLog, Covered
<1>6. ASSUME NEW o, log' = Append(log, o),
             o.outcome = "expired" =>
               \E i \in Items, at \in Nat :
                 /\ i = ItemOf[o.name] /\ at = o.at
                 /\ Covered(i, at)' /\ at <= now'
                 /\ \A p \in Pruners : prune'[p].pc # "idle" => at <= prune'[p].moment
      PROVE  CoveredInv'
  <2>1. /\ Len(log) \in Nat /\ Len(log') = Len(log) + 1
        /\ \A k \in 1..Len(log) : log'[k] = log[k]
        /\ log'[Len(log) + 1] = o
    BY <1>6, AppendFacts
  <2>2. \A k \in 1..Len(log') : k \in 1..Len(log) \/ k = Len(log) + 1
    BY <2>1
  <2>3. ASSUME NEW k \in 1..Len(log'), log'[k].outcome = "expired"
        PROVE  \E i \in Items, at \in Nat :
                 /\ i = ItemOf[log'[k].name] /\ at = log'[k].at
                 /\ Covered(i, at)' /\ at <= now'
                 /\ \A p \in Pruners : prune'[p].pc # "idle" => at <= prune'[p].moment
    <3>1. CASE k \in 1..Len(log)
      BY <1>3, <1>4, <2>1, <2>3, <3>1
    <3>2. CASE k = Len(log) + 1
      BY <1>6, <2>1, <2>3, <3>2
    <3> QED BY <2>2, <3>1, <3>2
  <2>4. CoveredLog'
    BY <2>3 DEF CoveredLog, Covered
  <2> QED BY <1>2, <2>4 DEF CoveredInv
<1>7. ASSUME NEW p \in Pruners, RecordExpired(p)
      PROVE  CoveredInv'
  <2> DEFINE o == Outcome(prune[p].held[1], prune[p].held[2].prop, "expired", prune[p].moment)
  <2> DEFINE i == ItemOf[prune[p].held[1]]
  <2> DEFINE at == prune[p].moment
  <2>1. log' = Append(log, o) /\ i = ItemOf[o.name] /\ at = o.at /\ prune[p].pc = "removed"
    BY <1>7 DEF RecordExpired, Outcome
  <2>2. i \in Items /\ at \in Nat /\ at <= now
    BY <2>1, CoolTypes DEF ListedInv, OldListed
  <2>3. \A q \in Pruners : prune[q].pc # "idle" => q = p
    BY <2>1 DEF PassesApart
  <2>4. \A q \in Pruners : prune'[q].pc # "idle" => at <= prune'[q].moment
    BY <2>2, <2>3, PassMoments
  <2> HIDE DEF o, i, at
  <2>5. \E j \in Items, t \in Nat : j = i /\ t = at /\ Covered(j, t)' /\ t <= now'
    BY <1>0, <1>1, <2>1, <2>2 DEF i, at
  <2> QED BY <1>6, <2>1, <2>4, <2>5
<1> QED BY <1>5, <1>6, <1>7, LogSteps

LEMMA CoveredHolds == Spec /\ []PassesApart => []CoveredInv
BY CoveredInitially, CoveredInductive, TypesHold, ListedHolds, PTL DEF Spec

\* What a prune pass expired stays withheld for the cooldown, whatever requests,
\* loop passes and later prune passes do, if no two prune passes overlap
\* (_retire_candidate cools before it unlinks).
THEOREM ExpiredStaysWithheld == Spec /\ []PassesApart => []ExpiredItemStaysWithheld
<1>1. ASSUME TypeInv, CoveredInv, NEW k \in 1..Len(log), log[k].outcome = "expired",
             now < log[k].at + TTL
      PROVE  ItemOf[log[k].name] \in Withheld
  BY <1>1, CoolTypes DEF CoveredInv, CoveredLog, Covered, Withheld, ActiveCooldowns
<1>2. TypeInv /\ CoveredInv => ExpiredItemStaysWithheld
  BY <1>1 DEF ExpiredItemStaysWithheld
<1> QED BY <1>2, TypesHold, CoveredHolds, PTL

\* Neither the cooldown a pass writes nor the file it removes uncovers an item
\* within the cooldown of the pass's moment, if no two prune passes overlap.
THEOREM NeverUncovers == Spec /\ []PassesApart => ExpiryNeverUncovers
<1>1. ASSUME TypeInv, ListedInv, CoveredInv, [Next]_vars, NEW p \in Pruners, NEW i \in Items,
             prune'[p] # prune[p], i \in Withheld, i \notin Withheld'
      PROVE  now >= prune[p].moment + TTL
  <2>0. /\ prune \in [Pruners -> PrunePasses] /\ file \in [Names -> Envelopes \cup {NoFile}]
        /\ prune[p].moment \in Nat /\ now \in Nat /\ TTL \in Nat /\ until[i] \in Nat
    BY <1>1, CoolTypes DEF TypeInv, TypeOK, RetentionTypeOK, OutboxTypeOK
  <2>1. BeginPrune(p) \/ PruneStep(p) \/ AbandonPrune(p)
    BY <1>1, ItsOwnPass
  <2>2. now' = now
    BY <2>1 DEF PruneStep, BeginPrune, LockCandidate, SkipCandidate, CoolCandidate,
       RemoveCandidate, KeepCandidate, RecordExpired, EndPrune, AbandonPrune, outboxVars
  <2>3. CASE RemoveCandidate(p)
    <3> DEFINE n == prune[p].held[1]
    <3>1. Unlink(n) /\ until' = until /\ prune[p].pc = "cooled"
      BY <2>3 DEF RemoveCandidate
    <3>2. until[i] <= now
      BY <1>1, <2>0, <2>2, <3>1 DEF Withheld, ActiveCooldowns
    <3>3. PICK m \in Names : file[m] # NoFile /\ i = ItemOf[m]
      BY <1>1, <2>0, <3>2 DEF Withheld, ActiveCooldowns, ProposedItems, Listed
    <3>4. m = n
      <4> SUFFICES ASSUME m # n PROVE FALSE
        OBVIOUS
      <4>1. file'[m] = file[m]
        BY <2>0, <3>1 DEF Unlink
      <4> QED BY <1>1, <3>3, <4>1 DEF Withheld, ProposedItems, Listed
    <3>5. Covered(i, prune[p].moment)
      BY <1>1, <3>1, <3>3, <3>4 DEF CoveredInv, CoveredPasses
    <3> QED BY <2>0, <3>2, <3>5 DEF Covered
  <2>4. CASE CoolCandidate(p)
    <3>1. file' = file /\ AddCooldown(ItemOf[prune[p].held[1]], prune[p].moment)
      BY <2>4 DEF CoolCandidate, outboxVars
    <3>2. i \notin ProposedItems /\ until[i] > now /\ until'[i] <= now
      <4>1. ProposedItems' = ProposedItems
        BY <3>1 DEF ProposedItems, Listed
      <4>2. until'[i] \in Nat
        BY <2>0, <3>1 DEF AddCooldown
      <4> QED BY <1>1, <2>0, <2>2, <4>1, <4>2 DEF Withheld, ActiveCooldowns
    <3>3. prune[p].moment <= now
      BY <1>1 DEF ListedInv, OldListed
    <3>4. until'[i] = IF i = ItemOf[prune[p].held[1]] THEN prune[p].moment + TTL
                      ELSE IF until[i] > prune[p].moment THEN until[i] ELSE 0
      BY <3>1 DEF AddCooldown
    <3> QED BY <2>0, <3>2, <3>3, <3>4
  <2>5. CASE file' = file /\ until' = until
    BY <1>1, <2>2, <2>5 DEF Withheld, ActiveCooldowns, ProposedItems, Listed
  <2>6. RemoveCandidate(p) \/ CoolCandidate(p) \/ (file' = file /\ until' = until)
    BY <2>1 DEF PruneStep, BeginPrune, LockCandidate, SkipCandidate, KeepCandidate, RecordExpired,
       EndPrune, AbandonPrune, outboxVars
  <2> QED BY <2>3, <2>4, <2>5, <2>6
<1>2. TypeInv /\ ListedInv /\ CoveredInv /\ [Next]_vars
        => [\A p \in Pruners, i \in Items :
              prune'[p] # prune[p] /\ i \in Withheld /\ i \notin Withheld'
                => now >= prune[p].moment + TTL]_vars
  BY <1>1
<1> QED BY <1>2, TypesHold, ListedHolds, CoveredHolds, PTL DEF Spec, ExpiryNeverUncovers

-----------------------------------------------------------------------------
(* The outbox implements the life of a payload *)

\* Payload q can be seen as itself, not as the marker of a claim.
Shown(q) == \E n \in Names : file[n].prop = q /\ file[n].kind # "marker"

\* Some request has got as far as pc with payload q.
HasReached(q, pc) == \E a \in Approvers : app[a].pc = pc /\ app[a].claim.prop = q

\* The mapping that ImplementsProposalLife names.
Lives == [q \in Props |-> Life(q)]

LEMMA LifeIs ==
    ASSUME NEW q
    PROVE  Life(q) = IF q > published THEN "unborn"
                     ELSE IF Shown(q) THEN "pending"
                     ELSE IF HasReached(q, "claimed") THEN "claimed"
                     ELSE IF HasReached(q, "ran") THEN "ran"
                     ELSE "closed"
BY DEF Life, Shown, HasReached

LEMMA LifeIsAfter ==
    ASSUME NEW q
    PROVE  Life(q)' = IF q > published' THEN "unborn"
                      ELSE IF Shown(q)' THEN "pending"
                      ELSE IF HasReached(q, "claimed")' THEN "claimed"
                      ELSE IF HasReached(q, "ran")' THEN "ran"
                      ELSE "closed"
BY DEF Life, Shown, HasReached

LEMMA PropsAreNat == Props \subseteq Nat \ {0}
BY OutboxAssumption DEF Props

\* A running claim is all there is of its payload.
LEMMA RunnerLife ==
    ASSUME TypeInv, ClaimInv, NEW a \in Approvers, Running(a),
           NEW q, q = app[a].claim.prop
    PROVE  /\ q \in Props /\ q <= published
           /\ ~Shown(q)
           /\ \A pc \in {"claimed", "ran"} : HasReached(q, pc) <=> app[a].pc = pc
           /\ Life(q) = app[a].pc
<1>1. q \in Props /\ q <= published
  BY ClaimFacts DEF Running, HasClaim, ClaimInv, OnlyPublished
<1>2. ~Shown(q)
  BY ClaimFacts, MarkerFacts DEF Shown, Running, HasClaim, ClaimInv, RunningIsMarked
<1>3. \A pc \in {"claimed", "ran"} : HasReached(q, pc) <=> app[a].pc = pc
  BY DEF HasReached, ClaimInv, OneRunnerPerPayload, Running
<1>4. published \in Nat
  BY DEF TypeInv, TypeOK, OutboxTypeOK
<1> QED BY <1>1, <1>2, <1>3, <1>4, LifeIs, PropsAreNat DEF Running

\* A payload that is shown is pending, and no request runs it.
LEMMA ShownLife ==
    ASSUME TypeInv, ClaimInv, NEW q \in Props, Shown(q)
    PROVE  /\ q <= published /\ Life(q) = "pending"
           /\ ~HasReached(q, "claimed") /\ ~HasReached(q, "ran")
<1>1. q <= published
  BY DEF Shown, ClaimInv, OnlyPublished
<1>2. ~HasReached(q, "claimed") /\ ~HasReached(q, "ran")
  BY RunnerLife DEF HasReached, Running
<1>3. published \in Nat /\ q \in Nat
  BY PropsAreNat DEF TypeInv, TypeOK, OutboxTypeOK
<1> QED BY <1>1, <1>2, <1>3, LifeIs

\* Who is not touched lives on.
LEMMA SameLife ==
    ASSUME TypeInv, NEW q \in Props, published' = published,
           Shown(q)' <=> Shown(q),
           \A pc \in {"claimed", "ran"} : HasReached(q, pc)' <=> HasReached(q, pc)
    PROVE  Life(q)' = Life(q)
BY LifeIs, LifeIsAfter

LEMMA OneLife ==
    ASSUME NEW q \in Props, NEW stage, Life(q)' = stage,
           \A p \in Props : p # q => Life(p)' = Life(p)
    PROVE  Lives' = [Lives EXCEPT ![q] = stage]
BY DEF Lives

-----------------------------------------------------------------------------
(* Initial states *)

LEMMA LifeInitially == Init => Abstract!LifeInit
<1> SUFFICES ASSUME Init PROVE Abstract!LifeInit
  OBVIOUS
<1> USE OutboxAssumption, CompanionAssumption
<1>1. PICK old \in SUBSET Names :
        /\ Cardinality(old) <= MaxProposals
        /\ published = Cardinality(old)
        /\ \E id \in [old -> 1..Cardinality(old)], kind \in [old -> InitialKinds] :
             /\ \A n, m \in old : id[n] = id[m] => n = m
             /\ file = [n \in Names |->
                      IF n \in old
                      THEN [prop |-> id[n], kind |-> kind[n], tries |-> 0, born |-> 0]
                      ELSE NoFile]
  BY DEF Init, OutboxInit
<1>2. published \in Nat /\ IsFiniteSet(old)
  BY <1>1, FS_Subset, FS_CardinalityType
<1>3. PICK id \in [old -> 1..published], kind \in [old -> InitialKinds] :
        /\ \A n, m \in old : id[n] = id[m] => n = m
        /\ file = [n \in Names |->
                      IF n \in old
                      THEN [prop |-> id[n], kind |-> kind[n], tries |-> 0, born |-> 0]
                      ELSE NoFile]
  BY <1>1
<1>4. id \in Surjection(old, 1..published)
  <2>1. id \in Injection(old, 1..published)
    BY <1>3 DEF Injection, IsInjective
  <2>2. IsFiniteSet(1..published) /\ Cardinality(1..published) = published
    BY <1>2, FS_Interval
  <2> QED BY <1>1, <2>1, <2>2, FS_Injection
<1>5. \A q \in Props : q <= published => Shown(q)
  <2> SUFFICES ASSUME NEW q \in Props, q <= published PROVE Shown(q)
    OBVIOUS
  <2>1. q \in 1..published
    BY <1>2 DEF Props
  <2>2. PICK n \in old : id[n] = q
    BY <1>4, <2>1 DEF Surjection
  <2>3. file[n].prop = q /\ file[n].kind = kind[n] /\ kind[n] # "marker"
    BY <1>3, <2>2
  <2> QED BY <2>2, <2>3 DEF Shown
<1>6. \A q \in Props : Life(q) \in {"unborn", "pending"}
  BY <1>2, <1>5, LifeIs, PropsAreNat
<1>7. runs = [q \in Props |-> 0]
  BY DEF Init, ApprovalInit
<1> QED BY <1>6, <1>7 DEF Abstract!LifeInit

-----------------------------------------------------------------------------
(* Steps that are not a request's *)

LEMMA PublishLives ==
    ASSUME TypeInv, ClaimInv, NEW n \in Names, NEW kind \in {"approvable", "note"},
           PublishEnvelope(n, kind), UNCHANGED <<app, runs>>,
           NEW new, new = published + 1, NEW old, old = file[n].prop
    PROVE  Abstract!LifeNext
<1>0. /\ OutboxTypeOK /\ published \in Nat
      /\ new \in Props /\ published' = new
  BY OutboxAssumption DEF TypeInv, TypeOK, OutboxTypeOK, PublishEnvelope, Props
<1>1. /\ \A m \in Names : m # n => file'[m] = file[m]
      /\ file'[n].prop = new /\ file'[n].kind = kind
  BY <1>0 DEF PublishEnvelope, WriteAtomic, OutboxTypeOK
<1>2. \A m \in Names : file[m].prop # new
  BY <1>0 DEF ClaimInv, OnlyPublished
<1>3. \A q, pc : HasReached(q, pc)' <=> HasReached(q, pc)
  BY DEF HasReached
<1>4. Life(new) = "unborn" /\ Life(new)' = "pending"
  <2>1. Shown(new)'
    BY <1>1 DEF Shown
  <2>2. new > published /\ ~(new > published')
    BY <1>0
  <2> QED BY <2>1, <2>2, LifeIs, LifeIsAfter
<1>5. \A q \in Props : q # new => (q > published' <=> q > published)
  BY <1>0, PropsAreNat
<1>6. ASSUME NEW q \in Props, q # new, Shown(q)' <=> Shown(q)
      PROVE  Life(q)' = Life(q)
  BY <1>3, <1>5, <1>6, LifeIs, LifeIsAfter
<1>7. \A q \in Props : q # new /\ q # file[n].prop => (Shown(q)' <=> Shown(q))
  BY <1>1 DEF Shown
<1>8. CASE file[n].kind \in {"none", "marker"}
  <2>1. \A q \in Props : q # new => (Shown(q)' <=> Shown(q))
    <3> SUFFICES ASSUME NEW q \in Props, q = file[n].prop, q # new
                 PROVE  ~Shown(q) /\ ~Shown(q)'
      BY <1>7
    <3>1. file[n].kind = "marker"
      BY <1>0, <1>8, FileFacts, PropsAreNat
    <3>2. \A m \in Names : m # n => file[m].prop # q
      BY <3>1 DEF ClaimInv, OneName
    <3> QED BY <1>1, <3>1, <3>2 DEF Shown
  <2>2. Lives' = [Lives EXCEPT ![new] = "pending"]
    BY <1>0, <1>4, <1>6, <2>1, OneLife
  <2>3. Abstract!Publish(new)
    BY <1>0, <1>4, <2>2 DEF Abstract!Publish, Lives
  <2> QED BY <1>0, <2>3 DEF Abstract!LifeNext
<1>9. CASE file[n].kind \notin {"none", "marker"}
  <2>1. old \in Props /\ Shown(old) /\ old # new
    BY <1>0, <1>2, <1>9, FileFacts DEF Shown
  <2>2. \A m \in Names : m # n => file[m].prop # old
    BY <1>9 DEF ClaimInv, OneName
  <2>3. ~Shown(old)'
    BY <1>1, <2>1, <2>2 DEF Shown
  <2>4. Life(old) = "pending" /\ Life(old)' = "closed"
    <3>1. /\ Life(old) = "pending" /\ old <= published
          /\ ~HasReached(old, "claimed") /\ ~HasReached(old, "ran")
      BY <2>1, ShownLife
    <3>2. /\ ~(old > published')
          /\ ~HasReached(old, "claimed")' /\ ~HasReached(old, "ran")'
      BY <1>0, <1>3, <2>1, <3>1, PropsAreNat
    <3> QED BY <2>3, <3>1, <3>2, LifeIsAfter
  <2>5. \A q \in Props : q # new /\ q # old => Life(q)' = Life(q)
    BY <1>6, <1>7
  <2>6. Lives' = [Lives EXCEPT ![new] = "pending", ![old] = "closed"]
    BY <1>0, <1>4, <2>1, <2>4, <2>5 DEF Lives
  <2>7. Lives[new] = "unborn" /\ Lives[old] = "pending"
    BY <1>0, <1>4, <2>1, <2>4 DEF Lives
  <2>8. Abstract!Publish(new)
    BY <2>1, <2>6, <2>7 DEF Abstract!Publish, Lives
  <2> QED BY <1>0, <2>8 DEF Abstract!LifeNext
<1> QED BY <1>8, <1>9

LEMMA SameLives ==
    ASSUME UNCHANGED <<file, published, app, runs>>
    PROVE  UNCHANGED Abstract!lifeVars
<1>1. \A q \in Props : Life(q)' = Life(q)
  BY DEF Life
<1> QED BY <1>1 DEF Abstract!lifeVars

LEMMA UnlinkLives ==
    ASSUME TypeInv, ClaimInv, NEW n \in Names, file[n].kind # "none", Unlink(n),
           UNCHANGED <<published, app, runs>>, NEW old, old = file[n].prop
    PROVE  Abstract!LifeNext \/ UNCHANGED Abstract!lifeVars
<1>0. OutboxTypeOK /\ published \in Nat /\ old \in Props /\ old <= published
  BY FileFacts DEF TypeInv, TypeOK, OutboxTypeOK, ClaimInv, OnlyPublished
<1>1. /\ \A m \in Names : m # n => file'[m] = file[m] /\ file[m].prop # old
      /\ file'[n].prop = 0
  BY <1>0 DEF Unlink, OutboxTypeOK, NoFile, ClaimInv, OneName
<1>2. \A q, pc : HasReached(q, pc)' <=> HasReached(q, pc)
  BY DEF HasReached
<1>3. ~Shown(old)'
  BY <1>0, <1>1, PropsAreNat DEF Shown
<1>4. \A q \in Props : q # old => (Shown(q)' <=> Shown(q))
  BY <1>1, PropsAreNat DEF Shown
<1>5. \A q \in Props : q # old => Life(q)' = Life(q)
  BY <1>2, <1>4, SameLife
<1>6. CASE ~Shown(old)
  <2>1. \A q \in Props : Life(q)' = Life(q)
    BY <1>0, <1>2, <1>3, <1>5, <1>6, SameLife
  <2> QED BY <2>1 DEF Abstract!lifeVars
<1>7. CASE Shown(old)
  <2>1. Life(old) = "pending" /\ Life(old)' = "closed"
    BY <1>0, <1>2, <1>3, <1>7, ShownLife, LifeIsAfter, PropsAreNat
  <2>2. Lives' = [Lives EXCEPT ![old] = "closed"]
    BY <1>0, <1>5, <2>1, OneLife
  <2>3. Abstract!Closed(old)
    BY <1>0, <2>1, <2>2 DEF Abstract!Closed, Abstract!Move, Lives
  <2> QED BY <1>0, <2>3 DEF Abstract!LifeNext
<1> QED BY <1>6, <1>7
-----------------------------------------------------------------------------
(* Steps of a request *)

LEMMA ClaimLives ==
    ASSUME TypeInv, ClaimInv, NEW a \in Approvers, Claim(a),
           NEW n, n = app[a].name, NEW q, q = file[n].prop
    PROVE  Abstract!LifeNext
<1>0. /\ OutboxTypeOK /\ app \in [Approvers -> Requests]
      /\ app[a].pc = "reviewed" /\ n \in Names
  BY DEF TypeInv, TypeOK, ApprovalTypeOK, RequestShape, Claim
<1>1. /\ file[n].kind = "approvable" /\ file[n] \in Envelopes /\ q \in Props
      /\ Marker(file[n]).prop = q /\ Marker(file[n]).kind = "marker"
  BY <1>0, FileFacts, MarkerFacts DEF Claim, ClaimStatus, Approvable
<1>2. file'[n] = Marker(file[n]) /\ \A m \in Names : m # n => file'[m] = file[m]
  BY <1>0 DEF Claim, WriteAtomic, OutboxTypeOK
<1>3. /\ app'[a].pc = "claimed" /\ app'[a].claim.prop = q
      /\ \A b \in Approvers : b # a => app'[b] = app[b]
      /\ UNCHANGED <<published, runs>>
  BY <1>0 DEF Claim, Requests
<1>4. Shown(q) /\ Life(q) = "pending" /\ q <= published
  <2>1. Shown(q)
    BY <1>0, <1>1 DEF Shown
  <2> QED BY <1>1, <2>1, ShownLife
<1>5. ~Shown(q)'
  <2>1. \A m \in Names : m # n => file[m].prop # q
    BY <1>0, <1>1 DEF ClaimInv, OneName
  <2> QED BY <1>1, <1>2, <2>1 DEF Shown
<1>6. Life(q)' = "claimed"
  <2>1. HasReached(q, "claimed")'
    BY <1>3 DEF HasReached
  <2>2. ~(q > published')
    BY <1>1, <1>3, <1>4, PropsAreNat DEF TypeInv, TypeOK, OutboxTypeOK
  <2> QED BY <1>5, <2>1, <2>2, LifeIsAfter
<1>7. ASSUME NEW p \in Props, p # q PROVE Life(p)' = Life(p)
  <2>1. Shown(p)' <=> Shown(p)
    BY <1>1, <1>2, <1>7 DEF Shown
  <2>2. \A pc \in {"claimed", "ran"} : HasReached(p, pc)' <=> HasReached(p, pc)
    BY <1>0, <1>3, <1>7 DEF HasReached
  <2> QED BY <1>3, <2>1, <2>2, SameLife
<1>8. Lives' = [Lives EXCEPT ![q] = "claimed"]
  BY <1>1, <1>6, <1>7, OneLife
<1>9. Abstract!Claimed(q)
  BY <1>1, <1>3, <1>4, <1>8 DEF Abstract!Claimed, Abstract!Move, Lives
<1> QED BY <1>1, <1>9 DEF Abstract!LifeNext

LEMMA RunLives ==
    ASSUME TypeInv, ClaimInv, NEW a \in Approvers, Run(a), NEW q, q = app[a].claim.prop
    PROVE  Abstract!LifeNext
<1>0. /\ app \in [Approvers -> Requests] /\ runs \in [Props -> Nat]
      /\ app[a].pc = "claimed" /\ Running(a) /\ published \in Nat
  BY DEF TypeInv, TypeOK, ApprovalTypeOK, OutboxTypeOK, Run, Running
<1>1. /\ q \in Props /\ q <= published /\ ~Shown(q) /\ Life(q) = "claimed"
      /\ ~HasReached(q, "ran")
  BY <1>0, RunnerLife
<1>2. PICK r \in Results :
         /\ app' = [app EXCEPT ![a].pc = "ran", ![a].result = r]
         /\ runs' = [runs EXCEPT ![q] = @ + (IF r = "denied" THEN 0 ELSE 1)]
  BY DEF Run
<1>3. /\ app'[a].pc = "ran" /\ app'[a].claim = app[a].claim
      /\ \A b \in Approvers : b # a => app'[b] = app[b]
  <2>1. app'[a] = [app[a] EXCEPT !.pc = "ran", !.result = r]
    BY <1>0, <1>2
  <2>2. app'[a].pc = "ran" /\ app'[a].claim = app[a].claim
    BY <1>0, <2>1 DEF Requests
  <2> QED BY <1>0, <1>2, <2>2
<1>4. UNCHANGED <<file, published>>
  BY DEF Run, outboxVars
<1>5. \A p : Shown(p)' <=> Shown(p)
  BY <1>4 DEF Shown
<1>6. Life(q)' = "ran"
  <2>1. HasReached(q, "ran")'
    BY <1>3 DEF HasReached
  <2>2. ~HasReached(q, "claimed")'
    BY <1>0, <1>3 DEF HasReached, ClaimInv, OneRunnerPerPayload, Running
  <2>3. ~(q > published')
    BY <1>0, <1>1, <1>4, PropsAreNat
  <2> QED BY <1>1, <1>5, <2>1, <2>2, <2>3, LifeIsAfter
<1>7. ASSUME NEW p \in Props, p # q PROVE Life(p)' = Life(p)
  <2>1. \A pc \in {"claimed", "ran"} : HasReached(p, pc)' <=> HasReached(p, pc)
    BY <1>0, <1>3, <1>7 DEF HasReached
  <2> QED BY <1>4, <1>5, <2>1, SameLife
<1>8. Lives' = [Lives EXCEPT ![q] = "ran"]
  BY <1>1, <1>6, <1>7, OneLife
<1>9. runs' \in {runs, [runs EXCEPT ![q] = @ + 1]}
  <2>1. CASE r = "denied"
    <3>1. \A p \in Props : runs'[p] = runs[p]
      BY <1>0, <1>1, <1>2, <2>1
    <3>2. runs' = [p \in Props |-> runs'[p]] /\ runs = [p \in Props |-> runs[p]]
      BY <1>0, <1>2
    <3> QED BY <3>1, <3>2
  <2>2. CASE r # "denied"
    BY <1>2, <2>2
  <2> QED BY <2>1, <2>2
<1>10. Abstract!Ran(q)
  BY <1>1, <1>8, <1>9 DEF Abstract!Ran, Abstract!Move, Lives
<1> QED BY <1>1, <1>10 DEF Abstract!LifeNext

\* A claim that ends leaves its payload to be shown again, or closed.
LEMMA EndLives ==
    ASSUME TypeInv, ClaimInv, NEW a \in Approvers, Running(a), NEW q, q = app[a].claim.prop,
           app'[a].pc \notin {"claimed", "ran"},
           \A b \in Approvers : b # a => app'[b] = app[b],
           UNCHANGED <<published, runs>>,
           \A p \in Props : p # q => (Shown(p)' <=> Shown(p)),
           Shown(q)' => app[a].pc = "ran"
    PROVE  Abstract!LifeNext
<1>0. published \in Nat
  BY DEF TypeInv, TypeOK, OutboxTypeOK
<1>1. q \in Props /\ q <= published /\ Life(q) = app[a].pc
  BY RunnerLife
<1>2. ~(q > published')
  BY <1>0, <1>1, PropsAreNat
<1>3. ~HasReached(q, "claimed")' /\ ~HasReached(q, "ran")'
  BY DEF HasReached, ClaimInv, OneRunnerPerPayload, Running
<1>4. ASSUME NEW p \in Props, p # q PROVE Life(p)' = Life(p)
  <2>1. \A pc \in {"claimed", "ran"} : HasReached(p, pc)' <=> HasReached(p, pc)
    BY <1>4 DEF HasReached
  <2> QED BY <1>4, <2>1, SameLife
<1>5. CASE Shown(q)'
  <2>1. Life(q)' = "pending" /\ Life(q) = "ran"
    BY <1>1, <1>2, <1>5, LifeIsAfter
  <2>2. Lives' = [Lives EXCEPT ![q] = "pending"]
    BY <1>1, <1>4, <2>1, OneLife
  <2>3. Abstract!Restored(q)
    BY <1>1, <2>1, <2>2 DEF Abstract!Restored, Abstract!Move, Lives
  <2> QED BY <1>1, <2>3 DEF Abstract!LifeNext
<1>6. CASE ~Shown(q)'
  <2>1. Life(q)' = "closed" /\ Life(q) \in {"claimed", "ran"}
    BY <1>1, <1>2, <1>3, <1>6, LifeIsAfter DEF Running
  <2>2. Lives' = [Lives EXCEPT ![q] = "closed"]
    BY <1>1, <1>4, <2>1, OneLife
  <2>3. Abstract!Closed(q)
    BY <1>1, <2>1, <2>2 DEF Abstract!Closed, Abstract!Move, Lives
  <2> QED BY <1>1, <2>3 DEF Abstract!LifeNext
<1> QED BY <1>5, <1>6

\* A request that runs nothing before or after the step.
LEMMA BystanderLives ==
    ASSUME TypeInv, NEW a \in Approvers, ~Running(a), app'[a].pc \notin {"claimed", "ran"},
           \A b \in Approvers : b # a => app'[b] = app[b],
           UNCHANGED <<file, published, runs>>
    PROVE  UNCHANGED Abstract!lifeVars
<1>1. ASSUME NEW p \in Props PROVE Life(p)' = Life(p)
  <2>1. \A pc \in {"claimed", "ran"} : HasReached(p, pc)' <=> HasReached(p, pc)
    BY DEF HasReached, Running
  <2>2. Shown(p)' <=> Shown(p)
    BY DEF Shown
  <2> QED BY <2>1, <2>2, SameLife
<1> QED BY <1>1 DEF Abstract!lifeVars

LEMMA FinishLives ==
    ASSUME TypeInv, ClaimInv, NEW a \in Approvers, FinishSuccess(a) \/ FinishFailure(a),
           NEW n, n = app[a].name, NEW q, q = app[a].claim.prop
    PROVE  Abstract!LifeNext
<1>0. /\ OutboxTypeOK /\ app \in [Approvers -> Requests]
      /\ app[a].pc = "ran" /\ Running(a) /\ HasClaim(a)
      /\ file[n] = Marker(app[a].claim)
      /\ UNCHANGED <<published, runs>>
  BY DEF TypeInv, TypeOK, ApprovalTypeOK, FinishSuccess, FinishFailure, Running, HasClaim, OwnsMarker
<1>1. /\ n \in Names /\ app[a].claim \in Envelopes /\ q \in Props
      /\ file[n].prop = q /\ file[n].kind = "marker"
  BY <1>0, ClaimFacts, MarkerFacts
<1>2. /\ \A m \in Names : m # n => file'[m] = file[m]
      /\ file'[n].prop \in {0, q}
  <2>1. CASE FinishSuccess(a)
    BY <1>0, <1>1, <2>1 DEF FinishSuccess, Unlink, NoFile, OutboxTypeOK
  <2>2. CASE FinishFailure(a)
    <3>1. [app[a].claim EXCEPT !.tries = @ + 1].prop = q
      BY <1>1 DEF Envelopes
    <3> QED BY <1>0, <1>1, <2>2, <3>1 DEF FinishFailure, RestorePayload, WriteAtomic, OutboxTypeOK
  <2> QED BY <2>1, <2>2
<1>3. \A p \in Props : p # q => (Shown(p)' <=> Shown(p))
  BY <1>1, <1>2, PropsAreNat DEF Shown
<1>4. app'[a].pc \notin {"claimed", "ran"} /\ \A b \in Approvers : b # a => app'[b] = app[b]
  <2>1. CASE FinishSuccess(a)
    BY <1>0, <2>1 DEF FinishSuccess, Requests
  <2>2. CASE FinishFailure(a)
    BY <1>0, <2>2 DEF FinishFailure, IdleRequest
  <2> QED BY <2>1, <2>2
<1> QED BY <1>0, <1>3, <1>4, EndLives

\* A request that goes back to idle and leaves the files alone.
LEMMA BackToIdleLives ==
    ASSUME TypeInv, ClaimInv, NEW a \in Approvers, app' = [app EXCEPT ![a] = IdleRequest],
           UNCHANGED <<file, published, runs>>, NEW q, q = app[a].claim.prop
    PROVE  Abstract!LifeNext \/ UNCHANGED Abstract!lifeVars
<1>1. /\ app'[a].pc \notin {"claimed", "ran"}
      /\ \A b \in Approvers : b # a => app'[b] = app[b]
  BY DEF TypeInv, TypeOK, ApprovalTypeOK, IdleRequest
<1>2. CASE ~Running(a)
  BY <1>1, <1>2, BystanderLives
<1>3. CASE Running(a)
  <2>1. ~Shown(q)
    BY <1>3, RunnerLife
  <2>2. \A p : Shown(p)' <=> Shown(p)
    BY DEF Shown
  <2> QED BY <1>1, <1>3, <2>1, <2>2, EndLives
<1> QED BY <1>2, <1>3

LEMMA ApprovalLives ==
    ASSUME TypeInv, ClaimInv, ApprovalNext
    PROVE  Abstract!LifeNext \/ UNCHANGED Abstract!lifeVars
<1> PICK a \in Approvers :
        \/ \E n \in Names : Review(a, n)
        \/ Claim(a)
        \/ ClaimRefused(a)
        \/ Run(a)
        \/ FinishSuccess(a)
        \/ FinishFailure(a)
        \/ FinishConflict(a)
        \/ RecordApproved(a)
        \/ AbandonApproval(a)
  BY DEF ApprovalNext
<1>1. CASE \E n \in Names : Review(a, n)
  <2>1. \A n : [IdleRequest EXCEPT !.pc = "reviewed", !.name = n].pc = "reviewed"
    BY DEF IdleRequest
  <2>2. /\ ~Running(a) /\ app'[a].pc = "reviewed"
        /\ \A b \in Approvers : b # a => app'[b] = app[b]
        /\ UNCHANGED <<file, published, runs>>
    BY <1>1, <2>1 DEF Review, TypeInv, TypeOK, ApprovalTypeOK, Running, outboxVars
  <2> QED BY <2>2, BystanderLives
<1>2. CASE ClaimRefused(a) \/ FinishConflict(a) \/ RecordApproved(a) \/ AbandonApproval(a)
  <2>1. app' = [app EXCEPT ![a] = IdleRequest] /\ UNCHANGED <<file, published, runs>>
    BY <1>2 DEF ClaimRefused, FinishConflict, RecordApproved, AbandonApproval, outboxVars
  <2> QED BY <2>1, BackToIdleLives
<1> QED BY <1>1, <1>2, ClaimLives, RunLives, FinishLives

-----------------------------------------------------------------------------

LEMMA LoopLives ==
    ASSUME TypeInv, ClaimInv, LoopNext, UNCHANGED <<approvalVars, retentionVars>>
    PROVE  Abstract!LifeNext \/ UNCHANGED Abstract!lifeVars
<1>1. \/ UNCHANGED <<file, published>>
      \/ \E n \in Names, kind \in {"approvable", "note"} : PublishEnvelope(n, kind)
  BY DEF LoopNext, LoopStep, ReadCooldowns, ReadFeed, Snapshot, PassOver, Triage, Propose,
         SkipProposed, ExecuteCandidate, EndPass, AbandonPass, DispatchCheck, DispatchWrite,
         outboxVars
<1> QED BY <1>1, PublishLives, SameLives DEF approvalVars

LEMMA RetentionLives ==
    ASSUME TypeInv, ClaimInv, RetentionNext
    PROVE  Abstract!LifeNext \/ UNCHANGED Abstract!lifeVars
<1>1. UNCHANGED <<app, runs>>
  BY DEF RetentionNext, PruneStep, BeginPrune, LockCandidate, SkipCandidate, CoolCandidate,
         RemoveCandidate, KeepCandidate, RecordExpired, EndPrune, AbandonPrune, BeginReconcile,
         Reconcile, SkipReconcile, AbandonReconcile, approvalVars
<1>2. ASSUME NEW p \in Pruners, RemoveCandidate(p)
      PROVE  \E n \in Names : file[n].kind # "none" /\ Unlink(n) /\ published' = published
  <2> DEFINE n == prune[p].held[1]
  <2>1. n \in Names /\ prune[p].held[2].kind = "approvable"
    BY <1>2 DEF TypeInv, PruneShape, RemoveCandidate, Candidates
  <2>2. file[n] = prune[p].held[2]
    BY <1>2 DEF RemoveCandidate, Seen
  <2> QED BY <1>2, <2>1, <2>2 DEF RemoveCandidate
<1>3. \/ UNCHANGED <<file, published>>
      \/ \E n \in Names, kind \in {"approvable", "note"} : PublishEnvelope(n, kind)
      \/ \E p \in Pruners : RemoveCandidate(p)
  BY DEF RetentionNext, PruneStep, BeginPrune, LockCandidate, SkipCandidate, CoolCandidate,
         KeepCandidate, RecordExpired, EndPrune, AbandonPrune, BeginReconcile,
         Reconcile, SkipReconcile, AbandonReconcile, outboxVars
<1> QED BY <1>1, <1>2, <1>3, PublishLives, UnlinkLives, SameLives

LEMMA EnvironmentLives ==
    ASSUME TypeInv, ClaimInv, Environment
    PROVE  Abstract!LifeNext \/ UNCHANGED Abstract!lifeVars
<1>1. UNCHANGED <<app, runs>>
  BY DEF Environment, approvalVars
<1>2. ASSUME NEW n \in Names, OperatorDeletes(n)
      PROVE  Abstract!LifeNext \/ UNCHANGED Abstract!lifeVars
  <2>1. file[n].kind # "none"
    BY <1>2, FileFacts DEF OperatorDeletes, Listed, TypeInv, TypeOK
  <2> QED BY <1>1, <1>2, <2>1, UnlinkLives DEF OperatorDeletes
<1>3. CASE Tick
  BY <1>1, <1>3, SameLives DEF Tick
<1> QED BY <1>2, <1>3 DEF Environment

LEMMA StepLives ==
    TypeInv /\ ClaimInv /\ [Next]_vars => [Abstract!LifeNext]_(Abstract!lifeVars)
<1>1. UNCHANGED vars => UNCHANGED Abstract!lifeVars
  BY SameLives DEF vars, outboxVars, approvalVars
<1> QED BY <1>1, ApprovalLives, LoopLives, RetentionLives, EnvironmentLives DEF Next

\* Files, locks, markers, crashes and the operator's deletions implement the
\* life of a recorded payload, step by step, for any number of actors
\* (companion/outbox.py behind ProposalLife's promise).
THEOREM OutboxImplementsLife == Spec => ImplementsProposalLife
<1>1. Spec => Abstract!LifeInit /\ [][Abstract!LifeNext]_(Abstract!lifeVars)
  BY LifeInitially, StepLives, TypesHold, ClaimsHold, PTL DEF Spec
<1> QED BY <1>1 DEF ImplementsProposalLife, Abstract!LifeSpec

=============================================================================
