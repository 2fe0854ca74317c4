--------------------------- MODULE CompanionProofs ---------------------------
(***************************************************************************)
(* Theorems about the proposal workflow, for every set of names, items and *)
(* actors and every bound.  TypeInv is inductive by itself; PayloadInv is  *)
(* inductive relative to it and gives the safety properties of payloads.   *)
(***************************************************************************)
EXTENDS Companion, TLAPS, FiniteSetTheorems

-----------------------------------------------------------------------------
(* Types *)

\* A request knows its name from the review on, and from the claim on the
\* approvable envelope it claimed.
RequestShape ==
    \A a \in Approvers :
        /\ app[a].pc # "idle" => app[a].name \in Names
        /\ app[a].pc \in {"claimed", "ran", "removed"} =>
             /\ app[a].claim \in Envelopes
             /\ app[a].claim.kind = "approvable"
             /\ app[a].claim.tries < MaxTries
        /\ app[a].pc = "ran" => app[a].result \in Results

\* A prune pass past its choice holds an approvable envelope it listed.
PruneShape ==
    \A p \in Pruners :
        prune[p].pc \in {"locked", "cooled", "removed"} =>
            /\ prune[p].held \in Candidates
            /\ prune[p].held[2].kind = "approvable"

TypeInv == TypeOK /\ RequestShape /\ PruneShape

LEMMA EnvelopeFacts ==
    /\ NoFile \notin Envelopes
    /\ \A e \in Envelopes : e.prop \in Props /\ e.kind \in Kinds /\ e.tries \in 0..MaxTries
                            /\ e.born \in 0..MaxTime
BY DEF Envelopes, NoFile, Props, Kinds

LEMMA InitTypes == Init => TypeInv
<1> SUFFICES ASSUME Init PROVE TypeInv
  OBVIOUS
<1> USE OutboxAssumption, SuppressAssumption, RetentionAssumption, CompanionAssumption
<1>1. OutboxTypeOK
  <2>1. PICK old \in SUBSET Names :
          /\ Cardinality(old) <= MaxProposals
          /\ published = Cardinality(old)
          /\ \E id \in [old -> 1..Cardinality(old)], kind \in [old -> InitialKinds] :
               file = [n \in Names |->
                        IF n \in old
                        THEN [prop |-> id[n], kind |-> kind[n], tries |-> 0, born |-> 0]
                        ELSE NoFile]
    BY DEF Init, OutboxInit
  <2>2. Cardinality(old) \in Nat
    BY FS_Subset, FS_CardinalityType
  <2>3. PICK id \in [old -> 1..Cardinality(old)], kind \in [old -> InitialKinds] :
               file = [n \in Names |->
                        IF n \in old
                        THEN [prop |-> id[n], kind |-> kind[n], tries |-> 0, born |-> 0]
                        ELSE NoFile]
    BY <2>1
  <2>4. \A n \in old : [prop |-> id[n], kind |-> kind[n], tries |-> 0, born |-> 0] \in Envelopes
    <3> SUFFICES ASSUME NEW n \in old
                 PROVE  [prop |-> id[n], kind |-> kind[n], tries |-> 0, born |-> 0] \in Envelopes
      OBVIOUS
    <3>1. id[n] \in Props
      BY <2>1, <2>2 DEF Props
    <3>2. kind[n] \in Kinds
      BY DEF Kinds
    <3>3. 0 \in 0..MaxTries /\ 0 \in 0..MaxTime
      OBVIOUS
    <3> QED BY <3>1, <3>2, <3>3 DEF Envelopes
  <2>5. file \in [Names -> Envelopes \cup {NoFile}]
    BY <2>3, <2>4
  <2>6. published \in 0..MaxProposals
    BY <2>1, <2>2
  <2> QED BY <2>5, <2>6 DEF Init, OutboxInit, OutboxTypeOK
<1>2. SuppressTypeOK
  BY DEF Init, SuppressInit, SuppressTypeOK
<1>3. ApprovalTypeOK /\ RequestShape
  <2>1. IdleRequest \in Requests /\ IdleRequest.pc = "idle"
    BY DEF IdleRequest, Requests
  <2>2. log \in Seq(Outcomes)
    BY DEF Init, ApprovalInit
  <2> QED BY <2>1, <2>2 DEF Init, ApprovalInit, ApprovalTypeOK, RequestShape
<1>4. LoopTypeOK
  <2>1. IdlePass \in Passes
    BY DEF IdlePass, Passes
  <2> QED BY <2>1 DEF Init, LoopInit, LoopTypeOK
<1>5. RetentionTypeOK /\ PruneShape
  <2>1. IdlePrune \in PrunePasses /\ IdlePrune.pc = "idle"
    BY DEF IdlePrune, PrunePasses
  <2> QED BY <2>1 DEF Init, RetentionInit, RetentionTypeOK, PruneShape
<1> QED BY <1>1, <1>2, <1>3, <1>4, <1>5 DEF TypeInv, TypeOK

\* Publishing an envelope keeps the outbox well formed.
LEMMA PublishTypes ==
    ASSUME OutboxTypeOK, NEW n \in Names, NEW kind \in Kinds, PublishEnvelope(n, kind)
    PROVE  OutboxTypeOK'
<1> USE OutboxAssumption
<1> DEFINE new == [prop |-> published + 1, kind |-> kind, tries |-> 0, born |-> now]
<1>1. new \in Envelopes
  <2>1. published + 1 \in Props
    BY DEF OutboxTypeOK, PublishEnvelope, Props
  <2>2. 0 \in 0..MaxTries /\ now \in 0..MaxTime
    BY DEF OutboxTypeOK
  <2> QED BY <2>1, <2>2 DEF Envelopes
<1>2. file' = [file EXCEPT ![n] = new]
  BY DEF PublishEnvelope, WriteAtomic
<1>3. file' \in [Names -> Envelopes \cup {NoFile}]
  <2> HIDE DEF new
  <2> QED BY <1>1, <1>2 DEF OutboxTypeOK
<1>4. published' \in 0..MaxProposals
  BY DEF OutboxTypeOK, PublishEnvelope
<1> QED BY <1>3, <1>4 DEF OutboxTypeOK, PublishEnvelope

LEMMA ListedIsEnvelope ==
    ASSUME OutboxTypeOK, NEW n \in Names, file[n].kind # "none"
    PROVE  file[n] \in Envelopes
<1>1. NoFile.kind = "none"
  BY DEF NoFile
<1>2. file[n] \in Envelopes \cup {NoFile}
  BY DEF OutboxTypeOK
<1> QED BY <1>1, <1>2

LEMMA LockTypes ==
    ASSUME OutboxTypeOK, NEW n \in Names, NEW p \in Procs
    PROVE  /\ Acquire(n, p) => lock' \in [Names -> Procs \cup {Free}]
           /\ Release(n) => lock' \in [Names -> Procs \cup {Free}]
           /\ ReleaseAll(p) => lock' \in [Names -> Procs \cup {Free}]
BY DEF OutboxTypeOK, Acquire, Release, ReleaseAll

LEMMA UnlinkTypes ==
    ASSUME OutboxTypeOK, NEW n \in Names, Unlink(n)
    PROVE  file' \in [Names -> Envelopes \cup {NoFile}]
BY DEF OutboxTypeOK, Unlink

LEMMA CooldownTypes ==
    ASSUME SuppressTypeOK, NEW i \in Items, NEW moment \in 0..MaxTime, AddCooldown(i, moment)
    PROVE  SuppressTypeOK'
<1> USE OutboxAssumption, SuppressAssumption
<1>1. \A j \in Items : until'[j] \in 0..(MaxTime + TTL)
  <2> SUFFICES ASSUME NEW j \in Items PROVE until'[j] \in 0..(MaxTime + TTL)
    OBVIOUS
  <2>1. until[j] \in 0..(MaxTime + TTL) /\ 0 \in 0..(MaxTime + TTL)
        /\ moment + TTL \in 0..(MaxTime + TTL)
    BY DEF SuppressTypeOK
  <2>2. until'[j] = IF j = i THEN moment + TTL ELSE IF until[j] > moment THEN until[j] ELSE 0
    BY DEF AddCooldown
  <2> QED BY <2>1, <2>2
<1> QED BY <1>1 DEF SuppressTypeOK, AddCooldown

-----------------------------------------------------------------------------
(* Requests keep the types *)

LEMMA ApprovalTypes ==
    ASSUME TypeInv, ApprovalNext, UNCHANGED <<loopVars, retentionVars>>
    PROVE  TypeInv'
<1> USE OutboxAssumption, ApprovalAssumption
<1>0. /\ OutboxTypeOK /\ ApprovalTypeOK /\ RequestShape
  BY DEF TypeInv, TypeOK
<1>1. /\ until' = until => SuppressTypeOK'
      /\ LoopTypeOK' /\ RetentionTypeOK' /\ PruneShape'
  BY DEF TypeInv, TypeOK, SuppressTypeOK, LoopTypeOK, RetentionTypeOK, PruneShape,
         loopVars, retentionVars
<1>2. IdleRequest \in Requests /\ IdleRequest.pc = "idle"
  BY DEF IdleRequest, Requests
<1>3. SUFFICES OutboxTypeOK' /\ ApprovalTypeOK' /\ RequestShape'
  <2>1. until' = until
    BY DEF ApprovalNext, Review, Claim, ClaimRefused, Run, FinishSuccess, FinishFailure,
           FinishConflict, RecordApproved, AbandonApproval
  <2> QED BY <1>1, <2>1 DEF TypeInv, TypeOK
<1> PICK a \in Approvers :
        \/ \E n \in Names : Review(a, n)
        \/ Claim(a)
        \/ ClaimRefused(a)
        \/ Run(a)
        \/ FinishSuccess(a)
        \/ FinishFailure(a)
        \/ FinishConflict(a)
        \/ RecordApproved(a)
        \/ AbandonApproval(a)
  BY DEF ApprovalNext
<1>4. a \in Procs /\ app[a] \in Requests
  BY <1>0 DEF ApprovalTypeOK
<1>5. CASE \E n \in Names : Review(a, n)
  <2>p. PICK n \in Names : Review(a, n)
    BY <1>5
  <2>2. [IdleRequest EXCEPT !.pc = "reviewed", !.name = n] \in Requests
    BY <1>2 DEF Requests, IdleRequest
  <2> QED BY <1>0, <2>p, <2>2 DEF Review, OutboxTypeOK, outboxVars, ApprovalTypeOK, RequestShape, IdleRequest
<1>6. CASE ClaimRefused(a)
  BY <1>0, <1>2, <1>6 DEF ClaimRefused, OutboxTypeOK, outboxVars, ApprovalTypeOK, RequestShape
<1>7. CASE Claim(a)
  <2> DEFINE n == app[a].name
  <2>1. n \in Names
    BY <1>0, <1>7 DEF Claim, RequestShape
  <2>2. file[n] \in Envelopes /\ file[n].kind = "approvable" /\ file[n].tries < MaxTries
    BY <1>0, <1>7, <2>1 DEF Claim, ClaimStatus, OutboxTypeOK, Approvable, NoFile
  <2>3. Marker(file[n]) \in Envelopes
    BY <2>2 DEF Marker, Envelopes, Kinds
  <2>4. OutboxTypeOK'
    <3>1. file' \in [Names -> Envelopes \cup {NoFile}]
      BY <1>0, <1>7, <2>1, <2>3 DEF Claim, WriteAtomic, OutboxTypeOK
    <3>2. lock' \in [Names -> Procs \cup {Free}]
      BY <1>0, <1>4, <1>7, <2>1, LockTypes DEF Claim
    <3> QED BY <1>0, <1>7, <3>1, <3>2 DEF Claim, OutboxTypeOK
  <2>5. [app[a] EXCEPT !.pc = "claimed", !.claim = file[n]] \in Requests
    BY <1>4, <2>2 DEF Requests
  <2> QED BY <1>0, <1>7, <2>1, <2>2, <2>4, <2>5 DEF Claim, ApprovalTypeOK, RequestShape
<1>8. CASE Run(a)
  <2>1. app[a].claim.prop \in Props
    BY <1>0, <1>8, EnvelopeFacts DEF Run, RequestShape
  <2>2. PICK r \in Results :
          /\ app' = [app EXCEPT ![a].pc = "ran", ![a].result = r]
          /\ runs' = [runs EXCEPT ![app[a].claim.prop] = @ + (IF r = "denied" THEN 0 ELSE 1)]
          /\ effects' = [effects EXCEPT ![app[a].claim.prop]
                           = @ + (IF r \in {"executed", "timedout"} THEN 1 ELSE 0)]
    BY <1>8 DEF Run
  <2>3. [app[a] EXCEPT !.pc = "ran", !.result = r] \in Requests
    BY <1>4 DEF Requests
  <2>4. runs' \in [Props -> Nat] /\ effects' \in [Props -> Nat]
    BY <1>0, <2>1, <2>2 DEF ApprovalTypeOK
  <2>5. app' = [app EXCEPT ![a] = [app[a] EXCEPT !.pc = "ran", !.result = r]]
    BY <1>0, <2>2 DEF ApprovalTypeOK
  <2>6. app' \in [Approvers -> Requests]
    BY <1>0, <2>3, <2>5 DEF ApprovalTypeOK
  <2>7. RequestShape'
    BY <1>0, <1>4, <1>8, <2>5 DEF Run, ApprovalTypeOK, RequestShape, Requests
  <2> QED BY <1>0, <1>8, <2>4, <2>6, <2>7 DEF Run, OutboxTypeOK, outboxVars, ApprovalTypeOK
<1>9. CASE FinishSuccess(a)
  <2>1. app[a].name \in Names
    BY <1>0, <1>9 DEF FinishSuccess, RequestShape
  <2>2. [app[a] EXCEPT !.pc = "removed"] \in Requests
    BY <1>4 DEF Requests
  <2>3. OutboxTypeOK'
    BY <1>0, <1>9, <2>1, UnlinkTypes DEF FinishSuccess, OutboxTypeOK
  <2> QED BY <1>0, <1>9, <2>2, <2>3 DEF FinishSuccess, ApprovalTypeOK, RequestShape
<1>10. CASE FinishFailure(a)
  <2> DEFINE n == app[a].name
  <2> DEFINE claim == app[a].claim
  <2>1. n \in Names /\ claim \in Envelopes /\ claim.tries < MaxTries
    BY <1>0, <1>10 DEF FinishFailure, RequestShape
  <2>2. [claim EXCEPT !.tries = @ + 1] \in Envelopes
    BY <2>1 DEF Envelopes
  <2>3. file' \in [Names -> Envelopes \cup {NoFile}]
    BY <1>0, <1>10, <2>1, <2>2 DEF FinishFailure, RestorePayload, WriteAtomic, OutboxTypeOK
  <2>4. OutboxTypeOK'
    BY <1>0, <1>4, <1>10, <2>1, <2>3, LockTypes DEF FinishFailure, OutboxTypeOK
  <2> QED BY <1>0, <1>2, <1>10, <2>4 DEF FinishFailure, ApprovalTypeOK, RequestShape
<1>11. CASE FinishConflict(a)
  <2>1. app[a].name \in Names
    BY <1>0, <1>11 DEF FinishConflict, RequestShape
  <2>2. OutboxTypeOK'
    BY <1>0, <1>4, <1>11, <2>1, LockTypes DEF FinishConflict, OutboxTypeOK
  <2> QED BY <1>0, <1>2, <1>11, <2>2 DEF FinishConflict, ApprovalTypeOK, RequestShape
<1>12. CASE RecordApproved(a)
  <2>1. app[a].name \in Names /\ app[a].claim.prop \in Props
    BY <1>0, <1>12, EnvelopeFacts DEF RecordApproved, RequestShape
  <2>2. OutboxTypeOK'
    BY <1>0, <1>4, <1>12, <2>1, LockTypes DEF RecordApproved, OutboxTypeOK
  <2>3. Outcome(app[a].name, app[a].claim.prop, "approved", now) \in Outcomes
    BY <1>0, <2>1 DEF Outcome, Outcomes, OutboxTypeOK
  <2>4. log' \in Seq(Outcomes)
    BY <1>0, <1>12, <2>3 DEF RecordApproved, ApprovalTypeOK
  <2> QED BY <1>0, <1>2, <1>12, <2>2, <2>4 DEF RecordApproved, ApprovalTypeOK, RequestShape
<1>13. CASE AbandonApproval(a)
  <2>1. lock' \in [Names -> Procs \cup {Free}]
    BY <1>0, <1>13 DEF AbandonApproval, ReleaseAll, OutboxTypeOK
  <2> QED BY <1>0, <1>2, <1>13, <2>1 DEF AbandonApproval, OutboxTypeOK, ApprovalTypeOK, RequestShape
<1> QED BY <1>5, <1>6, <1>7, <1>8, <1>9, <1>10, <1>11, <1>12, <1>13

-----------------------------------------------------------------------------
(* Loop passes and the dashboard's own proposals keep the types *)

LEMMA LoopTypes ==
    ASSUME TypeInv, LoopNext, UNCHANGED <<approvalVars, retentionVars>>
    PROVE  TypeInv'
<1> USE OutboxAssumption, LoopAssumption
<1>0. OutboxTypeOK /\ SuppressTypeOK /\ LoopTypeOK
  BY DEF TypeInv, TypeOK
<1>1. ApprovalTypeOK' /\ RetentionTypeOK' /\ RequestShape' /\ PruneShape'
  BY DEF TypeInv, TypeOK, ApprovalTypeOK, RetentionTypeOK, RequestShape, PruneShape,
         approvalVars, retentionVars
<1>2. SUFFICES OutboxTypeOK' /\ SuppressTypeOK' /\ LoopTypeOK'
  BY <1>1 DEF TypeInv, TypeOK
<1>3. IdlePass \in Passes
  BY DEF IdlePass, Passes
<1>4. UNCHANGED outboxVars => OutboxTypeOK'
  BY <1>0 DEF OutboxTypeOK, outboxVars
<1>5. UNCHANGED until => SuppressTypeOK'
  BY <1>0 DEF SuppressTypeOK
<1>6. ASSUME NEW l \in Loops, ReadCooldowns(l) \/ LoopStep(l) \/ AbandonPass(l)
      PROVE  OutboxTypeOK' /\ SuppressTypeOK' /\ LoopTypeOK'
  <2>0. pass[l] \in Passes
    BY <1>0 DEF LoopTypeOK
  <2>1. ASSUME NEW i \in Items
        PROVE  Handled(l, i) \in [Loops -> Passes] /\ ThenAct(l, i) \in [Loops -> Passes]
    <3>1. [pass[l] EXCEPT !.todo = @ \ {i}] \in Passes
      BY <2>0 DEF Passes
    <3>2. [[pass[l] EXCEPT !.todo = @ \ {i}] EXCEPT !.acting = {i}] \in Passes
      BY <2>0, <2>1 DEF Passes
    <3>3. Handled(l, i) = [pass EXCEPT ![l] = [pass[l] EXCEPT !.todo = @ \ {i}]]
      BY <1>0 DEF Handled, LoopTypeOK
    <3>4. Handled(l, i) \in [Loops -> Passes]
      BY <1>0, <3>1, <3>3 DEF LoopTypeOK
    <3>5. [Handled(l, i) EXCEPT ![l].acting = {i}] \in [Loops -> Passes]
      BY <3>2, <3>3, <3>4
    <3> QED BY <3>4, <3>5 DEF ThenAct
  <2>2. CASE ReadCooldowns(l)
    <3>1. ActiveCooldowns(now) \in SUBSET Items
      BY DEF ActiveCooldowns
    <3>2. PICK t \in Tiers : pass' = [pass EXCEPT ![l] = [IdlePass EXCEPT
                      !.pc = "cooled", !.tier = t, !.cooled = ActiveCooldowns(now)]]
      BY <2>2 DEF ReadCooldowns
    <3>3. [IdlePass EXCEPT !.pc = "cooled", !.tier = t, !.cooled = ActiveCooldowns(now)] \in Passes
      BY <1>3, <3>1 DEF Passes
    <3> QED BY <1>0, <1>4, <1>5, <2>2, <3>2, <3>3 DEF ReadCooldowns, LoopTypeOK
  <2>3. CASE ReadFeed(l)
    <3>1. [pass[l] EXCEPT !.pc = "fed", !.todo = Items \ (pass[l].cooled \cup ProposedItems)]
            \in Passes
      BY <2>0 DEF Passes
    <3> QED BY <1>0, <1>4, <1>5, <2>3, <3>1 DEF ReadFeed, LoopTypeOK
  <2>4. CASE Snapshot(l)
    <3>1. ProposedItems \in SUBSET Items
      BY DEF ProposedItems, Listed
    <3>2. [pass[l] EXCEPT !.pc = "running", !.already = ProposedItems] \in Passes
      BY <2>0, <3>1 DEF Passes
    <3> QED BY <1>0, <1>4, <1>5, <2>4, <3>2 DEF Snapshot, LoopTypeOK
  <2>5. ASSUME NEW i \in Items, PassOver(l, i) \/ SkipProposed(l, i)
        PROVE  OutboxTypeOK' /\ SuppressTypeOK' /\ LoopTypeOK'
    BY <1>0, <1>4, <1>5, <2>1, <2>5 DEF PassOver, SkipProposed, LoopTypeOK
  <2>6. ASSUME NEW i \in Items, Triage(l, i)
        PROVE  OutboxTypeOK' /\ SuppressTypeOK' /\ LoopTypeOK'
    <3>1. SuppressTypeOK'
      BY <1>0, <1>5, <2>6, CooldownTypes DEF Triage, OutboxTypeOK
    <3> QED BY <1>0, <1>4, <2>1, <2>6, <3>1 DEF Triage, LoopTypeOK
  <2>7. ASSUME NEW i \in Items, Propose(l, i)
        PROVE  OutboxTypeOK' /\ SuppressTypeOK' /\ LoopTypeOK'
    <3>1. OutboxTypeOK'
      BY <1>0, <2>7, PublishTypes DEF Propose, Kinds
    <3> QED BY <1>0, <1>5, <2>1, <2>7, <3>1 DEF Propose, LoopTypeOK
  <2>8. ASSUME NEW i \in Items, ExecuteCandidate(l, i)
        PROVE  OutboxTypeOK' /\ SuppressTypeOK' /\ LoopTypeOK'
    <3>1. [pass[l] EXCEPT !.acting = {}] \in Passes
      BY <2>0 DEF Passes
    <3> QED BY <1>0, <1>4, <1>5, <2>8, <3>1 DEF ExecuteCandidate, LoopTypeOK
  <2>9. CASE EndPass(l) \/ AbandonPass(l)
    BY <1>0, <1>3, <1>4, <1>5, <2>9 DEF EndPass, AbandonPass, LoopTypeOK
  <2> QED BY <1>6, <2>2, <2>3, <2>4, <2>5, <2>6, <2>7, <2>8, <2>9 DEF LoopStep
<1>7. ASSUME NEW d \in Dispatchers, NEW i \in Items, DispatchCheck(d, i)
      PROVE  OutboxTypeOK' /\ SuppressTypeOK' /\ LoopTypeOK'
  BY <1>0, <1>4, <1>5, <1>7 DEF DispatchCheck, LoopTypeOK
<1>8. ASSUME NEW d \in Dispatchers, NEW n \in Names, DispatchWrite(d, n)
      PROVE  OutboxTypeOK' /\ SuppressTypeOK' /\ LoopTypeOK'
  <2>1. OutboxTypeOK'
    BY <1>0, <1>8, PublishTypes DEF DispatchWrite, Kinds
  <2> QED BY <1>0, <1>5, <1>8, <2>1 DEF DispatchWrite, LoopTypeOK
<1> QED BY <1>6, <1>7, <1>8 DEF LoopNext

-----------------------------------------------------------------------------
(* Retention keeps the types *)

LEMMA RetentionTypes ==
    ASSUME TypeInv, RetentionNext, UNCHANGED loopVars
    PROVE  TypeInv'
<1> USE OutboxAssumption, RetentionAssumption
<1>0. OutboxTypeOK /\ SuppressTypeOK /\ ApprovalTypeOK /\ RequestShape /\ RetentionTypeOK /\ PruneShape
  BY DEF TypeInv, TypeOK
<1>1. LoopTypeOK'
  BY DEF TypeInv, TypeOK, LoopTypeOK, loopVars
<1>2. UNCHANGED outboxVars => OutboxTypeOK'
  BY <1>0 DEF OutboxTypeOK, outboxVars
<1>3. UNCHANGED until => SuppressTypeOK'
  BY <1>0 DEF SuppressTypeOK
<1>4. UNCHANGED approvalVars => ApprovalTypeOK' /\ RequestShape'
  BY <1>0 DEF ApprovalTypeOK, RequestShape, approvalVars
<1>5. UNCHANGED prune /\ recon' \in [Reconcilers -> SUBSET Candidates]
        => RetentionTypeOK' /\ PruneShape'
  BY <1>0 DEF RetentionTypeOK, PruneShape
<1>6. IdlePrune \in PrunePasses /\ IdlePrune.pc = "idle"
  BY DEF IdlePrune, PrunePasses
<1>7. ASSUME NEW n \in Names, file[n].kind # "none" PROVE Seen(n) \in Candidates
  BY <1>0, <1>7, ListedIsEnvelope DEF Seen, Candidates
<1> DEFINE Goal == /\ OutboxTypeOK /\ SuppressTypeOK /\ ApprovalTypeOK /\ RequestShape
                   /\ RetentionTypeOK /\ PruneShape
<1>8. ASSUME NEW p \in Pruners, BeginPrune(p) \/ PruneStep(p) \/ AbandonPrune(p)
      PROVE  Goal'
  <2>0. p \in Procs /\ prune[p] \in PrunePasses
    BY <1>0 DEF RetentionTypeOK
  <2>1. CASE BeginPrune(p)
    <3>1. PICK chosen \in OldestFirst(Eligible) :
            prune' = [prune EXCEPT ![p] = [IdlePrune EXCEPT !.pc = "choosing",
                         !.moment = now, !.chosen = {Seen(n) : n \in chosen}]]
      BY <2>1 DEF BeginPrune
    <3>2. {Seen(n) : n \in chosen} \subseteq Candidates
      BY <1>7 DEF OldestFirst, Eligible, Approvable
    <3>3. [IdlePrune EXCEPT !.pc = "choosing", !.moment = now,
                            !.chosen = {Seen(n) : n \in chosen}] \in PrunePasses
      BY <1>0, <1>6, <3>2 DEF PrunePasses, OutboxTypeOK
    <3>4. RetentionTypeOK' /\ PruneShape'
      BY <1>0, <2>1, <3>1, <3>3 DEF BeginPrune, RetentionTypeOK, PruneShape
    <3> QED BY <1>2, <1>3, <1>4, <2>1, <3>4 DEF BeginPrune
  <2>2. ASSUME NEW n \in Names, LockCandidate(p, n) PROVE Goal'
    <3>1. Approvable(n)
      BY <2>2 DEF LockCandidate, ClaimStatus
    <3>2. Seen(n) \in Candidates /\ Seen(n)[2].kind = "approvable"
      BY <1>7, <3>1 DEF Approvable, Seen
    <3>3. [prune[p] EXCEPT !.pc = "locked", !.held = Seen(n), !.chosen = @ \ {Seen(n)}] \in PrunePasses
      BY <2>0, <3>2 DEF PrunePasses
    <3>4. prune' = [prune EXCEPT ![p] = [prune[p] EXCEPT !.pc = "locked", !.held = Seen(n),
                                                         !.chosen = @ \ {Seen(n)}]]
      BY <1>0, <2>2 DEF LockCandidate, RetentionTypeOK
    <3>5. RetentionTypeOK'
      BY <1>0, <2>2, <3>3, <3>4 DEF LockCandidate, RetentionTypeOK
    <3>6. PruneShape'
      BY <1>0, <2>0, <3>2, <3>4 DEF PruneShape, RetentionTypeOK, PrunePasses
    <3>7. OutboxTypeOK'
      BY <1>0, <2>0, <2>2, LockTypes DEF LockCandidate, OutboxTypeOK
    <3> QED BY <1>3, <1>4, <2>2, <3>5, <3>6, <3>7 DEF LockCandidate
  <2>3. ASSUME NEW c \in prune[p].chosen, SkipCandidate(p, c) PROVE Goal'
    <3>1. [prune[p] EXCEPT !.chosen = @ \ {c}] \in PrunePasses
      BY <2>0 DEF PrunePasses
    <3>2. RetentionTypeOK' /\ PruneShape'
      BY <1>0, <2>3, <3>1 DEF SkipCandidate, RetentionTypeOK, PruneShape
    <3> QED BY <1>2, <1>3, <1>4, <2>3, <3>2 DEF SkipCandidate
  <2>4. CASE CoolCandidate(p)
    <3>1. prune[p].held \in Candidates /\ prune[p].moment \in 0..MaxTime
      BY <1>0, <2>0, <2>4 DEF CoolCandidate, PruneShape, PrunePasses
    <3>2. ItemOf[prune[p].held[1]] \in Items
      BY <3>1 DEF Candidates
    <3>3. SuppressTypeOK'
      BY <1>0, <2>4, <3>1, <3>2, CooldownTypes DEF CoolCandidate
    <3>4. [prune[p] EXCEPT !.pc = "cooled"] \in PrunePasses
      BY <2>0 DEF PrunePasses
    <3>5. RetentionTypeOK' /\ PruneShape'
      BY <1>0, <2>4, <3>4 DEF CoolCandidate, RetentionTypeOK, PruneShape
    <3> QED BY <1>2, <1>4, <2>4, <3>3, <3>5 DEF CoolCandidate
  <2>5. CASE RemoveCandidate(p)
    <3>1. prune[p].held[1] \in Names
      BY <1>0, <2>5 DEF RemoveCandidate, PruneShape, Candidates
    <3>2. OutboxTypeOK'
      BY <1>0, <2>5, <3>1, UnlinkTypes DEF RemoveCandidate, OutboxTypeOK
    <3>3. [prune[p] EXCEPT !.pc = "removed"] \in PrunePasses
      BY <2>0 DEF PrunePasses
    <3>4. RetentionTypeOK' /\ PruneShape'
      BY <1>0, <2>5, <3>3 DEF RemoveCandidate, RetentionTypeOK, PruneShape
    <3>5. ApprovalTypeOK' /\ RequestShape'
      BY <1>4, <2>5 DEF RemoveCandidate
    <3> QED BY <1>3, <2>5, <3>2, <3>4, <3>5 DEF RemoveCandidate
  <2>6. CASE KeepCandidate(p)
    <3>1. prune[p].held[1] \in Names
      BY <1>0, <2>6 DEF KeepCandidate, PruneShape, Candidates
    <3>2. OutboxTypeOK'
      BY <1>0, <2>0, <2>6, <3>1, LockTypes DEF KeepCandidate, OutboxTypeOK
    <3>3. [prune[p] EXCEPT !.pc = "choosing", !.held = NoCandidate] \in PrunePasses
      BY <2>0 DEF PrunePasses
    <3>4. RetentionTypeOK' /\ PruneShape'
      BY <1>0, <2>6, <3>3 DEF KeepCandidate, RetentionTypeOK, PruneShape
    <3>5. ApprovalTypeOK' /\ RequestShape'
      BY <1>4, <2>6 DEF KeepCandidate
    <3> QED BY <1>3, <2>6, <3>2, <3>4, <3>5 DEF KeepCandidate
  <2>7. CASE RecordExpired(p)
    <3>1. prune[p].held[1] \in Names /\ prune[p].held[2] \in Envelopes
      BY <1>0, <2>7 DEF RecordExpired, PruneShape, Candidates
    <3>2. OutboxTypeOK'
      BY <1>0, <2>0, <2>7, <3>1, LockTypes DEF RecordExpired, OutboxTypeOK
    <3>3. [prune[p] EXCEPT !.pc = "choosing", !.held = NoCandidate] \in PrunePasses
      BY <2>0 DEF PrunePasses
    <3>4. RetentionTypeOK' /\ PruneShape'
      BY <1>0, <2>7, <3>3 DEF RecordExpired, RetentionTypeOK, PruneShape
    <3>5. prune[p].held[2].prop \in Props /\ prune[p].moment \in 0..MaxTime
      BY <2>0, <3>1, EnvelopeFacts DEF PrunePasses
    <3>6. Outcome(prune[p].held[1], prune[p].held[2].prop, "expired", prune[p].moment) \in Outcomes
      BY <3>1, <3>5 DEF Outcome, Outcomes
    <3>7. log' \in Seq(Outcomes)
      BY <1>0, <2>7, <3>6 DEF RecordExpired, ApprovalTypeOK
    <3>8. ApprovalTypeOK' /\ RequestShape'
      BY <1>0, <2>7, <3>7 DEF RecordExpired, ApprovalTypeOK, RequestShape
    <3> QED BY <1>3, <2>7, <3>2, <3>4, <3>8 DEF RecordExpired
  <2>8. CASE EndPrune(p)
    <3>1. RetentionTypeOK' /\ PruneShape'
      BY <1>0, <1>6, <2>8 DEF EndPrune, RetentionTypeOK, PruneShape
    <3> QED BY <1>2, <1>3, <1>4, <2>8, <3>1 DEF EndPrune
  <2>9. CASE AbandonPrune(p)
    <3>1. OutboxTypeOK'
      BY <1>0, <2>9 DEF AbandonPrune, ReleaseAll, OutboxTypeOK
    <3>2. RetentionTypeOK' /\ PruneShape'
      BY <1>0, <1>6, <2>9 DEF AbandonPrune, RetentionTypeOK, PruneShape
    <3>3. ApprovalTypeOK' /\ RequestShape'
      BY <1>4, <2>9 DEF AbandonPrune
    <3> QED BY <1>3, <2>9, <3>1, <3>2, <3>3 DEF AbandonPrune
  <2> QED BY <1>8, <2>1, <2>2, <2>3, <2>4, <2>5, <2>6, <2>7, <2>8, <2>9 DEF PruneStep
<1>9. ASSUME NEW r \in Reconcilers,
             \/ BeginReconcile(r)
             \/ \E n \in Names : Reconcile(r, n)
             \/ \E c \in recon[r] : SkipReconcile(r, c)
             \/ AbandonReconcile(r)
      PROVE  Goal'
  <2>1. CASE BeginReconcile(r)
    <3>1. {Seen(n) : n \in {m \in Names : file[m].kind = "legacy"}} \subseteq Candidates
      BY <1>7
    <3>2. recon' \in [Reconcilers -> SUBSET Candidates]
      BY <1>0, <2>1, <3>1 DEF BeginReconcile, RetentionTypeOK
    <3> QED BY <1>2, <1>3, <1>4, <1>5, <2>1, <3>2 DEF BeginReconcile
  <2>2. ASSUME NEW n \in Names, Reconcile(r, n) PROVE Goal'
    <3>1. OutboxTypeOK'
      BY <1>0, <2>2, PublishTypes DEF Reconcile, Kinds
    <3>2. recon' \in [Reconcilers -> SUBSET Candidates]
      BY <1>0, <2>2 DEF Reconcile, RetentionTypeOK
    <3> QED BY <1>3, <1>4, <1>5, <2>2, <3>1, <3>2 DEF Reconcile
  <2>3. ASSUME NEW c \in recon[r], SkipReconcile(r, c) PROVE Goal'
    <3>1. recon' \in [Reconcilers -> SUBSET Candidates]
      BY <1>0, <2>3 DEF SkipReconcile, RetentionTypeOK
    <3> QED BY <1>2, <1>3, <1>4, <1>5, <2>3, <3>1 DEF SkipReconcile
  <2>4. CASE AbandonReconcile(r)
    <3>1. recon' \in [Reconcilers -> SUBSET Candidates]
      BY <1>0, <2>4 DEF AbandonReconcile, RetentionTypeOK
    <3> QED BY <1>2, <1>3, <1>4, <1>5, <2>4, <3>1 DEF AbandonReconcile
  <2> QED BY <1>9, <2>1, <2>2, <2>3, <2>4
<1> QED BY <1>1, <1>8, <1>9 DEF RetentionNext, TypeInv, TypeOK

-----------------------------------------------------------------------------

LEMMA EnvironmentTypes ==
    ASSUME TypeInv, Environment
    PROVE  TypeInv'
<1> USE OutboxAssumption
<1>1. OutboxTypeOK'
  <2>1. OutboxTypeOK
    BY DEF TypeInv, TypeOK
  <2> QED BY <2>1, UnlinkTypes DEF Environment, OperatorDeletes, Tick, OutboxTypeOK
<1> QED BY <1>1 DEF Environment, TypeInv, TypeOK, SuppressTypeOK, ApprovalTypeOK, LoopTypeOK,
               RetentionTypeOK, RequestShape, PruneShape, approvalVars, loopVars, retentionVars

LEMMA StutterTypes ==
    ASSUME TypeInv, UNCHANGED vars
    PROVE  TypeInv'
BY DEF vars, outboxVars, approvalVars, loopVars, retentionVars, TypeInv, TypeOK, OutboxTypeOK,
       SuppressTypeOK, ApprovalTypeOK, LoopTypeOK, RetentionTypeOK, RequestShape, PruneShape

LEMMA TypesInductive == TypeInv /\ [Next]_vars => TypeInv'
BY ApprovalTypes, LoopTypes, RetentionTypes, EnvironmentTypes, StutterTypes DEF Next

LEMMA TypesHold == Spec => []TypeInv
BY InitTypes, TypesInductive, PTL DEF Spec

\* Every reachable state is well typed, whatever the actors do and however long
\* (all the modules' variables).
THEOREM TypeCorrect == Spec => []TypeOK
<1>1. TypeInv => TypeOK
  BY DEF TypeInv
<1> QED BY <1>1, TypesHold, PTL

=============================================================================
