------------------------ MODULE CompanionPayloadProofs ------------------------
(***************************************************************************)
(* What happens to a payload, for every set of names, requests and passes. *)
(* ClaimInv relates the files to the claims that are running: it gives     *)
(* RerunOnlyAfterFailure, OneRunnerPerPayload and GoneIsGone.  It does not *)
(* need the locks: a claim is safe because the marker it leaves is not     *)
(* approvable, and its end is safe because it compares the marker's        *)
(* identity.  CompanionOutcomeProofs goes on from here.                    *)
(***************************************************************************)
EXTENDS CompanionProofs

HasClaim(a) == app[a].pc \in {"claimed", "ran", "removed"}

\* A payload is under one name at most.
OneName ==
    \A n, m \in Names : file[n].kind # "none" /\ file[n].prop = file[m].prop => n = m

\* Only published payloads are on disk, claimed or run.
OnlyPublished ==
    /\ \A n \in Names : file[n].prop <= published
    /\ \A a \in Approvers : HasClaim(a) => app[a].claim.prop <= published
    /\ \A p \in Props : p > published => runs[p] = 0

\* While a claim runs, its payload is on disk as its marker or not at all.
RunningIsMarked ==
    \A a \in Approvers, n \in Names :
        Running(a) /\ file[n].prop = app[a].claim.prop => file[n] = Marker(app[a].claim)

\* A claim was made after as many failures as starts.
StartsReported ==
    \A a \in Approvers :
        /\ app[a].pc = "claimed" => runs[app[a].claim.prop] <= app[a].claim.tries
        /\ app[a].pc = "ran" => runs[app[a].claim.prop] <= app[a].claim.tries + 1

ClaimInv ==
    /\ OneName
    /\ OnlyPublished
    /\ RunningIsMarked
    /\ StartsReported
    /\ RerunOnlyAfterFailure
    /\ OneRunnerPerPayload

-----------------------------------------------------------------------------
(* Facts about types *)

LEMMA FileFacts ==
    ASSUME OutboxTypeOK, NEW n \in Names
    PROVE  /\ file[n].prop \in Nat
           /\ file[n].tries \in Nat
           /\ file[n].kind # "none" => file[n] \in Envelopes /\ file[n].prop \in Props
           /\ file[n].kind = "none" => file[n] = NoFile /\ file[n].prop = 0
<1>1. file[n] \in Envelopes \cup {NoFile}
  BY DEF OutboxTypeOK
<1>2. NoFile.prop = 0 /\ NoFile.tries = 0 /\ NoFile.kind = "none"
  BY DEF NoFile
<1>3. "none" \notin Kinds
  BY DEF Kinds
<1>4. \A e \in Envelopes : e.prop \in Nat /\ e.tries \in Nat
  BY EnvelopeFacts, OutboxAssumption DEF Props
<1> QED BY <1>1, <1>2, <1>3, <1>4, EnvelopeFacts

LEMMA ClaimFacts ==
    ASSUME TypeInv, NEW a \in Approvers, HasClaim(a)
    PROVE  /\ app[a].name \in Names
           /\ app[a].claim \in Envelopes
           /\ app[a].claim.prop \in Props
           /\ app[a].claim.prop \in Nat
           /\ app[a].claim.tries \in Nat
           /\ app[a].claim.kind = "approvable"
           /\ runs[app[a].claim.prop] \in Nat
           /\ effects[app[a].claim.prop] \in Nat
<1>1. /\ app[a].name \in Names
      /\ app[a].claim \in Envelopes
      /\ app[a].claim.kind = "approvable"
  BY DEF TypeInv, RequestShape, HasClaim
<1>2. app[a].claim.prop \in Props /\ app[a].claim.tries \in 0..MaxTries
  BY <1>1, EnvelopeFacts
<1> QED BY <1>1, <1>2, OutboxAssumption DEF TypeInv, TypeOK, ApprovalTypeOK, Props

LEMMA MarkerFacts ==
    ASSUME NEW e \in Envelopes
    PROVE  /\ Marker(e) \in Envelopes
           /\ Marker(e).prop = e.prop
           /\ Marker(e).kind = "marker"
BY DEF Marker, Envelopes, Kinds

-----------------------------------------------------------------------------
(* The initial states *)

LEMMA InitClaims == Init => ClaimInv
<1> SUFFICES ASSUME Init PROVE ClaimInv
  OBVIOUS
<1> USE OutboxAssumption, CompanionAssumption
<1>1. PICK old \in SUBSET Names :
        /\ Cardinality(old) <= MaxProposals
        /\ published = Cardinality(old)
        /\ \E id \in [old -> 1..Cardinality(old)], kind \in [old -> InitialKinds] :
             /\ \A n, m \in old : id[n] = id[m] => n = m
             /\ file = [n \in Names |->
                      IF n \in old
                      THEN [prop |-> id[n], kind |-> kind[n], tries |-> 0, born |-> 0]
                      ELSE NoFile]
  BY DEF Init, OutboxInit
<1>2. published \in Nat
  BY <1>1, FS_Subset, FS_CardinalityType
<1>3. PICK id \in [old -> 1..published], kind \in [old -> InitialKinds] :
        /\ \A n, m \in old : id[n] = id[m] => n = m
        /\ file = [n \in Names |->
                      IF n \in old
                      THEN [prop |-> id[n], kind |-> kind[n], tries |-> 0, born |-> 0]
                      ELSE NoFile]
  BY <1>1
<1>4. \A n \in Names : file[n].prop \in 0..published /\ file[n].tries = 0
  BY <1>2, <1>3 DEF NoFile
<1>5. OneName
  BY <1>2, <1>3 DEF OneName, NoFile
<1>6. \A p \in Props : runs[p] = 0
  BY DEF Init, ApprovalInit
<1>7. \A a \in Approvers : app[a].pc = "idle"
  BY DEF Init, ApprovalInit, IdleRequest
<1>8. RerunOnlyAfterFailure
  <2> SUFFICES ASSUME NEW n \in Names, Approvable(n) PROVE runs[file[n].prop] <= file[n].tries
    BY DEF RerunOnlyAfterFailure
  <2>1. TypeInv
    BY InitTypes
  <2>2. file[n].prop \in Props
    BY <2>1, FileFacts DEF TypeInv, TypeOK, Approvable
  <2> QED BY <2>2, <1>4, <1>6
<1> QED BY <1>2, <1>4, <1>5, <1>6, <1>7, <1>8
    DEF ClaimInv, OnlyPublished, RunningIsMarked, StartsReported, OneRunnerPerPayload, HasClaim, Running

-----------------------------------------------------------------------------
(* Steps that are not a request's *)

LEMMA PublishClaims ==
    ASSUME TypeInv, ClaimInv, NEW n \in Names, NEW kind \in Kinds,
           PublishEnvelope(n, kind), UNCHANGED <<app, runs>>
    PROVE  ClaimInv'
<1> USE OutboxAssumption
<1>0. OutboxTypeOK /\ published \in Nat
  BY DEF TypeInv, TypeOK, OutboxTypeOK
<1>1. \A m \in Names : m # n => file'[m] = file[m]
  BY <1>0 DEF PublishEnvelope, WriteAtomic, OutboxTypeOK
<1>2. /\ file'[n].prop = published + 1
      /\ file'[n].tries = 0
      /\ published' = published + 1
      /\ published + 1 \in Props
  BY <1>0 DEF PublishEnvelope, WriteAtomic, OutboxTypeOK, Props
<1>3. \A m \in Names : file[m].prop \in Nat /\ file[m].prop <= published
  BY <1>0, FileFacts DEF ClaimInv, OnlyPublished
<1>4. OneName'
  BY <1>0, <1>1, <1>2, <1>3 DEF ClaimInv, OneName
<1>5. \A a \in Approvers : HasClaim(a) =>
          app[a].claim.prop \in Nat /\ app[a].claim.prop <= published
  BY ClaimFacts DEF ClaimInv, OnlyPublished
<1>6. OnlyPublished'
  BY <1>0, <1>1, <1>2, <1>3, <1>5 DEF ClaimInv, OnlyPublished, HasClaim, Props
<1>7. RunningIsMarked'
  <2>1. \A a \in Approvers : Running(a) => app[a].claim.prop # published + 1
    BY <1>0, <1>5 DEF Running, HasClaim
  <2> QED BY <1>1, <1>2, <2>1 DEF ClaimInv, RunningIsMarked, Running
<1>8. StartsReported' /\ OneRunnerPerPayload'
  BY DEF ClaimInv, StartsReported, OneRunnerPerPayload, Running
<1>9. RerunOnlyAfterFailure'
  <2>1. runs[published + 1] = 0
    BY <1>0, <1>2 DEF ClaimInv, OnlyPublished
  <2> QED BY <1>1, <1>2, <2>1 DEF ClaimInv, RerunOnlyAfterFailure, Approvable
<1> QED BY <1>4, <1>6, <1>7, <1>8, <1>9 DEF ClaimInv

LEMMA UnlinkClaims ==
    ASSUME TypeInv, ClaimInv, NEW n \in Names, Unlink(n), UNCHANGED <<published, app, runs>>
    PROVE  ClaimInv'
<1>0. OutboxTypeOK /\ published \in Nat
  BY DEF TypeInv, TypeOK, OutboxTypeOK
<1>1. \A m \in Names : m # n => file'[m] = file[m]
  BY <1>0 DEF Unlink, OutboxTypeOK
<1>2. file'[n].prop = 0 /\ file'[n].kind = "none"
  BY <1>0 DEF Unlink, OutboxTypeOK, NoFile
<1>3. \A m \in Names : file[m].kind # "none" => file[m].prop # 0
  BY <1>0, FileFacts DEF Props
<1>4. OneName'
  BY <1>1, <1>2, <1>3 DEF ClaimInv, OneName
<1>5. OnlyPublished'
  BY <1>0, <1>1, <1>2 DEF ClaimInv, OnlyPublished, HasClaim
<1>6. RunningIsMarked'
  <2>1. \A a \in Approvers : Running(a) => app[a].claim.prop # 0
    BY ClaimFacts DEF Running, HasClaim, Props
  <2> QED BY <1>1, <1>2, <2>1 DEF ClaimInv, RunningIsMarked, Running
<1>7. StartsReported' /\ OneRunnerPerPayload' /\ RerunOnlyAfterFailure'
  BY <1>1, <1>2 DEF ClaimInv, StartsReported, OneRunnerPerPayload, RerunOnlyAfterFailure,
     Running, Approvable
<1> QED BY <1>4, <1>5, <1>6, <1>7 DEF ClaimInv

LEMMA OtherClaims ==
    ASSUME ClaimInv, UNCHANGED <<file, published, app, runs>>
    PROVE  ClaimInv'
BY DEF ClaimInv, OneName, OnlyPublished, RunningIsMarked, StartsReported, RerunOnlyAfterFailure,
       OneRunnerPerPayload, HasClaim, Running, Approvable

LEMMA LoopClaims ==
    ASSUME TypeInv, ClaimInv, LoopNext, UNCHANGED <<approvalVars, retentionVars>>
    PROVE  ClaimInv'
<1>1. \/ UNCHANGED <<file, published>>
      \/ \E n \in Names, kind \in Kinds : PublishEnvelope(n, kind)
  BY DEF LoopNext, LoopStep, ReadCooldowns, ReadFeed, Snapshot, PassOver, Triage, Propose,
         SkipProposed, ExecuteCandidate, EndPass, AbandonPass, DispatchCheck, DispatchWrite,
         outboxVars, Kinds
<1> QED BY <1>1, PublishClaims, OtherClaims DEF approvalVars

LEMMA RetentionClaims ==
    ASSUME TypeInv, ClaimInv, RetentionNext, UNCHANGED loopVars
    PROVE  ClaimInv'
<1>1. UNCHANGED <<app, runs>>
  BY DEF RetentionNext, PruneStep, BeginPrune, LockCandidate, SkipCandidate, CoolCandidate,
         RemoveCandidate, KeepCandidate, RecordExpired, EndPrune, AbandonPrune, BeginReconcile,
         Reconcile, SkipReconcile, AbandonReconcile, approvalVars
<1>2. \A p \in Pruners : RemoveCandidate(p) => prune[p].held[1] \in Names
  BY DEF TypeInv, PruneShape, RemoveCandidate, Candidates
<1>3. \/ UNCHANGED <<file, published>>
      \/ \E n \in Names, kind \in Kinds : PublishEnvelope(n, kind)
      \/ published' = published /\ \E n \in Names : Unlink(n)
  BY <1>2 DEF RetentionNext, PruneStep, BeginPrune, LockCandidate, SkipCandidate, CoolCandidate,
         RemoveCandidate, KeepCandidate, RecordExpired, EndPrune, AbandonPrune, BeginReconcile,
         Reconcile, SkipReconcile, AbandonReconcile, outboxVars, Kinds
<1> QED BY <1>1, <1>3, PublishClaims, UnlinkClaims, OtherClaims

LEMMA EnvironmentClaims ==
    ASSUME TypeInv, ClaimInv, Environment
    PROVE  ClaimInv'
BY UnlinkClaims, OtherClaims DEF Environment, OperatorDeletes, Tick, approvalVars

-----------------------------------------------------------------------------
(* Steps of a request *)

\* A request that takes no claim and keeps the files, or gives one up.
LEMMA RequestOnlyClaims ==
    ASSUME TypeInv, ClaimInv, NEW a \in Approvers, NEW request,
           app' = [app EXCEPT ![a] = request],
           request.pc \notin {"claimed", "ran"},
           request.pc = "removed" => HasClaim(a) /\ request.claim = app[a].claim,
           UNCHANGED <<file, published, runs>>
    PROVE  ClaimInv'
<1>0. app \in [Approvers -> Requests]
  BY DEF TypeInv, TypeOK, ApprovalTypeOK
<1>1. \A b \in Approvers : b # a => app'[b] = app[b]
  BY <1>0
<1>2. app'[a] = request
  BY <1>0
<1>3. OneName' /\ RerunOnlyAfterFailure'
  BY DEF ClaimInv, OneName, RerunOnlyAfterFailure, Approvable
<1>4. OnlyPublished'
  BY <1>1, <1>2 DEF ClaimInv, OnlyPublished, HasClaim
<1>5. RunningIsMarked' /\ StartsReported' /\ OneRunnerPerPayload'
  BY <1>1, <1>2 DEF ClaimInv, RunningIsMarked, StartsReported, OneRunnerPerPayload, Running
<1> QED BY <1>3, <1>4, <1>5 DEF ClaimInv

LEMMA ClaimClaims ==
    ASSUME TypeInv, ClaimInv, NEW a \in Approvers, Claim(a)
    PROVE  ClaimInv'
<1> DEFINE n == app[a].name
<1> DEFINE e == file[n]
<1>0. /\ OutboxTypeOK /\ app \in [Approvers -> Requests] /\ published \in Nat
      /\ app[a].pc = "reviewed" /\ n \in Names
  BY DEF TypeInv, TypeOK, OutboxTypeOK, ApprovalTypeOK, RequestShape, Claim
<1>1. e.kind = "approvable" /\ e \in Envelopes /\ e.prop \in Props /\ e.prop \in Nat /\ e.tries \in Nat
  BY <1>0, FileFacts DEF Claim, ClaimStatus, Approvable
<1>2. /\ Marker(e).prop = e.prop
      /\ Marker(e).kind = "marker"
      /\ Marker(e).tries = e.tries
  BY <1>1 DEF Marker, Envelopes
<1>3. file'[n] = Marker(e) /\ \A m \in Names : m # n => file'[m] = file[m]
  BY <1>0 DEF Claim, WriteAtomic, OutboxTypeOK
<1>4. /\ app'[a].pc = "claimed" /\ app'[a].claim = e
      /\ \A b \in Approvers : b # a => app'[b] = app[b]
      /\ UNCHANGED <<published, runs>>
  BY <1>0 DEF Claim, Requests
<1> HIDE DEF e, n
<1>5. \A m \in Names : file'[m].prop = file[m].prop /\ (file'[m].kind # "none" => file[m].kind # "none")
  BY <1>1, <1>2, <1>3 DEF e
<1>6. OneName'
  BY <1>5 DEF ClaimInv, OneName
<1>7. OnlyPublished'
  BY <1>0, <1>4, <1>5 DEF ClaimInv, OnlyPublished, HasClaim, e
<1>8. \A b \in Approvers : Running(b) => app[b].claim.prop # e.prop
  <2> SUFFICES ASSUME NEW b \in Approvers, Running(b), app[b].claim.prop = e.prop PROVE FALSE
    OBVIOUS
  <2>1. e = Marker(app[b].claim)
    BY <1>0 DEF ClaimInv, RunningIsMarked, e
  <2> QED BY <2>1, <1>1, ClaimFacts, MarkerFacts DEF Running, HasClaim
<1>9. RunningIsMarked'
  <2> SUFFICES ASSUME NEW b \in Approvers, NEW m \in Names, Running(b)',
                      file'[m].prop = app'[b].claim.prop
               PROVE  file'[m] = Marker(app'[b].claim)
    BY DEF RunningIsMarked, Marker
  <2>1. CASE b = a
    <3>1. file[m].prop = file[n].prop
      BY <1>4, <1>5, <2>1 DEF e
    <3>2. m = n
      BY <1>0, <1>1, <3>1 DEF ClaimInv, OneName, e
    <3> QED BY <1>3, <1>4, <2>1, <3>2
  <2>2. CASE b # a
    <3>1. Running(b) /\ app'[b] = app[b]
      BY <1>4, <2>2 DEF Running
    <3>2. m # n
      BY <1>5, <1>8, <3>1 DEF e
    <3> QED BY <1>3, <3>1, <3>2 DEF ClaimInv, RunningIsMarked
  <2> QED BY <2>1, <2>2
<1>10. StartsReported'
  <2>1. runs[e.prop] <= e.tries
    BY <1>0, <1>1 DEF ClaimInv, RerunOnlyAfterFailure, Approvable, e
  <2> QED BY <1>4, <2>1 DEF ClaimInv, StartsReported
<1>11. RerunOnlyAfterFailure'
  BY <1>2, <1>3, <1>4 DEF ClaimInv, RerunOnlyAfterFailure, Approvable
<1>12. OneRunnerPerPayload'
  BY <1>4, <1>8 DEF ClaimInv, OneRunnerPerPayload, Running
<1> QED BY <1>6, <1>7, <1>9, <1>10, <1>11, <1>12 DEF ClaimInv

LEMMA RunClaims ==
    ASSUME TypeInv, ClaimInv, NEW a \in Approvers, Run(a)
    PROVE  ClaimInv'
<1> DEFINE p == app[a].claim.prop
<1>0. /\ OutboxTypeOK /\ app \in [Approvers -> Requests] /\ runs \in [Props -> Nat]
      /\ published \in Nat /\ app[a].pc = "claimed"
  BY DEF TypeInv, TypeOK, OutboxTypeOK, ApprovalTypeOK, Run
<1>1. HasClaim(a) /\ Running(a)
  BY <1>0 DEF HasClaim, Running
<1>2. p \in Props /\ p \in Nat /\ p <= published
  BY <1>1, ClaimFacts DEF ClaimInv, OnlyPublished
<1>3. /\ app'[a].pc = "ran" /\ app'[a].claim = app[a].claim
      /\ \A b \in Approvers : b # a => app'[b] = app[b]
      /\ UNCHANGED <<file, published>>
  <2>1. PICK r \in Results : app' = [app EXCEPT ![a].pc = "ran", ![a].result = r]
    BY DEF Run
  <2>2. app[a] \in Requests
    BY <1>0
  <2>3. app'[a] = [app[a] EXCEPT !.pc = "ran", !.result = r]
    BY <1>0, <2>1
  <2>4. app'[a].pc = "ran" /\ app'[a].claim = app[a].claim
    BY <2>2, <2>3 DEF Requests
  <2>5. \A b \in Approvers : b # a => app'[b] = app[b]
    BY <1>0, <2>1
  <2>6. UNCHANGED <<file, published>>
    BY DEF Run, outboxVars
  <2> QED BY <2>4, <2>5, <2>6
<1>4. /\ runs'[p] = runs[p] \/ runs'[p] = runs[p] + 1
      /\ \A q \in Props : q # p => runs'[q] = runs[q]
  BY <1>0, <1>2 DEF Run
<1> HIDE DEF p
<1>5. \A n \in Names : Approvable(n) => file[n].prop # p /\ file[n].prop \in Props
  <2> SUFFICES ASSUME NEW n \in Names, Approvable(n) PROVE file[n].prop # p /\ file[n].prop \in Props
    OBVIOUS
  <2>1. file[n].prop = p => file[n] = Marker(app[a].claim)
    BY <1>1 DEF ClaimInv, RunningIsMarked, p
  <2> QED BY <1>0, <1>1, <2>1, ClaimFacts, MarkerFacts, FileFacts DEF Approvable
<1>6. OneName'
  BY <1>3 DEF ClaimInv, OneName
<1>7. OnlyPublished'
  <2>1. \A q \in Props : q > published => q # p
    BY <1>0, <1>2 DEF Props
  <2> QED BY <1>1, <1>3, <1>4, <2>1 DEF ClaimInv, OnlyPublished, HasClaim
<1>8. RunningIsMarked'
  BY <1>1, <1>3 DEF ClaimInv, RunningIsMarked, Running, Marker
<1>9. RerunOnlyAfterFailure'
  BY <1>3, <1>4, <1>5 DEF ClaimInv, RerunOnlyAfterFailure, Approvable
<1>10. OneRunnerPerPayload'
  BY <1>1, <1>3 DEF ClaimInv, OneRunnerPerPayload, Running
<1>11. StartsReported'
  <2>1. \A b \in Approvers : Running(b) /\ b # a => app[b].claim.prop # p /\ app[b].claim.prop \in Props
    BY <1>1, ClaimFacts DEF ClaimInv, OneRunnerPerPayload, Running, HasClaim, p
  <2>2. runs'[p] <= app[a].claim.tries + 1
    BY <1>0, <1>1, <1>2, <1>4, ClaimFacts DEF ClaimInv, StartsReported, p
  <2> QED BY <1>3, <1>4, <2>1, <2>2 DEF ClaimInv, StartsReported, Running, p
<1> QED BY <1>6, <1>7, <1>8, <1>9, <1>10, <1>11 DEF ClaimInv

LEMMA FinishFailureClaims ==
    ASSUME TypeInv, ClaimInv, NEW a \in Approvers, FinishFailure(a)
    PROVE  ClaimInv'
<1> DEFINE n == app[a].name
<1> DEFINE e == app[a].claim
<1> DEFINE restored == [e EXCEPT !.tries = @ + 1]
<1>0. /\ OutboxTypeOK /\ app \in [Approvers -> Requests] /\ app[a].pc = "ran"
      /\ file[n] = Marker(e)
  BY DEF TypeInv, TypeOK, ApprovalTypeOK, FinishFailure, OwnsMarker
<1>1. HasClaim(a) /\ Running(a)
  BY <1>0 DEF HasClaim, Running
<1>2. n \in Names /\ e \in Envelopes /\ e.prop \in Props /\ e.tries \in Nat /\ e.kind = "approvable"
  BY <1>1, ClaimFacts
<1>3. restored.prop = e.prop /\ restored.tries = e.tries + 1 /\ restored.kind = "approvable"
  BY <1>2 DEF Envelopes
<1>4. file[n].prop = e.prop /\ file[n].kind = "marker"
  BY <1>0, <1>2, MarkerFacts
<1>5. file'[n] = restored /\ \A m \in Names : m # n => file'[m] = file[m]
  BY <1>0, <1>2 DEF FinishFailure, RestorePayload, WriteAtomic, OutboxTypeOK
<1>6. /\ app'[a].pc = "idle"
      /\ \A b \in Approvers : b # a => app'[b] = app[b]
      /\ UNCHANGED <<published, runs>>
  BY <1>0 DEF FinishFailure, IdleRequest
<1> HIDE DEF restored, n, e
<1>7. \A m \in Names : file'[m].prop = file[m].prop /\ (file'[m].kind # "none" => file[m].kind # "none")
  BY <1>3, <1>4, <1>5
<1>8. OneName'
  BY <1>7 DEF ClaimInv, OneName
<1>9. OnlyPublished'
  BY <1>6, <1>7 DEF ClaimInv, OnlyPublished, HasClaim
<1>10. \A b \in Approvers : Running(b) /\ b # a => app[b].claim.prop # e.prop
  BY <1>1 DEF ClaimInv, OneRunnerPerPayload, e
<1>11. RunningIsMarked'
  <2> SUFFICES ASSUME NEW b \in Approvers, NEW m \in Names, Running(b)',
                      file'[m].prop = app'[b].claim.prop
               PROVE  file'[m] = Marker(app'[b].claim)
    BY DEF RunningIsMarked, Marker
  <2>1. b # a /\ Running(b) /\ app'[b] = app[b]
    BY <1>6 DEF Running
  <2>2. m # n
    BY <1>4, <1>7, <1>10, <2>1
  <2> QED BY <1>5, <2>1, <2>2 DEF ClaimInv, RunningIsMarked
<1>12. StartsReported' /\ OneRunnerPerPayload'
  BY <1>6 DEF ClaimInv, StartsReported, OneRunnerPerPayload, Running
<1>13. RerunOnlyAfterFailure'
  <2>1. runs[e.prop] <= e.tries + 1
    BY <1>0 DEF ClaimInv, StartsReported, e
  <2> QED BY <1>3, <1>5, <1>6, <2>1 DEF ClaimInv, RerunOnlyAfterFailure, Approvable
<1> QED BY <1>8, <1>9, <1>11, <1>12, <1>13 DEF ClaimInv

LEMMA FinishSuccessClaims ==
    ASSUME TypeInv, ClaimInv, NEW a \in Approvers, FinishSuccess(a)
    PROVE  ClaimInv'
<1> DEFINE n == app[a].name
<1>0. /\ OutboxTypeOK /\ app \in [Approvers -> Requests] /\ app[a].pc = "ran"
  BY DEF TypeInv, TypeOK, ApprovalTypeOK, FinishSuccess
<1>1. HasClaim(a) /\ n \in Names
  BY <1>0, ClaimFacts DEF HasClaim
<1>2. /\ \A m \in Names : m # n => file'[m] = file[m]
      /\ file'[n].prop = 0 /\ file'[n].kind = "none"
  BY <1>0, <1>1 DEF FinishSuccess, Unlink, OutboxTypeOK, NoFile
<1>3. /\ app'[a].pc = "removed" /\ app'[a].claim = app[a].claim
      /\ \A b \in Approvers : b # a => app'[b] = app[b]
      /\ UNCHANGED <<published, runs>>
  BY <1>0 DEF FinishSuccess, Requests
<1> HIDE DEF n
<1>4. published \in Nat
  BY <1>0 DEF OutboxTypeOK
<1>5. OneName'
  <2>1. \A m \in Names : file[m].kind # "none" => file[m].prop # 0
    BY <1>0, FileFacts DEF Props
  <2> QED BY <1>2, <2>1 DEF ClaimInv, OneName
<1>6. OnlyPublished'
  BY <1>1, <1>2, <1>3, <1>4 DEF ClaimInv, OnlyPublished, HasClaim
<1>7. RunningIsMarked'
  <2>1. \A b \in Approvers : Running(b) => app[b].claim.prop # 0
    BY ClaimFacts DEF Running, HasClaim, Props
  <2> QED BY <1>2, <1>3, <2>1 DEF ClaimInv, RunningIsMarked, Running, Marker
<1>8. StartsReported' /\ OneRunnerPerPayload' /\ RerunOnlyAfterFailure'
  BY <1>2, <1>3 DEF ClaimInv, StartsReported, OneRunnerPerPayload, RerunOnlyAfterFailure,
     Running, Approvable
<1> QED BY <1>5, <1>6, <1>7, <1>8 DEF ClaimInv

LEMMA ApprovalClaims ==
    ASSUME TypeInv, ClaimInv, ApprovalNext
    PROVE  ClaimInv'
<1> PICK a \in Approvers :
        \/ \E n \in Names : Review(a, n)
        \/ Claim(a)
        \/ ClaimRefused(a)
        \/ Run(a)
        \/ FinishSuccess(a)
        \/ FinishFailure(a)
        \/ FinishConflict(a)
        \/ RecordApproved(a)
        \/ AbandonApproval(a)
  BY DEF ApprovalNext
<1>1. CASE \E n \in Names : Review(a, n)
  <2>1. PICK n \in Names : Review(a, n)
    BY <1>1
  <2> DEFINE request == [IdleRequest EXCEPT !.pc = "reviewed", !.name = n]
  <2>2. request.pc = "reviewed"
    BY DEF IdleRequest
  <2>3. app' = [app EXCEPT ![a] = request] /\ UNCHANGED <<file, published, runs>>
    BY <2>1 DEF Review, outboxVars
  <2> QED BY <2>2, <2>3, RequestOnlyClaims
<1>2. CASE ClaimRefused(a) \/ FinishConflict(a) \/ RecordApproved(a) \/ AbandonApproval(a)
  <2>1. IdleRequest.pc = "idle"
    BY DEF IdleRequest
  <2>2. app' = [app EXCEPT ![a] = IdleRequest] /\ UNCHANGED <<file, published, runs>>
    BY <1>2 DEF ClaimRefused, FinishConflict, RecordApproved, AbandonApproval, outboxVars
  <2> QED BY <2>1, <2>2, RequestOnlyClaims
<1> QED BY <1>1, <1>2, ClaimClaims, RunClaims, FinishFailureClaims, FinishSuccessClaims

LEMMA ClaimsInductive == TypeInv /\ ClaimInv /\ [Next]_vars => ClaimInv'
<1>1. UNCHANGED vars => UNCHANGED <<file, published, app, runs>>
  BY DEF vars, outboxVars, approvalVars
<1> QED BY <1>1, ApprovalClaims, LoopClaims, RetentionClaims, EnvironmentClaims, OtherClaims DEF Next

LEMMA ClaimsHold == Spec => []ClaimInv
BY InitClaims, ClaimsInductive, TypesHold, PTL DEF Spec

\* A payload that can be approved has been started at most once per failure the
\* operator was told of, with any number of requests, passes, crashes and
\* deletions (claim_proposal and ProposalClaim.finish).
THEOREM RunsAreReported == Spec => []RerunOnlyAfterFailure
<1>1. ClaimInv => RerunOnlyAfterFailure
  BY DEF ClaimInv
<1> QED BY <1>1, ClaimsHold, PTL

\* No two requests run one payload at a time (claim_proposal).
THEOREM OneRunner == Spec => []OneRunnerPerPayload
<1>1. ClaimInv => OneRunnerPerPayload
  BY DEF ClaimInv
<1> QED BY <1>1, ClaimsHold, PTL

-----------------------------------------------------------------------------
(* What leaves the outbox stays out *)

\* After a step every file is new, gone, or has a payload that was on disk.
FilesComeFromDisk ==
    \A n \in Names : \/ file[n]'.prop \in {0, published + 1}
                     \/ OnDisk(file[n]'.prop)

LEMMA PublishFromDisk ==
    ASSUME OutboxTypeOK, NEW n \in Names, NEW kind \in Kinds, PublishEnvelope(n, kind)
    PROVE  FilesComeFromDisk
BY DEF FilesComeFromDisk, OnDisk, PublishEnvelope, WriteAtomic, OutboxTypeOK

LEMMA UnlinkFromDisk ==
    ASSUME OutboxTypeOK, NEW n \in Names, Unlink(n)
    PROVE  FilesComeFromDisk
<1>1. NoFile.prop = 0
  BY DEF NoFile
<1> QED BY <1>1 DEF FilesComeFromDisk, OnDisk, Unlink, OutboxTypeOK

LEMMA SameFromDisk ==
    ASSUME UNCHANGED file
    PROVE  FilesComeFromDisk
BY DEF FilesComeFromDisk, OnDisk

LEMMA ApprovalFromDisk ==
    ASSUME TypeInv, ApprovalNext
    PROVE  FilesComeFromDisk
<1>0. OutboxTypeOK
  BY DEF TypeInv, TypeOK
<1>1. ASSUME NEW a \in Approvers, Claim(a) PROVE FilesComeFromDisk
  <2> DEFINE n == app[a].name
  <2>1. n \in Names
    BY <1>1 DEF TypeInv, RequestShape, Claim
  <2>2. file[n] \in Envelopes
    BY <1>0, <1>1, <2>1, FileFacts DEF Claim, ClaimStatus, Approvable
  <2>3. Marker(file[n]).prop = file[n].prop
    BY <2>2, MarkerFacts
  <2> QED BY <1>0, <1>1, <2>1, <2>3 DEF Claim, WriteAtomic, OutboxTypeOK, FilesComeFromDisk, OnDisk
<1>2. ASSUME NEW a \in Approvers, FinishFailure(a) PROVE FilesComeFromDisk
  <2> DEFINE n == app[a].name
  <2> DEFINE e == app[a].claim
  <2>1. HasClaim(a)
    BY <1>2 DEF HasClaim, FinishFailure
  <2>2. n \in Names /\ e \in Envelopes
    BY <2>1, ClaimFacts
  <2>3. file[n].prop = e.prop
    BY <1>2, <2>2, MarkerFacts DEF FinishFailure, OwnsMarker
  <2>4. [e EXCEPT !.tries = @ + 1].prop = e.prop
    BY <2>2 DEF Envelopes
  <2> QED BY <1>0, <1>2, <2>2, <2>3, <2>4
          DEF FinishFailure, RestorePayload, WriteAtomic, OutboxTypeOK, FilesComeFromDisk, OnDisk
<1>3. ASSUME NEW a \in Approvers, FinishSuccess(a) PROVE FilesComeFromDisk
  <2>1. app[a].name \in Names
    BY <1>3 DEF TypeInv, RequestShape, FinishSuccess
  <2> QED BY <1>0, <1>3, <2>1, UnlinkFromDisk DEF FinishSuccess
<1>4. ASSUME NEW a \in Approvers,
             \/ \E n \in Names : Review(a, n)
             \/ ClaimRefused(a) \/ Run(a) \/ FinishConflict(a)
             \/ RecordApproved(a) \/ AbandonApproval(a)
      PROVE  FilesComeFromDisk
  BY <1>4, SameFromDisk DEF Review, ClaimRefused, Run, FinishConflict, RecordApproved,
     AbandonApproval, outboxVars
<1> QED BY <1>1, <1>2, <1>3, <1>4 DEF ApprovalNext

LEMMA StepFromDisk ==
    ASSUME TypeInv, [Next]_vars
    PROVE  FilesComeFromDisk
<1>0. OutboxTypeOK
  BY DEF TypeInv, TypeOK
<1>1. CASE LoopNext
  <2>1. \/ UNCHANGED file
        \/ \E n \in Names, kind \in Kinds : PublishEnvelope(n, kind)
    BY <1>1 DEF LoopNext, LoopStep, ReadCooldowns, ReadFeed, Snapshot, PassOver, Triage, Propose,
         SkipProposed, ExecuteCandidate, EndPass, AbandonPass, DispatchCheck, DispatchWrite,
         outboxVars, Kinds
  <2> QED BY <1>0, <2>1, PublishFromDisk, SameFromDisk
<1>2. CASE RetentionNext
  <2>1. \A p \in Pruners : RemoveCandidate(p) => prune[p].held[1] \in Names
    BY DEF TypeInv, PruneShape, RemoveCandidate, Candidates
  <2>2. \/ UNCHANGED file
        \/ \E n \in Names, kind \in Kinds : PublishEnvelope(n, kind)
        \/ \E n \in Names : Unlink(n)
    BY <1>2, <2>1 DEF RetentionNext, PruneStep, BeginPrune, LockCandidate, SkipCandidate,
         CoolCandidate, RemoveCandidate, KeepCandidate, RecordExpired, EndPrune, AbandonPrune,
         BeginReconcile, Reconcile, SkipReconcile, AbandonReconcile, outboxVars, Kinds
  <2> QED BY <1>0, <2>2, PublishFromDisk, UnlinkFromDisk, SameFromDisk
<1>3. CASE Environment
  BY <1>0, <1>3, UnlinkFromDisk, SameFromDisk DEF Environment, OperatorDeletes, Tick
<1>4. CASE UNCHANGED vars
  BY <1>4, SameFromDisk DEF vars, outboxVars
<1> QED BY <1>1, <1>2, <1>3, <1>4, ApprovalFromDisk DEF Next

\* A payload that left the outbox never returns to it, not even when the
\* approval it was deleted under fails (ProposalClaim.finish).
THEOREM GoneForGood == Spec => GoneIsGone
<1>1. TypeInv /\ [Next]_vars => [\A p \in 1..published : ~OnDisk(p) => ~OnDisk(p)']_vars
  <2> SUFFICES ASSUME TypeInv, [Next]_vars, NEW p \in 1..published, OnDisk(p)'
               PROVE  OnDisk(p)
    OBVIOUS
  <2>1. FilesComeFromDisk
    BY StepFromDisk
  <2>2. PICK n \in Names : file'[n].prop = p
    BY DEF OnDisk
  <2>3. p \notin {0, published + 1}
    BY DEF TypeInv, TypeOK, OutboxTypeOK
  <2> QED BY <2>1, <2>2, <2>3 DEF FilesComeFromDisk
<1> QED BY <1>1, TypesHold, PTL DEF Spec, GoneIsGone

=============================================================================
