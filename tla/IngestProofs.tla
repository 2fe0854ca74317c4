---------------------------- MODULE IngestProofs ----------------------------
(***************************************************************************)
(* Ingest runs are well typed, one worker at a time has a source, no claim *)
(* is forgotten, what is processed is complete, and what a run reports or  *)
(* raises is what happened: for any number of runs, sources, workers and   *)
(* failures.                                                               *)
(***************************************************************************)
EXTENDS Ingest, FiniteSetTheorems, WellFoundedInduction, TLAPS

\* A claimed row can be claimed by nobody, and what it says at the two points
\* where a worker has settled it but not yet returned.
HeldRows ==
    \A r \in Runs, s \in Sources :
        /\ Holds(r, s) => status[s] \notin {"absent", "pending"}
        /\ task[r][s].pc = "marked" => status[s] = "processed"
        /\ task[r][s].pc = "hung" => status[s] = "failed"

\* A run that has not begun or has ended has no worker, and a source still to be
\* submitted has none either.
NoStrayTask ==
    \A r \in Runs, s \in Sources :
        /\ run[r].pc \in {"idle", "ended"} => task[r][s].pc \in {"none", "collected"}
        /\ s \in run[r].left => task[r][s].pc = "none"

Claims == OneWorkerPerSource /\ ClaimsAreHeld /\ HeldRows /\ NoStrayTask

IInv == TypeOK /\ Claims

-----------------------------------------------------------------------------
(* Updates of one record of task and run *)

LEMMA TaskUpdate ==
    ASSUME task \in [Runs -> [Sources -> Tasks]], NEW r \in Runs, NEW s \in Sources
    PROVE  /\ \A pc \in Steps \ {"failing", "finished"} :
                [task EXCEPT ![r][s].pc = pc] \in [Runs -> [Sources -> Tasks]]
           /\ \A pc \in {"failing", "finished"}, res \in Results \ {"none"} :
                [task EXCEPT ![r][s] = [pc |-> pc, res |-> res]] \in [Runs -> [Sources -> Tasks]]
<1>1. ASSUME NEW pc \in Steps \ {"failing", "finished"}
      PROVE  [task EXCEPT ![r][s].pc = pc] \in [Runs -> [Sources -> Tasks]]
  <2>1. [task[r][s] EXCEPT !.pc = pc] \in Tasks
    BY DEF Tasks
  <2> QED BY <2>1
<1>2. ASSUME NEW pc \in {"failing", "finished"}, NEW res \in Results \ {"none"}
      PROVE  [task EXCEPT ![r][s] = [pc |-> pc, res |-> res]] \in [Runs -> [Sources -> Tasks]]
  <2>1. [pc |-> pc, res |-> res] \in Tasks
    BY DEF Tasks
  <2> QED BY <2>1
<1> QED BY <1>1, <1>2

LEMMA RunUpdate ==
    ASSUME run \in [Runs -> RunRecords], NEW r \in Runs, NEW rec \in RunRecords,
           run' = [run EXCEPT ![r] = rec]
    PROVE  /\ run' \in [Runs -> RunRecords]
           /\ run'[r] = rec
           /\ \A q \in Runs : q # r => run'[q] = run[q]
OBVIOUS

LEMMA IdleTyped == IdleRun \in RunRecords /\ NoTask \in Tasks
BY DEF IdleRun, RunRecords, Reports, NoTask, Tasks, Steps, Results

\* BatchProviderFailures.record() keeps a run well typed and touches neither
\* the state of its main thread nor its queue.
LEMMA Recorded ==
    ASSUME run \in [Runs -> RunRecords], NEW r \in Runs,
           RecordSuccess(r) \/ RecordFailure(r) \/ UNCHANGED run
    PROVE  /\ run' \in [Runs -> RunRecords]
           /\ \A q \in Runs : run'[q].pc = run[q].pc /\ run'[q].left = run[q].left
<1>0. run[r] \in RunRecords
  OBVIOUS
<1>1. CASE RecordSuccess(r)
  <2>1. PICK n \in Nat : run' = [run EXCEPT ![r].consecutive = n]
    BY <1>0, <1>1 DEF RecordSuccess, RunRecords
  <2>2. [run[r] EXCEPT !.consecutive = n] \in RunRecords
    BY <1>0 DEF RunRecords
  <2> QED BY <2>1, <2>2
<1>2. CASE RecordFailure(r)
  <2>1. CASE run[r].stopped
    BY <1>2, <2>1 DEF RecordFailure
  <2>2. CASE ~run[r].stopped
    <3>1. run[r].consecutive + 1 \in Nat
      BY <1>0 DEF RunRecords
    <3>2. ASSUME NEW b \in BOOLEAN,
                 run' = [run EXCEPT ![r].consecutive = run[r].consecutive + 1, ![r].stopped = b]
          PROVE  /\ run' \in [Runs -> RunRecords]
                 /\ \A q \in Runs : run'[q].pc = run[q].pc /\ run'[q].left = run[q].left
      <4> DEFINE rec == [run[r] EXCEPT !.consecutive = run[r].consecutive + 1, !.stopped = b]
      <4>1. rec \in RunRecords /\ rec.pc = run[r].pc /\ rec.left = run[r].left
        BY <1>0, <3>1 DEF RunRecords
      <4>2. run' = [run EXCEPT ![r] = rec]
        BY <1>0, <3>2
      <4> HIDE DEF rec
      <4> QED BY <4>1, <4>2, RunUpdate
    <3>3. CASE run[r].consecutive + 1 >= Threshold
      BY <1>2, <2>2, <3>2, <3>3 DEF RecordFailure
    <3>4. CASE ~(run[r].consecutive + 1 >= Threshold)
      <4>1. (run[r].consecutive + 1 >= Threshold) = FALSE
        BY <3>4
      <4>2. run' = [run EXCEPT ![r].consecutive = run[r].consecutive + 1, ![r].stopped = FALSE]
        BY <1>2, <2>2, <4>1 DEF RecordFailure
      <4> QED BY <3>2, <4>2
    <3> QED BY <3>3, <3>4
  <2> QED BY <2>1, <2>2
<1>3. CASE UNCHANGED run
  BY <1>3
<1> QED BY <1>1, <1>2, <1>3

-----------------------------------------------------------------------------
(* What the step of one worker does to the claims *)

\* A worker's step leaves the other workers and the other rows alone; it claims
\* only a pending row, and gives a claim up only with a row that is settled.
ClaimStep(r, s) ==
    /\ \A q \in Runs, t \in Sources : q # r \/ t # s => task'[q][t] = task[q][t]
    /\ \A t \in Sources : t # s => status'[t] = status[t]
    /\ \A q \in Runs : run'[q].pc = run[q].pc /\ run'[q].left = run[q].left
    /\ killed' = killed
    /\ task[r][s].pc \notin {"none", "collected"}
    /\ status'[s] # status[s] => Holds(r, s) \/ status[s] = "pending"
    /\ task'[r][s].pc \in Working =>
           /\ Holds(r, s) \/ status[s] = "pending"
           /\ status'[s] \notin {"absent", "pending"}
    /\ task'[r][s].pc \notin Working =>
           IF Holds(r, s) THEN status'[s] # "in_progress" ELSE status'[s] = status[s]
    /\ task'[r][s].pc = "marked" => status'[s] = "processed"
    /\ task'[r][s].pc = "hung" => status'[s] = "failed"

LEMMA ClaimStepKeeps ==
    ASSUME Claims, NEW r \in Runs, NEW s \in Sources, ClaimStep(r, s)
    PROVE  Claims'
<1>1. \A q \in Runs, t \in Sources : t # s => (Holds(q, t)' <=> Holds(q, t))
  BY DEF ClaimStep, Holds
<1>2. \A q \in Runs : q # r => (Holds(q, s)' <=> Holds(q, s))
  BY DEF ClaimStep, Holds
<1>3. Holds(r, s)' => \A q \in Runs : q # r => ~Holds(q, s)
  BY DEF ClaimStep, Holds, Claims, OneWorkerPerSource, HeldRows
<1>4. OneWorkerPerSource'
  BY <1>1, <1>2, <1>3 DEF OneWorkerPerSource, Claims
<1>5. ClaimsAreHeld'
  <2> SUFFICES ASSUME NEW t \in Sources, status'[t] = "in_progress", t \notin killed'
               PROVE  \E q \in Runs : Holds(q, t)'
    BY DEF ClaimsAreHeld
  <2>1. CASE t # s
    BY <1>1, <2>1 DEF ClaimStep, Claims, ClaimsAreHeld
  <2>2. CASE t = s /\ ~Holds(r, s)'
    <3>1. ~Holds(r, s) /\ status'[s] = status[s]
      BY <2>2 DEF ClaimStep, Holds
    <3>2. PICK q \in Runs : Holds(q, s)
      BY <2>2, <3>1 DEF ClaimStep, Claims, ClaimsAreHeld
    <3> QED BY <1>2, <2>2, <3>1, <3>2
  <2> QED BY <2>1, <2>2
<1>6. HeldRows'
  <2> SUFFICES ASSUME NEW q \in Runs, NEW t \in Sources
               PROVE  /\ task'[q][t].pc \in Working => status'[t] \notin {"absent", "pending"}
                      /\ task'[q][t].pc = "marked" => status'[t] = "processed"
                      /\ task'[q][t].pc = "hung" => status'[t] = "failed"
    BY DEF HeldRows, Holds
  <2>1. CASE t # s
    BY <2>1 DEF ClaimStep, Claims, HeldRows, Holds
  <2>2. CASE t = s /\ q = r
    BY <2>2 DEF ClaimStep
  <2>3. CASE t = s /\ q # r /\ ~Holds(q, s)
    BY <2>3 DEF ClaimStep, Holds, Working
  <2>4. CASE t = s /\ q # r /\ Holds(q, s)
    <3>1. ~Holds(r, s) /\ status[s] # "pending"
      BY <2>4 DEF Claims, OneWorkerPerSource, HeldRows
    <3>2. status'[s] = status[s] /\ task'[q][s] = task[q][s]
      BY <2>4, <3>1 DEF ClaimStep
    <3> QED BY <2>4, <3>2 DEF Claims, HeldRows, Holds
  <2> QED BY <2>1, <2>2, <2>3, <2>4
<1>7. NoStrayTask'
  BY DEF ClaimStep, Claims, NoStrayTask
<1> QED BY <1>4, <1>5, <1>6, <1>7 DEF Claims

\* One record of task changes.
LEMMA TaskFrame ==
    ASSUME task \in [Runs -> [Sources -> Tasks]], NEW r \in Runs, NEW s \in Sources
    PROVE  /\ \A pc : task' = [task EXCEPT ![r][s].pc = pc] =>
                /\ task'[r][s].pc = pc
                /\ \A q \in Runs, t \in Sources : q # r \/ t # s => task'[q][t] = task[q][t]
           /\ \A rec : task' = [task EXCEPT ![r][s] = rec] =>
                /\ task'[r][s] = rec
                /\ \A q \in Runs, t \in Sources : q # r \/ t # s => task'[q][t] = task[q][t]
<1>1. ASSUME NEW rec, task' = [task EXCEPT ![r][s] = rec]
      PROVE  /\ task'[r][s] = rec
             /\ \A q \in Runs, t \in Sources : q # r \/ t # s => task'[q][t] = task[q][t]
  BY <1>1
<1>2. ASSUME NEW pc, task' = [task EXCEPT ![r][s].pc = pc]
      PROVE  /\ task'[r][s].pc = pc
             /\ \A q \in Runs, t \in Sources : q # r \/ t # s => task'[q][t] = task[q][t]
  <2>1. task[r][s] \in Tasks
    OBVIOUS
  <2>2. [task[r][s] EXCEPT !.pc = pc].pc = pc
    BY <2>1 DEF Tasks
  <2>3. task' = [task EXCEPT ![r][s] = [task[r][s] EXCEPT !.pc = pc]]
    BY <1>2
  <2>4. task'[r][s] = [task[r][s] EXCEPT !.pc = pc]
    BY <2>3, <1>1
  <2> QED BY <1>1, <2>2, <2>3, <2>4
<1> QED BY <1>1, <1>2

LEMMA MarkFrame ==
    ASSUME status \in [Sources -> Statuses], NEW s \in Sources, NEW value \in Statuses, Mark(s, value)
    PROVE  /\ status' \in [Sources -> Statuses]
           /\ status'[s] = value
           /\ \A t \in Sources : t # s => status'[t] = status[t]
BY DEF Mark

\* The three ways a worker's step moves its task.
LEMMA Moves ==
    ASSUME TypeOK, NEW r \in Runs, NEW s \in Sources
    PROVE  /\ \A pc \in Steps \ {"failing", "finished"} : Goes(r, s, pc) =>
                task' \in [Runs -> [Sources -> Tasks]] /\ task'[r][s].pc = pc
           /\ \A res \in Results \ {"none"} : Returns(r, s, res) =>
                task' \in [Runs -> [Sources -> Tasks]] /\ task'[r][s].pc = "finished"
           /\ \A error \in Errors : Raises(r, s, error) =>
                /\ task' \in [Runs -> [Sources -> Tasks]] /\ task'[r][s].pc = "failing"
                /\ faults' \in 0..MaxFaults
           /\ \A x : Goes(r, s, x) \/ Returns(r, s, x) \/ Raises(r, s, x) =>
                \A q \in Runs, t \in Sources : q # r \/ t # s => task'[q][t] = task[q][t]
<1> USE IngestAssumption
<1>0. task \in [Runs -> [Sources -> Tasks]] /\ faults \in 0..MaxFaults
  BY DEF TypeOK
<1>1. ASSUME NEW pc \in Steps \ {"failing", "finished"}, Goes(r, s, pc)
      PROVE  task' \in [Runs -> [Sources -> Tasks]] /\ task'[r][s].pc = pc
  <2>1. task' = [task EXCEPT ![r][s].pc = pc]
    BY <1>1 DEF Goes
  <2>2. task'[r][s].pc = pc
    BY <1>0, <2>1, TaskFrame
  <2>3. task' \in [Runs -> [Sources -> Tasks]]
    BY <1>0, <2>1, TaskUpdate
  <2> QED BY <2>2, <2>3
<1>2. ASSUME NEW res \in Results \ {"none"}, Returns(r, s, res)
      PROVE  task' \in [Runs -> [Sources -> Tasks]] /\ task'[r][s].pc = "finished"
  <2>2. task' = [task EXCEPT ![r][s] = [pc |-> "finished", res |-> res]]
    BY <1>2 DEF Returns
  <2>3. task'[r][s] = [pc |-> "finished", res |-> res]
    BY <1>0, <2>2, TaskFrame
  <2>4. task' \in [Runs -> [Sources -> Tasks]]
    BY <1>0, <2>2, TaskUpdate
  <2> QED BY <2>3, <2>4
<1>3. ASSUME NEW error \in Errors, Raises(r, s, error)
      PROVE  /\ task' \in [Runs -> [Sources -> Tasks]] /\ task'[r][s].pc = "failing"
             /\ faults' \in 0..MaxFaults
  <2>1. error \in Results \ {"none"}
    BY DEF Results, Errors
  <2>2. faults' \in 0..MaxFaults
    BY <1>0, <1>3 DEF Raises, Fault
  <2>3. task' = [task EXCEPT ![r][s] = [pc |-> "failing", res |-> error]]
    BY <1>3 DEF Raises
  <2>4. task'[r][s] = [pc |-> "failing", res |-> error]
    BY <1>0, <2>3, TaskFrame
  <2>5. task' \in [Runs -> [Sources -> Tasks]]
    BY <1>0, <2>1, <2>3, TaskUpdate
  <2> QED BY <2>2, <2>4, <2>5
<1>4. ASSUME NEW x, Goes(r, s, x) \/ Returns(r, s, x) \/ Raises(r, s, x)
      PROVE  \A q \in Runs, t \in Sources : q # r \/ t # s => task'[q][t] = task[q][t]
  BY <1>0, <1>4, TaskFrame DEF Goes, Returns, Raises
<1> QED BY <1>1, <1>2, <1>3, <1>4

-----------------------------------------------------------------------------
(* Every step of a worker *)

LEMMA WorkerSteps ==
    ASSUME IInv, NEW r \in Runs, NEW s \in Sources, WorkerStep(r, s) \/ FetchReturns(r, s)
    PROVE  TypeOK' /\ ClaimStep(r, s)
<1> DEFINE Typed == task' \in [Runs -> [Sources -> Tasks]]
           Elsewhere == \A q \in Runs, t \in Sources : q # r \/ t # s => task'[q][t] = task[q][t]
<1>0. /\ TypeOK
      /\ Holds(r, s) => status[s] \notin {"absent", "pending"}
      /\ task[r][s].pc = "marked" => status[s] = "processed"
      /\ task[r][s].pc = "hung" => status[s] = "failed"
  BY DEF IInv, Claims, HeldRows
<1>1. ASSUME NEW pc \in Steps \ {"failing", "finished"}, Goes(r, s, pc)
      PROVE  Typed /\ Elsewhere /\ task'[r][s].pc = pc
  BY <1>0, <1>1, Moves
<1>2. ASSUME NEW res \in Results \ {"none"}, Returns(r, s, res)
      PROVE  Typed /\ Elsewhere /\ task'[r][s].pc = "finished"
  BY <1>0, <1>2, Moves
<1>3. ASSUME NEW error \in Errors, Raises(r, s, error)
      PROVE  Typed /\ Elsewhere /\ task'[r][s].pc = "failing" /\ faults' \in 0..MaxFaults
  BY <1>0, <1>3, Moves
<1>4. ASSUME Fault
      PROVE  faults' \in 0..MaxFaults
  BY <1>0, <1>4, IngestAssumption DEF Fault, TypeOK
<1>5. ASSUME NEW value \in Statuses, Mark(s, value)
      PROVE  /\ status' \in [Sources -> Statuses]
             /\ status'[s] = value
             /\ \A t \in Sources : t # s => status'[t] = status[t]
  BY <1>0, <1>5, MarkFrame DEF TypeOK, SourcesTypeOK
<1> HIDE DEF Typed, Elsewhere
<1>6. ASSUME Admit(r, s)
      PROVE  TypeOK' /\ ClaimStep(r, s)
  <2>1. Typed /\ Elsewhere /\ task'[r][s].pc \in {"finished", "admitted"}
    BY <1>1, <1>2, <1>6 DEF Admit, Steps, Results
  <2> QED BY <1>0, <1>6, <2>1
             DEF Admit, TypeOK, SourcesTypeOK, sourceVars, ClaimStep, Holds, Working, Typed, Elsewhere
<1>7. ASSUME Claim(r, s)
      PROVE  TypeOK' /\ ClaimStep(r, s)
  <2>1. CASE Claimable(s) /\ Mark(s, "in_progress") /\ Goes(r, s, "claimed") /\ UNCHANGED faults
    <3>1. Typed /\ Elsewhere /\ task'[r][s].pc = "claimed"
      BY <1>1, <2>1 DEF Steps, Working
    <3>2. /\ status' \in [Sources -> Statuses]
          /\ status'[s] = "in_progress"
          /\ \A t \in Sources : t # s => status'[t] = status[t]
      BY <1>5, <2>1 DEF Statuses
    <3> QED BY <1>0, <1>7, <2>1, <3>1, <3>2
               DEF Claim, Claimable, TypeOK, SourcesTypeOK, ClaimStep, Holds, Working, Typed, Elsewhere
  <2>2. CASE UNCHANGED status /\ (Fault \/ UNCHANGED faults)
             /\ \E res \in {"auth", "other", "skipped"} : Returns(r, s, res)
    <3>1. Typed /\ Elsewhere /\ task'[r][s].pc = "finished"
      BY <1>2, <2>2 DEF Results, Errors
    <3> QED BY <1>0, <1>4, <1>7, <2>2, <3>1
               DEF Claim, TypeOK, SourcesTypeOK, ClaimStep, Holds, Working, Typed, Elsewhere
  <2> QED BY <1>7, <2>1, <2>2 DEF Claim
<1>8. ASSUME Fetch(r, s) \/ FetchTimesOut(r, s) \/ FetchReturns(r, s)
      PROVE  TypeOK' /\ ClaimStep(r, s)
  <2>1. CASE Fetch(r, s) /\ Goes(r, s, "fetched") /\ UNCHANGED <<status, faults>>
    <3>1. Typed /\ Elsewhere /\ task'[r][s].pc = "fetched"
      BY <1>1, <2>1 DEF Steps, Working
    <3> QED BY <1>0, <2>1, <3>1
               DEF Fetch, TypeOK, SourcesTypeOK, ClaimStep, Holds, Working, Typed, Elsewhere
  <2>2. CASE Fetch(r, s) /\ Returns(r, s, "failed") /\ Fault
             /\ \E value \in {"failed", "pending"} : Mark(s, value)
    <3>1. Typed /\ Elsewhere /\ task'[r][s].pc = "finished"
      BY <1>2, <2>2 DEF Results
    <3>2. /\ status' \in [Sources -> Statuses]
          /\ status'[s] \in {"failed", "pending"}
          /\ \A t \in Sources : t # s => status'[t] = status[t]
      BY <1>5, <2>2 DEF Statuses
    <3> QED BY <1>0, <1>4, <2>2, <3>1, <3>2
               DEF Fetch, TypeOK, SourcesTypeOK, ClaimStep, Holds, Working, Typed, Elsewhere
  <2>3. CASE Fetch(r, s) /\ UNCHANGED status /\ \E error \in {"auth", "fatal"} : Raises(r, s, error)
    <3>1. Typed /\ Elsewhere /\ task'[r][s].pc = "failing" /\ faults' \in 0..MaxFaults
      BY <1>3, <2>3 DEF Errors
    <3> QED BY <1>0, <2>3, <3>1
               DEF Fetch, TypeOK, SourcesTypeOK, ClaimStep, Holds, Working, Typed, Elsewhere
  <2>4. CASE FetchTimesOut(r, s)
    <3>1. Typed /\ Elsewhere /\ task'[r][s].pc = "hung"
      BY <1>1, <2>4 DEF FetchTimesOut, Steps, Working
    <3>2. /\ status' \in [Sources -> Statuses]
          /\ status'[s] = "failed"
          /\ \A t \in Sources : t # s => status'[t] = status[t]
      BY <1>5, <2>4 DEF FetchTimesOut, Statuses
    <3> QED BY <1>0, <1>4, <2>4, <3>1, <3>2
               DEF FetchTimesOut, TypeOK, SourcesTypeOK, ClaimStep, Holds, Working, Typed, Elsewhere
  <2>5. CASE FetchReturns(r, s)
    <3>1. Typed /\ Elsewhere /\ task'[r][s].pc = "finished"
      BY <1>2, <2>5 DEF FetchReturns, Results
    <3> QED BY <1>0, <2>5, <3>1
               DEF FetchReturns, TypeOK, SourcesTypeOK, sourceVars, ClaimStep, Holds, Working, Typed, Elsewhere
  <2> QED BY <1>8, <2>1, <2>2, <2>3, <2>4, <2>5 DEF Fetch
<1>9. ASSUME NEW from \in {"fetched", "cleaned"}, NEW to \in {"cleaned", "extracted"},
             Synthesize(r, s, from, to)
      PROVE  TypeOK' /\ ClaimStep(r, s)
  <2>1. /\ run' \in [Runs -> RunRecords]
        /\ \A q \in Runs : run'[q].pc = run[q].pc /\ run'[q].left = run[q].left
    BY <1>0, <1>9, Recorded DEF Synthesize, TypeOK
  <2>2. CASE Goes(r, s, to) /\ UNCHANGED faults
    <3>1. Typed /\ Elsewhere /\ task'[r][s].pc = to
      BY <1>1, <2>2 DEF Steps, Working
    <3> QED BY <1>0, <1>9, <2>1, <2>2, <3>1
               DEF Synthesize, TypeOK, SourcesTypeOK, sourceVars, ClaimStep, Holds, Working, Typed, Elsewhere
  <2>3. CASE \E error \in Errors : Raises(r, s, error)
    <3>1. Typed /\ Elsewhere /\ task'[r][s].pc = "failing" /\ faults' \in 0..MaxFaults
      BY <1>3, <2>3
    <3> QED BY <1>0, <1>9, <2>1, <3>1
               DEF Synthesize, TypeOK, SourcesTypeOK, sourceVars, ClaimStep, Holds, Working, Typed, Elsewhere
  <2> QED BY <1>9, <2>2, <2>3 DEF Synthesize, Errors
<1>10. ASSUME WriteNote(r, s) \/ WriteBack(r, s)
       PROVE  TypeOK' /\ ClaimStep(r, s)
  <2>1. noted' \subseteq Sources /\ logged' \subseteq {NoteOf[t] : t \in Sources}
    BY <1>0, <1>10 DEF WriteNote, WriteBack, WriteVaultNote, Append, TypeOK, SourcesTypeOK
  <2>2. \/ /\ Typed /\ Elsewhere /\ task'[r][s].pc \in {"noted", "logged"} /\ UNCHANGED faults
        \/ Typed /\ Elsewhere /\ task'[r][s].pc = "failing" /\ faults' \in 0..MaxFaults
    BY <1>1, <1>3, <1>10 DEF WriteNote, WriteBack, Steps, Working, Errors
  <2> QED BY <1>0, <1>10, <2>1, <2>2
             DEF WriteNote, WriteBack, TypeOK, SourcesTypeOK, ClaimStep, Holds, Working, Typed, Elsewhere
<1>11. ASSUME MarkProcessed(r, s)
       PROVE  TypeOK' /\ ClaimStep(r, s)
  <2>1. CASE Mark(s, "processed") /\ Goes(r, s, "marked") /\ UNCHANGED faults
    <3>1. Typed /\ Elsewhere /\ task'[r][s].pc = "marked"
      BY <1>1, <2>1 DEF Steps, Working
    <3>2. /\ status' \in [Sources -> Statuses]
          /\ status'[s] = "processed"
          /\ \A t \in Sources : t # s => status'[t] = status[t]
      BY <1>5, <2>1 DEF Statuses
    <3> QED BY <1>0, <1>11, <2>1, <3>1, <3>2
               DEF MarkProcessed, TypeOK, SourcesTypeOK, ClaimStep, Holds, Working, Typed, Elsewhere
  <2>2. CASE UNCHANGED status /\ Raises(r, s, "other")
    <3>1. Typed /\ Elsewhere /\ task'[r][s].pc = "failing" /\ faults' \in 0..MaxFaults
      BY <1>3, <2>2 DEF Errors
    <3> QED BY <1>0, <1>11, <2>2, <3>1
               DEF MarkProcessed, TypeOK, SourcesTypeOK, ClaimStep, Holds, Working, Typed, Elsewhere
  <2> QED BY <1>11, <2>1, <2>2 DEF MarkProcessed
<1>12. ASSUME InsertArtifact(r, s)
       PROVE  TypeOK' /\ ClaimStep(r, s)
  <2>1. artifacts' \in [Sources -> Nat]
    BY <1>0, <1>12 DEF InsertArtifact, InsertVaultNoteArtifact, TypeOK, SourcesTypeOK
  <2>2. \/ Typed /\ Elsewhere /\ task'[r][s].pc = "finished" /\ UNCHANGED faults
        \/ Typed /\ Elsewhere /\ task'[r][s].pc = "failing" /\ faults' \in 0..MaxFaults
    BY <1>2, <1>3, <1>12 DEF InsertArtifact, Results, Errors
  <2> QED BY <1>0, <1>12, <2>1, <2>2
             DEF InsertArtifact, TypeOK, SourcesTypeOK, ClaimStep, Holds, Working, Typed, Elsewhere
<1>13. ASSUME Restore(r, s)
       PROVE  TypeOK' /\ ClaimStep(r, s)
  <2>0. task[r][s].res \in Results \ {"none"}
    BY <1>0, <1>13 DEF Restore, TypeOK, Tasks
  <2>1. Typed /\ Elsewhere /\ task'[r][s].pc = "finished"
    BY <1>2, <1>13, <2>0 DEF Restore
  <2>2. Restored(task[r][s].res) \in {"failed", "pending"}
    BY DEF Restored
  <2>3. /\ status' \in [Sources -> Statuses]
        /\ status'[s] \in {"failed", "pending"}
        /\ \A t \in Sources : t # s => status'[t] = status[t]
    BY <1>5, <1>13, <2>2 DEF Restore, Statuses
  <2> QED BY <1>0, <1>13, <2>1, <2>3
             DEF Restore, TypeOK, SourcesTypeOK, ClaimStep, Holds, Working, Typed, Elsewhere
<1> QED BY <1>6, <1>7, <1>8, <1>9, <1>10, <1>11, <1>12, <1>13 DEF WorkerStep

-----------------------------------------------------------------------------
(* The steps of the main thread *)

\* A step that moves no working task, and takes none from where nobody works,
\* keeps the claims as long as runs without workers stay the only idle ones.
LEMMA QuietStep ==
    ASSUME Claims, NEW r \in Runs, UNCHANGED <<status, killed>>,
           \A q \in Runs, t \in Sources : q # r =>
               task'[q][t] = task[q][t] /\ run'[q] = run[q],
           \A t \in Sources :
               /\ Holds(r, t)' <=> Holds(r, t)
               /\ Holds(r, t) => task'[r][t] = task[r][t]
               /\ run'[r].pc \in {"idle", "ended"} => task'[r][t].pc \in {"none", "collected"}
               /\ t \in run'[r].left => task'[r][t].pc = "none"
    PROVE  Claims'
<1>1. \A q \in Runs, t \in Sources : Holds(q, t)' <=> Holds(q, t)
  BY DEF Holds
<1>2. OneWorkerPerSource' /\ ClaimsAreHeld'
  BY <1>1 DEF Claims, OneWorkerPerSource, ClaimsAreHeld
<1>3. HeldRows'
  <2> SUFFICES ASSUME NEW q \in Runs, NEW t \in Sources, Holds(q, t)'
               PROVE  /\ status'[t] \notin {"absent", "pending"}
                      /\ task'[q][t].pc = "marked" => status'[t] = "processed"
                      /\ task'[q][t].pc = "hung" => status'[t] = "failed"
    BY DEF HeldRows, Holds, Working
  <2>1. Holds(q, t) /\ task'[q][t] = task[q][t]
    BY <1>1
  <2> QED BY <2>1 DEF Claims, HeldRows
<1>4. NoStrayTask'
  BY DEF Claims, NoStrayTask
<1> QED BY <1>2, <1>3, <1>4 DEF Claims

\* Changes to one run's record, and to the tasks of that run.
LEMMA RunFields ==
    ASSUME TypeOK, NEW r \in Runs
    PROVE  /\ \A pc \in {"fill", "wait", "decide", "ended"} :
                /\ [run[r] EXCEPT !.pc = pc] \in RunRecords
                /\ [run[r] EXCEPT !.pc = pc].pc = pc
                /\ [run[r] EXCEPT !.pc = pc].left = run[r].left
           /\ \A left \in SUBSET Sources :
                /\ [run[r] EXCEPT !.left = left] \in RunRecords
                /\ [run[r] EXCEPT !.left = left].pc = run[r].pc
                /\ [run[r] EXCEPT !.left = left].left = left
           /\ /\ [run[r] EXCEPT !.interrupted = TRUE] \in RunRecords
              /\ [run[r] EXCEPT !.interrupted = TRUE].pc = run[r].pc
              /\ [run[r] EXCEPT !.interrupted = TRUE].left = run[r].left
<1>1. run[r] \in RunRecords
  BY DEF TypeOK
<1> QED BY <1>1 DEF RunRecords

LEMMA RowUpdate ==
    ASSUME task \in [Runs -> [Sources -> Tasks]], NEW r \in Runs,
           NEW row \in [Sources -> Tasks], task' = [task EXCEPT ![r] = row]
    PROVE  /\ task' \in [Runs -> [Sources -> Tasks]]
           /\ task'[r] = row
           /\ \A q \in Runs, t \in Sources : q # r => task'[q][t] = task[q][t]
OBVIOUS

LEMMA Cancelling ==
    ASSUME TypeOK, NEW r \in Runs, CancelUnstarted(r)
    PROVE  /\ task' \in [Runs -> [Sources -> Tasks]]
           /\ \A q \in Runs, t \in Sources : q # r => task'[q][t] = task[q][t]
           /\ \A t \in Sources : IF task[r][t].pc = "queued" THEN task'[r][t].pc = "cancelled"
                                  ELSE task'[r][t] = task[r][t]
<1> DEFINE row == [t \in Sources |-> IF task[r][t].pc = "queued"
                                    THEN [task[r][t] EXCEPT !.pc = "cancelled"] ELSE task[r][t]]
<1>0. task \in [Runs -> [Sources -> Tasks]]
  BY DEF TypeOK
<1>1. \A t \in Sources : /\ [task[r][t] EXCEPT !.pc = "cancelled"] \in Tasks
                         /\ [task[r][t] EXCEPT !.pc = "cancelled"].pc = "cancelled"
  BY <1>0 DEF Tasks, Steps
<1>2. row \in [Sources -> Tasks]
  BY <1>0, <1>1
<1>3. task' = [task EXCEPT ![r] = row]
  BY <1>0 DEF CancelUnstarted
<1>4. \A t \in Sources : IF task[r][t].pc = "queued" THEN row[t].pc = "cancelled"
                         ELSE row[t] = task[r][t]
  BY <1>1
<1> HIDE DEF row
<1> QED BY <1>0, <1>2, <1>3, <1>4, RowUpdate

LEMMA MainSteps ==
    ASSUME IInv, NEW r \in Runs, MainStep(r) \/ Interrupt(r)
    PROVE  TypeOK' /\ Claims'
<1>0. /\ TypeOK /\ Claims
      /\ run \in [Runs -> RunRecords] /\ task \in [Runs -> [Sources -> Tasks]]
  BY DEF IInv, TypeOK
<1>1. CASE Submit(r)
  <2>1. PICK s \in run[r].left : /\ run' = [run EXCEPT ![r].left = @ \ {s}]
                                 /\ task' = [task EXCEPT ![r][s].pc = "queued"]
    BY <1>1 DEF Submit
  <2>2. s \in Sources /\ run[r].left \ {s} \in SUBSET Sources
    BY <1>0 DEF RunRecords
  <2> DEFINE rec == [run[r] EXCEPT !.left = run[r].left \ {s}]
  <2>3. rec \in RunRecords /\ rec.pc = run[r].pc /\ rec.left = run[r].left \ {s}
    BY <1>0, <2>2, RunFields
  <2>4. run' = [run EXCEPT ![r] = rec]
    BY <1>0, <2>1
  <2> HIDE DEF rec
  <2>5. /\ run' \in [Runs -> RunRecords] /\ run'[r] = rec
        /\ \A q \in Runs : q # r => run'[q] = run[q]
    BY <1>0, <2>3, <2>4, RunUpdate
  <2>6. /\ task' \in [Runs -> [Sources -> Tasks]] /\ task'[r][s].pc = "queued"
        /\ \A q \in Runs, t \in Sources : q # r \/ t # s => task'[q][t] = task[q][t]
    <3>1. "queued" \in Steps \ {"failing", "finished"}
      BY DEF Steps
    <3>2. task' \in [Runs -> [Sources -> Tasks]]
      BY <1>0, <2>1, <2>2, <3>1, TaskUpdate
    <3> QED BY <1>0, <2>1, <2>2, <3>2, TaskFrame
  <2>7. TypeOK'
    BY <1>0, <1>1, <2>5, <2>6 DEF Submit, TypeOK, SourcesTypeOK, sourceVars
  <2>8. task[r][s].pc = "none" /\ run[r].pc = "fill"
    BY <1>0, <1>1, <2>1, <2>2 DEF Submit, Claims, NoStrayTask
  <2>9. ASSUME NEW t \in Sources
        PROVE  /\ Holds(r, t)' <=> Holds(r, t)
               /\ Holds(r, t) => task'[r][t] = task[r][t]
               /\ run'[r].pc \in {"idle", "ended"} => task'[r][t].pc \in {"none", "collected"}
               /\ t \in run'[r].left => task'[r][t].pc = "none"
    BY <1>0, <2>3, <2>5, <2>6, <2>8 DEF Holds, Working, Claims, NoStrayTask
  <2>10. Claims'
    BY <1>0, <1>1, <2>5, <2>6, <2>9, QuietStep DEF Submit, sourceVars
  <2> QED BY <2>7, <2>10
<1>2. ASSUME NEW pc \in {"fill", "wait", "ended"}, run' = [run EXCEPT ![r].pc = pc],
             UNCHANGED <<sourceVars, task, killed, faults>>,
             pc = "ended" => \A t \in Sources : task[r][t].pc \in {"none", "collected"}
      PROVE  TypeOK' /\ Claims'
  <2> DEFINE rec == [run[r] EXCEPT !.pc = pc]
  <2>0. pc \in {"fill", "wait", "decide", "ended"}
    OBVIOUS
  <2>1. rec \in RunRecords /\ rec.pc = pc /\ rec.left = run[r].left
    BY <1>0, <2>0, RunFields
  <2>2. run' = [run EXCEPT ![r] = rec]
    BY <1>0, <1>2
  <2> HIDE DEF rec
  <2>3. /\ run' \in [Runs -> RunRecords] /\ run'[r] = rec
        /\ \A q \in Runs : q # r => run'[q] = run[q]
    BY <1>0, <2>1, <2>2, RunUpdate
  <2>4. TypeOK'
    BY <1>0, <1>2, <2>3 DEF TypeOK, SourcesTypeOK, sourceVars
  <2>5. Claims'
    BY <1>0, <1>2, <2>1, <2>3, QuietStep DEF sourceVars, Holds, Claims, NoStrayTask
  <2> QED BY <2>4, <2>5
<1>3. CASE EndFill(r)
  BY <1>2, <1>3 DEF EndFill
<1>4. CASE EndRun(r)
  <2>1. \A t \in Sources : task[r][t].pc \in {"none", "collected"}
    BY <1>4 DEF EndRun, Futures
  <2> QED BY <1>2, <1>4, <2>1 DEF EndRun
<1>5. ASSUME CancelUnstarted(r), UNCHANGED sourceVars, killed' = killed, faults' \in 0..MaxFaults,
             run' \in [Runs -> RunRecords], \A q \in Runs : q # r => run'[q] = run[q],
             run'[r].pc = "wait", run'[r].left = run[r].left
      PROVE  TypeOK' /\ Claims'
  <2>1. /\ task' \in [Runs -> [Sources -> Tasks]]
        /\ \A q \in Runs, t \in Sources : q # r => task'[q][t] = task[q][t]
        /\ \A t \in Sources : IF task[r][t].pc = "queued" THEN task'[r][t].pc = "cancelled"
                               ELSE task'[r][t] = task[r][t]
    BY <1>0, <1>5, Cancelling
  <2>2. TypeOK'
    BY <1>0, <1>5, <2>1 DEF TypeOK, SourcesTypeOK, sourceVars
  <2>3. Claims'
    <3>1. ASSUME NEW t \in Sources
          PROVE  /\ Holds(r, t)' <=> Holds(r, t)
                 /\ Holds(r, t) => task'[r][t] = task[r][t]
                 /\ t \in run'[r].left => task'[r][t].pc = "none"
      BY <1>0, <1>5, <2>1 DEF Holds, Working, Claims, NoStrayTask
    <3> QED BY <1>0, <1>5, <2>1, <3>1, QuietStep DEF sourceVars
  <2> QED BY <2>2, <2>3
<1>6. CASE Decide(r)
  <2>1. CASE CancelUnstarted(r) /\ run' = [run EXCEPT ![r].pc = "wait"]
    <3> DEFINE rec == [run[r] EXCEPT !.pc = "wait"]
    <3>1. rec \in RunRecords /\ rec.pc = "wait" /\ rec.left = run[r].left
      BY <1>0, RunFields
    <3>2. run' = [run EXCEPT ![r] = rec]
      BY <1>0, <2>1
    <3> HIDE DEF rec
    <3>3. faults' \in 0..MaxFaults
      BY <1>0, <1>6 DEF Decide, TypeOK
    <3> QED BY <1>0, <1>5, <1>6, <2>1, <3>1, <3>2, <3>3, RunUpdate DEF Decide
  <2>2. CASE UNCHANGED task /\ run' = [run EXCEPT ![r].pc = "fill"]
    BY <1>2, <1>6, <2>2 DEF Decide
  <2> QED BY <1>6, <2>1, <2>2 DEF Decide
<1>7. CASE Interrupt(r)
  <2> DEFINE rec == [run[r] EXCEPT !.interrupted = TRUE]
  <2>1. rec \in RunRecords /\ rec.pc = run[r].pc /\ rec.left = run[r].left
    BY <1>0, RunFields
  <2>2. run' = [run EXCEPT ![r] = rec]
    BY <1>0, <1>7 DEF Interrupt
  <2> HIDE DEF rec
  <2>3. faults' \in 0..MaxFaults
    BY <1>0, <1>7, IngestAssumption DEF Interrupt, Fault, TypeOK
  <2> QED BY <1>0, <1>5, <1>7, <2>1, <2>2, <2>3, RunUpdate DEF Interrupt
<1>8. CASE Collect(r)
  <2>1. PICK done \in SUBSET DoneFutures(r) :
          /\ run' = [run EXCEPT
               ![r].pc = "decide",
               ![r].fatal = PreferredFatal(r, done),
               ![r].report = [s \in Sources |->
                   IF s \in done /\ task[r][s].pc = "finished" /\ ~Raised(task[r][s])
                   THEN Reported(task[r][s]) ELSE @[s]]]
          /\ task' = [task EXCEPT ![r] = [s \in Sources |->
                   IF s \in done THEN [@[s] EXCEPT !.pc = "collected"] ELSE @[s]]]
    BY <1>8 DEF Collect
  <2> DEFINE report == [s \in Sources |->
                 IF s \in done /\ task[r][s].pc = "finished" /\ ~Raised(task[r][s])
                 THEN Reported(task[r][s]) ELSE run[r].report[s]]
             rec == [run[r] EXCEPT !.pc = "decide", !.fatal = PreferredFatal(r, done),
                                   !.report = report]
             row == [s \in Sources |-> IF s \in done THEN [task[r][s] EXCEPT !.pc = "collected"]
                                      ELSE task[r][s]]
  <2>2. ASSUME NEW s \in Sources, task[r][s].pc = "finished", ~Raised(task[r][s])
        PROVE  Reported(task[r][s]) \in Reports
    BY <1>0, <2>2 DEF Tasks, Results, Reported, Raised, Reports
  <2>3. report \in [Sources -> Reports]
    BY <1>0, <2>2 DEF RunRecords
  <2>4. PreferredFatal(r, done) \in {"none", "other", "auth"}
    BY <1>0 DEF PreferredFatal, RunRecords
  <2>5. rec \in RunRecords /\ rec.pc = "decide" /\ rec.left = run[r].left
    <3> HIDE DEF report
    <3> QED BY <1>0, <2>3, <2>4 DEF RunRecords
  <2>6. \A s \in Sources : /\ [task[r][s] EXCEPT !.pc = "collected"] \in Tasks
                           /\ [task[r][s] EXCEPT !.pc = "collected"].pc = "collected"
    BY <1>0 DEF Tasks, Steps
  <2>7. row \in [Sources -> Tasks]
    BY <1>0, <2>6
  <2>8. \A s \in Sources : IF s \in done THEN row[s].pc = "collected" ELSE row[s] = task[r][s]
    BY <2>6
  <2>9. run' = [run EXCEPT ![r] = rec] /\ task' = [task EXCEPT ![r] = row]
    BY <1>0, <2>1
  <2> HIDE DEF report, rec, row
  <2>10. /\ run' \in [Runs -> RunRecords] /\ run'[r] = rec
         /\ \A q \in Runs : q # r => run'[q] = run[q]
    BY <1>0, <2>5, <2>9, RunUpdate
  <2>11. /\ task' \in [Runs -> [Sources -> Tasks]] /\ task'[r] = row
         /\ \A q \in Runs, t \in Sources : q # r => task'[q][t] = task[q][t]
    BY <1>0, <2>7, <2>9, RowUpdate
  <2>12. TypeOK'
    BY <1>0, <1>8, <2>10, <2>11 DEF Collect, TypeOK, SourcesTypeOK, sourceVars
  <2>13. ASSUME NEW t \in Sources
         PROVE  /\ Holds(r, t)' <=> Holds(r, t)
                /\ Holds(r, t) => task'[r][t] = task[r][t]
                /\ run'[r].pc \in {"idle", "ended"} => task'[r][t].pc \in {"none", "collected"}
                /\ t \in run'[r].left => task'[r][t].pc = "none"
    BY <1>0, <2>5, <2>8, <2>10, <2>11 DEF DoneFutures, Holds, Working, Claims, NoStrayTask
  <2>14. \A q \in Runs, t \in Sources : q # r => task'[q][t] = task[q][t] /\ run'[q] = run[q]
    BY <2>10, <2>11
  <2>15. UNCHANGED <<status, killed>>
    BY <1>8 DEF Collect, sourceVars
  <2>16. Claims'
    BY <1>0, <2>13, <2>14, <2>15, QuietStep
  <2> QED BY <2>12, <2>16
<1> QED BY <1>1, <1>3, <1>4, <1>6, <1>7, <1>8 DEF MainStep

-----------------------------------------------------------------------------
(* The beginning and the end of a run *)

LEMMA NoTasks ==
    ASSUME TypeOK, NEW r \in Runs, task' = [task EXCEPT ![r] = [s \in Sources |-> NoTask]]
    PROVE  /\ task' \in [Runs -> [Sources -> Tasks]]
           /\ \A t \in Sources : task'[r][t].pc = "none" /\ ~Holds(r, t)'
           /\ \A q \in Runs, t \in Sources : q # r => task'[q][t] = task[q][t]
<1>1. [s \in Sources |-> NoTask] \in [Sources -> Tasks]
  BY IdleTyped
<1>2. NoTask.pc = "none"
  BY DEF NoTask
<1> QED BY <1>1, <1>2, RowUpdate DEF TypeOK, Holds, Working

LEMMA StartSteps ==
    ASSUME IInv, NEW r \in Runs, StartRun(r)
    PROVE  TypeOK' /\ Claims'
<1>0. TypeOK /\ Claims /\ run[r].pc \in {"idle", "ended"}
  BY DEF IInv, StartRun
<1>1. PICK found \in SUBSET Sources :
        /\ Discover(found)
        /\ run' = [run EXCEPT ![r] = [IdleRun EXCEPT
                     !.pc = "fill", !.queue = PendingAfter(found), !.left = PendingAfter(found)]]
  BY DEF StartRun
<1> DEFINE rec == [IdleRun EXCEPT
                     !.pc = "fill", !.queue = PendingAfter(found), !.left = PendingAfter(found)]
<1>2. rec \in RunRecords /\ rec.pc = "fill"
  <2>1. PendingAfter(found) \in SUBSET Sources
    BY DEF PendingAfter
  <2> QED BY <2>1, IdleTyped DEF RunRecords, IdleRun
<1>3. run' = [run EXCEPT ![r] = rec]
  BY <1>1
<1> HIDE DEF rec
<1>4. /\ run' \in [Runs -> RunRecords] /\ run'[r] = rec
      /\ \A q \in Runs : q # r => run'[q] = run[q]
  BY <1>0, <1>2, <1>3, RunUpdate DEF TypeOK
<1>5. /\ task' \in [Runs -> [Sources -> Tasks]]
      /\ \A t \in Sources : task'[r][t].pc = "none" /\ ~Holds(r, t)'
      /\ \A q \in Runs, t \in Sources : q # r => task'[q][t] = task[q][t]
  BY <1>0, NoTasks DEF StartRun
<1>6. /\ status' \in [Sources -> Statuses]
      /\ \A t \in Sources : status'[t] # status[t] => status[t] = "absent" /\ status'[t] = "pending"
  BY <1>0, <1>1 DEF Discover, TypeOK, SourcesTypeOK, Statuses
<1>7. \A t \in Sources : ~Holds(r, t)
  BY <1>0 DEF Claims, NoStrayTask, Holds, Working
<1>8. \A q \in Runs, t \in Sources : Holds(q, t)' <=> Holds(q, t)
  BY <1>5, <1>7 DEF Holds
<1>9. TypeOK'
  BY <1>0, <1>4, <1>5, <1>6 DEF StartRun, TypeOK, SourcesTypeOK
<1>10. OneWorkerPerSource' /\ ClaimsAreHeld'
  BY <1>0, <1>6, <1>8 DEF StartRun, Claims, OneWorkerPerSource, ClaimsAreHeld
<1>11. HeldRows'
  <2> SUFFICES ASSUME NEW q \in Runs, NEW t \in Sources, Holds(q, t)'
               PROVE  /\ status'[t] \notin {"absent", "pending"}
                      /\ task'[q][t].pc = "marked" => status'[t] = "processed"
                      /\ task'[q][t].pc = "hung" => status'[t] = "failed"
    BY DEF HeldRows, Holds, Working
  <2>1. Holds(q, t) /\ task'[q][t] = task[q][t]
    BY <1>5, <1>7, <1>8
  <2> QED BY <1>0, <1>6, <2>1 DEF Claims, HeldRows
<1>12. NoStrayTask'
  BY <1>0, <1>2, <1>4, <1>5 DEF Claims, NoStrayTask
<1> QED BY <1>9, <1>10, <1>11, <1>12 DEF Claims

LEMMA KillSteps ==
    ASSUME IInv, NEW r \in Runs, Kill(r)
    PROVE  TypeOK' /\ Claims'
<1>0. TypeOK /\ Claims
  BY DEF IInv
<1>1. /\ run' \in [Runs -> RunRecords] /\ run'[r] = IdleRun
      /\ \A q \in Runs : q # r => run'[q] = run[q]
  BY <1>0, IdleTyped, RunUpdate DEF Kill, TypeOK
<1>2. /\ task' \in [Runs -> [Sources -> Tasks]]
      /\ \A t \in Sources : task'[r][t].pc = "none" /\ ~Holds(r, t)'
      /\ \A q \in Runs, t \in Sources : q # r => task'[q][t] = task[q][t]
  BY <1>0, NoTasks DEF Kill
<1>3. killed' = killed \cup {s \in Sources : Holds(r, s)} /\ UNCHANGED sourceVars
  BY DEF Kill
<1>4. faults' \in 0..MaxFaults
  BY <1>0, IngestAssumption DEF Kill, Fault, TypeOK
<1>5. TypeOK'
  BY <1>0, <1>1, <1>2, <1>3, <1>4 DEF TypeOK, SourcesTypeOK, sourceVars
<1>6. \A q \in Runs, t \in Sources : q # r => (Holds(q, t)' <=> Holds(q, t))
  BY <1>2 DEF Holds
<1>7. OneWorkerPerSource'
  BY <1>0, <1>2, <1>6 DEF Claims, OneWorkerPerSource
<1>8. ClaimsAreHeld'
  <2> SUFFICES ASSUME NEW t \in Sources, status'[t] = "in_progress", t \notin killed'
               PROVE  \E q \in Runs : Holds(q, t)'
    BY DEF ClaimsAreHeld
  <2>1. t \notin killed /\ ~Holds(r, t) /\ status[t] = "in_progress"
    BY <1>3 DEF sourceVars
  <2>2. PICK q \in Runs : Holds(q, t)
    BY <1>0, <2>1 DEF Claims, ClaimsAreHeld
  <2> QED BY <1>6, <2>1, <2>2
<1>9. HeldRows'
  <2> SUFFICES ASSUME NEW q \in Runs, NEW t \in Sources, Holds(q, t)'
               PROVE  /\ status'[t] \notin {"absent", "pending"}
                      /\ task'[q][t].pc = "marked" => status'[t] = "processed"
                      /\ task'[q][t].pc = "hung" => status'[t] = "failed"
    BY DEF HeldRows, Holds, Working
  <2>1. q # r /\ Holds(q, t) /\ task'[q][t] = task[q][t]
    BY <1>2, <1>6
  <2> QED BY <1>0, <1>3, <2>1 DEF Claims, HeldRows, sourceVars
<1>10. NoStrayTask'
  <2>1. IdleRun.left = {}
    BY DEF IdleRun
  <2> QED BY <1>0, <1>1, <1>2, <2>1 DEF Claims, NoStrayTask
<1> QED BY <1>5, <1>7, <1>8, <1>9, <1>10 DEF Claims

-----------------------------------------------------------------------------
(* The theorems *)

LEMMA Initially == Init => IInv
<1> SUFFICES ASSUME Init PROVE IInv
  OBVIOUS
<1>1. NoTask.pc = "none" /\ IdleRun.left = {}
  BY DEF NoTask, IdleRun
<1>2. \A r \in Runs, s \in Sources : task[r][s].pc = "none" /\ ~Holds(r, s)
  BY <1>1 DEF Init, Holds, Working
<1>3. TypeOK
  BY IngestAssumption, IdleTyped DEF Init, SourcesInit, TypeOK, SourcesTypeOK, Statuses
<1>4. Claims
  BY <1>1, <1>2 DEF Init, SourcesInit, Claims, OneWorkerPerSource, ClaimsAreHeld, HeldRows, NoStrayTask
<1> QED BY <1>3, <1>4 DEF IInv

LEMMA Inductive == IInv /\ [Next]_vars => IInv'
<1> SUFFICES ASSUME IInv, [Next]_vars PROVE IInv'
  OBVIOUS
<1>1. CASE UNCHANGED vars
  BY <1>1 DEF vars, sourceVars, ingestVars, IInv, TypeOK, SourcesTypeOK, Claims, OneWorkerPerSource,
              ClaimsAreHeld, HeldRows, NoStrayTask, Holds
<1>2. ASSUME NEW r \in Runs, NEW s \in Sources, WorkerStep(r, s) \/ FetchReturns(r, s)
      PROVE  IInv'
  BY <1>2, WorkerSteps, ClaimStepKeeps DEF IInv
<1>3. ASSUME NEW r \in Runs, StartRun(r) \/ MainStep(r) \/ Interrupt(r) \/ Kill(r)
      PROVE  IInv'
  BY <1>3, StartSteps, MainSteps, KillSteps DEF IInv
<1> QED BY <1>1, <1>2, <1>3 DEF Next

LEMMA Invariant == Spec => []IInv
BY Initially, Inductive, PTL DEF Spec

\* The sources whose note, and whose log entries, are there.
Noted == {s \in Sources : HasNote(s)}
Logged == {s \in Sources : IsLogged(s)}

\* What a step of a worker does to what its source leaves behind.
StoreStep(r, s) ==
    /\ Noted \subseteq Noted' /\ Logged \subseteq Logged'
    /\ \A t \in Sources : t # s => artifacts'[t] = artifacts[t]
    /\ artifacts'[s] = artifacts[s] \/ artifacts'[s] = artifacts[s] + 1
    /\ artifacts'[s] # artifacts[s] =>
           Holds(r, s) /\ ~Holds(r, s)' /\ status'[s] = "processed"
    /\ status[s] = "processed" /\ status'[s] = "processed" /\ Holds(r, s) =>
           Holds(r, s)' \/ artifacts'[s] = artifacts[s] + 1
    /\ status'[s] = "processed" =>
           status[s] = "processed" \/ (task[r][s].pc = "logged" /\ Holds(r, s)')
    /\ task'[r][s].pc \in {"noted", "logged"} => s \in Noted'
    /\ task'[r][s].pc = "logged" => s \in Logged'

\* A source has its artifact only when it is processed and let go; a worker past
\* the note, or past the writebacks, has them on disk.
Stored ==
    /\ \A s \in Sources :
         /\ artifacts[s] \in {0, 1}
         /\ artifacts[s] = 1 => status[s] = "processed" /\ \A r \in Runs : ~Holds(r, s)
         /\ status[s] = "processed" =>
                /\ s \in Noted \cap Logged
                /\ artifacts[s] = 1 \/ s \in killed \/ \E r \in Runs : Holds(r, s)
    /\ \A r \in Runs, s \in Sources :
         /\ task[r][s].pc \in {"noted", "logged"} => s \in Noted
         /\ task[r][s].pc = "logged" => s \in Logged

LEMMA WorkerStores ==
    ASSUME IInv, Stored, NEW r \in Runs, NEW s \in Sources, WorkerStep(r, s) \/ FetchReturns(r, s)
    PROVE  StoreStep(r, s)
<1> USE DEF StoreStep, Holds, Working
<1>u. (UNCHANGED noted => UNCHANGED Noted) /\ (UNCHANGED logged => UNCHANGED Logged)
  BY DEF Noted, Logged, HasNote, IsLogged
<1>w. WriteVaultNote(s) => s \in Noted' /\ Noted \subseteq Noted'
  BY DEF WriteVaultNote, Noted, HasNote
<1>a. Append(s) => s \in Logged' /\ Logged \subseteq Logged'
  BY DEF Append, Logged, IsLogged
<1>0. /\ TypeOK
      /\ noted \subseteq Sources /\ logged \subseteq {NoteOf[t] : t \in Sources}
      /\ task \in [Runs -> [Sources -> Tasks]]
      /\ status \in [Sources -> Statuses] /\ artifacts \in [Sources -> Nat]
      /\ Holds(r, s) => status[s] \notin {"absent", "pending"}
      /\ task[r][s].pc = "marked" => status[s] = "processed"
      /\ task[r][s].pc = "hung" => status[s] = "failed"
      /\ task[r][s].pc \in {"noted", "logged"} => s \in Noted
      /\ task[r][s].pc = "logged" => s \in Logged
  BY DEF IInv, TypeOK, SourcesTypeOK, Claims, HeldRows, Stored
<1>1. \A pc : Goes(r, s, pc) => task'[r][s].pc = pc
  BY <1>0, TaskFrame DEF Goes
<1>2. \A res : Returns(r, s, res) => task'[r][s].pc = "finished"
  BY <1>0, TaskFrame DEF Returns
<1>3. \A error : Raises(r, s, error) => task'[r][s].pc = "failing"
  BY <1>0, TaskFrame DEF Raises
<1>4. \A value : Mark(s, value) => status'[s] = value
  BY <1>0 DEF Mark
<1>5. CASE Admit(r, s)
  <2>1. UNCHANGED <<status, noted, logged, artifacts>> /\ ~Holds(r, s)
    BY <1>5 DEF Admit, sourceVars
  <2>2. task'[r][s].pc \in {"finished", "admitted"}
    BY <1>1, <1>2, <1>5 DEF Admit
  <2> QED BY <1>u, <2>1, <2>2
<1>6. CASE Claim(r, s)
  <2>1. UNCHANGED <<noted, logged, artifacts>> /\ ~Holds(r, s)
    BY <1>6 DEF Claim
  <2>2. task'[r][s].pc \in {"finished", "claimed"}
    BY <1>1, <1>2, <1>6 DEF Claim
  <2>3. status'[s] = "processed" => status[s] = "processed"
    BY <1>0, <1>6 DEF Claim, Mark
  <2> QED BY <1>u, <2>1, <2>2, <2>3
<1>7. CASE Fetch(r, s)
  BY <1>0, <1>u, <1>1, <1>2, <1>3, <1>4, <1>7 DEF Fetch
<1>8. CASE FetchTimesOut(r, s) \/ FetchReturns(r, s)
  BY <1>0, <1>u, <1>1, <1>2, <1>4, <1>8 DEF FetchTimesOut, FetchReturns, sourceVars
<1>9. CASE Synthesize(r, s, "fetched", "cleaned") \/ Synthesize(r, s, "cleaned", "extracted")
  BY <1>0, <1>u, <1>1, <1>3, <1>9 DEF Synthesize, sourceVars
<1>10. CASE WriteNote(r, s)
  BY <1>0, <1>u, <1>w, <1>1, <1>3, <1>10 DEF WriteNote
<1>11. CASE WriteBack(r, s)
  BY <1>0, <1>u, <1>a, <1>1, <1>3, <1>11 DEF WriteBack
<1>12. CASE MarkProcessed(r, s)
  BY <1>0, <1>u, <1>1, <1>3, <1>4, <1>12 DEF MarkProcessed
<1>13. CASE InsertArtifact(r, s)
  <2>1. CASE InsertVaultNoteArtifact(s) /\ Returns(r, s, "completed")
    <3>1. /\ artifacts'[s] = artifacts[s] + 1
          /\ \A t \in Sources : t # s => artifacts'[t] = artifacts[t]
      BY <1>0, <2>1 DEF InsertVaultNoteArtifact
    <3> QED BY <1>0, <1>u, <1>2, <1>13, <2>1, <3>1 DEF InsertArtifact
  <2>2. CASE UNCHANGED artifacts /\ Raises(r, s, "other")
    <3>1. UNCHANGED <<status, noted, logged, artifacts>> /\ task'[r][s].pc = "failing" /\ Holds(r, s)
      BY <1>3, <1>13, <2>2 DEF InsertArtifact
    <3> QED BY <1>u, <3>1
  <2> QED BY <1>13, <2>1, <2>2 DEF InsertArtifact
<1>14. CASE Restore(r, s)
  BY <1>0, <1>u, <1>2, <1>4, <1>14 DEF Restore, Restored
<1> QED BY <1>5, <1>6, <1>7, <1>8, <1>9, <1>10, <1>11, <1>12, <1>13, <1>14 DEF WorkerStep

LEMMA StoreStepKeeps ==
    ASSUME TypeOK, Claims, Stored, NEW r \in Runs, NEW s \in Sources,
           ClaimStep(r, s), StoreStep(r, s)
    PROVE  Stored'
<1>1. \A q \in Runs, t \in Sources : q # r \/ t # s => (Holds(q, t)' <=> Holds(q, t))
  BY DEF ClaimStep, Holds
<1>2. \A q \in Runs : Holds(q, s) /\ Holds(r, s) => q = r
  BY DEF Claims, OneWorkerPerSource
<1>3. artifacts[s] = 1 => status[s] = "processed" /\ \A q \in Runs : ~Holds(q, s)
  BY DEF Stored
<1>4. Holds(r, s)' => Holds(r, s) \/ status[s] = "pending"
  BY DEF ClaimStep, Holds
<1>5. ASSUME NEW t \in Sources
      PROVE  /\ artifacts'[t] \in {0, 1}
             /\ artifacts'[t] = 1 => status'[t] = "processed" /\ \A q \in Runs : ~Holds(q, t)'
  <2>1. CASE t # s
    BY <1>1, <2>1 DEF ClaimStep, StoreStep, Stored
  <2>2. CASE t = s /\ artifacts'[s] # artifacts[s]
    <3>1. Holds(r, s) /\ ~Holds(r, s)' /\ status'[s] = "processed"
      BY <2>2 DEF StoreStep
    <3>2. artifacts[s] = 0
      BY <1>3, <3>1 DEF Stored
    <3> QED BY <1>1, <1>2, <2>2, <3>1, <3>2 DEF StoreStep
  <2>3. CASE t = s /\ artifacts'[s] = artifacts[s] /\ artifacts[s] = 1
    <3>1. status[s] = "processed" /\ ~Holds(r, s)
      BY <1>3, <2>3
    <3>2. status'[s] = "processed" /\ ~Holds(r, s)'
      BY <1>4, <3>1 DEF ClaimStep
    <3> QED BY <1>1, <1>3, <2>3, <3>2
  <2>4. CASE t = s /\ artifacts'[s] = artifacts[s] /\ artifacts[s] # 1
    BY <2>4 DEF Stored
  <2> QED BY <2>1, <2>2, <2>3, <2>4
<1>6. ASSUME NEW t \in Sources, status'[t] = "processed"
      PROVE  artifacts'[t] = 1 \/ t \in killed' \/ \E q \in Runs : Holds(q, t)'
  <2>1. CASE t # s
    BY <1>1, <1>6, <2>1 DEF ClaimStep, StoreStep, Stored
  <2>2. CASE t = s /\ status[s] # "processed"
    BY <1>6, <2>2 DEF StoreStep
  <2>3. CASE t = s /\ status[s] = "processed" /\ Holds(r, s)
    <3>1. artifacts[s] = 0
      BY <1>3, <2>3 DEF Stored
    <3> QED BY <1>6, <2>3, <3>1 DEF StoreStep
  <2>4. CASE t = s /\ status[s] = "processed" /\ ~Holds(r, s)
    <3>1. artifacts'[s] = artifacts[s]
      BY <2>4 DEF StoreStep
    <3> QED BY <1>1, <2>4, <3>1 DEF ClaimStep, StoreStep, Stored
  <2> QED BY <2>1, <2>2, <2>3, <2>4
<1>7. ASSUME NEW t \in Sources, status'[t] = "processed"
      PROVE  t \in Noted' /\ t \in Logged'
  <2>1. status[t] = "processed" \/ (t = s /\ task[r][s].pc = "logged")
    BY <1>7 DEF ClaimStep, StoreStep
  <2>2. t \in Noted /\ t \in Logged
    BY <2>1 DEF Stored
  <2> QED BY <2>2 DEF StoreStep
<1>8. ASSUME NEW q \in Runs, NEW t \in Sources
      PROVE  /\ task'[q][t].pc \in {"noted", "logged"} => t \in Noted'
             /\ task'[q][t].pc = "logged" => t \in Logged'
  <2>1. CASE q = r /\ t = s
    BY <2>1 DEF StoreStep
  <2>2. CASE q # r \/ t # s
    <3>1. task'[q][t] = task[q][t]
      BY <2>2 DEF ClaimStep
    <3>2. /\ task'[q][t].pc \in {"noted", "logged"} => t \in Noted
          /\ task'[q][t].pc = "logged" => t \in Logged
      BY <3>1 DEF Stored
    <3> QED BY <3>2 DEF StoreStep
  <2> QED BY <2>1, <2>2
<1> QED BY <1>5, <1>6, <1>7, <1>8 DEF Stored

LEMMA StoredInitially == Init => Stored
<1> SUFFICES ASSUME Init PROVE Stored
  OBVIOUS
<1>1. NoTask.pc = "none"
  BY DEF NoTask
<1>2. \A r \in Runs, s \in Sources : task[r][s].pc = "none"
  BY <1>1 DEF Init
<1> QED BY <1>2 DEF Init, SourcesInit, Stored

LEMMA StoredInductive == IInv /\ Stored /\ [Next]_vars => Stored'
<1> SUFFICES ASSUME IInv, Stored, [Next]_vars PROVE Stored'
  OBVIOUS
<1>0. TypeOK /\ Claims /\ task \in [Runs -> [Sources -> Tasks]]
  BY DEF IInv, TypeOK
<1>1. CASE UNCHANGED vars
  BY <1>1 DEF vars, sourceVars, ingestVars, Stored, Holds, Noted, Logged, HasNote, IsLogged
<1>2. ASSUME NEW r \in Runs, NEW s \in Sources, WorkerStep(r, s) \/ FetchReturns(r, s)
      PROVE  Stored'
  BY <1>0, <1>2, WorkerSteps, WorkerStores, StoreStepKeeps
\* A step that leaves the files alone, and takes a source from its worker only
\* by killing the run.
<1>3. ASSUME UNCHANGED <<noted, logged, artifacts>>, killed \subseteq killed',
             \A s \in Sources : status'[s] = "processed" <=> status[s] = "processed",
             \A r \in Runs, s \in Sources :
               /\ Holds(r, s)' => Holds(r, s) /\ task'[r][s] = task[r][s]
               /\ Holds(r, s) => Holds(r, s)' \/ s \in killed'
      PROVE  Stored'
  <2>1. ASSUME NEW r \in Runs, NEW s \in Sources, task'[r][s].pc \in {"noted", "logged"}
        PROVE  task[r][s].pc = task'[r][s].pc
    BY <1>3, <2>1 DEF Holds, Working
  <2>2. UNCHANGED <<Noted, Logged>>
    BY <1>3 DEF Noted, Logged, HasNote, IsLogged
  <2> QED BY <1>3, <2>1, <2>2 DEF Stored
<1>4. ASSUME NEW r \in Runs, StartRun(r)
      PROVE  Stored'
  <2>1. /\ \A t \in Sources : task'[r][t].pc = "none" /\ ~Holds(r, t)'
        /\ \A q \in Runs, t \in Sources : q # r => task'[q][t] = task[q][t]
    BY <1>0, <1>4, NoTasks DEF StartRun
  <2>2. \A t \in Sources : ~Holds(r, t)
    BY <1>0, <1>4 DEF StartRun, Claims, NoStrayTask, Holds, Working
  <2>3. \A s \in Sources : status'[s] = "processed" <=> status[s] = "processed"
    BY <1>0, <1>4 DEF StartRun, Discover, TypeOK, SourcesTypeOK
  <2> QED BY <1>3, <1>4, <2>1, <2>2, <2>3 DEF StartRun, Holds
<1>5. ASSUME NEW r \in Runs, Kill(r)
      PROVE  Stored'
  <2>1. /\ \A t \in Sources : task'[r][t].pc = "none" /\ ~Holds(r, t)'
        /\ \A q \in Runs, t \in Sources : q # r => task'[q][t] = task[q][t]
    BY <1>0, <1>5, NoTasks DEF Kill
  <2> QED BY <1>3, <1>5, <2>1 DEF Kill, Holds, sourceVars
<1>6. ASSUME NEW r \in Runs, MainStep(r) \/ Interrupt(r)
      PROVE  Stored'
  <2>1. UNCHANGED <<sourceVars, killed>>
    BY <1>6 DEF MainStep, Submit, EndFill, Collect, Decide, EndRun, Interrupt
  <2>2. \A q \in Runs, t \in Sources : /\ Holds(q, t)' <=> Holds(q, t)
                                       /\ Holds(q, t) => task'[q][t] = task[q][t]
    <3>1. CASE Submit(r)
      <4>1. PICK s \in run[r].left : task' = [task EXCEPT ![r][s].pc = "queued"]
        BY <3>1 DEF Submit
      <4>2. s \in Sources /\ task[r][s].pc = "none"
        BY <1>0 DEF TypeOK, RunRecords, Claims, NoStrayTask
      <4> QED BY <1>0, <4>1, <4>2, TaskFrame DEF Holds, Working
    <3>2. CASE EndFill(r) \/ EndRun(r)
      BY <3>2 DEF EndFill, EndRun, Holds
    <3>3. CASE Collect(r)
      <4>1. PICK done \in SUBSET DoneFutures(r) :
              task' = [task EXCEPT ![r] = [s \in Sources |->
                   IF s \in done THEN [@[s] EXCEPT !.pc = "collected"] ELSE @[s]]]
        BY <3>3 DEF Collect
      <4>2. \A t \in Sources : [task[r][t] EXCEPT !.pc = "collected"].pc = "collected"
        BY <1>0 DEF Tasks
      <4>3. \A t \in Sources : IF t \in done THEN task'[r][t].pc = "collected"
                               ELSE task'[r][t] = task[r][t]
        BY <1>0, <4>1, <4>2
      <4>4. \A q \in Runs : q # r => task'[q] = task[q]
        BY <1>0, <4>1
      <4> QED BY <4>3, <4>4 DEF DoneFutures, Holds, Working
    <3>4. CASE CancelUnstarted(r)
      BY <1>0, <3>4, Cancelling DEF Holds, Working
    <3>5. CASE UNCHANGED task
      BY <3>5 DEF Holds
    <3> QED BY <1>6, <3>1, <3>2, <3>3, <3>4, <3>5 DEF MainStep, Decide, Interrupt
  <2> QED BY <1>3, <2>1, <2>2 DEF sourceVars
<1> QED BY <1>1, <1>2, <1>4, <1>5, <1>6 DEF Next

\* Every reachable state is well typed.
THEOREM TypeCorrect == Spec => []TypeOK
<1>1. IInv => TypeOK
  BY DEF IInv
<1> QED BY <1>1, Invariant, PTL

\* However many runs overlap, one worker at a time processes a source.
THEOREM OneWorker == Spec => []OneWorkerPerSource
<1>1. IInv => OneWorkerPerSource
  BY DEF IInv, Claims
<1> QED BY <1>1, Invariant, PTL

\* No path of any worker leaves a row in progress behind it; only a kill does.
THEOREM NoClaimForgotten == Spec => []ClaimsAreHeld
<1>1. IInv => ClaimsAreHeld
  BY DEF IInv, Claims
<1> QED BY <1>1, Invariant, PTL

\* A processed source has its note, its log entries and, once it is let go
\* without a kill, exactly one artifact.
THEOREM Complete == Spec => []ProcessedIsComplete
<1>1. Spec => []Stored
  BY StoredInitially, StoredInductive, Invariant, PTL DEF Spec
<1>2. Stored => ProcessedIsComplete
  BY DEF Stored, ProcessedIsComplete, Noted, Logged
<1> QED BY <1>1, <1>2, PTL

-----------------------------------------------------------------------------
(* What a run reports *)

\* A run that stops taking sources: the latch, an interrupt or a fatal error.
Broken(r) == run[r].stopped \/ run[r].interrupted \/ run[r].fatal # "none"

\* What collect() makes of a future.
ReportOf(t) == IF Raised(t) \/ t.res = "none" THEN "pending" ELSE Reported(t)

\* A worker has no result before it ends, and calls completed only what has its
\* artifact.
ResultsEarned ==
    \A r \in Runs, s \in Sources :
        /\ task[r][s].pc \notin {"failing", "finished", "collected"} => task[r][s].res = "none"
        /\ task[r][s].pc = "failing" => task[r][s].res \in Errors
        /\ task[r][s].res = "completed" => artifacts[s] = 1

\* The report has what was collected, and only that; what was raised is in the
\* run's fatal error, where an authentication failure stays.
Collected ==
    \A r \in Runs, s \in Sources :
        IF task[r][s].pc = "collected"
        THEN /\ run[r].report[s] = ReportOf(task[r][s])
             /\ Raised(task[r][s]) => run[r].fatal # "none"
             /\ task[r][s].res = "auth" => run[r].fatal = "auth"
        ELSE run[r].report[s] = "pending"

\* Only a broken run leaves a future unstarted, or ends its filling for good.
AllTried ==
    \A r \in Runs :
        /\ \A s \in Sources :
             /\ \/ task[r][s].pc = "cancelled" \/ task[r][s].res = "pending"
                \/ task[r][s].pc = "collected" /\ task[r][s].res = "none"
                => Broken(r)
             /\ s \in run[r].queue \ run[r].left => task[r][s].pc # "none"
        /\ ~Broken(r) /\ run[r].left # {} =>
             /\ run[r].pc = "wait" => Futures(r) # {}
             /\ run[r].pc # "ended"

Outcomes == ResultsEarned /\ Collected /\ AllTried

\* What a worker's step does to the outcomes: the run keeps all but its latch,
\* which is never taken back.
OutcomeStep(r, s) ==
    /\ task[r][s].pc \notin {"none", "cancelled", "collected"}
    /\ task'[r][s].pc \notin {"none", "cancelled", "collected"}
    /\ task'[r][s].pc \notin {"failing", "finished"} => task'[r][s].res = "none"
    /\ task'[r][s].pc = "failing" => task'[r][s].res \in Errors
    /\ task'[r][s].res = "completed" => artifacts'[s] # artifacts[s]
    /\ task'[r][s].res = "pending" => run[r].stopped
    /\ \A q \in Runs :
         /\ run'[q].queue = run[q].queue /\ run'[q].report = run[q].report
         /\ run'[q].fatal = run[q].fatal /\ run'[q].interrupted = run[q].interrupted
         /\ run[q].stopped => run'[q].stopped

\* BatchProviderFailures.record() touches the latch only, and never opens it again.
LEMMA LatchOnly ==
    ASSUME run \in [Runs -> RunRecords], NEW r \in Runs,
           RecordSuccess(r) \/ RecordFailure(r) \/ UNCHANGED run
    PROVE  \A q \in Runs :
             /\ run'[q].queue = run[q].queue /\ run'[q].report = run[q].report
             /\ run'[q].fatal = run[q].fatal /\ run'[q].interrupted = run[q].interrupted
             /\ run[q].stopped => run'[q].stopped
<1>0. run[r] \in RunRecords
  OBVIOUS
<1>1. CASE RecordSuccess(r)
  <2>1. PICK n : run' = [run EXCEPT ![r].consecutive = n]
    BY <1>1 DEF RecordSuccess
  <2> QED BY <1>0, <2>1 DEF RunRecords
<1>2. CASE RecordFailure(r)
  <2>1. CASE run[r].stopped
    BY <1>2, <2>1 DEF RecordFailure
  <2>2. CASE ~run[r].stopped
    <3>1. PICK n, b : run' = [run EXCEPT ![r].consecutive = n, ![r].stopped = b]
      BY <1>2, <2>2 DEF RecordFailure
    <3> QED BY <1>0, <2>2, <3>1 DEF RunRecords
  <2> QED BY <2>1, <2>2
<1>3. CASE UNCHANGED run
  BY <1>3
<1> QED BY <1>1, <1>2, <1>3

LEMMA WorkerOutcomes ==
    ASSUME IInv, ResultsEarned, NEW r \in Runs, NEW s \in Sources,
           WorkerStep(r, s) \/ FetchReturns(r, s)
    PROVE  OutcomeStep(r, s)
<1>0. /\ run \in [Runs -> RunRecords] /\ task \in [Runs -> [Sources -> Tasks]]
      /\ artifacts \in [Sources -> Nat]
      /\ task[r][s] \in Tasks
      /\ task[r][s].pc \notin {"failing", "finished", "collected"} => task[r][s].res = "none"
      /\ task[r][s].pc = "failing" => task[r][s].res \in Errors
  BY DEF IInv, TypeOK, SourcesTypeOK, ResultsEarned
<1>1. ASSUME NEW pc, Goes(r, s, pc)
      PROVE  task'[r][s].pc = pc /\ task'[r][s].res = task[r][s].res
  <2>1. task' = [task EXCEPT ![r][s] = [task[r][s] EXCEPT !.pc = pc]]
    BY <1>1 DEF Goes
  <2>2. task'[r][s] = [task[r][s] EXCEPT !.pc = pc]
    BY <1>0, <2>1
  <2> QED BY <1>0, <2>2 DEF Tasks
<1>2. \A res : Returns(r, s, res) => task'[r][s].pc = "finished" /\ task'[r][s].res = res
  BY <1>0, TaskFrame DEF Returns
<1>3. \A error : Raises(r, s, error) => task'[r][s].pc = "failing" /\ task'[r][s].res = error
  BY <1>0, TaskFrame DEF Raises
<1>4. InsertVaultNoteArtifact(s) => artifacts'[s] # artifacts[s]
  BY <1>0 DEF InsertVaultNoteArtifact
<1> DEFINE Kept == \A q \in Runs :
             /\ run'[q].queue = run[q].queue /\ run'[q].report = run[q].report
             /\ run'[q].fatal = run[q].fatal /\ run'[q].interrupted = run[q].interrupted
             /\ run[q].stopped => run'[q].stopped
\* The three ways a worker's step ends.
<1>5. ASSUME Kept, NEW pc \in {"admitted", "claimed", "fetched", "hung", "cleaned", "extracted",
                               "noted", "logged", "marked"},
             Goes(r, s, pc), task[r][s].pc \in {"queued", "admitted"} \cup (Working \ {"failing"})
      PROVE  OutcomeStep(r, s)
  <2>1. task'[r][s].pc = pc /\ task'[r][s].res = "none"
    BY <1>0, <1>1, <1>5 DEF Working
  <2> QED BY <1>5, <2>1 DEF OutcomeStep, Working
<1>6. ASSUME Kept, NEW res \in {"pending", "skipped", "failed", "completed"} \cup Errors,
             Returns(r, s, res), task[r][s].pc \in {"queued", "admitted"} \cup Working,
             res = "completed" => artifacts'[s] # artifacts[s],
             res = "pending" => run[r].stopped
      PROVE  OutcomeStep(r, s)
  <2>1. task'[r][s].pc = "finished" /\ task'[r][s].res = res
    BY <1>2, <1>6
  <2> QED BY <1>6, <2>1 DEF OutcomeStep, Working
<1>7. ASSUME Kept, NEW error \in Errors, Raises(r, s, error), task[r][s].pc \in Working
      PROVE  OutcomeStep(r, s)
  <2>1. task'[r][s].pc = "failing" /\ task'[r][s].res = error
    BY <1>3, <1>7
  <2> QED BY <1>7, <2>1 DEF OutcomeStep, Working, Errors
<1>8. (RecordSuccess(r) \/ RecordFailure(r) \/ UNCHANGED run) => Kept
  BY <1>0, LatchOnly
<1> HIDE DEF Kept
<1>9. CASE Admit(r, s)
  BY <1>5, <1>6, <1>8, <1>9 DEF Admit
<1>10. CASE Claim(r, s)
  BY <1>5, <1>6, <1>8, <1>10 DEF Claim, Errors
<1>11. CASE Fetch(r, s)
  BY <1>5, <1>6, <1>7, <1>8, <1>11 DEF Fetch, Working, Errors
<1>12. CASE FetchTimesOut(r, s) \/ FetchReturns(r, s)
  BY <1>5, <1>6, <1>8, <1>12 DEF FetchTimesOut, FetchReturns, Working
<1>13. ASSUME NEW from \in {"fetched", "cleaned"}, NEW to \in {"cleaned", "extracted"},
              Synthesize(r, s, from, to)
       PROVE  OutcomeStep(r, s)
  <2>1. Kept
    BY <1>8, <1>13 DEF Synthesize
  <2> QED BY <1>5, <1>7, <1>13, <2>1 DEF Synthesize, Working, Errors
<1>14. CASE WriteNote(r, s) \/ WriteBack(r, s) \/ MarkProcessed(r, s)
  BY <1>5, <1>7, <1>8, <1>14 DEF WriteNote, WriteBack, MarkProcessed, Working, Errors
<1>15. CASE InsertArtifact(r, s)
  BY <1>4, <1>6, <1>7, <1>8, <1>15 DEF InsertArtifact, Working, Errors
<1>16. CASE Restore(r, s)
  BY <1>0, <1>6, <1>8, <1>16 DEF Restore, Working, Errors
<1> QED BY <1>9, <1>10, <1>11, <1>12, <1>13, <1>14, <1>15, <1>16 DEF WorkerStep

LEMMA OutcomeStepKeeps ==
    ASSUME IInv, Stored, Outcomes, Stored', NEW r \in Runs, NEW s \in Sources,
           ClaimStep(r, s), StoreStep(r, s), OutcomeStep(r, s)
    PROVE  Outcomes'
<1>0. \A q \in Runs, t \in Sources : q # r \/ t # s => task'[q][t] = task[q][t]
  BY DEF ClaimStep
<1>1. \A q \in Runs : /\ run'[q].pc = run[q].pc /\ run'[q].left = run[q].left
                      /\ Broken(q) => Broken(q)'
  BY DEF ClaimStep, OutcomeStep, Broken
<1>2. \A t \in Sources : artifacts[t] = 1 => artifacts'[t] = 1
  BY DEF StoreStep, Stored, Holds
<1>3. artifacts'[s] # artifacts[s] => artifacts'[s] = 1
  BY DEF StoreStep, Stored
<1>4. ResultsEarned'
  BY <1>0, <1>2, <1>3 DEF OutcomeStep, Outcomes, ResultsEarned
<1>5. Collected'
  BY <1>0 DEF OutcomeStep, Outcomes, Collected, Raised, Reported, ReportOf
<1>6. AllTried'
  <2>1. \A q \in Runs : Futures(q) \subseteq Futures(q)'
    BY <1>0 DEF OutcomeStep, Futures
  <2>2. ASSUME NEW q \in Runs, NEW t \in Sources
        PROVE  /\ \/ task'[q][t].pc = "cancelled" \/ task'[q][t].res = "pending"
                  \/ task'[q][t].pc = "collected" /\ task'[q][t].res = "none"
                  => Broken(q)'
               /\ t \in run'[q].queue \ run'[q].left => task'[q][t].pc # "none"
    <3>1. CASE q = r /\ t = s
      BY <1>1, <3>1 DEF OutcomeStep, Broken
    <3>2. CASE q # r \/ t # s
      BY <1>0, <1>1, <3>2 DEF OutcomeStep, Outcomes, AllTried
    <3> QED BY <3>1, <3>2
  <2> QED BY <1>1, <2>1, <2>2 DEF OutcomeStep, Outcomes, AllTried
<1> QED BY <1>4, <1>5, <1>6 DEF Outcomes

\* A nonempty set of naturals has a least element.
LEMMA LeastNat ==
    ASSUME NEW T \in SUBSET Nat, T # {}
    PROVE  \E x \in T : \A y \in T : x <= y
<1>1. PICK x \in T : \A y \in T : ~ (<<y, x>> \in OpToRel(<, Nat))
  BY NatLessThanWellFounded, WFMin
<1>2. ASSUME NEW y \in T, y < x
      PROVE  <<y, x>> \in OpToRel(<, Nat)
  <2> DEFINE pair == <<y, x>>
  <2>1. pair \in Nat \X Nat /\ pair[1] < pair[2]
    BY <1>2
  <2> HIDE DEF pair
  <2>2. pair \in OpToRel(<, Nat)
    BY <2>1 DEF OpToRel
  <2> QED BY <2>2 DEF pair
<1>3. \A y \in T : ~(y < x)
  BY <1>1, <1>2
<1> QED BY <1>3

\* dynamic_worker_count() is never zero.
LEMMA SomeWorker ==
    ASSUME NEW r \in Runs, run[r].queue \subseteq Sources
    PROVE  WorkerCount(r) \in 1..MaxWorkers
<1> DEFINE W == {n \in 1..MaxWorkers : n = MaxWorkers \/ n * PerWorker >= Cardinality(run[r].queue)}
<1>1. MaxWorkers \in W
  BY IngestAssumption
<1>2. PICK n \in W : \A m \in W : n <= m
  <2>1. W \in SUBSET Nat
    OBVIOUS
  <2> HIDE DEF W
  <2> QED BY <1>1, <2>1, LeastNat
<1>3. Cardinality(run[r].queue) \in Nat
  BY IngestAssumption, FS_CardinalityType, FS_Subset
<1>4. ASSUME NEW m \in 1..(n - 1)
      PROVE  m * PerWorker < Cardinality(run[r].queue)
  <2>1. m \in 1..MaxWorkers /\ m \notin W /\ m # MaxWorkers /\ m * PerWorker \in Int
    BY <1>2, IngestAssumption
  <2> QED BY <1>3, <2>1
<1> QED BY <1>2, <1>4 DEF WorkerCount

\* A pool that stops taking sources while the latch is open has a future.
LEMMA FullPool ==
    ASSUME TypeOK, NEW r \in Runs, ~CanSubmit(r), ~run[r].stopped, run[r].left # {}
    PROVE  Futures(r) # {}
<1>1. WorkerCount(r) \in 1..MaxWorkers
  BY SomeWorker DEF TypeOK, RunRecords
<1>2. Cardinality({}) = 0
  BY FS_EmptySet
<1> QED BY <1>1, <1>2 DEF CanSubmit

\* A step of one main thread that leaves the other runs alone.
LEMMA OthersKeep ==
    ASSUME Outcomes, NEW r \in Runs, artifacts' = artifacts,
           \A q \in Runs : q # r => run'[q] = run[q] /\ \A t \in Sources : task'[q][t] = task[q][t],
           \A t \in Sources :
             /\ task'[r][t].pc \notin {"failing", "finished", "collected"} => task'[r][t].res = "none"
             /\ task'[r][t].pc = "failing" => task'[r][t].res \in Errors
             /\ task'[r][t].res = "completed" => artifacts[t] = 1
             /\ IF task'[r][t].pc = "collected"
                THEN /\ run'[r].report[t] = ReportOf(task'[r][t])
                     /\ Raised(task'[r][t]) => run'[r].fatal # "none"
                     /\ task'[r][t].res = "auth" => run'[r].fatal = "auth"
                ELSE run'[r].report[t] = "pending"
             /\ \/ task'[r][t].pc = "cancelled" \/ task'[r][t].res = "pending"
                \/ task'[r][t].pc = "collected" /\ task'[r][t].res = "none"
                => Broken(r)'
             /\ t \in run'[r].queue \ run'[r].left => task'[r][t].pc # "none",
           ~Broken(r)' /\ run'[r].left # {} =>
             /\ run'[r].pc = "wait" => Futures(r)' # {}
             /\ run'[r].pc # "ended"
    PROVE  Outcomes'
<1>1. ResultsEarned'
  BY DEF Outcomes, ResultsEarned
<1>2. Collected'
  BY DEF Outcomes, Collected, ReportOf, Raised, Reported
<1>3. AllTried'
  <2>1. \A q \in Runs : q # r => (Broken(q)' <=> Broken(q)) /\ Futures(q)' = Futures(q)
    BY DEF Broken, Futures
  <2> QED BY <2>1 DEF Outcomes, AllTried
<1> QED BY <1>1, <1>2, <1>3 DEF Outcomes

\* The record of one run before and after.
SameRun(r) == /\ run'[r].queue = run[r].queue /\ run'[r].report = run[r].report
              /\ run'[r].stopped = run[r].stopped

LEMMA CancelledNothing ==
    ASSUME TypeOK, Outcomes, NEW r \in Runs, CancelUnstarted(r)
    PROVE  /\ \A q \in Runs, t \in Sources : q # r => task'[q][t] = task[q][t]
           /\ Futures(r)' = Futures(r)
           /\ \A t \in Sources :
                \/ task'[r][t] = task[r][t]
                \/ /\ task'[r][t].pc = "cancelled" /\ task'[r][t].res = "none"
                   /\ task[r][t].pc = "queued"
<1> DEFINE row == [t \in Sources |-> IF task[r][t].pc = "queued"
                                    THEN [task[r][t] EXCEPT !.pc = "cancelled"] ELSE task[r][t]]
<1>0. task \in [Runs -> [Sources -> Tasks]]
  BY DEF TypeOK
<1>1. \A t \in Sources : /\ [task[r][t] EXCEPT !.pc = "cancelled"].pc = "cancelled"
                         /\ [task[r][t] EXCEPT !.pc = "cancelled"].res = task[r][t].res
  BY <1>0 DEF Tasks
<1>2. \A t \in Sources : task[r][t].pc = "queued" => task[r][t].res = "none"
  BY DEF Outcomes, ResultsEarned
<1>3. task' = [task EXCEPT ![r] = row]
  BY <1>0 DEF CancelUnstarted
<1>4. \A t \in Sources : IF task[r][t].pc = "queued"
                         THEN row[t].pc = "cancelled" /\ row[t].res = "none"
                         ELSE row[t] = task[r][t]
  BY <1>1, <1>2
<1> HIDE DEF row
<1>5. task'[r] = row /\ \A q \in Runs, t \in Sources : q # r => task'[q][t] = task[q][t]
  BY <1>0, <1>3
<1>6. Futures(r)' = Futures(r)
  BY <1>4, <1>5 DEF Futures
<1> QED BY <1>4, <1>5, <1>6

LEMMA MainOutcomes ==
    ASSUME IInv, Outcomes, NEW r \in Runs, MainStep(r) \/ Interrupt(r)
    PROVE  Outcomes'
<1>0. /\ TypeOK /\ Claims
      /\ run \in [Runs -> RunRecords] /\ task \in [Runs -> [Sources -> Tasks]]
      /\ run[r] \in RunRecords
  BY DEF IInv, TypeOK
<1>1. ASSUME NEW s \in Sources
      PROVE  /\ task[r][s] \in Tasks
             /\ task[r][s].pc \notin {"failing", "finished", "collected"} => task[r][s].res = "none"
             /\ task[r][s].pc = "failing" => task[r][s].res \in Errors
             /\ task[r][s].res = "completed" => artifacts[s] = 1
             /\ IF task[r][s].pc = "collected"
                THEN /\ run[r].report[s] = ReportOf(task[r][s])
                     /\ Raised(task[r][s]) => run[r].fatal # "none"
                     /\ task[r][s].res = "auth" => run[r].fatal = "auth"
                ELSE run[r].report[s] = "pending"
             /\ \/ task[r][s].pc = "cancelled" \/ task[r][s].res = "pending"
                \/ task[r][s].pc = "collected" /\ task[r][s].res = "none"
                => Broken(r)
             /\ s \in run[r].queue \ run[r].left => task[r][s].pc # "none"
             /\ s \in run[r].left => task[r][s].pc = "none"
  BY <1>0 DEF Outcomes, ResultsEarned, Collected, AllTried, Claims, NoStrayTask
<1>2. /\ \A q \in Runs : q # r => run'[q] = run[q]
      /\ artifacts' = artifacts
  BY <1>0 DEF MainStep, Submit, EndFill, Collect, Decide, EndRun, Interrupt, sourceVars
\* A step of the main thread that only moves it.
<1>3. ASSUME NEW pc, run' = [run EXCEPT ![r].pc = pc],
             UNCHANGED task,
             ~Broken(r) /\ run[r].left # {} => pc # "ended" /\ (pc = "wait" => Futures(r) # {})
      PROVE  Outcomes'
  <2>1. /\ run'[r].pc = pc /\ SameRun(r)
        /\ run'[r].left = run[r].left /\ run'[r].fatal = run[r].fatal
        /\ run'[r].interrupted = run[r].interrupted
    BY <1>0, <1>3 DEF SameRun, RunRecords
  <2>2. (Broken(r)' <=> Broken(r)) /\ Futures(r)' = Futures(r)
    BY <1>3, <2>1 DEF Broken, SameRun, Futures
  <2> QED BY <1>0, <1>1, <1>2, <1>3, <2>1, <2>2, OthersKeep DEF SameRun
<1>4. CASE EndFill(r)
  <2>1. ~Broken(r) /\ run[r].left # {} => Futures(r) # {}
    BY <1>0, <1>4, FullPool DEF EndFill, Broken
  <2> QED BY <1>3, <1>4, <2>1 DEF EndFill
<1>5. CASE EndRun(r)
  BY <1>3, <1>5 DEF EndRun, Outcomes, AllTried
<1>6. CASE Submit(r)
  <2>1. PICK s \in run[r].left : /\ run' = [run EXCEPT ![r].left = @ \ {s}]
                                 /\ task' = [task EXCEPT ![r][s].pc = "queued"]
    BY <1>6 DEF Submit
  <2>2. /\ run'[r].pc = "fill" /\ SameRun(r)
        /\ run'[r].left = run[r].left \ {s} /\ run'[r].fatal = run[r].fatal
        /\ run'[r].interrupted = run[r].interrupted
    BY <1>0, <1>6, <2>1 DEF Submit, SameRun, RunRecords
  <2>3. s \in Sources /\ task[r][s].pc = "none"
    BY <1>0, <1>1 DEF RunRecords
  <2>4. [task[r][s] EXCEPT !.pc = "queued"].res = task[r][s].res
    BY <1>1, <2>3 DEF Tasks
  <2>5. /\ task'[r][s].pc = "queued" /\ task'[r][s].res = "none"
        /\ \A q \in Runs, t \in Sources : q # r \/ t # s => task'[q][t] = task[q][t]
    <3>1. task'[r][s] = [task[r][s] EXCEPT !.pc = "queued"]
      BY <1>0, <2>1, <2>3
    <3>2. task'[r][s].res = "none"
      BY <1>1, <2>3, <2>4, <3>1
    <3> QED BY <1>0, <2>1, <2>3, <3>2, TaskFrame
  <2>6. Broken(r)' <=> Broken(r)
    BY <2>2 DEF Broken, SameRun
  <2>7. ASSUME NEW t \in Sources
        PROVE  /\ task'[r][t].pc \notin {"failing", "finished", "collected"} => task'[r][t].res = "none"
               /\ task'[r][t].pc = "failing" => task'[r][t].res \in Errors
               /\ task'[r][t].res = "completed" => artifacts[t] = 1
               /\ IF task'[r][t].pc = "collected"
                  THEN /\ run'[r].report[t] = ReportOf(task'[r][t])
                       /\ Raised(task'[r][t]) => run'[r].fatal # "none"
                       /\ task'[r][t].res = "auth" => run'[r].fatal = "auth"
                  ELSE run'[r].report[t] = "pending"
               /\ \/ task'[r][t].pc = "cancelled" \/ task'[r][t].res = "pending"
                  \/ task'[r][t].pc = "collected" /\ task'[r][t].res = "none"
                  => Broken(r)'
               /\ t \in run'[r].queue \ run'[r].left => task'[r][t].pc # "none"
    <3>1. CASE t = s
      BY <1>1, <2>2, <2>3, <2>5, <3>1 DEF SameRun
    <3>2. CASE t # s
      BY <1>1, <2>2, <2>5, <2>6, <3>2 DEF SameRun
    <3> QED BY <3>1, <3>2
  <2> QED BY <1>2, <2>2, <2>5, <2>7, OthersKeep
\* Cancelling what has not begun, by a run that is broken.
<1>7. ASSUME CancelUnstarted(r), Broken(r)', SameRun(r), run'[r].left = run[r].left,
             run'[r].fatal = run[r].fatal
      PROVE  Outcomes'
  <2>1. /\ \A q \in Runs, t \in Sources : q # r => task'[q][t] = task[q][t]
        /\ \A t \in Sources :
             \/ task'[r][t] = task[r][t]
             \/ /\ task'[r][t].pc = "cancelled" /\ task'[r][t].res = "none"
                /\ task[r][t].pc = "queued"
    BY <1>0, <1>7, CancelledNothing
  <2>2. ASSUME NEW t \in Sources
        PROVE  /\ task'[r][t].pc \notin {"failing", "finished", "collected"} => task'[r][t].res = "none"
               /\ task'[r][t].pc = "failing" => task'[r][t].res \in Errors
               /\ task'[r][t].res = "completed" => artifacts[t] = 1
               /\ IF task'[r][t].pc = "collected"
                  THEN /\ run'[r].report[t] = ReportOf(task'[r][t])
                       /\ Raised(task'[r][t]) => run'[r].fatal # "none"
                       /\ task'[r][t].res = "auth" => run'[r].fatal = "auth"
                  ELSE run'[r].report[t] = "pending"
               /\ t \in run'[r].queue \ run'[r].left => task'[r][t].pc # "none"
    BY <1>1, <1>7, <2>1 DEF SameRun
  <2> QED BY <1>2, <1>7, <2>1, <2>2, OthersKeep
<1>8. CASE Decide(r)
  <2>1. CASE CancelUnstarted(r) /\ Broken(r) /\ run' = [run EXCEPT ![r].pc = "wait"]
    <3>1. /\ SameRun(r) /\ run'[r].left = run[r].left /\ run'[r].fatal = run[r].fatal
          /\ run'[r].interrupted = run[r].interrupted
      BY <1>0, <2>1 DEF SameRun, RunRecords
    <3> QED BY <1>7, <2>1, <3>1 DEF Broken, SameRun
  <2>2. CASE UNCHANGED task /\ run' = [run EXCEPT ![r].pc = "fill"]
    BY <1>3, <2>2
  <2> QED BY <1>8, <2>1, <2>2 DEF Decide, Broken
<1>9. CASE Interrupt(r)
  <2>1. /\ SameRun(r) /\ run'[r].left = run[r].left /\ run'[r].fatal = run[r].fatal
        /\ run'[r].interrupted
    BY <1>0, <1>9 DEF Interrupt, SameRun, RunRecords
  <2> QED BY <1>7, <1>9, <2>1 DEF Interrupt, Broken
<1>10. CASE Collect(r)
  <2>1. PICK done \in SUBSET DoneFutures(r) :
          /\ run' = [run EXCEPT
               ![r].pc = "decide",
               ![r].fatal = PreferredFatal(r, done),
               ![r].report = [s \in Sources |->
                   IF s \in done /\ task[r][s].pc = "finished" /\ ~Raised(task[r][s])
                   THEN Reported(task[r][s]) ELSE @[s]]]
          /\ task' = [task EXCEPT ![r] = [s \in Sources |->
                   IF s \in done THEN [@[s] EXCEPT !.pc = "collected"] ELSE @[s]]]
    BY <1>10 DEF Collect
  <2> DEFINE report == [s \in Sources |->
                 IF s \in done /\ task[r][s].pc = "finished" /\ ~Raised(task[r][s])
                 THEN Reported(task[r][s]) ELSE run[r].report[s]]
             row == [s \in Sources |-> IF s \in done THEN [task[r][s] EXCEPT !.pc = "collected"]
                                      ELSE task[r][s]]
  <2>2. /\ run'[r].pc = "decide" /\ run'[r].fatal = PreferredFatal(r, done)
        /\ run'[r].report = report /\ run'[r].left = run[r].left
        /\ run'[r].queue = run[r].queue /\ run'[r].stopped = run[r].stopped
        /\ run'[r].interrupted = run[r].interrupted
    <3>1. run' = [run EXCEPT ![r] = [run[r] EXCEPT !.pc = "decide", !.fatal = PreferredFatal(r, done),
                                                   !.report = report]]
      BY <1>0, <2>1
    <3> HIDE DEF report
    <3> QED BY <1>0, <3>1 DEF RunRecords
  <2>3. \A s \in Sources : /\ [task[r][s] EXCEPT !.pc = "collected"].pc = "collected"
                           /\ [task[r][s] EXCEPT !.pc = "collected"].res = task[r][s].res
    BY <1>1 DEF Tasks
  <2>4. task' = [task EXCEPT ![r] = row]
    BY <1>0, <2>1
  <2>5. \A s \in Sources : IF s \in done THEN row[s].pc = "collected" /\ row[s].res = task[r][s].res
                           ELSE row[s] = task[r][s]
    BY <2>3
  <2>6. \A s \in Sources : report[s] = IF s \in done /\ task[r][s].pc = "finished" /\ ~Raised(task[r][s])
                                       THEN Reported(task[r][s]) ELSE run[r].report[s]
    OBVIOUS
  <2> HIDE DEF row, report
  <2>7. task'[r] = row /\ \A q \in Runs, t \in Sources : q # r => task'[q][t] = task[q][t]
    BY <1>0, <2>4
  <2>8. /\ run[r].fatal # "none" => run'[r].fatal # "none"
        /\ run[r].fatal = "auth" => run'[r].fatal = "auth"
        /\ \A s \in done : /\ Raised(task[r][s]) => run'[r].fatal # "none"
                           /\ task[r][s].res = "auth" => run'[r].fatal = "auth"
    BY <2>2 DEF PreferredFatal
  <2>9. Broken(r) => Broken(r)'
    BY <2>2, <2>8 DEF Broken
  <2>10. ASSUME NEW t \in Sources
         PROVE  /\ task'[r][t].pc \notin {"failing", "finished", "collected"} => task'[r][t].res = "none"
                /\ task'[r][t].pc = "failing" => task'[r][t].res \in Errors
                /\ task'[r][t].res = "completed" => artifacts[t] = 1
                /\ IF task'[r][t].pc = "collected"
                   THEN /\ run'[r].report[t] = ReportOf(task'[r][t])
                        /\ Raised(task'[r][t]) => run'[r].fatal # "none"
                        /\ task'[r][t].res = "auth" => run'[r].fatal = "auth"
                   ELSE run'[r].report[t] = "pending"
                /\ \/ task'[r][t].pc = "cancelled" \/ task'[r][t].res = "pending"
                   \/ task'[r][t].pc = "collected" /\ task'[r][t].res = "none"
                   => Broken(r)'
                /\ t \in run'[r].queue \ run'[r].left => task'[r][t].pc # "none"
    <3>1. CASE t \in done
      <4>1. task[r][t].pc \in {"finished", "cancelled"}
        BY <2>1, <3>1 DEF DoneFutures
      <4>2. /\ task'[r][t].pc = "collected" /\ task'[r][t].res = task[r][t].res
        BY <2>5, <2>7, <3>1
      <4>3. task[r][t].pc = "finished" => task[r][t].res # "none"
        BY <1>1 DEF Tasks
      <4>4. task[r][t].pc = "cancelled" => task[r][t].res = "none" /\ Broken(r)
        BY <1>1
      <4>5. run'[r].report[t] = ReportOf(task'[r][t])
        BY <1>1, <2>2, <2>6, <3>1, <4>1, <4>2, <4>3, <4>4 DEF ReportOf, Raised, Reported
      <4> QED BY <1>1, <2>2, <2>8, <2>9, <3>1, <4>1, <4>2, <4>3, <4>4, <4>5 DEF Raised
    <3>2. CASE t \notin done
      <4>1. task'[r][t] = task[r][t] /\ run'[r].report[t] = run[r].report[t]
        BY <2>2, <2>5, <2>6, <2>7, <3>2
      <4> QED BY <1>1, <2>2, <2>8, <2>9, <4>1
    <3> QED BY <3>1, <3>2
  <2> QED BY <1>2, <2>2, <2>7, <2>10, OthersKeep
<1> QED BY <1>4, <1>5, <1>6, <1>8, <1>9, <1>10 DEF MainStep

\* A run that begins, or is killed, has no task and an empty report.
LEMMA FreshOutcomes ==
    ASSUME IInv, Outcomes, NEW r \in Runs, StartRun(r) \/ Kill(r)
    PROVE  Outcomes'
<1>0. TypeOK /\ run \in [Runs -> RunRecords] /\ task \in [Runs -> [Sources -> Tasks]]
  BY DEF IInv, TypeOK
<1> DEFINE Fresh(rec) == /\ rec.pc \in {"idle", "fill"} /\ rec.left = rec.queue
                         /\ rec.report = [s \in Sources |-> "pending"]
<1>1. PICK rec : run' = [run EXCEPT ![r] = rec] /\ Fresh(rec)
  <2>1. CASE Kill(r)
    <3>1. Fresh(IdleRun)
      BY DEF IdleRun
    <3> QED BY <2>1, <3>1 DEF Kill
  <2>2. CASE StartRun(r)
    <3>1. PICK found : run' = [run EXCEPT ![r] = [IdleRun EXCEPT
                     !.pc = "fill", !.queue = PendingAfter(found), !.left = PendingAfter(found)]]
      BY <2>2 DEF StartRun
    <3> DEFINE rec == [IdleRun EXCEPT
                     !.pc = "fill", !.queue = PendingAfter(found), !.left = PendingAfter(found)]
    <3>2. Fresh(rec)
      BY DEF IdleRun
    <3> HIDE DEF rec, Fresh
    <3>3. run' = [run EXCEPT ![r] = rec]
      BY <3>1 DEF rec
    <3> QED BY <3>2, <3>3
  <2> QED BY <2>1, <2>2
<1>2. /\ run'[r] = rec /\ \A q \in Runs : q # r => run'[q] = run[q]
      /\ artifacts' = artifacts
  BY <1>0, <1>1 DEF StartRun, Kill, sourceVars
<1>3. task' = [task EXCEPT ![r] = [s \in Sources |-> NoTask]]
  BY DEF StartRun, Kill
<1>4. /\ \A t \in Sources : task'[r][t].pc = "none" /\ task'[r][t].res = "none"
      /\ \A q \in Runs, t \in Sources : q # r => task'[q][t] = task[q][t]
  BY <1>0, <1>3 DEF NoTask
<1> QED BY <1>1, <1>2, <1>4, OthersKeep

LEMMA OutcomesInitially == Init => Outcomes
<1> SUFFICES ASSUME Init PROVE Outcomes
  OBVIOUS
<1>1. /\ NoTask.pc = "none" /\ NoTask.res = "none"
      /\ IdleRun.left = {} /\ IdleRun.queue = {} /\ \A s \in Sources : IdleRun.report[s] = "pending"
  BY DEF NoTask, IdleRun
<1>2. \A r \in Runs, s \in Sources : task[r][s] = NoTask /\ run[r] = IdleRun
  BY DEF Init
<1>3. \A r \in Runs : run[r].left = {}
  BY <1>1 DEF Init
<1> QED BY <1>1, <1>2, <1>3 DEF Outcomes, ResultsEarned, Collected, AllTried

LEMMA OutcomesInductive == IInv /\ Stored /\ Stored' /\ Outcomes /\ [Next]_vars => Outcomes'
<1> SUFFICES ASSUME IInv, Stored, Stored', Outcomes, [Next]_vars PROVE Outcomes'
  OBVIOUS
<1>1. CASE UNCHANGED vars
  BY <1>1 DEF vars, sourceVars, ingestVars, Outcomes, ResultsEarned, Collected, AllTried, Broken,
              Futures, ReportOf, Raised, Reported
<1>2. ASSUME NEW r \in Runs, NEW s \in Sources, WorkerStep(r, s) \/ FetchReturns(r, s)
      PROVE  Outcomes'
  BY <1>2, WorkerSteps, WorkerStores, WorkerOutcomes, OutcomeStepKeeps DEF Outcomes
<1>3. ASSUME NEW r \in Runs, StartRun(r) \/ MainStep(r) \/ Interrupt(r) \/ Kill(r)
      PROVE  Outcomes'
  BY <1>3, MainOutcomes, FreshOutcomes
<1> QED BY <1>1, <1>2, <1>3 DEF Next

LEMMA OutcomesAlways == Spec => [](IInv /\ Stored /\ Outcomes)
BY StoredInitially, StoredInductive, OutcomesInitially, OutcomesInductive, Invariant, PTL DEF Spec

\* What a run of any number of workers reports when it ends is what happened,
\* whatever other runs do meanwhile.
THEOREM TrueReport == Spec => []ReportIsTrue
<1>1. IInv /\ Stored /\ Outcomes => ReportIsTrue
  <2> SUFFICES ASSUME IInv, Stored, Outcomes, NEW r \in Runs, Reporting(r), NEW s \in run[r].queue
               PROVE  /\ run[r].report[s] = "completed" => status[s] = "processed" /\ artifacts[s] = 1
                      /\ run[r].report[s] = "pending" => task[r][s].res \in {"none", "pending"}
                      /\ task[r][s].pc \in {"none", "collected"}
    BY DEF ReportIsTrue
  <2>1. s \in Sources
    BY DEF IInv, TypeOK, RunRecords
  <2>2. task[r][s].pc \in {"none", "collected"}
    BY <2>1 DEF IInv, Claims, NoStrayTask, Reporting
  <2>3. CASE task[r][s].pc = "none"
    BY <2>1, <2>3 DEF Outcomes, ResultsEarned, Collected
  <2>4. CASE task[r][s].pc = "collected"
    <3>1. run[r].report[s] = ReportOf(task[r][s]) /\ ~Raised(task[r][s])
      BY <2>1, <2>4 DEF Outcomes, Collected, Reporting
    <3>2. run[r].report[s] = "completed" => task[r][s].res = "completed"
      BY <3>1 DEF ReportOf, Reported
    <3>3. run[r].report[s] = "pending" => task[r][s].res \in {"none", "pending"}
      BY <3>1 DEF ReportOf, Reported
    <3> QED BY <2>1, <2>4, <3>2, <3>3 DEF Outcomes, ResultsEarned, Stored
  <2> QED BY <2>2, <2>3, <2>4
<1> QED BY <1>1, OutcomesAlways, PTL

\* A run that nothing stopped has tried every source of its queue, however many
\* workers it has and in whatever order they end.
THEOREM TriesAll == Spec => []UnstoppedRunTriesAll
<1>1. IInv /\ Outcomes => UnstoppedRunTriesAll
  <2> SUFFICES ASSUME IInv, Outcomes, NEW r \in Runs, Reporting(r), ~run[r].stopped,
                      ~run[r].interrupted, NEW s \in run[r].queue
               PROVE  run[r].report[s] # "pending"
    BY DEF UnstoppedRunTriesAll
  <2>1. s \in Sources /\ ~Broken(r)
    BY DEF IInv, TypeOK, RunRecords, Broken, Reporting
  <2>2. run[r].left = {}
    BY <2>1 DEF Outcomes, AllTried, Reporting
  <2>3. task[r][s].pc = "collected"
    BY <2>1, <2>2 DEF Outcomes, AllTried, IInv, Claims, NoStrayTask, Reporting
  <2>4. run[r].report[s] = ReportOf(task[r][s]) /\ ~Raised(task[r][s])
    BY <2>1, <2>3 DEF Outcomes, Collected, Reporting
  <2>5. task[r][s].res \notin {"none", "pending"}
    BY <2>1, <2>3 DEF Outcomes, AllTried
  <2> QED BY <2>4, <2>5 DEF ReportOf, Reported
<1> QED BY <1>1, OutcomesAlways, PTL

\* An authentication failure of any worker comes out of the run that ends,
\* whichever failures came before and after it.
THEOREM AuthWins == Spec => []AuthFailureWins
<1>1. IInv /\ Outcomes => AuthFailureWins
  <2> SUFFICES ASSUME IInv, Outcomes, NEW r \in Runs, run[r].pc = "ended", NEW s \in Sources,
                      task[r][s].res = "auth"
               PROVE  run[r].fatal = "auth"
    BY DEF AuthFailureWins
  <2>1. task[r][s].pc = "collected"
    BY DEF IInv, Claims, NoStrayTask, Outcomes, ResultsEarned
  <2> QED BY <2>1 DEF Outcomes, Collected
<1> QED BY <1>1, OutcomesAlways, PTL

=============================================================================
