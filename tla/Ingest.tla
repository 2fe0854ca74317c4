------------------------------- MODULE Ingest -------------------------------
(***************************************************************************)
(* Runs of the transcript pipeline (commands/ingest/run.py over            *)
(* ingest/batch.py): processes that may overlap on one database, each with *)
(* a main thread that admits sources to a pool of workers, a latch that    *)
(* provider failures set, and workers that take one source from its claim  *)
(* to its artifact.  What fails, and the runs that are killed, are bounded *)
(* by MaxFaults.                                                           *)
(***************************************************************************)
EXTENDS IngestSources

CONSTANTS Runs,        \* processes that run the pipeline, again and again
          PerWorker,   \* sources one worker is expected to finish in time
          MaxWorkers,  \* the pool is never larger
          Threshold,   \* consecutive provider failures that stop a run
          MaxFaults    \* bound of a check: failures, interrupts and kills

ASSUME IngestAssumption ==
    /\ PerWorker \in Nat \ {0}
    /\ MaxWorkers \in Nat \ {0}
    /\ Threshold \in Nat \ {0}
    /\ MaxFaults \in Nat
    /\ IsFiniteSet(Sources)

VARIABLES run,     \* run -> its main thread and its latch
          task,    \* run -> source -> the future and the worker that has it
          killed,  \* sources a killed run had claimed
          faults   \* failures so far

ingestVars == <<run, task, killed, faults>>
vars == <<sourceVars, ingestVars>>

Working == {"claimed", "fetched", "hung", "cleaned", "extracted", "noted",
            "logged", "marked", "failing"}
Steps == {"none", "queued", "admitted", "finished", "cancelled", "collected"} \cup Working

Errors == {"retryable", "source", "auth", "fatal", "other"}
Results == {"none", "pending", "skipped", "failed", "completed"} \cup Errors

Reports == {"pending", "skipped", "failed", "completed"}

NoTask == [pc |-> "none", res |-> "none"]
Tasks == [pc: Steps \ {"failing", "finished"}, res: Results]
         \cup [pc: {"failing", "finished"}, res: Results \ {"none"}]

IdleRun == [pc |-> "idle", queue |-> {}, left |-> {}, consecutive |-> 0, stopped |-> FALSE,
            interrupted |-> FALSE, fatal |-> "none",
            report |-> [s \in Sources |-> "pending"]]

RunRecords == [pc: {"idle", "fill", "wait", "decide", "ended"},
               queue: SUBSET Sources, left: SUBSET Sources,
               consecutive: Nat, stopped: BOOLEAN, interrupted: BOOLEAN,
               fatal: {"none", "other", "auth"}, report: [Sources -> Reports]]

TypeOK ==
    /\ SourcesTypeOK
    /\ run \in [Runs -> RunRecords]
    /\ task \in [Runs -> [Sources -> Tasks]]
    /\ killed \subseteq Sources
    /\ faults \in 0..MaxFaults

Init ==
    /\ SourcesInit
    /\ run = [r \in Runs |-> IdleRun]
    /\ task = [r \in Runs |-> [s \in Sources |-> NoTask]]
    /\ killed = {}
    /\ faults = 0

\* Whether run r has a worker that claimed s and has not settled it.
Holds(r, s) == task[r][s].pc \in Working

Fault == faults < MaxFaults /\ faults' = faults + 1

-----------------------------------------------------------------------------
(* The main thread: drain_sources() *)

\* dynamic_worker_count(): as many as finish the queue in time, at most MaxWorkers.
WorkerCount(r) ==
    CHOOSE n \in 1..MaxWorkers :
        /\ n = MaxWorkers \/ n * PerWorker >= Cardinality(run[r].queue)
        /\ \A m \in 1..(n - 1) : m * PerWorker < Cardinality(run[r].queue)

Futures(r) == {s \in Sources : task[r][s].pc \notin {"none", "collected"}}

\* Broken form: only a future that ran is done.
DoneFuturesRun(r) == {s \in Sources : task[r][s].pc = "finished"}

\* What wait() counts as done.
DoneFutures(r) == {s \in Sources : task[r][s].pc \in {"finished", "cancelled"}}

\* _run_transcript_ingest(): discover, then take what is pending.
StartRun(r) ==
    /\ run[r].pc \in {"idle", "ended"}
    /\ \E found \in SUBSET Sources :
         /\ PendingAfter(found) # {}
         /\ Discover(found)
         /\ run' = [run EXCEPT ![r] = [IdleRun EXCEPT
                      !.pc = "fill", !.queue = PendingAfter(found), !.left = PendingAfter(found)]]
    /\ task' = [task EXCEPT ![r] = [s \in Sources |-> NoTask]]
    /\ UNCHANGED <<noted, logged, artifacts, killed, faults>>

CanSubmit(r) ==
    /\ ~run[r].stopped
    /\ Cardinality(Futures(r)) < WorkerCount(r)
    /\ run[r].left # {}

\* One turn of _fill_workers(), which reads the latch before each.
Submit(r) ==
    /\ run[r].pc = "fill"
    /\ CanSubmit(r)
    /\ \E s \in run[r].left :
         /\ run' = [run EXCEPT ![r].left = @ \ {s}]
         /\ task' = [task EXCEPT ![r][s].pc = "queued"]
    /\ UNCHANGED <<sourceVars, killed, faults>>

EndFill(r) ==
    /\ run[r].pc = "fill"
    /\ ~CanSubmit(r)
    /\ run' = [run EXCEPT ![r].pc = "wait"]
    /\ UNCHANGED <<sourceVars, task, killed, faults>>

\* completed_source(): what is raised again, and what becomes a status.
Raised(t) == t.res \in {"auth", "fatal"}
Reported(t) == IF t.res \in Errors THEN "failed" ELSE t.res

\* Broken form: the first fatal error stays.
PreferredFatalFirst(r, done) ==
    IF run[r].fatal # "none" THEN run[r].fatal
    ELSE IF \E s \in done : task[r][s].res = "auth" THEN "auth"
    ELSE IF \E s \in done : Raised(task[r][s]) THEN "other"
    ELSE "none"

\* _preferred_fatal() over the futures of one wait.
PreferredFatal(r, done) ==
    IF run[r].fatal = "auth" \/ \E s \in done : task[r][s].res = "auth" THEN "auth"
    ELSE IF \E s \in done : Raised(task[r][s]) THEN "other"
    ELSE run[r].fatal

\* wait(FIRST_COMPLETED) returned: ParallelState.collect() each.
Collect(r) ==
    /\ run[r].pc = "wait"
    /\ \E done \in SUBSET DoneFutures(r) \ {{}} :
         /\ run' = [run EXCEPT
              ![r].pc = "decide",
              ![r].fatal = PreferredFatal(r, done),
              ![r].report = [s \in Sources |->
                  IF s \in done /\ task[r][s].pc = "finished" /\ ~Raised(task[r][s])
                  THEN Reported(task[r][s]) ELSE @[s]]]
         /\ task' = [task EXCEPT ![r] = [s \in Sources |->
                  IF s \in done THEN [@[s] EXCEPT !.pc = "collected"] ELSE @[s]]]
    /\ UNCHANGED <<sourceVars, killed, faults>>

\* _cancel_unstarted(): a future whose worker has begun is not cancelled.
CancelUnstarted(r) ==
    task' = [task EXCEPT ![r] = [s \in Sources |->
                IF @[s].pc = "queued" THEN [@[s] EXCEPT !.pc = "cancelled"] ELSE @[s]]]

\* Broken form: the pool is filled once.
DecideNeverFilling(r) ==
    /\ run[r].pc = "decide"
    /\ CancelUnstarted(r)
    /\ run' = [run EXCEPT ![r].pc = "wait"]
    /\ UNCHANGED <<sourceVars, killed, faults>>

\* After each wait: stop admission, or fill the pool again.
Decide(r) ==
    /\ run[r].pc = "decide"
    /\ IF run[r].stopped \/ run[r].fatal # "none" \/ run[r].interrupted
       THEN CancelUnstarted(r) /\ run' = [run EXCEPT ![r].pc = "wait"]
       ELSE UNCHANGED task /\ run' = [run EXCEPT ![r].pc = "fill"]
    /\ UNCHANGED <<sourceVars, killed, faults>>

\* KeyboardInterrupt in wait().
Interrupt(r) ==
    /\ run[r].pc = "wait"
    /\ Futures(r) # {}
    /\ Fault
    /\ run' = [run EXCEPT ![r].interrupted = TRUE]
    /\ CancelUnstarted(r)
    /\ UNCHANGED <<sourceVars, killed>>

\* Broken form: a stopped run does not wait for its workers.
EndRunUndrained(r) ==
    /\ run[r].pc = "wait"
    /\ Futures(r) = {} \/ run[r].stopped
    /\ run' = [run EXCEPT ![r].pc = "ended"]
    /\ UNCHANGED <<sourceVars, task, killed, faults>>

\* while futures: the pool is empty, the report or the fatal error comes out.
EndRun(r) ==
    /\ run[r].pc = "wait"
    /\ Futures(r) = {}
    /\ run' = [run EXCEPT ![r].pc = "ended"]
    /\ UNCHANGED <<sourceVars, task, killed, faults>>

MainStep(r) == Submit(r) \/ EndFill(r) \/ Collect(r) \/ Decide(r) \/ EndRun(r)

\* The process is killed; what it committed stays.
Kill(r) ==
    /\ run[r].pc \notin {"idle", "ended"}
    /\ Fault
    /\ killed' = killed \cup {s \in Sources : Holds(r, s)}
    /\ run' = [run EXCEPT ![r] = IdleRun]
    /\ task' = [task EXCEPT ![r] = [s \in Sources |-> NoTask]]
    /\ UNCHANGED sourceVars

-----------------------------------------------------------------------------
(* A worker: _admitted_worker(), _claimed_source(), _process_one_source() *)

Goes(r, s, pc) == task' = [task EXCEPT ![r][s].pc = pc]
Returns(r, s, res) == task' = [task EXCEPT ![r][s] = [pc |-> "finished", res |-> res]]
Raises(r, s, error) == Fault /\ task' = [task EXCEPT ![r][s] = [pc |-> "failing", res |-> error]]

\* A worker thread takes the future and reads the latch.
Admit(r, s) ==
    /\ task[r][s].pc = "queued"
    /\ IF run[r].stopped THEN Returns(r, s, "pending") ELSE Goes(r, s, "admitted")
    /\ UNCHANGED <<sourceVars, run, killed, faults>>

\* The service or the database cannot be opened, outside the worker's try; or
\* the row is taken, or another run took it since this one listed it.
Claim(r, s) ==
    /\ task[r][s].pc = "admitted"
    /\ \/ /\ \E error \in {"auth", "other"} : Returns(r, s, error)
          /\ Fault
          /\ UNCHANGED status
       \/ /\ Claimable(s)
          /\ Mark(s, "in_progress")
          /\ Goes(r, s, "claimed")
          /\ UNCHANGED faults
       \/ /\ ~Claimable(s)
          /\ Returns(r, s, "skipped")
          /\ UNCHANGED <<status, faults>>
    /\ UNCHANGED <<noted, logged, artifacts, run, killed>>

\* _fetch_doc_for_run(): gone or denied is final, anything else is tried again
\* by a later run, domain errors go to the caller.
Fetch(r, s) ==
    /\ task[r][s].pc = "claimed"
    /\ \/ Goes(r, s, "fetched") /\ UNCHANGED <<status, faults>>
       \/ /\ \E value \in {"failed", "pending"} : Mark(s, value)
          /\ Returns(r, s, "failed")
          /\ Fault
       \/ /\ \E error \in {"auth", "fatal"} : Raises(r, s, error)
          /\ UNCHANGED status
    /\ UNCHANGED <<noted, logged, artifacts, run, killed>>

\* After _FETCH_DOC_TIMEOUT the row is marked, but leaving the inner pool joins
\* the thread that is still fetching.
FetchTimesOut(r, s) ==
    /\ task[r][s].pc = "claimed"
    /\ Fault
    /\ Mark(s, "failed")
    /\ Goes(r, s, "hung")
    /\ UNCHANGED <<noted, logged, artifacts, run, killed>>

\* The fetch comes back at last.
FetchReturns(r, s) ==
    /\ task[r][s].pc = "hung"
    /\ Returns(r, s, "failed")
    /\ UNCHANGED <<sourceVars, run, killed, faults>>

\* BatchProviderFailures.record() of a success and of an exhausted failure.
RecordSuccess(r) ==
    run' = [run EXCEPT ![r].consecutive = IF run[r].stopped THEN @ ELSE 0]
RecordFailure(r) ==
    run' = IF run[r].stopped THEN run
           ELSE [run EXCEPT ![r].consecutive = @ + 1,
                            ![r].stopped = run[r].consecutive + 1 >= Threshold]

\* One provider call of stage1_clean() or stage2_extract(); an ordinary failure
\* of the stage falls back to deterministic text or empty metadata.
Synthesize(r, s, from, to) ==
    /\ task[r][s].pc = from
    /\ \/ RecordSuccess(r) /\ Goes(r, s, to) /\ UNCHANGED faults
       \/ UNCHANGED run /\ Goes(r, s, to) /\ UNCHANGED faults
       \/ RecordFailure(r) /\ Raises(r, s, "retryable")
       \/ UNCHANGED run /\ \E error \in {"source", "auth", "fatal"} : Raises(r, s, error)
    /\ UNCHANGED <<sourceVars, killed>>

WriteNote(r, s) ==
    /\ task[r][s].pc = "extracted"
    /\ \/ WriteVaultNote(s) /\ Goes(r, s, "noted") /\ UNCHANGED faults
       \/ UNCHANGED noted /\ Raises(r, s, "other")
    /\ UNCHANGED <<status, logged, artifacts, run, killed>>

\* The pursuit log may be stale or malformed; tasks are best effort.
WriteBack(r, s) ==
    /\ task[r][s].pc = "noted"
    /\ \/ Append(s) /\ Goes(r, s, "logged") /\ UNCHANGED faults
       \/ UNCHANGED logged /\ \E error \in {"fatal", "other"} : Raises(r, s, error)
    /\ UNCHANGED <<status, noted, artifacts, run, killed>>

\* Broken form: the row is marked before the writebacks.
MarkProcessedEarly(r, s) ==
    /\ task[r][s].pc \in {"noted", "logged"}
    /\ \/ Mark(s, "processed") /\ Goes(r, s, "marked") /\ UNCHANGED faults
       \/ UNCHANGED status /\ Raises(r, s, "other")
    /\ UNCHANGED <<noted, logged, artifacts, run, killed>>

MarkProcessed(r, s) ==
    /\ task[r][s].pc = "logged"
    /\ \/ Mark(s, "processed") /\ Goes(r, s, "marked") /\ UNCHANGED faults
       \/ UNCHANGED status /\ Raises(r, s, "other")
    /\ UNCHANGED <<noted, logged, artifacts, run, killed>>

InsertArtifact(r, s) ==
    /\ task[r][s].pc = "marked"
    /\ \/ InsertVaultNoteArtifact(s) /\ Returns(r, s, "completed") /\ UNCHANGED faults
       \/ UNCHANGED artifacts /\ Raises(r, s, "other")
    /\ UNCHANGED <<status, noted, logged, run, killed>>

\* Broken form: the word of the report is written to the row.
RestoredReported(error) == IF error \in {"source", "other"} THEN "failed" ELSE "deferred"

\* _restore_source_error(): domain errors give the source back, but for a
\* rejected input; every other exception fails it.
Restored(error) == IF error \in {"source", "other"} THEN "failed" ELSE "pending"

\* Broken form: only domain errors are handled.
RestoreDomainOnly(r, s) ==
    /\ task[r][s].pc = "failing"
    /\ IF task[r][s].res = "other" THEN UNCHANGED status ELSE Mark(s, Restored(task[r][s].res))
    /\ Returns(r, s, task[r][s].res)
    /\ UNCHANGED <<noted, logged, artifacts, run, killed, faults>>

Restore(r, s) ==
    /\ task[r][s].pc = "failing"
    /\ Mark(s, Restored(task[r][s].res))
    /\ Returns(r, s, task[r][s].res)
    /\ UNCHANGED <<noted, logged, artifacts, run, killed, faults>>

WorkerStep(r, s) ==
    \/ Admit(r, s)
    \/ Claim(r, s)
    \/ Fetch(r, s) \/ FetchTimesOut(r, s)
    \/ Synthesize(r, s, "fetched", "cleaned")
    \/ Synthesize(r, s, "cleaned", "extracted")
    \/ WriteNote(r, s)
    \/ WriteBack(r, s)
    \/ MarkProcessed(r, s)
    \/ InsertArtifact(r, s)
    \/ Restore(r, s)

Next ==
    \/ \E r \in Runs : StartRun(r) \/ MainStep(r) \/ Interrupt(r) \/ Kill(r)
    \/ \E r \in Runs, s \in Sources : WorkerStep(r, s) \/ FetchReturns(r, s)

Spec == Init /\ [][Next]_vars

\* Threads that can run do run, and the operator starts the pipeline again.
OwnFairness ==
    /\ \A r \in Runs : WF_vars(MainStep(r))
    /\ \A r \in Runs, s \in Sources : WF_vars(WorkerStep(r, s))
    /\ WF_vars(\E r \in Runs : StartRun(r))

OwnSpec == Spec /\ OwnFairness

\* ... and Google answers in the end.
FairSpec == OwnSpec /\ \A r \in Runs, s \in Sources : WF_vars(FetchReturns(r, s))

-----------------------------------------------------------------------------
(* Safety *)

\* However many runs overlap, one worker at a time processes a source
\* (claim_pending_source and every path that gives a claim up).
OneWorkerPerSource ==
    \A s \in Sources : \A q, r \in Runs : Holds(q, s) /\ Holds(r, s) => q = r

\* No failure path forgets a claim: a row in progress has a worker, unless a
\* run was killed over it.
ClaimsAreHeld ==
    \A s \in Sources :
        status[s] = "in_progress" => s \in killed \/ \E r \in Runs : Holds(r, s)

\* A processed source has a note under its path, a log entry that refers to it
\* and its artifact, once: retries and overlapping runs repeat no artifact, and
\* the row is never ahead of the files.
ProcessedIsComplete ==
    \A s \in Sources :
        /\ artifacts[s] <= 1
        /\ artifacts[s] = 1 => status[s] = "processed"
        /\ status[s] = "processed" =>
               /\ HasNote(s) /\ IsLogged(s)
               /\ artifacts[s] = 1 \/ s \in killed \/ \E r \in Runs : Holds(r, s)

Reporting(r) == run[r].pc = "ended" /\ run[r].fatal = "none"

\* The report of a run is what happened: completed sources are stored, those it
\* calls pending were never started by it, and no attempt is still under way.
ReportIsTrue ==
    \A r \in Runs : Reporting(r) => \A s \in run[r].queue :
        /\ run[r].report[s] = "completed" => status[s] = "processed" /\ artifacts[s] = 1
        /\ run[r].report[s] = "pending" => task[r][s].res \in {"none", "pending"}
        /\ task[r][s].pc \in {"none", "collected"}

\* A run nothing stopped leaves no source of its queue untried.
UnstoppedRunTriesAll ==
    \A r \in Runs :
        Reporting(r) /\ ~run[r].stopped /\ ~run[r].interrupted
            => \A s \in run[r].queue : run[r].report[s] # "pending"

\* Any worker's authentication failure is what the run raises, whichever
\* worker fails first and whatever is drained after it.
AuthFailureWins ==
    \A r \in Runs :
        run[r].pc = "ended" /\ (\E s \in Sources : task[r][s].res = "auth")
            => run[r].fatal = "auth"

-----------------------------------------------------------------------------
(* Liveness *)

\* Stopped, interrupted or neither, a run drains its workers and ends.
RunsEnd == \A r \in Runs : run[r].pc = "fill" ~> run[r].pc \in {"idle", "ended"}

\* When the failures are over, runs started again leave no registered source
\* pending or in progress, but for those a killed run had claimed.
SourcesSettle ==
    <>[](\A s \in Sources : status[s] \in {"pending", "in_progress"} => s \in killed)

=============================================================================
