----------------------------- MODULE GmailSync -----------------------------
(***************************************************************************)
(* `fieldkit gmail sync`: the commands that copy a mailbox into a SQLite   *)
(* store.  A scan lists pages newest first and checkpoints the token of    *)
(* the next page once a page is stored; afterwards the history is replayed *)
(* from the number kept in the store.  --full starts a refresh that is     *)
(* resumed until it finishes, --since an isolated scan of recent messages. *)
(* Commands exclude each other by a lock they do not wait for; one may end *)
(* at any step, by a crash, an authentication failure or any other error.  *)
(***************************************************************************)
EXTENDS GmailMailbox

CONSTANTS Commands,    \* the sync commands
          Nobody,      \* holds the lock when no command does
          Modes,       \* the modes in use: "auto", "full", "since"
          Ceilings,    \* whether --max-messages is in use: a set of BOOLEANs
          PageSize,    \* messages on a page of messages.list
          HistorySize, \* events on a page of history.list
          MaxFailures  \* bound: aborts, unresolved fetches and expiries

ASSUME SyncAssumption ==
    /\ Nobody \notin Commands
    /\ Modes \subseteq {"auto", "full", "since"}
    /\ Ceilings \subseteq BOOLEAN
    /\ PageSize \in Nat \ {0} /\ HistorySize \in Nat \ {0} /\ MaxFailures \in Nat

VARIABLES rows,     \* message -> its row: "none", or what its labels amount to
          st,       \* the sync_state keys of the incremental and full modes
          since,    \* the sync_state keys of the --since mode
          lock,     \* the command holding the database's lock file
          run,      \* command -> the progress of its run
          failures, \* counts what MaxFailures bounds
          missed,   \* ghost: messages changed where no replay will look
          due       \* ghost: messages the --since scan under way has still to store

storeVars == <<rows, st, since>>
ghostVars == <<missed, due>>
vars == <<mailboxVars, storeVars, lock, run, failures, ghostVars>>

None == -1  \* an absent history number

\* Tokens name the newest message of the page they stand for; 0 is no token.
Start == 0
Exhausted == -1
Tokens == 0..Newest
NoEpoch == 0

InitialState == [hid |-> None, complete |-> FALSE, token |-> Start,
                 exhausted |-> FALSE, forced |-> FALSE, captured |-> None]
NoBackfill == [epoch |-> NoEpoch, token |-> Start]

Steps == {"idle", "prepare", "force", "since", "select", "list", "store",
          "checkpoint", "finish", "profile", "publish", "history", "added",
          "changed", "unresolved", "restart", "force again"}

NotRunning == [pc |-> "idle", mode |-> "auto", capped |-> FALSE, page |-> {},
               next |-> Start, pos |-> 0, upto |-> 0, latest |-> 0]

Numbers == 0..MaxEvents

TypeOK ==
    /\ MailboxTypeOK
    /\ rows \in [Messages -> {"none", "kept", "excluded"}]
    /\ st \in [hid: Numbers \cup {None}, complete: BOOLEAN, token: Tokens,
               exhausted: BOOLEAN, forced: BOOLEAN, captured: Numbers \cup {None}]
    /\ since \in [epoch: Messages \cup {NoEpoch}, token: Tokens \cup {Exhausted}]
    /\ lock \in Commands \cup {Nobody}
    /\ run \in [Commands -> [pc: Steps, mode: {"auto", "full", "since"}, capped: BOOLEAN,
                             page: SUBSET Messages, next: Tokens,
                             pos: Numbers, upto: Numbers, latest: Numbers]]
    /\ failures \in 0..MaxFailures
    /\ missed \subseteq Messages
    /\ due \subseteq Messages

Init ==
    /\ MailboxInit
    /\ rows = [m \in Messages |-> "none"]
    /\ st = InitialState
    /\ since = NoBackfill
    /\ lock = Nobody
    /\ run = [c \in Commands |-> NotRunning]
    /\ failures = 0
    /\ missed = {}
    /\ due = {}

-----------------------------------------------------------------------------
(* What the store should say                                               *)

Right(m) ==
    CASE box[m] = "kept" -> rows[m] = "kept"
      [] box[m] = "excluded" -> rows[m] # "kept"
      [] OTHER -> rows[m] = "none"

\* No event after number h is about message m.
Untouched(m, h) == \A k \in (h + 1)..Len(history) : history[k].msg # m

\* Stored messages a scan will not put right: it inserts and never deletes.
OutOfReach == {m \in Messages : box[m] # "kept" /\ ~Right(m)}

-----------------------------------------------------------------------------
(* Steps of a command                                                      *)

Goto(c, step) == run' = [run EXCEPT ![c].pc = step]

\* The command ends and the lock file is unlocked.
Stop(c) ==
    /\ run' = [run EXCEPT ![c] = NotRunning]
    /\ lock' = Nobody

StopUnresolved(c) ==
    /\ failures < MaxFailures
    /\ failures' = failures + 1
    /\ Stop(c)

\* Broken form: the lock is not tried.
TakeLockUntried(c) == lock' = c

\* flock(LOCK_EX | LOCK_NB); a refused command changes nothing.
TakeLock(c) == lock = Nobody /\ lock' = c

Begin(c, mode, capped) ==
    /\ run[c].pc = "idle"
    /\ TakeLock(c)
    /\ run' = [run EXCEPT ![c].pc = CASE mode = "full" -> "prepare"
                                      [] mode = "since" -> "since"
                                      [] OTHER -> "select",
                          ![c].mode = mode, ![c].capped = capped]
    /\ UNCHANGED <<mailboxVars, storeVars, failures, ghostVars>>

\* Broken form: --full always begins anew.
PrepareAnew(c) ==
    /\ run[c].pc = "prepare"
    /\ run' = [run EXCEPT ![c].pc = "force", ![c].latest = ProfileHistoryId]
    /\ UNCHANGED <<mailboxVars, storeVars, lock, failures, ghostVars>>

\* --full: one that is under way is resumed.
Prepare(c) ==
    /\ run[c].pc = "prepare"
    /\ IF st.forced
         THEN Goto(c, "select")
         ELSE run' = [run EXCEPT ![c].pc = "force", ![c].latest = ProfileHistoryId]
    /\ UNCHANGED <<mailboxVars, storeVars, lock, failures, ghostVars>>

ForcedState(h) == [InitialState EXCEPT !.forced = TRUE, !.captured = h]

BeginRefresh(c) ==
    /\ run[c].pc = "force"
    /\ st' = ForcedState(run[c].latest)
    /\ missed' = missed \cup OutOfReach
    /\ Goto(c, "select")
    /\ UNCHANGED <<mailboxVars, rows, since, lock, failures, due>>

\* The captured history expired: start over, and fail for a retry.
CaptureAgain(c) ==
    /\ run[c].pc = "restart"
    /\ run' = [run EXCEPT ![c].pc = "force again", ![c].latest = ProfileHistoryId]
    /\ UNCHANGED <<mailboxVars, storeVars, lock, failures, ghostVars>>

RestartRefresh(c) ==
    /\ run[c].pc = "force again"
    /\ st' = ForcedState(run[c].latest)
    /\ missed' = missed \cup OutOfReach
    /\ Stop(c)
    /\ UNCHANGED <<mailboxVars, rows, since, failures, due>>

Select(c) ==
    /\ run[c].pc = "select"
    /\ IF st.complete /\ st.hid # None
         THEN run' = [run EXCEPT ![c].pc = "history", ![c].pos = st.hid]
         ELSE Goto(c, IF st.exhausted THEN "finish" ELSE "list")
    /\ UNCHANGED <<mailboxVars, storeVars, lock, failures, ghostVars>>

\* Broken form: the token of another date is kept.
BeginBackfillResuming(c, epoch) ==
    /\ run[c].pc = "since"
    /\ since' = [since EXCEPT !.epoch = epoch]
    /\ due' = IF since.epoch = epoch THEN due
              ELSE {m \in Messages : box[m] = "kept" /\ m >= epoch}
    /\ Goto(c, IF since'.token = Exhausted THEN "finish" ELSE "list")
    /\ UNCHANGED <<mailboxVars, rows, st, lock, failures, missed>>

\* --since: an unfinished scan of the same date is resumed.
BeginBackfill(c, epoch) ==
    /\ run[c].pc = "since"
    /\ since' = IF since.epoch = epoch THEN since ELSE [epoch |-> epoch, token |-> Start]
    /\ due' = IF since.epoch = epoch THEN due
              ELSE {m \in Messages : box[m] = "kept" /\ m >= epoch}
    /\ Goto(c, IF since'.token = Exhausted THEN "finish" ELSE "list")
    /\ UNCHANGED <<mailboxVars, rows, st, lock, failures, missed>>

-----------------------------------------------------------------------------
(* A scan of messages.list                                                 *)

Backfill(c) == run[c].mode = "since"
ScanToken(c) == IF Backfill(c) THEN since.token ELSE st.token
Top(token) == IF token = Start THEN Newest ELSE token
Oldest(c) == IF Backfill(c) THEN since.epoch ELSE 1

\* The token of the page after page p: Start when p is the last one.
IsNextToken(next, p, oldest) ==
    IF \E k \in Messages : Present(k) /\ k >= oldest /\ \A m \in p : k < m
    THEN (next + 1) \in p /\ \A m \in p : next < m
    ELSE next = Start

ListMessages(c) ==
    /\ run[c].pc = "list"
    /\ \E size \in (IF run[c].capped THEN 1..PageSize ELSE {PageSize}), next \in Tokens :
         LET p == Page(Top(ScanToken(c)), Oldest(c), size) IN
         /\ p # {}
         /\ IsNextToken(next, p, Oldest(c))
         /\ run' = [run EXCEPT ![c].pc = "store", ![c].page = p, ![c].next = next]
    /\ UNCHANGED <<mailboxVars, storeVars, lock, failures, ghostVars>>

\* An empty page ends the scan.
ExhaustScan(c) ==
    /\ run[c].pc = "list"
    /\ Listable(Top(ScanToken(c)), Oldest(c)) = {}
    /\ IF Backfill(c)
         THEN since' = [since EXCEPT !.token = Exhausted] /\ UNCHANGED st
         ELSE st' = [st EXCEPT !.exhausted = TRUE] /\ UNCHANGED since
    /\ Goto(c, "finish")
    /\ UNCHANGED <<mailboxVars, rows, lock, failures, ghostVars>>

\* The ceiling of --max-messages is reached between two pages.
Pause(c) ==
    /\ run[c].pc = "list" /\ run[c].capped
    /\ Stop(c)
    /\ UNCHANGED <<mailboxVars, storeVars, failures, ghostVars>>

\* Messages fetched now: those gone are not found, those whose labels are all
\* excluded are dropped, the others are inserted or replaced.
Insert(fetched) ==
    LET kept == {m \in fetched : box[m] = "kept"} IN
    /\ rows' = [m \in Messages |-> IF m \in kept THEN "kept" ELSE rows[m]]
    /\ missed' = missed \ kept
    /\ due' = due \ kept

\* Fetch a page; after a message that stays unresolved the run ends, and the
\* page is fetched again by the next one.
Store(c) ==
    /\ run[c].pc = "store"
    /\ \E fetched \in SUBSET run[c].page :
         /\ Insert(fetched)
         /\ IF fetched = run[c].page
              THEN Goto(c, "checkpoint") /\ UNCHANGED <<lock, failures>>
              ELSE StopUnresolved(c)
    /\ UNCHANGED <<mailboxVars, st, since>>

\* Broken form: the exhausted token of --since is written for every mode.
CheckpointExhausted(c) ==
    LET token == IF run[c].next = Start THEN Exhausted ELSE run[c].next IN
    /\ run[c].pc = "checkpoint"
    /\ IF Backfill(c) THEN since' = [since EXCEPT !.token = token] /\ UNCHANGED st
       ELSE st' = [st EXCEPT !.token = token] /\ UNCHANGED since
    /\ run' = [run EXCEPT ![c].pc = IF run[c].next = Start THEN "finish" ELSE "list",
                          ![c].page = {}, ![c].next = Start]
    /\ UNCHANGED <<mailboxVars, rows, lock, failures, ghostVars>>

\* Broken form: --since moves the token of the full scan.
CheckpointShared(c) ==
    LET next == run[c].next IN
    /\ run[c].pc = "checkpoint"
    /\ st' = [st EXCEPT !.token = next, !.exhausted = st.exhausted \/ next = Start]
    /\ since' = IF Backfill(c)
                THEN [since EXCEPT !.token = IF next = Start THEN Exhausted ELSE next]
                ELSE since
    /\ run' = [run EXCEPT ![c].pc = IF next = Start THEN "finish" ELSE "list",
                          ![c].page = {}, ![c].next = Start]
    /\ UNCHANGED <<mailboxVars, rows, lock, failures, ghostVars>>

Checkpoint(c) ==
    LET next == run[c].next IN
    /\ run[c].pc = "checkpoint"
    /\ IF Backfill(c)
         THEN /\ since' = [since EXCEPT !.token = IF next = Start THEN Exhausted ELSE next]
              /\ UNCHANGED st
         ELSE /\ st' = [st EXCEPT !.token = next,
                                  !.exhausted = st.exhausted \/ next = Start]
              /\ UNCHANGED since
    /\ run' = [run EXCEPT ![c].pc = IF next = Start THEN "finish" ELSE "list",
                          ![c].page = {}, ![c].next = Start]
    /\ UNCHANGED <<mailboxVars, rows, lock, failures, ghostVars>>

-----------------------------------------------------------------------------
(* After a scan                                                            *)

FinishBackfill(c) ==
    /\ run[c].pc = "finish" /\ Backfill(c)
    /\ since' = NoBackfill
    /\ Stop(c)
    /\ UNCHANGED <<mailboxVars, rows, st, failures, ghostVars>>

\* A refresh replays from the number captured before its scan; any other scan
\* takes the number the profile has now.
FinishScan(c) ==
    /\ run[c].pc = "finish" /\ ~Backfill(c)
    /\ run' = IF st.captured # None
              THEN [run EXCEPT ![c].pc = "history", ![c].pos = st.captured]
              ELSE [run EXCEPT ![c].pc = "publish", ![c].latest = ProfileHistoryId]
    /\ UNCHANGED <<mailboxVars, storeVars, lock, failures, ghostVars>>

PublishScan(c) ==
    /\ run[c].pc = "publish" /\ ~st.complete
    /\ st' = [InitialState EXCEPT !.hid = run[c].latest, !.complete = TRUE]
    /\ Stop(c)
    /\ UNCHANGED <<mailboxVars, rows, since, failures, ghostVars>>

-----------------------------------------------------------------------------
(* Replaying history.list, from st.hid or from st.captured                 *)

Origin == IF st.complete THEN st.hid ELSE st.captured

ListHistory(c) ==
    /\ run[c].pc = "history" /\ Origin >= expired
    /\ LET last == IF run[c].pos + HistorySize < Len(history)
                   THEN run[c].pos + HistorySize ELSE Len(history)
       IN run' = [run EXCEPT ![c].pc = "added", ![c].upto = last, ![c].latest = Len(history)]
    /\ UNCHANGED <<mailboxVars, storeVars, lock, failures, ghostVars>>

\* Broken form: the number that expired is kept.
ForgetHistoryNot(c) ==
    /\ run[c].pc = "history" /\ Origin < expired /\ st.complete
    /\ Stop(c)
    /\ UNCHANGED <<mailboxVars, storeVars, failures, ghostVars>>

\* HTTP 404: an incremental sync forgets its number and ends.
ForgetHistory(c) ==
    /\ run[c].pc = "history" /\ Origin < expired /\ st.complete
    /\ st' = [st EXCEPT !.hid = None, !.complete = FALSE]
    /\ missed' = missed \cup OutOfReach
    /\ Stop(c)
    /\ UNCHANGED <<mailboxVars, rows, since, failures, due>>

\* HTTP 404: a refresh restarts.
RefreshExpired(c) ==
    /\ run[c].pc = "history" /\ Origin < expired /\ ~st.complete
    /\ Goto(c, "restart")
    /\ UNCHANGED <<mailboxVars, storeVars, lock, failures, ghostVars>>

PageEvents(c) == (run[c].pos + 1)..run[c].upto

\* Messages added under labels that are not all excluded are fetched.
ApplyAdded(c) ==
    LET added == {history[k].msg : k \in {j \in PageEvents(c) :
                     history[j].added /\ history[j].to = "kept"}}
    IN
    /\ run[c].pc = "added"
    /\ \E fetched \in SUBSET added :
         /\ Insert(fetched)
         /\ IF fetched = added THEN Goto(c, "changed") /\ UNCHANGED failures
            ELSE /\ Goto(c, "unresolved")
                 /\ failures < MaxFailures
                 /\ failures' = failures + 1
    /\ UNCHANGED <<mailboxVars, st, since, lock>>

\* Broken form: a message that becomes excluded loses its row.
ReplayedDropping(c, m) ==
    IF \E k \in PageEvents(c) : history[k].msg = m /\ history[k].to # "kept"
    THEN "none" ELSE rows[m]

\* Then rows are deleted, and the rows that are there take the new labels.
Replayed(c, m) ==
    LET about == {k \in PageEvents(c) : history[k].msg = m}
        labels == {k \in about : ~history[k].added /\ history[k].to # "gone"}
        deleted == \E k \in about : history[k].to = "gone"
        last == {k \in labels : \A j \in labels : j <= k}
    IN CASE deleted -> "none"
         [] ~deleted /\ (rows[m] = "none" \/ labels = {}) -> rows[m]
         [] OTHER -> IF \E k \in last : history[k].to = "kept" THEN "kept" ELSE "excluded"

ApplyChanged(c) ==
    /\ run[c].pc \in {"changed", "unresolved"}
    /\ rows' = [m \in Messages |-> Replayed(c, m)]
    /\ \/ /\ run[c].pc = "unresolved"
          /\ Stop(c)
       \/ /\ run[c].pc = "changed"
          /\ run' = [run EXCEPT
                ![c].pc = IF run[c].upto < run[c].latest THEN "history" ELSE "publish",
                ![c].pos = run[c].upto]
          /\ UNCHANGED lock
    /\ UNCHANGED <<mailboxVars, st, since, failures, ghostVars>>

\* The number moves only after a page with nothing left unresolved.
AdvanceHistory(c) ==
    /\ run[c].pc = "publish" /\ st.complete
    /\ st' = [st EXCEPT !.hid = run[c].latest]
    /\ Stop(c)
    /\ UNCHANGED <<mailboxVars, rows, since, failures, ghostVars>>

-----------------------------------------------------------------------------
(* The environment                                                         *)

\* A change is missed while no history number is kept to replay it from, and
\* when it brings a message back that has no row to take the labels.
MailboxChange(m, to) ==
    /\ Change(m, to)
    /\ missed' = IF \/ ~st.complete /\ st.captured = None
                    \/ box[m] = "excluded" /\ to = "kept" /\ rows[m] = "none"
                 THEN missed \cup {m} ELSE missed
    /\ due' = due \ {m}
    /\ UNCHANGED <<storeVars, lock, run, failures>>

HistoryForgotten ==
    /\ failures < MaxFailures
    /\ failures' = failures + 1
    /\ Expire
    /\ UNCHANGED <<storeVars, lock, run, ghostVars>>

\* The process dies, or an error it does not handle ends it.
Abort(c) ==
    /\ run[c].pc # "idle"
    /\ failures < MaxFailures
    /\ failures' = failures + 1
    /\ Stop(c)
    /\ UNCHANGED <<mailboxVars, storeVars, ghostVars>>

Work(c) ==
    \/ Prepare(c) \/ BeginRefresh(c) \/ CaptureAgain(c) \/ RestartRefresh(c) \/ Select(c)
    \/ \E epoch \in Messages : BeginBackfill(c, epoch)
    \/ ListMessages(c) \/ ExhaustScan(c) \/ Pause(c) \/ Store(c) \/ Checkpoint(c)
    \/ FinishBackfill(c) \/ FinishScan(c) \/ PublishScan(c)
    \/ ListHistory(c) \/ ForgetHistory(c) \/ RefreshExpired(c)
    \/ ApplyAdded(c) \/ ApplyChanged(c) \/ AdvanceHistory(c)

Environment ==
    \/ \E m \in Messages, to \in {"kept", "excluded", "gone"} : MailboxChange(m, to)
    \/ HistoryForgotten

Next ==
    \/ \E c \in Commands :
         \/ \E mode \in Modes, capped \in Ceilings : Begin(c, mode, capped)
         \/ Work(c)
         \/ Abort(c)
    \/ Environment

Spec == Init /\ [][Next]_vars

\* A command that runs goes on, and a plain sync is started again and again:
\* the operator's timer, which cannot be kept out by other commands for ever.
FairSpec ==
    /\ Spec
    /\ \A c \in Commands : WF_vars(Work(c))
    /\ SF_vars(\E c \in Commands, capped \in Ceilings : Begin(c, "auto", capped))

-----------------------------------------------------------------------------
(* Properties                                                              *)

\* When the store claims to be complete, every message no event after its
\* history number is about stands as the mailbox has it, but for those that
\* changed where no replay looks: a checkpoint or a history number never moves
\* past a message that was not fetched, stored or deleted.
MirrorsMailbox ==
    st.complete => \A m \in Messages \ missed : Untouched(m, st.hid) => Right(m)

\* A --since scan that has cleared its keys has stored every message that was
\* due when it began and did not change since, however often it was cut short,
\* capped, or left for another date.
BackfillStoresAll == since.epoch = NoEpoch => due = {}

\* A row leaves the store only when its message left the mailbox: no refresh,
\* restart or replay of old events drops a message that is still there.
RowsLeaveWithMessages ==
    [][\A m \in Messages : rows[m] # "none" /\ rows'[m] = "none" => box[m] = "gone"]_vars

\* A refresh under way is resumed, not begun again: while it replays from one
\* captured number its scan never goes back to a page it has stored.
RefreshIsResumed ==
    [][st.forced /\ st'.forced /\ st'.captured = st.captured
         => /\ Top(st'.token) <= Top(st.token) \/ st'.exhausted
            /\ st.exhausted => st'.exhausted]_vars

\* Whatever fails on the way, the store catches up with a mailbox that is left
\* alone: complete, and at the newest event.
CatchesUp == []<>(st.complete /\ st.hid = Len(history))

\* What the documents say of every change during a scan, not only of those a
\* replay sees: once complete, no message the scan window changed is stale.
ScanWindowReconciled ==
    st.complete => \A m \in Messages : Untouched(m, st.hid) => Right(m)

=============================================================================
