--------------------------- MODULE GmailSyncProofs ---------------------------
(***************************************************************************)
(* Theorems about the Gmail sync, for every number of messages, every      *)
(* length of history and page, and every number of commands and failures:  *)
(* its types, that rows leave with their messages, and, from what a scan   *)
(* and a replay have behind and before them, that a complete store mirrors *)
(* the mailbox, a --since scan stores what was due, and a refresh resumes. *)
(***************************************************************************)
EXTENDS GmailSync, TLAPS, FiniteSetTheorems

-----------------------------------------------------------------------------
(* Types *)

RunStates == [pc: Steps, mode: {"auto", "full", "since"}, capped: BOOLEAN,
              page: SUBSET Messages, next: Tokens,
              pos: Numbers, upto: Numbers, latest: Numbers]

LEMMA MailboxFacts ==
    ASSUME MailboxTypeOK
    PROVE  /\ ProfileHistoryId \in Numbers
           /\ Len(history) \in Nat
BY MailboxAssumption DEF MailboxTypeOK, ProfileHistoryId, Numbers

LEMMA InitTypes == Init => TypeOK
<1> SUFFICES ASSUME Init PROVE TypeOK
  OBVIOUS
<1> USE MailboxAssumption, SyncAssumption
<1>1. MailboxTypeOK
  <2>1. box \in [Messages -> Conditions]
    BY DEF Init, MailboxInit, Conditions
  <2>2. history \in Seq(Events) /\ Len(history) = 0
    BY DEF Init, MailboxInit
  <2> QED
    BY <2>1, <2>2 DEF Init, MailboxInit, MailboxTypeOK
<1>2. NotRunning \in RunStates
  BY DEF NotRunning, RunStates, Steps, Tokens, Numbers, Start
<1>3. InitialState \in [hid: Numbers \cup {None}, complete: BOOLEAN, token: Tokens,
               exhausted: BOOLEAN, forced: BOOLEAN, captured: Numbers \cup {None}]
  BY DEF InitialState, Start, Tokens
<1>4. NoBackfill \in [epoch: Messages \cup {NoEpoch}, token: Tokens \cup {Exhausted}]
  BY DEF NoBackfill, Start, Tokens
<1> QED
  BY <1>1, <1>2, <1>3, <1>4 DEF Init, TypeOK, RunStates

\* A command's run keeps its type when it moves, stops, or is given new fields.
LEMMA GotoTypes ==
    ASSUME TypeOK, NEW c \in Commands, NEW step \in Steps, Goto(c, step)
    PROVE  run' \in [Commands -> RunStates]
BY DEF TypeOK, Goto, RunStates

LEMMA StopTypes ==
    ASSUME TypeOK, NEW c \in Commands, Stop(c)
    PROVE  /\ run' \in [Commands -> RunStates]
           /\ lock' \in Commands \cup {Nobody}
<1>1. NotRunning \in RunStates
  BY MailboxAssumption DEF NotRunning, RunStates, Steps, Tokens, Numbers, Start
<1> QED
  BY <1>1 DEF TypeOK, Stop, RunStates

LEMMA LatestTypes ==
    ASSUME TypeOK, NEW c \in Commands, NEW step \in Steps, NEW n \in Numbers,
           run' = [run EXCEPT ![c].pc = step, ![c].latest = n]
    PROVE  run' \in [Commands -> RunStates]
<1>1. run \in [Commands -> RunStates] /\ run[c] \in RunStates
  BY DEF TypeOK, RunStates
<1> QED
  BY <1>1 DEF RunStates

LEMMA PosTypes ==
    ASSUME TypeOK, NEW c \in Commands, NEW step \in Steps, NEW n \in Numbers,
           run' = [run EXCEPT ![c].pc = step, ![c].pos = n]
    PROVE  run' \in [Commands -> RunStates]
<1>1. run \in [Commands -> RunStates] /\ run[c] \in RunStates
  BY DEF TypeOK, RunStates
<1> QED
  BY <1>1 DEF RunStates

LEMMA ListedTypes ==
    ASSUME TypeOK, NEW c \in Commands, NEW step \in Steps, NEW k \in Numbers, NEW n \in Numbers,
           run' = [run EXCEPT ![c].pc = step, ![c].upto = k, ![c].latest = n]
    PROVE  run' \in [Commands -> RunStates]
<1>1. run \in [Commands -> RunStates] /\ run[c] \in RunStates
  BY DEF TypeOK, RunStates
<1> QED
  BY <1>1 DEF RunStates

LEMMA ModeTypes ==
    ASSUME TypeOK, NEW c \in Commands, NEW step \in Steps,
           NEW mode \in {"auto", "full", "since"}, NEW capped \in BOOLEAN,
           run' = [run EXCEPT ![c].pc = step, ![c].mode = mode, ![c].capped = capped]
    PROVE  run' \in [Commands -> RunStates]
<1>1. run \in [Commands -> RunStates] /\ run[c] \in RunStates
  BY DEF TypeOK, RunStates
<1> QED
  BY <1>1 DEF RunStates

LEMMA PageTypes ==
    ASSUME TypeOK, NEW c \in Commands, NEW step \in Steps, NEW p \in SUBSET Messages, NEW token \in Tokens,
           run' = [run EXCEPT ![c].pc = step, ![c].page = p, ![c].next = token]
    PROVE  run' \in [Commands -> RunStates]
<1>1. run \in [Commands -> RunStates] /\ run[c] \in RunStates
  BY DEF TypeOK, RunStates
<1> QED
  BY <1>1 DEF RunStates

LEMMA InsertTypes ==
    ASSUME TypeOK, NEW fetched, Insert(fetched)
    PROVE  /\ rows' \in [Messages -> {"none", "kept", "excluded"}]
           /\ missed' \subseteq Messages
           /\ due' \subseteq Messages
BY DEF TypeOK, Insert

LEMMA UnchangedMailbox == TypeOK /\ UNCHANGED mailboxVars => MailboxTypeOK'
BY DEF TypeOK, MailboxTypeOK, mailboxVars, Conditions

States == [hid: Numbers \cup {None}, complete: BOOLEAN, token: Tokens,
           exhausted: BOOLEAN, forced: BOOLEAN, captured: Numbers \cup {None}]

Backfills == [epoch: Messages \cup {NoEpoch}, token: Tokens \cup {Exhausted}]

\* The type of the state, part by part.
LEMMA TypeParts ==
    ASSUME TypeOK
    PROVE  /\ MailboxTypeOK
           /\ rows \in [Messages -> {"none", "kept", "excluded"}]
           /\ st \in States
           /\ since \in Backfills
           /\ lock \in Commands \cup {Nobody}
           /\ run \in [Commands -> RunStates]
           /\ failures \in 0..MaxFailures
           /\ missed \subseteq Messages
           /\ due \subseteq Messages
BY DEF TypeOK, States, Backfills, RunStates

LEMMA TypeWhole ==
    ASSUME MailboxTypeOK',
           rows' \in [Messages -> {"none", "kept", "excluded"}],
           st' \in States,
           since' \in Backfills,
           lock' \in Commands \cup {Nobody},
           run' \in [Commands -> RunStates],
           failures' \in 0..MaxFailures,
           missed' \subseteq Messages,
           due' \subseteq Messages
    PROVE  TypeOK'
BY DEF TypeOK, States, Backfills, RunStates

LEMMA InitialStateType == InitialState \in States
<1>1. Start \in Tokens
  BY MailboxAssumption DEF Tokens, Start
<1> QED
  BY <1>1 DEF InitialState, States

LEMMA ForcedStateType == \A h \in Numbers : ForcedState(h) \in States
BY InitialStateType DEF ForcedState, States

\* Beginning, the --full and --since preludes, and the choice of a mode.
LEMMA PreludeTypes ==
    ASSUME TypeOK, NEW c \in Commands,
           \/ \E mode \in Modes, capped \in Ceilings : Begin(c, mode, capped)
           \/ Prepare(c) \/ BeginRefresh(c) \/ CaptureAgain(c) \/ RestartRefresh(c) \/ Select(c)
           \/ \E epoch \in Messages : BeginBackfill(c, epoch)
    PROVE  TypeOK'
<1> USE TypeParts
<1>0. run[c] \in RunStates
  OBVIOUS
<1>1. CASE \E mode \in Modes, capped \in Ceilings : Begin(c, mode, capped)
  <2> PICK mode \in Modes, capped \in Ceilings : Begin(c, mode, capped)
    BY <1>1
  <2>1. mode \in {"auto", "full", "since"} /\ capped \in BOOLEAN
    BY SyncAssumption
  <2>2. run' \in [Commands -> RunStates] /\ lock' \in Commands \cup {Nobody}
    <3>1. PICK step \in Steps :
            run' = [run EXCEPT ![c].pc = step, ![c].mode = mode, ![c].capped = capped]
      BY DEF Begin, Steps
    <3>2. run' \in [Commands -> RunStates]
      BY <2>1, <3>1, ModeTypes
    <3> QED
      BY <3>2 DEF Begin, TakeLock
  <2> QED
    BY <2>2, UnchangedMailbox, TypeWhole DEF Begin, storeVars, ghostVars
<1>2. CASE Prepare(c)
  <2>1. run' \in [Commands -> RunStates]
    <3>1. CASE Goto(c, "select")
      BY <3>1, GotoTypes DEF Steps
    <3>2. CASE run' = [run EXCEPT ![c].pc = "force", ![c].latest = ProfileHistoryId]
      BY <3>2, MailboxFacts, LatestTypes DEF Steps
    <3> QED
      BY <1>2, <3>1, <3>2 DEF Prepare
  <2> QED
    BY <1>2, <2>1, UnchangedMailbox, TypeWhole DEF Prepare, storeVars, ghostVars
<1>3. CASE BeginRefresh(c)
  <2>1. run' \in [Commands -> RunStates]
    BY <1>3, GotoTypes DEF BeginRefresh, Steps
  <2>2. run[c].latest \in Numbers
    BY <1>0 DEF RunStates
  <2> QED
    BY <1>3, <2>1, <2>2, ForcedStateType, UnchangedMailbox, TypeWhole
       DEF BeginRefresh, OutOfReach
<1>4. CASE CaptureAgain(c)
  <2>1. run' \in [Commands -> RunStates]
    BY <1>4, MailboxFacts, LatestTypes DEF CaptureAgain, Steps
  <2> QED
    BY <1>4, <2>1, UnchangedMailbox, TypeWhole DEF CaptureAgain, storeVars, ghostVars
<1>5. CASE RestartRefresh(c)
  <2>1. run' \in [Commands -> RunStates] /\ lock' \in Commands \cup {Nobody}
    BY <1>5, StopTypes DEF RestartRefresh
  <2>2. run[c].latest \in Numbers
    BY <1>0 DEF RunStates
  <2> QED
    BY <1>5, <2>1, <2>2, ForcedStateType, UnchangedMailbox, TypeWhole
       DEF RestartRefresh, OutOfReach
<1>6. CASE Select(c)
  <2>1. run' \in [Commands -> RunStates]
    <3>1. CASE st.complete /\ st.hid # None
      <4>1. st.hid \in Numbers
        BY <3>1 DEF States
      <4> QED
        BY <1>6, <3>1, <4>1, PosTypes DEF Select, Steps
    <3>2. CASE ~(st.complete /\ st.hid # None)
      BY <1>6, <3>2, GotoTypes DEF Select, Steps
    <3> QED
      BY <3>1, <3>2
  <2> QED
    BY <1>6, <2>1, UnchangedMailbox, TypeWhole DEF Select, storeVars, ghostVars
<1>7. CASE \E epoch \in Messages : BeginBackfill(c, epoch)
  <2> PICK epoch \in Messages : BeginBackfill(c, epoch)
    BY <1>7
  <2>1. run' \in [Commands -> RunStates]
    BY GotoTypes DEF BeginBackfill, Steps
  <2>2. since' \in Backfills
    BY MailboxAssumption DEF BeginBackfill, Backfills, Tokens, Start
  <2>3. due' \subseteq Messages
    BY DEF BeginBackfill
  <2> QED
    BY <2>1, <2>2, <2>3, UnchangedMailbox, TypeWhole DEF BeginBackfill
<1> QED
  BY <1>1, <1>2, <1>3, <1>4, <1>5, <1>6, <1>7

LEMMA ScanTypes ==
    ASSUME TypeOK, NEW c \in Commands,
           \/ ListMessages(c) \/ ExhaustScan(c) \/ Pause(c) \/ Store(c) \/ Checkpoint(c)
           \/ FinishBackfill(c) \/ FinishScan(c) \/ PublishScan(c)
    PROVE  TypeOK'
<1> USE TypeParts
<1>0. run[c] \in RunStates
  OBVIOUS
<1>1. CASE ListMessages(c)
  <2>1. PICK size \in (IF run[c].capped THEN 1..PageSize ELSE {PageSize}), next \in Tokens :
          run' = [run EXCEPT ![c].pc = "store",
                             ![c].page = Page(Top(ScanToken(c)), Oldest(c), size),
                             ![c].next = next]
    BY <1>1 DEF ListMessages
  <2>2. Page(Top(ScanToken(c)), Oldest(c), size) \in SUBSET Messages
    BY DEF Page, Listable
  <2>3. run' \in [Commands -> RunStates]
    BY <2>1, <2>2, PageTypes DEF Steps
  <2> QED
    BY <1>1, <2>3, UnchangedMailbox, TypeWhole DEF ListMessages, storeVars, ghostVars
<1>2. CASE ExhaustScan(c)
  <2>1. run' \in [Commands -> RunStates]
    BY <1>2, GotoTypes DEF ExhaustScan, Steps
  <2>2. st' \in States /\ since' \in Backfills
    <3>1. CASE Backfill(c)
      <4>1. since' = [since EXCEPT !.token = Exhausted] /\ st' = st
        BY <1>2, <3>1 DEF ExhaustScan
      <4> QED BY <4>1 DEF Backfills
    <3>2. CASE ~Backfill(c)
      <4>1. st' = [st EXCEPT !.exhausted = TRUE] /\ since' = since
        BY <1>2, <3>2 DEF ExhaustScan
      <4> QED BY <4>1 DEF States
    <3> QED BY <3>1, <3>2
  <2> QED
    BY <1>2, <2>1, <2>2, UnchangedMailbox, TypeWhole DEF ExhaustScan, ghostVars
<1>3. CASE Pause(c)
  BY <1>3, StopTypes, UnchangedMailbox, TypeWhole DEF Pause, storeVars, ghostVars
<1>4. CASE Store(c)
  <2>1. PICK fetched \in SUBSET run[c].page :
          /\ Insert(fetched)
          /\ \/ Goto(c, "checkpoint") /\ UNCHANGED <<lock, failures>>
             \/ StopUnresolved(c)
    BY <1>4 DEF Store
  <2>2. fetched \in SUBSET Messages
    BY <1>0 DEF RunStates
  <2>3. /\ run' \in [Commands -> RunStates]
        /\ lock' \in Commands \cup {Nobody}
        /\ failures' \in 0..MaxFailures
    <3>1. CASE Goto(c, "checkpoint") /\ UNCHANGED <<lock, failures>>
      BY <3>1, GotoTypes DEF Steps
    <3>2. CASE StopUnresolved(c)
      BY <3>2, StopTypes, SyncAssumption DEF StopUnresolved
    <3> QED
      BY <2>1, <3>1, <3>2
  <2> QED
    BY <1>4, <2>1, <2>2, <2>3, InsertTypes, UnchangedMailbox, TypeWhole DEF Store
<1>5. CASE Checkpoint(c)
  <2>1. run' \in [Commands -> RunStates]
    <3>1. PICK step \in Steps :
            run' = [run EXCEPT ![c].pc = step, ![c].page = {}, ![c].next = Start]
      BY <1>5 DEF Checkpoint, Steps
    <3>2. Start \in Tokens
      BY MailboxAssumption DEF Tokens, Start
    <3> QED
      BY <3>1, <3>2, PageTypes
  <2>2. run[c].next \in Tokens
    BY <1>0 DEF RunStates
  <2>3. st' \in States /\ since' \in Backfills
    BY <1>5, <2>2 DEF Checkpoint, States, Backfills
  <2> QED
    BY <1>5, <2>1, <2>3, UnchangedMailbox, TypeWhole DEF Checkpoint, ghostVars
<1>6. CASE FinishBackfill(c)
  <2>1. NoBackfill \in Backfills
    BY MailboxAssumption DEF NoBackfill, Backfills, Tokens, Start
  <2> QED
    BY <1>6, <2>1, StopTypes, UnchangedMailbox, TypeWhole DEF FinishBackfill, ghostVars
<1>7. CASE FinishScan(c)
  <2>1. run' \in [Commands -> RunStates]
    <3>1. CASE st.captured # None
      <4>1. st.captured \in Numbers
        BY <3>1 DEF States
      <4>2. run' = [run EXCEPT ![c].pc = "history", ![c].pos = st.captured]
        BY <1>7, <3>1 DEF FinishScan
      <4> QED
        BY <4>1, <4>2, PosTypes DEF Steps
    <3>2. CASE st.captured = None
      <4>1. run' = [run EXCEPT ![c].pc = "publish", ![c].latest = ProfileHistoryId]
        BY <1>7, <3>2 DEF FinishScan
      <4> QED
        BY <4>1, MailboxFacts, LatestTypes DEF Steps
    <3> QED
      BY <3>1, <3>2
  <2> QED
    BY <1>7, <2>1, UnchangedMailbox, TypeWhole DEF FinishScan, storeVars, ghostVars
<1>8. CASE PublishScan(c)
  <2>1. run[c].latest \in Numbers
    BY <1>0 DEF RunStates
  <2>2. st' \in States
    <3>1. st' = [InitialState EXCEPT !.hid = run[c].latest, !.complete = TRUE]
      BY <1>8 DEF PublishScan
    <3> QED
      BY <2>1, <3>1, InitialStateType DEF States
  <2> QED
    BY <1>8, <2>2, StopTypes, UnchangedMailbox, TypeWhole DEF PublishScan, ghostVars
<1> QED
  BY <1>1, <1>2, <1>3, <1>4, <1>5, <1>6, <1>7, <1>8

LEMMA HistoryTypes ==
    ASSUME TypeOK, NEW c \in Commands,
           \/ ListHistory(c) \/ ForgetHistory(c) \/ RefreshExpired(c)
           \/ ApplyAdded(c) \/ ApplyChanged(c) \/ AdvanceHistory(c)
    PROVE  TypeOK'
<1> USE TypeParts
<1>0. run[c] \in RunStates
  OBVIOUS
<1>1. CASE ListHistory(c)
  <2>1. run[c].pos \in Numbers /\ Len(history) \in Numbers
    BY <1>0, MailboxFacts DEF RunStates, ProfileHistoryId
  <2>2. PICK last \in Numbers :
          run' = [run EXCEPT ![c].pc = "added", ![c].upto = last, ![c].latest = Len(history)]
    <3> DEFINE last == IF run[c].pos + HistorySize < Len(history)
                       THEN run[c].pos + HistorySize ELSE Len(history)
    <3>1. last \in Numbers
      BY <2>1, SyncAssumption, MailboxAssumption DEF Numbers
    <3>2. run' = [run EXCEPT ![c].pc = "added", ![c].upto = last, ![c].latest = Len(history)]
      BY <1>1 DEF ListHistory
    <3> QED
      BY <3>1, <3>2
  <2>3. run' \in [Commands -> RunStates]
    BY <2>1, <2>2, ListedTypes DEF Steps
  <2> QED
    BY <1>1, <2>3, UnchangedMailbox, TypeWhole DEF ListHistory, storeVars, ghostVars
<1>2. CASE ForgetHistory(c)
  <2>1. st' \in States
    BY <1>2 DEF ForgetHistory, States
  <2> QED
    BY <1>2, <2>1, StopTypes, UnchangedMailbox, TypeWhole DEF ForgetHistory, OutOfReach
<1>3. CASE RefreshExpired(c)
  BY <1>3, GotoTypes, UnchangedMailbox, TypeWhole
     DEF RefreshExpired, Steps, storeVars, ghostVars
<1>4. CASE ApplyAdded(c)
  <2>1. PICK fetched \in SUBSET {history[k].msg : k \in {j \in PageEvents(c) :
                     history[j].added /\ history[j].to = "kept"}} :
          /\ Insert(fetched)
          /\ \/ Goto(c, "changed") /\ UNCHANGED failures
             \/ /\ Goto(c, "unresolved")
                /\ failures < MaxFailures
                /\ failures' = failures + 1
    BY <1>4 DEF ApplyAdded
  <2>2. run' \in [Commands -> RunStates]
    BY <2>1, GotoTypes DEF Steps
  <2>3. failures' \in 0..MaxFailures
    BY <2>1, SyncAssumption
  <2> QED
    BY <1>4, <2>1, <2>2, <2>3, InsertTypes, UnchangedMailbox, TypeWhole DEF ApplyAdded
<1>5. CASE ApplyChanged(c)
  <2>1. rows' \in [Messages -> {"none", "kept", "excluded"}]
    <3>1. \A m \in Messages : Replayed(c, m) \in {"none", "kept", "excluded"}
      BY DEF Replayed
    <3> QED
      BY <1>5, <3>1 DEF ApplyChanged
  <2>2. run' \in [Commands -> RunStates] /\ lock' \in Commands \cup {Nobody}
    <3>1. CASE Stop(c)
      BY <3>1, StopTypes
    <3>2. CASE /\ run' = [run EXCEPT
                    ![c].pc = IF run[c].upto < run[c].latest THEN "history" ELSE "publish",
                    ![c].pos = run[c].upto]
               /\ UNCHANGED lock
      <4>1. run[c].upto \in Numbers
        BY <1>0 DEF RunStates
      <4>2. PICK step \in Steps : run' = [run EXCEPT ![c].pc = step, ![c].pos = run[c].upto]
        BY <3>2 DEF Steps
      <4>3. run' \in [Commands -> RunStates]
        BY <4>1, <4>2, PosTypes
      <4> QED
        BY <3>2, <4>3
    <3> QED
      BY <1>5, <3>1, <3>2 DEF ApplyChanged
  <2> QED
    BY <1>5, <2>1, <2>2, UnchangedMailbox, TypeWhole DEF ApplyChanged, ghostVars
<1>6. CASE AdvanceHistory(c)
  <2>1. st' \in States
    BY <1>0, <1>6 DEF AdvanceHistory, States, RunStates
  <2> QED
    BY <1>6, <2>1, StopTypes, UnchangedMailbox, TypeWhole DEF AdvanceHistory, ghostVars
<1> QED
  BY <1>1, <1>2, <1>3, <1>4, <1>5, <1>6

LEMMA EnvironmentTypes == TypeOK /\ Environment => TypeOK'
<1> SUFFICES ASSUME TypeOK, Environment PROVE TypeOK'
  OBVIOUS
<1> USE TypeParts
<1>1. CASE \E m \in Messages, to \in {"kept", "excluded", "gone"} : MailboxChange(m, to)
  <2> PICK m \in Messages, to \in {"kept", "excluded", "gone"} : MailboxChange(m, to)
    BY <1>1
  <2>1. Change(m, to)
    BY DEF MailboxChange
  <2>2. box' \in [Messages -> Conditions]
    BY <2>1 DEF Change, MailboxTypeOK, Conditions
  <2>3. [msg |-> m, to |-> to, added |-> box[m] = "unborn"] \in Events
    BY DEF Events
  <2>4. history' \in Seq(Events) /\ Len(history') = Len(history) + 1
    BY <2>1, <2>3 DEF Change, MailboxTypeOK
  <2>5. MailboxTypeOK'
    BY <2>1, <2>2, <2>4, MailboxAssumption DEF Change, MailboxTypeOK
  <2> QED
    BY <2>5, TypeWhole DEF MailboxChange, storeVars
<1>2. CASE HistoryForgotten
  <2>1. MailboxTypeOK'
    BY <1>2 DEF HistoryForgotten, Expire, MailboxTypeOK, Conditions
  <2> QED
    BY <1>2, <2>1, SyncAssumption, TypeWhole DEF HistoryForgotten, storeVars, ghostVars
<1> QED
  BY <1>1, <1>2 DEF Environment

LEMMA AbortTypes ==
    ASSUME TypeOK, NEW c \in Commands, Abort(c)
    PROVE  TypeOK'
BY StopTypes, TypeParts, TypeWhole, UnchangedMailbox, SyncAssumption
   DEF Abort, storeVars, ghostVars

LEMMA StutterTypes == TypeOK /\ UNCHANGED vars => TypeOK'
BY TypeParts, TypeWhole, UnchangedMailbox DEF vars, storeVars, ghostVars

LEMMA TypesInductive == TypeOK /\ [Next]_vars => TypeOK'
BY PreludeTypes, ScanTypes, HistoryTypes, EnvironmentTypes, AbortTypes, StutterTypes
   DEF Next, Work

\* Every reachable state is well typed: what the sync_state table, the rows and
\* the runs of the commands can hold.
THEOREM TypeCorrect == Spec => []TypeOK
BY InitTypes, TypesInductive, PTL DEF Spec

-----------------------------------------------------------------------------
(* Rows leave with their messages                                          *)

\* What is needed of the history: a deletion is final, and no run reads
\* beyond the events there are.
Deletions ==
    \A k \in 1..Len(history) : history[k].to = "gone" => box[history[k].msg] = "gone"

WithinHistory == \A c \in Commands : run[c].upto <= Len(history)

HistoryInv == TypeOK /\ Deletions /\ WithinHistory

LEMMA InitHistory == Init => HistoryInv
<1> SUFFICES ASSUME Init PROVE HistoryInv
  OBVIOUS
<1>1. Len(history) = 0
  BY DEF Init, MailboxInit
<1>2. WithinHistory
  BY <1>1 DEF Init, WithinHistory, NotRunning
<1> QED
  BY <1>1, <1>2, InitTypes DEF HistoryInv, Deletions

\* A command changes its own run only, and reads no further than it may.
LEMMA OwnRunWithin ==
    ASSUME HistoryInv, NEW c \in Commands, NEW r, run' = [run EXCEPT ![c] = r],
           r.upto = run[c].upto \/ r.upto <= Len(history), history' = history
    PROVE  WithinHistory'
BY TypeParts DEF HistoryInv, WithinHistory

LEMMA StopWithin ==
    ASSUME HistoryInv, NEW c \in Commands, Stop(c), history' = history
    PROVE  WithinHistory'
<1>1. NotRunning.upto <= Len(history)
  BY MailboxFacts, TypeParts DEF NotRunning, HistoryInv
<1> QED
  BY <1>1, OwnRunWithin DEF Stop

LEMMA GotoWithin ==
    ASSUME HistoryInv, NEW c \in Commands, NEW step, Goto(c, step), history' = history
    PROVE  WithinHistory'
<1>1. /\ run' = [run EXCEPT ![c] = [run[c] EXCEPT !.pc = step]]
      /\ [run[c] EXCEPT !.pc = step].upto = run[c].upto
  BY TypeParts DEF Goto, HistoryInv, RunStates
<1> QED
  BY <1>1, OwnRunWithin

LEMMA CommandsLeaveMailbox ==
    ASSUME NEW c \in Commands,
           \/ \E mode \in Modes, capped \in Ceilings : Begin(c, mode, capped)
           \/ Work(c)
           \/ Abort(c)
    PROVE  UNCHANGED mailboxVars
BY DEF Begin, Work, Abort, Prepare, BeginRefresh, CaptureAgain, RestartRefresh, Select,
       BeginBackfill, ListMessages, ExhaustScan, Pause, Store, Checkpoint, FinishBackfill,
       FinishScan, PublishScan, ListHistory, ForgetHistory, RefreshExpired, ApplyAdded,
       ApplyChanged, AdvanceHistory

LEMMA CommandWithin ==
    ASSUME HistoryInv, NEW c \in Commands,
           \/ \E mode \in Modes, capped \in Ceilings : Begin(c, mode, capped)
           \/ Work(c)
           \/ Abort(c)
    PROVE  WithinHistory'
<1>0. history' = history
  BY CommandsLeaveMailbox DEF mailboxVars
<1>1. run \in [Commands -> RunStates] /\ run[c] \in RunStates
  BY TypeParts DEF HistoryInv
<1>2. CASE \E mode \in Modes, capped \in Ceilings : Begin(c, mode, capped)
  <2>1. PICK mode \in Modes, capped \in Ceilings : Begin(c, mode, capped)
    BY <1>2
  <2>2. PICK step : run' = [run EXCEPT ![c].pc = step, ![c].mode = mode, ![c].capped = capped]
    BY <2>1 DEF Begin
  <2> DEFINE r == [run[c] EXCEPT !.pc = step, !.mode = mode, !.capped = capped]
  <2>3. run' = [run EXCEPT ![c] = r] /\ r.upto = run[c].upto
    BY <1>1, <2>2 DEF RunStates
  <2> QED
    BY <1>0, <2>3, OwnRunWithin
<1>3. ASSUME NEW step, NEW n,
             \/ run' = [run EXCEPT ![c].pc = step, ![c].latest = n]
             \/ run' = [run EXCEPT ![c].pc = step, ![c].pos = n]
      PROVE  WithinHistory'
  <2>1. PICK r \in {[run[c] EXCEPT !.pc = step, !.latest = n],
                    [run[c] EXCEPT !.pc = step, !.pos = n]} : run' = [run EXCEPT ![c] = r]
    BY <1>1, <1>3
  <2>2. r.upto = run[c].upto
    BY <1>1 DEF RunStates
  <2> QED
    BY <1>0, <2>1, <2>2, OwnRunWithin
<1>4. ASSUME NEW step, NEW p, NEW token,
             run' = [run EXCEPT ![c].pc = step, ![c].page = p, ![c].next = token]
      PROVE  WithinHistory'
  <2> DEFINE r == [run[c] EXCEPT !.pc = step, !.page = p, !.next = token]
  <2>1. run' = [run EXCEPT ![c] = r] /\ r.upto = run[c].upto
    BY <1>1, <1>4 DEF RunStates
  <2> QED
    BY <1>0, <2>1, OwnRunWithin
<1>5. CASE \/ Abort(c) \/ Pause(c) \/ RestartRefresh(c) \/ FinishBackfill(c)
           \/ PublishScan(c) \/ ForgetHistory(c) \/ AdvanceHistory(c)
  BY <1>0, <1>5, StopWithin
     DEF Abort, Pause, RestartRefresh, FinishBackfill, PublishScan, ForgetHistory, AdvanceHistory
<1>6. CASE \/ BeginRefresh(c) \/ ExhaustScan(c) \/ RefreshExpired(c) \/ ApplyAdded(c)
           \/ \E epoch \in Messages : BeginBackfill(c, epoch)
  BY <1>0, <1>6, GotoWithin
     DEF BeginRefresh, ExhaustScan, RefreshExpired, ApplyAdded, BeginBackfill
<1>7. CASE Prepare(c) \/ CaptureAgain(c) \/ Select(c) \/ FinishScan(c)
  BY <1>0, <1>3, <1>7, GotoWithin DEF Prepare, CaptureAgain, Select, FinishScan
<1>8. CASE ListMessages(c)
  <2>1. PICK p, token : run' = [run EXCEPT ![c].pc = "store", ![c].page = p, ![c].next = token]
    BY <1>8 DEF ListMessages
  <2> QED
    BY <1>4, <2>1
<1>9. CASE Checkpoint(c)
  <2>1. PICK step : run' = [run EXCEPT ![c].pc = step, ![c].page = {}, ![c].next = Start]
    BY <1>9 DEF Checkpoint
  <2> QED
    BY <1>4, <2>1
<1>10. CASE Store(c)
  BY <1>0, <1>10, StopWithin, GotoWithin DEF Store, StopUnresolved
<1>11. CASE ListHistory(c)
  <2> DEFINE last == IF run[c].pos + HistorySize < Len(history)
                     THEN run[c].pos + HistorySize ELSE Len(history)
             r == [run[c] EXCEPT !.pc = "added", !.upto = last, !.latest = Len(history)]
  <2>1. run[c].pos \in Nat /\ Len(history) \in Nat
    BY <1>1, MailboxFacts, TypeParts DEF RunStates, Numbers, HistoryInv
  <2>2. last <= Len(history)
    BY <2>1, SyncAssumption
  <2>3. run' = [run EXCEPT ![c] = r] /\ r.upto = last
    BY <1>1, <1>11 DEF ListHistory, RunStates
  <2> QED
    BY <1>0, <2>2, <2>3, OwnRunWithin
<1>12. CASE ApplyChanged(c)
  <2>1. CASE Stop(c)
    BY <1>0, <2>1, StopWithin
  <2>2. CASE ~Stop(c)
    <3>1. PICK step, n : run' = [run EXCEPT ![c].pc = step, ![c].pos = n]
      BY <1>12, <2>2 DEF ApplyChanged
    <3> QED
      BY <1>3, <3>1
  <2> QED
    BY <2>1, <2>2
<1> QED
  BY <1>2, <1>5, <1>6, <1>7, <1>8, <1>9, <1>10, <1>11, <1>12 DEF Work

LEMMA HistoryInductive == HistoryInv /\ [Next]_vars => HistoryInv'
<1> SUFFICES ASSUME HistoryInv, [Next]_vars PROVE HistoryInv'
  OBVIOUS
<1>0. TypeOK'
  BY TypesInductive DEF HistoryInv
<1> USE TypeParts DEF HistoryInv
<1>1. CASE \E c \in Commands :
             \/ \E mode \in Modes, capped \in Ceilings : Begin(c, mode, capped)
             \/ Work(c)
             \/ Abort(c)
  <2>1. UNCHANGED mailboxVars /\ WithinHistory'
    BY <1>1, CommandsLeaveMailbox, CommandWithin
  <2> QED
    BY <1>0, <2>1 DEF Deletions, mailboxVars
<1>2. CASE \E m \in Messages, to \in {"kept", "excluded", "gone"} : MailboxChange(m, to)
  <2> PICK m \in Messages, to \in {"kept", "excluded", "gone"} : MailboxChange(m, to)
    BY <1>2
  <2>1. Change(m, to) /\ run' = run
    BY DEF MailboxChange
  <2> DEFINE e == [msg |-> m, to |-> to, added |-> box[m] = "unborn"]
  <2>2. /\ history \in Seq(Events) /\ e \in Events /\ history' = Append(history, e)
        /\ box' = [box EXCEPT ![m] = to] /\ box \in [Messages -> Conditions]
        /\ box[m] # "gone"
    BY <2>1 DEF Change, Events, MailboxTypeOK, Present
  <2>3. /\ Len(history') = Len(history) + 1
        /\ history'[Len(history) + 1] = e
        /\ \A k \in 1..Len(history) : history'[k] = history[k] /\ history[k] \in Events
    BY <2>2
  <2>4. Deletions'
    <3> SUFFICES ASSUME NEW k \in 1..(Len(history) + 1), history'[k].to = "gone"
                 PROVE  box'[history'[k].msg] = "gone"
      BY <2>3 DEF Deletions
    <3>1. CASE k = Len(history) + 1
      BY <2>2, <2>3, <3>1
    <3>2. CASE k # Len(history) + 1
      <4>1. k \in 1..Len(history)
        BY <2>2, <3>2
      <4>2. box[history[k].msg] = "gone" /\ history[k].msg \in Messages
        BY <2>3, <4>1 DEF Deletions, Events
      <4> QED
        BY <2>2, <2>3, <4>1, <4>2
    <3> QED
      BY <3>1, <3>2
  <2>5. WithinHistory'
    <3>1. \A c \in Commands : run[c].upto \in Nat
      BY DEF RunStates, Numbers
    <3> QED
      BY <2>1, <2>2, <2>3, <3>1 DEF WithinHistory
  <2> QED
    BY <1>0, <2>4, <2>5
<1>3. CASE HistoryForgotten
  BY <1>0, <1>3 DEF HistoryForgotten, Expire, Deletions, WithinHistory
<1>4. CASE UNCHANGED vars
  BY <1>0, <1>4 DEF vars, mailboxVars, Deletions, WithinHistory
<1> QED
  BY <1>1, <1>2, <1>3, <1>4 DEF Next, Environment

\* Only the page of a replay deletes rows, and only those of messages whose
\* deletion it read.
LEMMA RowsStep ==
    ASSUME HistoryInv, Next, NEW m \in Messages, rows[m] # "none", rows'[m] = "none"
    PROVE  box[m] = "gone"
<1> USE TypeParts DEF HistoryInv
<1>1. PICK c \in Commands : ApplyChanged(c)
  <2>1. ASSUME NEW c \in Commands, Store(c) \/ ApplyAdded(c) PROVE FALSE
    <3>1. PICK fetched : Insert(fetched)
      BY <2>1 DEF Store, ApplyAdded
    <3> QED
      BY <3>1 DEF Insert
  <2>2. ASSUME rows' = rows PROVE FALSE
    BY <2>2
  <2>3. ASSUME NEW c \in Commands, NEW mode, NEW capped, Begin(c, mode, capped) PROVE FALSE
    BY <2>2, <2>3 DEF Begin, storeVars
  <2>4. ASSUME NEW c \in Commands, Abort(c) PROVE FALSE
    BY <2>2, <2>4 DEF Abort, storeVars
  <2>5. ASSUME Environment PROVE FALSE
    BY <2>2, <2>5 DEF Environment, MailboxChange, HistoryForgotten, storeVars
  <2>6. ASSUME NEW c \in Commands, Work(c), ~ApplyChanged(c) PROVE FALSE
    <3>1. rows' = rows \/ Store(c) \/ ApplyAdded(c)
      BY <2>6 DEF storeVars, Work, Prepare, BeginRefresh, CaptureAgain, RestartRefresh, Select,
         BeginBackfill, ListMessages, ExhaustScan, Pause, Checkpoint, FinishBackfill,
         FinishScan, PublishScan, ListHistory, ForgetHistory, RefreshExpired, AdvanceHistory
    <3> QED
      BY <2>1, <2>2, <3>1
  <2> QED
    BY <2>3, <2>4, <2>5, <2>6 DEF Next
<1>2. Replayed(c, m) = "none"
  BY <1>1 DEF ApplyChanged
<1>3. PICK k \in PageEvents(c) : history[k].msg = m /\ history[k].to = "gone"
  BY <1>2 DEF Replayed
<1>4. k \in 1..Len(history)
  <2>1. run[c].pos \in Nat /\ run[c].upto \in Nat /\ run[c].upto <= Len(history)
    BY DEF RunStates, Numbers, WithinHistory
  <2> QED
    BY <1>3, <2>1, MailboxFacts DEF PageEvents
<1> QED
  BY <1>3, <1>4 DEF Deletions

\* No refresh, restart or replay of old events ever drops the row of a message
\* that is still in the mailbox.
THEOREM RowsStay == Spec => RowsLeaveWithMessages
<1>1. HistoryInv /\ [Next]_vars
        => [\A m \in Messages : rows[m] # "none" /\ rows'[m] = "none" => box[m] = "gone"]_vars
  BY RowsStep
<1> QED
  BY <1>1, InitHistory, HistoryInductive, PTL DEF Spec, RowsLeaveWithMessages

-----------------------------------------------------------------------------
(* What the store says, and what it is to say                              *)

\* The last event about a message tells how it is.
LastTells == \A m \in Messages, k \in 1..Len(history) :
    history[k].msg = m /\ Untouched(m, k) => box[m] = history[k].to

\* An arrival is the first event about its message.
AddedFirst == \A j, k \in 1..Len(history) :
    j < k /\ history[j].msg = history[k].msg => ~history[k].added

\* Of the events about a message, one is the last.
HasLast == \A m \in Messages : (\E k \in 1..Len(history) : history[k].msg = m) =>
    \E k \in 1..Len(history) : history[k].msg = m /\ Untouched(m, k)

UnbornUntold == \A k \in 1..Len(history) : box[history[k].msg] # "unborn"

Chronicle == LastTells /\ AddedFirst /\ HasLast /\ UnbornUntold

\* Rows that cannot be wrong: a message that has not arrived has none, one that
\* says an excluded message is kept had its labels changed, and a message that
\* came back has a row, unless it is missed or gone.
RowsKnown ==
    /\ \A m \in Messages : box[m] = "unborn" => rows[m] = "none"
    /\ \A m \in Messages : rows[m] = "kept" /\ box[m] = "excluded" =>
          \E k \in 1..Len(history) : history[k].msg = m /\ ~history[k].added
    /\ \A k \in 1..Len(history) : ~history[k].added /\ history[k].to = "kept" =>
          \/ history[k].msg \in missed \/ rows[history[k].msg] # "none"
          \/ box[history[k].msg] = "gone"

\* The messages the store answers for: no change of theirs was missed, and none
\* comes after the number that the next replay starts from.
Followed(m) == m \notin missed /\ (Origin = None \/ Untouched(m, Origin))

Owed == {m \in Messages : Followed(m) /\ ~Right(m)}

\* What is owed lies before the full scan, what is due before the --since scan.
Ahead(m) == box[m] = "kept" /\ ~st.complete /\ ~st.exhausted /\ m <= Top(st.token)

OwedAhead == \A m \in Owed : Ahead(m)

DueAhead == \A m \in due :
    box[m] = "kept" /\ since.epoch # NoEpoch /\ m >= since.epoch /\ m <= Top(since.token)

StateInv ==
    /\ st.complete => st.hid # None /\ st.token = Start /\ ~st.exhausted
    /\ st.hid <= Len(history) /\ st.captured <= Len(history)

\* The store mirrors the mailbox as far as event h.
UpTo(h) == \A m \in Messages \ missed : Untouched(m, h) => Right(m)

\* What the scan of c has to store.
Wanted(c) == IF Backfill(c) THEN due ELSE Owed

\* A page that was listed leaves nothing wanted behind.
Scanning(c) ==
    /\ run[c].pc \in {"list", "store", "checkpoint", "finish"} =>
          IF Backfill(c) THEN since.epoch # NoEpoch ELSE ~st.complete
    /\ run[c].pc \in {"store", "checkpoint"} =>
          run[c].next = Start \/ run[c].next < Top(ScanToken(c))
    /\ run[c].pc = "store" => \A m \in Wanted(c) : m \in run[c].page \/ m <= run[c].next
    /\ run[c].pc = "checkpoint" => \A m \in Wanted(c) : m <= run[c].next
    /\ run[c].pc = "finish" => Wanted(c) = {}

\* The arrivals on the page of c have rows.
AllFetched(c) == \A m \in Messages, k \in PageEvents(c) :
    history[k].msg = m /\ history[k].added /\ history[k].to = "kept" /\ Untouched(m, k)
        => rows[m] = "kept"

\* A replay has put right what its pages are about.
Replaying(c) ==
    /\ run[c].pc \in {"history", "added", "changed", "unresolved"} =>
          Origin # None /\ Origin <= run[c].pos /\ UpTo(run[c].pos)
    /\ run[c].pc \in {"added", "changed", "unresolved"} =>
          run[c].pos <= run[c].upto /\ run[c].upto <= run[c].latest
    /\ run[c].pc = "changed" => AllFetched(c)
    /\ run[c].pc = "publish" => UpTo(run[c].latest)

Refreshing(c) ==
    /\ run[c].pc \in {"prepare", "force", "select"} => ~Backfill(c)
    /\ run[c].pc = "since" => Backfill(c)
    /\ run[c].pc = "force" => ~st.forced
    /\ run[c].pc \in {"restart", "force again"} => ~st.complete
    /\ run[c].pc = "restart" => st.captured < expired
    /\ run[c].pc = "force again" => st.captured < run[c].latest

\* No run has read a number of an event there is not.
Within(c) == run[c].pos <= Len(history) /\ run[c].upto <= Len(history) /\ run[c].latest <= Len(history)

RunInv(c) == Within(c) /\ Scanning(c) /\ Replaying(c) /\ Refreshing(c)

RunsInv == \A c \in Commands : RunInv(c) /\ (run[c].pc # "idle" => lock = c)

StoreInv == OwedAhead /\ DueAhead /\ StateInv

SyncInv == HistoryInv /\ Chronicle /\ RowsKnown /\ StoreInv /\ RunsInv

\* The types that the arithmetic below goes by.
LEMMA NumberFacts ==
    ASSUME HistoryInv
    PROVE  /\ Len(history) \in Nat /\ expired \in Nat /\ expired <= Len(history)
           /\ st.hid \in Int /\ st.captured \in Int /\ st.hid >= None /\ st.captured >= None
           /\ st.token \in Nat /\ since.token \in Int
           /\ \A c \in Commands : /\ run[c].pos \in Nat /\ run[c].upto \in Nat
                                  /\ run[c].latest \in Nat /\ run[c].next \in Nat
           /\ \A k \in 1..Len(history) : history[k] \in Events /\ history[k].msg \in Messages
           /\ Newest \in Nat
<1>1. MailboxTypeOK /\ st \in States /\ since \in Backfills /\ run \in [Commands -> RunStates]
  BY TypeParts DEF HistoryInv
<1>2. history \in Seq(Events) /\ Len(history) \in Nat /\ expired \in 0..Len(history)
  BY <1>1, MailboxFacts DEF MailboxTypeOK
<1>3. \A k \in 1..Len(history) : history[k] \in Events /\ history[k].msg \in Messages
  <2>1. \A k \in 1..Len(history) : history[k] \in Events
    BY <1>2
  <2>2. \A e \in Events : e.msg \in Messages
    BY DEF Events
  <2> QED BY <2>1, <2>2
<1>4. /\ st.hid \in Numbers \cup {None} /\ st.captured \in Numbers \cup {None} /\ st.token \in Tokens
      /\ since.token \in Tokens \cup {Exhausted}
  BY <1>1 DEF States, Backfills
<1>5. \A n \in Numbers \cup {None} : n \in Int /\ n >= None
  BY MailboxAssumption DEF Numbers, None
<1>6. Tokens \subseteq Nat /\ Numbers \subseteq Nat /\ Exhausted \in Int
  BY MailboxAssumption DEF Tokens, Numbers, Exhausted
<1>7. \A c \in Commands : /\ run[c].pos \in Numbers /\ run[c].upto \in Numbers
                          /\ run[c].latest \in Numbers /\ run[c].next \in Tokens
  BY <1>1 DEF RunStates
<1>8. expired \in Nat /\ expired <= Len(history)
  BY <1>2
<1> HIDE DEF Exhausted
<1>9. Newest \in Nat
  BY MailboxAssumption
<1>10. /\ st.hid \in Int /\ st.captured \in Int /\ st.hid >= None /\ st.captured >= None
       /\ st.token \in Nat /\ since.token \in Int
  <2>1. st.hid \in Int /\ st.captured \in Int /\ st.hid >= None /\ st.captured >= None
    BY <1>4, <1>5
  <2>2. st.token \in Nat
    BY <1>4, <1>6
  <2>3. since.token \in Int
    BY <1>4, MailboxAssumption DEF Tokens, Exhausted
  <2> QED BY <2>1, <2>2, <2>3
<1>11. \A c \in Commands : /\ run[c].pos \in Nat /\ run[c].upto \in Nat
                           /\ run[c].latest \in Nat /\ run[c].next \in Nat
  BY <1>6, <1>7
<1> QED
  BY <1>2, <1>3, <1>8, <1>9, <1>10, <1>11, Zenon

-----------------------------------------------------------------------------
(* The chronicle                                                           *)

LEMMA InitChronicle == Init => Chronicle
<1> SUFFICES ASSUME Init PROVE Chronicle
  OBVIOUS
<1>1. Len(history) = 0
  BY DEF Init, MailboxInit
<1> QED
  BY <1>1 DEF Chronicle, LastTells, AddedFirst, HasLast, UnbornUntold

\* What a change of the mailbox does to its history.
LEMMA ChangeFacts ==
    ASSUME HistoryInv, NEW m \in Messages, NEW to \in {"kept", "excluded", "gone"}, Change(m, to)
    PROVE  /\ Len(history') = Len(history) + 1
           /\ history'[Len(history) + 1] = [msg |-> m, to |-> to, added |-> box[m] = "unborn"]
           /\ \A k \in 1..Len(history) : history'[k] = history[k] /\ history[k] \in Events
           /\ 1..Len(history') = 1..Len(history) \cup {Len(history) + 1}
           /\ box' = [box EXCEPT ![m] = to] /\ box \in [Messages -> Conditions]
           /\ box[m] # "gone" /\ to # box[m]
<1>1. MailboxTypeOK
  BY TypeParts DEF HistoryInv
<1> DEFINE e == [msg |-> m, to |-> to, added |-> box[m] = "unborn"]
<1>2. /\ history \in Seq(Events) /\ e \in Events /\ history' = Append(history, e)
      /\ box' = [box EXCEPT ![m] = to] /\ box \in [Messages -> Conditions]
      /\ box[m] # "gone" /\ to # box[m]
  BY <1>1 DEF Change, Events, MailboxTypeOK, Present
<1>3. /\ Len(history') = Len(history) + 1
      /\ history'[Len(history) + 1] = e
      /\ \A k \in 1..Len(history) : history'[k] = history[k] /\ history[k] \in Events
  BY <1>2
<1>4. Len(history) \in Nat
  BY <1>2
<1> QED
  BY <1>2, <1>3, <1>4

\* A change of m touches m after any number there was, and no other message.
LEMMA ChangeTouches ==
    ASSUME HistoryInv, NEW m \in Messages, NEW to \in {"kept", "excluded", "gone"}, Change(m, to),
           NEW h \in Nat, h <= Len(history)
    PROVE  /\ ~Untouched(m, h)'
           /\ \A x \in Messages \ {m} : Untouched(x, h)' <=> Untouched(x, h)
<1>1. Len(history) \in Nat
  BY NumberFacts
<1>2. /\ Len(history') = Len(history) + 1
      /\ history'[Len(history) + 1] = [msg |-> m, to |-> to, added |-> box[m] = "unborn"]
      /\ \A k \in 1..Len(history) : history'[k] = history[k]
  BY ChangeFacts
<1>3. history'[Len(history) + 1].msg = m
  BY <1>2
<1>4. ~Untouched(m, h)'
  <2>1. Len(history) + 1 \in (h + 1)..Len(history')
    BY <1>1, <1>2
  <2> QED BY <1>3, <2>1 DEF Untouched
<1>5. ASSUME NEW x \in Messages \ {m} PROVE Untouched(x, h)' <=> Untouched(x, h)
  <2>1. \A k \in (h + 1)..Len(history) : k \in 1..Len(history) /\ k \in (h + 1)..Len(history')
    BY <1>1, <1>2
  <2>2. \A k \in (h + 1)..Len(history') : k \in (h + 1)..Len(history) \/ k = Len(history) + 1
    BY <1>1, <1>2
  <2> QED BY <1>2, <1>3, <2>1, <2>2 DEF Untouched
<1> QED BY <1>4, <1>5

LEMMA AddedSays ==
    ASSUME NEW m, NEW to, NEW was, NEW e, e = [msg |-> m, to |-> to, added |-> was = "unborn"]
    PROVE  e.added <=> was = "unborn"
<1>1. PICK b \in BOOLEAN : b <=> (was = "unborn")
  OBVIOUS
<1>2. b = (was = "unborn")
  BY <1>1
<1>3. e = [msg |-> m, to |-> to, added |-> b]
  BY <1>2, Zenon
<1>4. e.added = b
  BY <1>3
<1>5. e.added <=> b
  BY <1>4
<1> QED
  BY <1>1, <1>5

LEMMA ChangeChronicle ==
    ASSUME HistoryInv, Chronicle, NEW m \in Messages, NEW to \in {"kept", "excluded", "gone"}, Change(m, to)
    PROVE  Chronicle'
<1>0. PICK n : n = Len(history) + 1
  OBVIOUS
<1>1. Len(history) \in Nat /\ \A k \in 1..Len(history) : history[k].msg \in Messages
  BY NumberFacts
<1>2. /\ Len(history') = n /\ 1..Len(history') = 1..Len(history) \cup {n}
      /\ history'[n].msg = m /\ history'[n].to = to /\ (history'[n].added <=> box[m] = "unborn")
      /\ \A k \in 1..Len(history) : history'[k] = history[k]
      /\ box'[m] = to /\ \A x \in Messages \ {m} : box'[x] = box[x]
  <2>1. /\ Len(history') = n /\ 1..Len(history') = 1..Len(history) \cup {n}
        /\ history'[n] = [msg |-> m, to |-> to, added |-> box[m] = "unborn"]
        /\ \A k \in 1..Len(history) : history'[k] = history[k]
        /\ box' = [box EXCEPT ![m] = to] /\ box \in [Messages -> Conditions]
    BY <1>0, ChangeFacts
  <2>2. history'[n].msg = m /\ history'[n].to = to /\ (history'[n].added <=> box[m] = "unborn")
    <3>1. history'[n].msg = m /\ history'[n].to = to
      BY <2>1
    <3>2. history'[n].added <=> box[m] = "unborn"
      <4>1. PICK e : e = history'[n]
        OBVIOUS
      <4>2. PICK was : was = box[m]
        OBVIOUS
      <4>3. e = [msg |-> m, to |-> to, added |-> was = "unborn"]
        BY <2>1, <4>1, <4>2, Zenon
      <4>4. e.added <=> was = "unborn"
        BY <4>3, AddedSays, Zenon
      <4> QED BY <4>1, <4>2, <4>4, Zenon
    <3> QED BY <3>1, <3>2
  <2>3. box'[m] = to /\ \A x \in Messages \ {m} : box'[x] = box[x]
    BY <2>1
  <2> QED BY <2>1, <2>2, <2>3
<1>3. \A k \in 1..Len(history) : k \in Nat /\ k <= Len(history)
  BY <1>1
<1>4. \A k \in 1..Len(history), x \in Messages :
          /\ Untouched(x, k)' => Untouched(x, k) /\ x # m
          /\ Untouched(x, k) /\ x # m => Untouched(x, k)'
  BY <1>3, ChangeTouches
<1>5. Untouched(m, n)'
  BY <1>0, <1>1, <1>2 DEF Untouched
<1>6. LastTells'
  BY <1>1, <1>2, <1>4 DEF LastTells, Chronicle
<1>7. AddedFirst'
  <2> SUFFICES ASSUME NEW j \in 1..Len(history'), NEW k \in 1..Len(history'),
                      j < k, history'[j].msg = history'[k].msg
               PROVE  ~history'[k].added
    BY DEF AddedFirst
  <2>1. j \in 1..Len(history)
    BY <1>0, <1>1, <1>2
  <2>2. CASE k \in 1..Len(history)
    BY <1>2, <2>1, <2>2 DEF AddedFirst, Chronicle
  <2>3. CASE k = n
    <3>1. history[j].msg = m
      BY <1>2, <2>1, <2>3
    <3>2. box[m] # "unborn"
      BY <2>1, <3>1 DEF UnbornUntold, Chronicle
    <3> QED BY <1>2, <2>3, <3>2
  <2> QED BY <1>2, <2>2, <2>3
<1>8. HasLast'
  <2> SUFFICES ASSUME NEW x \in Messages, NEW k \in 1..Len(history'), history'[k].msg = x
               PROVE  \E j \in 1..Len(history') : history'[j].msg = x /\ Untouched(x, j)'
    BY DEF HasLast
  <2>1. CASE x = m
    BY <1>2, <1>5, <2>1
  <2>2. CASE x # m
    <3>1. k \in 1..Len(history) /\ history[k].msg = x
      BY <1>2, <2>2
    <3>2. PICK j \in 1..Len(history) : history[j].msg = x /\ Untouched(x, j)
      BY <3>1 DEF HasLast, Chronicle
    <3>3. history'[j].msg = x /\ j \in 1..Len(history') /\ Untouched(x, j)'
      BY <1>2, <1>4, <2>2, <3>2
    <3> QED BY <3>3
  <2> QED BY <2>1, <2>2
<1>9. UnbornUntold'
  BY <1>1, <1>2 DEF UnbornUntold, Chronicle
<1> QED BY <1>6, <1>7, <1>8, <1>9 DEF Chronicle

LEMMA ChronicleInductive == HistoryInv /\ Chronicle /\ [Next]_vars => Chronicle'
<1> SUFFICES ASSUME HistoryInv, Chronicle, [Next]_vars PROVE Chronicle'
  OBVIOUS
<1>1. CASE UNCHANGED <<box, history>>
  <2>1. \A m, k : Untouched(m, k)' <=> Untouched(m, k)
    BY <1>1 DEF Untouched
  <2>2. LastTells' /\ HasLast'
    BY <1>1, <2>1 DEF Chronicle, LastTells, HasLast
  <2>3. AddedFirst' /\ UnbornUntold'
    BY <1>1 DEF Chronicle, AddedFirst, UnbornUntold
  <2> QED BY <2>2, <2>3 DEF Chronicle
<1>2. ASSUME NEW m \in Messages, NEW to \in {"kept", "excluded", "gone"}, MailboxChange(m, to)
      PROVE  Chronicle'
  BY <1>2, ChangeChronicle DEF MailboxChange
<1>3. CASE HistoryForgotten
  BY <1>1, <1>3 DEF HistoryForgotten, Expire
<1>4. ASSUME NEW c \in Commands,
             \/ \E mode \in Modes, capped \in Ceilings : Begin(c, mode, capped)
             \/ Work(c)
             \/ Abort(c)
      PROVE  Chronicle'
  BY <1>1, <1>4, CommandsLeaveMailbox DEF mailboxVars
<1> QED BY <1>1, <1>2, <1>3, <1>4 DEF Next, Environment, vars, mailboxVars

-----------------------------------------------------------------------------
(* Frames                                                                  *)

\* The invariant that the rows, the keys and the runs are left to show.
RestInv == RowsKnown /\ StoreInv /\ RunsInv

LEMMA SyncParts == SyncInv <=> HistoryInv /\ Chronicle /\ RestInv
BY DEF SyncInv, RestInv

LEMMA OthersIdle ==
    ASSUME HistoryInv, RunsInv, NEW c \in Commands, run[c].pc # "idle" \/ lock = Nobody
    PROVE  \A d \in Commands \ {c} : run[d].pc = "idle"
BY SyncAssumption DEF RunsInv

\* A run that is idle or has hardly begun has little to keep but its numbers.
LEMMA EarlyRun ==
    ASSUME NEW d \in Commands, Within(d)',
           \/ run'[d].pc = "idle"
           \/ run'[d].pc \in {"prepare", "select"} /\ run'[d].mode # "since"
           \/ run'[d].pc = "since" /\ run'[d].mode = "since"
    PROVE  RunInv(d)'
BY DEF RunInv, Scanning, Replaying, Refreshing, Backfill

\* A command changes its own run, while no other runs.
LEMMA RunsWhole ==
    ASSUME HistoryInv, RunsInv, NEW c \in Commands,
           run[c].pc # "idle" \/ lock = Nobody,
           \A d \in Commands \ {c} : run'[d] = run[d],
           history' = history,
           RunInv(c)',
           run'[c].pc # "idle" => lock' = c
    PROVE  RunsInv'
<1>1. ASSUME NEW d \in Commands \ {c} PROVE RunInv(d)' /\ run'[d].pc = "idle"
  <2>1. run'[d] = run[d] /\ run[d].pc = "idle"
    BY OthersIdle
  <2>2. Within(d)
    BY DEF RunsInv, RunInv
  <2>3. Within(d)'
    BY <2>1, <2>2 DEF Within
  <2> QED BY <2>1, <2>3, EarlyRun
<1> QED BY <1>1 DEF RunsInv

LEMMA StopRuns ==
    ASSUME HistoryInv, RunsInv, NEW c \in Commands, run[c].pc # "idle", Stop(c), history' = history
    PROVE  RunsInv'
<1>1. run \in [Commands -> RunStates] /\ Len(history) \in Nat
  BY TypeParts, NumberFacts DEF HistoryInv
<1>2. run'[c] = NotRunning /\ \A d \in Commands \ {c} : run'[d] = run[d]
  BY <1>1 DEF Stop
<1>3. run'[c].pc = "idle" /\ run'[c].pos = 0 /\ run'[c].upto = 0 /\ run'[c].latest = 0
  BY <1>2 DEF NotRunning
<1>4. RunInv(c)'
  <2>1. Within(c)'
    BY <1>1, <1>3 DEF Within
  <2> QED BY <1>3, <2>1, EarlyRun
<1> QED BY <1>2, <1>3, <1>4, RunsWhole

\* The fields of a run that a step sets, and those it keeps.
LEMMA Moved ==
    ASSUME HistoryInv, NEW c \in Commands, NEW r, run' = [run EXCEPT ![c] = r]
    PROVE  run'[c] = r /\ \A d \in Commands \ {c} : run'[d] = run[d]
BY TypeParts DEF HistoryInv

LEMMA GotoFacts ==
    ASSUME HistoryInv, NEW c \in Commands, NEW step, Goto(c, step)
    PROVE  /\ run'[c].pc = step /\ run'[c].mode = run[c].mode
           /\ run'[c].page = run[c].page /\ run'[c].next = run[c].next
           /\ run'[c].pos = run[c].pos /\ run'[c].upto = run[c].upto /\ run'[c].latest = run[c].latest
           /\ \A d \in Commands \ {c} : run'[d] = run[d]
<1>1. run \in [Commands -> RunStates] /\ run[c] \in RunStates
  BY TypeParts DEF HistoryInv
<1>2. run' = [run EXCEPT ![c] = [run[c] EXCEPT !.pc = step]]
  BY DEF Goto
<1> QED BY <1>1, <1>2, Moved DEF RunStates

LEMMA RunTypes ==
    ASSUME HistoryInv, NEW c \in Commands
    PROVE  run \in [Commands -> RunStates] /\ run[c] \in RunStates
BY TypeParts DEF HistoryInv

\* A number of a run is what UpTo says it is.
LEMMA UpToPos ==
    ASSUME NEW c \in Commands, NEW h, run'[c].pos = h, UpTo(h)'
    PROVE  UpTo(run[c].pos)'
BY DEF UpTo, Untouched

LEMMA UpToLatest ==
    ASSUME NEW c \in Commands, NEW h, run'[c].latest = h, UpTo(h)'
    PROVE  UpTo(run[c].latest)'
BY DEF UpTo, Untouched

\* A step that leaves the events, the rows and the keys alone.
LEMMA SilentFacts ==
    ASSUME UNCHANGED <<box, history, rows, st, since, missed, due>>
    PROVE  /\ Owed' = Owed /\ Origin' = Origin
           /\ RowsKnown <=> RowsKnown'
           /\ StoreInv <=> StoreInv'
           /\ \A h \in Nat : UpTo(h)' <=> UpTo(h)
<1>1. Origin' = Origin
  BY DEF Origin
<1>2. \A m \in Messages : Right(m)' <=> Right(m)
  BY DEF Right
<1>3. ASSUME NEW h, NEW m PROVE Untouched(m, h)' <=> Untouched(m, h)
  BY DEF Untouched
<1>4. \A m \in Messages : Followed(m)' <=> Followed(m)
  BY <1>1 DEF Followed, Untouched
<1>5. Owed' = Owed
  BY <1>2, <1>4 DEF Owed
<1>6. RowsKnown <=> RowsKnown'
  BY DEF RowsKnown
<1>7. StoreInv <=> StoreInv'
  <2>1. OwedAhead <=> OwedAhead'
    BY <1>5 DEF OwedAhead, Ahead, Top
  <2>2. DueAhead <=> DueAhead'
    BY DEF DueAhead, Top
  <2>3. StateInv <=> StateInv'
    BY DEF StateInv
  <2> QED BY <2>1, <2>2, <2>3 DEF StoreInv
<1>8. \A h \in Nat : UpTo(h)' <=> UpTo(h)
  BY <1>2, <1>3 DEF UpTo
<1> QED BY <1>1, <1>5, <1>6, <1>7, <1>8

\* A step that leaves the mailbox, the rows and the keys alone.
Still == UNCHANGED <<box, history, expired, rows, st, since, missed, due>>

LEMMA StillFacts ==
    ASSUME Still
    PROVE  /\ Owed' = Owed /\ Origin' = Origin
           /\ RowsKnown <=> RowsKnown'
           /\ StoreInv <=> StoreInv'
           /\ \A h \in Nat : UpTo(h)' <=> UpTo(h)
BY SilentFacts DEF Still

LEMMA StillRest ==
    ASSUME RestInv, Still, RunsInv'
    PROVE  RestInv'
BY StillFacts DEF RestInv

-----------------------------------------------------------------------------
(* Steps that move a run                                                   *)

\* A page of the newest messages leaves none behind but below its token.
LEMMA PageLeaves ==
    ASSUME Newest \in Nat, NEW top \in Int, NEW oldest \in Int, NEW size \in Nat, NEW next \in Nat, NEW p,
           p = Page(top, oldest, size), p # {}, IsNextToken(next, p, oldest)
    PROVE  /\ \A m \in Listable(top, oldest) : m \in p \/ m <= next
           /\ next = Start \/ next < top
<1> DEFINE L == Listable(top, oldest)
           Above(m) == {k \in L : k > m}
<1>1. L \subseteq Messages /\ Messages \subseteq Nat /\ p \subseteq L
  BY DEF Listable, Messages, Page
<1>2. IsFiniteSet(Messages)
  BY FS_Interval DEF Messages
<1>3. IsFiniteSet(L)
  BY <1>1, <1>2, FS_Subset
<1>4. ASSUME NEW m \in L, m \notin p PROVE \A k \in p : m < k
  <2> SUFFICES ASSUME NEW k \in p, ~(m < k) PROVE FALSE
    OBVIOUS
  <2>1. m \in Nat /\ k \in Nat /\ m # k
    BY <1>1, <1>4
  <2>2. Above(m) \subseteq Above(k)
    <3>1. \A j \in L : j \in Nat
      BY <1>1
    <3>2. \A j \in L : j > m => j > k
      BY <2>1, <3>1
    <3> QED BY <3>2
  <2>3. Above(m) \subseteq L /\ Above(k) \subseteq L
    OBVIOUS
  <2>4. IsFiniteSet(Above(k)) /\ IsFiniteSet(Above(m))
    BY <1>3, <2>3, FS_Subset
  <2>5. Cardinality(Above(m)) <= Cardinality(Above(k))
    BY <2>2, <2>4, FS_Subset
  <2>6. Cardinality(Above(m)) \in Nat /\ Cardinality(Above(k)) \in Nat
    BY <2>4, FS_CardinalityType
  <2>7. ~(Cardinality(Above(m)) < size) /\ Cardinality(Above(k)) < size
    BY <1>4 DEF Page
  <2> QED BY <2>5, <2>6, <2>7
<1>5. ASSUME NEW m \in L, m \notin p PROVE m <= next
  <2>1. Present(m) /\ m >= oldest /\ m \in Messages /\ m \in Nat
    BY <1>1 DEF Listable
  <2>2. next + 1 \in p
    BY <1>4, <1>5, <2>1 DEF IsNextToken
  <2>3. m < next + 1
    BY <1>4, <1>5, <2>2
  <2> QED BY <2>1, <2>3
<1>6. next = Start \/ next < top
  <2>1. next = Start \/ next + 1 \in p
    BY DEF IsNextToken
  <2>2. next + 1 \in p => next + 1 <= top
    BY DEF Page, Listable
  <2> QED BY <2>1, <2>2
<1> QED BY <1>5, <1>6

\* Nothing is owed once the store is complete or the scan exhausted.
LEMMA NothingOwed ==
    ASSUME OwedAhead, st.complete \/ st.exhausted
    PROVE  Owed = {} /\ (Origin # None => UpTo(Origin)) /\ (Origin = None => \A m \in Messages \ missed : Right(m))
<1>1. Owed = {}
  BY DEF OwedAhead, Ahead
<1> QED BY <1>1 DEF Owed, Followed, UpTo

LEMMA StopMoves ==
    ASSUME HistoryInv, RestInv, NEW c \in Commands, Abort(c) \/ Pause(c)
    PROVE  RestInv'
<1>1. Still /\ Stop(c) /\ run[c].pc # "idle"
  BY DEF Abort, Pause, Still, mailboxVars, storeVars, ghostVars
<1>2. RunsInv'
  BY <1>1, StopRuns DEF RestInv, Still
<1> QED BY <1>1, <1>2, StillRest

LEMMA BeginMoves ==
    ASSUME HistoryInv, RestInv, NEW c \in Commands, NEW mode \in Modes, NEW capped \in Ceilings, Begin(c, mode, capped)
    PROVE  RestInv'
<1>1. Still /\ lock = Nobody /\ lock' = c
  BY DEF Begin, Still, mailboxVars, storeVars, ghostVars, TakeLock
<1>2. PICK step : /\ step = CASE mode = "full" -> "prepare" [] mode = "since" -> "since" [] OTHER -> "select"
                  /\ run'[c].pc = step /\ run'[c].mode = mode
                  /\ run'[c].pos = run[c].pos /\ run'[c].upto = run[c].upto /\ run'[c].latest = run[c].latest
                  /\ \A d \in Commands \ {c} : run'[d] = run[d]
  <2>1. PICK step : /\ step = CASE mode = "full" -> "prepare" [] mode = "since" -> "since" [] OTHER -> "select"
                    /\ run' = [run EXCEPT ![c].pc = step, ![c].mode = mode, ![c].capped = capped]
    BY DEF Begin
  <2> QED BY <2>1, RunTypes DEF RunStates
<1>3. \/ step = "since" /\ mode = "since"
      \/ step \in {"prepare", "select"} /\ mode # "since"
  BY <1>2
<1>4. Within(c)'
  BY <1>1, <1>2 DEF Within, RestInv, RunsInv, RunInv, Still
<1>5. RunInv(c)'
  BY <1>2, <1>3, <1>4, EarlyRun
<1>6. RunsInv'
  BY <1>1, <1>2, <1>5, RunsWhole DEF RestInv, Still
<1> QED BY <1>1, <1>6, StillRest

LEMMA PrepareMoves ==
    ASSUME HistoryInv, RestInv, NEW c \in Commands, Prepare(c)
    PROVE  RestInv'
<1>1. /\ Still /\ run[c].pc = "prepare" /\ run[c].mode # "since" /\ lock' = c
      /\ Within(c) /\ RunsInv
  BY DEF Prepare, Still, mailboxVars, storeVars, ghostVars, RestInv, RunsInv, RunInv, Refreshing, Backfill
<1>2. CASE Goto(c, "select")
  <2>1. Within(c)'
    BY <1>1, <1>2, GotoFacts DEF Within, Still
  <2>2. RunInv(c)'
    BY <1>1, <1>2, <2>1, GotoFacts, EarlyRun
  <2>3. RunsInv'
    BY <1>1, <1>2, <2>2, GotoFacts, RunsWhole DEF Still
  <2> QED BY <1>1, <2>3, StillRest
<1>3. CASE ~Goto(c, "select")
  <2>2. /\ run'[c].pc = "force" /\ run'[c].mode = run[c].mode /\ run'[c].latest = Len(history)
        /\ run'[c].pos = run[c].pos /\ run'[c].upto = run[c].upto
        /\ \A d \in Commands \ {c} : run'[d] = run[d]
    BY <1>3, RunTypes DEF Prepare, RunStates, ProfileHistoryId
  <2>3. ~st.forced
    BY <1>3 DEF Prepare
  <2>4. Within(c)'
    BY <1>1, <2>2, NumberFacts DEF Within, Still
  <2>5. RunInv(c)'
    BY <1>1, <2>2, <2>3, <2>4 DEF RunInv, Scanning, Replaying, Refreshing, Backfill, Still
  <2>6. RunsInv'
    BY <1>1, <2>2, <2>5, RunsWhole DEF Still
  <2> QED BY <1>1, <2>6, StillRest
<1> QED BY <1>2, <1>3

LEMMA CaptureMoves ==
    ASSUME HistoryInv, RestInv, NEW c \in Commands, CaptureAgain(c)
    PROVE  RestInv'
<1>1. /\ Still /\ run[c].pc = "restart" /\ ~st.complete /\ st.captured < expired /\ lock' = c
      /\ Within(c) /\ RunsInv
  BY DEF CaptureAgain, Still, mailboxVars, storeVars, ghostVars, RestInv, RunsInv, RunInv, Refreshing
<1>2. /\ run'[c].latest = Len(history) /\ run'[c].pos = run[c].pos /\ run'[c].upto = run[c].upto
      /\ \A d \in Commands \ {c} : run'[d] = run[d]
  BY RunTypes DEF CaptureAgain, RunStates, ProfileHistoryId
<1>3. run'[c].pc = "force again"
  BY RunTypes DEF CaptureAgain, RunStates
<1>4. Within(c)'
  BY <1>1, <1>2, NumberFacts DEF Within, Still
<1>5. st.captured < Len(history)
  <2>1. st.captured \in Int /\ expired \in Nat /\ Len(history) \in Nat /\ expired <= Len(history)
    BY NumberFacts
  <2> QED BY <1>1, <2>1
<1>6. st'.captured < run'[c].latest /\ ~st'.complete
  BY <1>1, <1>2, <1>5 DEF Still
<1>7. RunInv(c)'
  BY <1>3, <1>4, <1>6 DEF RunInv, Scanning, Replaying, Refreshing
<1>8. RunsInv'
  BY <1>1, <1>2, <1>3, <1>7, RunsWhole DEF Still
<1> QED BY <1>1, <1>8, StillRest

LEMMA SelectMoves ==
    ASSUME HistoryInv, RestInv, NEW c \in Commands, Select(c)
    PROVE  RestInv'
<1>1. /\ Still /\ run[c].pc = "select" /\ run[c].mode # "since" /\ lock' = c
      /\ Within(c) /\ RunsInv /\ OwedAhead /\ StateInv
  BY DEF Select, Still, mailboxVars, storeVars, ghostVars, RestInv, RunsInv, RunInv, Refreshing, Backfill, StoreInv
<1>2. CASE st.complete
  <2>1. st.hid # None /\ Origin = st.hid /\ st.hid <= Len(history)
    BY <1>1, <1>2 DEF StateInv, Origin
  <2>3. /\ run'[c].pc = "history" /\ run'[c].pos = st.hid
        /\ run'[c].upto = run[c].upto /\ run'[c].latest = run[c].latest
        /\ \A d \in Commands \ {c} : run'[d] = run[d]
    BY <1>2, <2>1, RunTypes DEF Select, RunStates
  <2>4. Within(c)'
    BY <1>1, <2>1, <2>3 DEF Within, Still
  <2>5. Origin' = Origin /\ st.hid \in Nat
    <3>1. st.hid \in Nat
      BY <2>1, NumberFacts DEF None
    <3> QED BY <1>1, <3>1, StillFacts
  <2>6. UpTo(run[c].pos)'
    <3>1. PICK h \in Nat : h = st.hid
      BY <2>5
    <3>2. UpTo(h)
      BY <1>1, <1>2, <2>1, <3>1, NothingOwed
    <3>3. UpTo(h)'
      BY <1>1, <3>2, StillFacts
    <3> QED BY <2>3, <3>1, <3>3, UpToPos
  <2>7. RunInv(c)'
    BY <2>1, <2>3, <2>4, <2>5, <2>6 DEF RunInv, Scanning, Replaying, Refreshing
  <2>8. RunsInv'
    BY <1>1, <2>3, <2>7, RunsWhole DEF Still
  <2> QED BY <1>1, <2>8, StillRest
<1>3. CASE ~st.complete
  <2>1. PICK step : step = (IF st.exhausted THEN "finish" ELSE "list") /\ Goto(c, step)
    BY <1>3 DEF Select
  <2>2. Within(c)'
    BY <1>1, <2>1, GotoFacts DEF Within, Still
  <2>3. run'[c].pc = step /\ run'[c].mode # "since" /\ \A d \in Commands \ {c} : run'[d] = run[d]
    BY <1>1, <2>1, GotoFacts
  <2>4. step = "finish" => Owed' = {}
    BY <1>1, <2>1, NothingOwed, StillFacts
  <2>5. RunInv(c)'
    BY <1>1, <1>3, <2>1, <2>2, <2>3, <2>4 DEF RunInv, Scanning, Replaying, Refreshing, Backfill, Wanted, Still
  <2>6. RunsInv'
    BY <1>1, <2>3, <2>5, RunsWhole DEF Still
  <2> QED BY <1>1, <2>6, StillRest
<1> QED BY <1>2, <1>3

\* What a scan at its list wants, the list has.
LEMMA WantedListed ==
    ASSUME HistoryInv, RestInv, NEW c \in Commands, run[c].pc = "list"
    PROVE  /\ \A m \in Wanted(c) : m \in Listable(Top(ScanToken(c)), Oldest(c))
           /\ Top(ScanToken(c)) \in Int /\ Oldest(c) \in Int
<1>1. OwedAhead /\ DueAhead /\ due \subseteq Messages
  BY TypeParts DEF RestInv, StoreInv, HistoryInv
<1>2. ScanToken(c) \in Int /\ Newest \in Int
  BY NumberFacts DEF ScanToken
<1>3. since.epoch \in Int
  BY TypeParts, NumberFacts DEF HistoryInv, Backfills, Messages, NoEpoch
<1>4. CASE Backfill(c)
  BY <1>1, <1>2, <1>3, <1>4 DEF DueAhead, Listable, Present, Wanted, ScanToken, Oldest, Top
<1>5. CASE ~Backfill(c)
  <2>1. \A m \in Messages : m >= 1
    BY NumberFacts DEF Messages
  <2> QED BY <1>1, <1>2, <1>5, <2>1 DEF OwedAhead, Ahead, Listable, Present, Owed, Wanted, ScanToken, Oldest, Top
<1> QED BY <1>4, <1>5

LEMMA ListMoves ==
    ASSUME HistoryInv, RestInv, NEW c \in Commands, ListMessages(c)
    PROVE  RestInv'
<1>1. /\ Still /\ run[c].pc = "list" /\ lock' = c
      /\ Within(c) /\ RunsInv /\ OwedAhead /\ DueAhead
      /\ IF Backfill(c) THEN since.epoch # NoEpoch ELSE ~st.complete
  BY DEF ListMessages, Still, mailboxVars, storeVars, ghostVars, RestInv, RunsInv, RunInv, Scanning, StoreInv
<1>2. PICK size \in (IF run[c].capped THEN 1..PageSize ELSE {PageSize}), next \in Tokens :
          /\ Page(Top(ScanToken(c)), Oldest(c), size) # {}
          /\ IsNextToken(next, Page(Top(ScanToken(c)), Oldest(c), size), Oldest(c))
          /\ run' = [run EXCEPT ![c].pc = "store", ![c].page = Page(Top(ScanToken(c)), Oldest(c), size),
                                ![c].next = next]
  BY DEF ListMessages
<1>3. PICK top, oldest, p : /\ top = Top(ScanToken(c)) /\ oldest = Oldest(c)
                            /\ p = Page(top, oldest, size)
  OBVIOUS
<1>4. size \in Nat /\ next \in Nat /\ Newest \in Nat
  BY SyncAssumption, NumberFacts DEF Tokens
<1>5. top \in Int /\ oldest \in Int /\ \A m \in Wanted(c) : m \in Listable(top, oldest)
  BY <1>1, <1>3, WantedListed
<1>6. (\A m \in Wanted(c) : m \in p \/ m <= next) /\ (next = Start \/ next < top)
  BY <1>2, <1>3, <1>4, <1>5, PageLeaves
<1>7. /\ run'[c].pc = "store" /\ run'[c].mode = run[c].mode /\ run'[c].page = p /\ run'[c].next = next
      /\ run'[c].pos = run[c].pos /\ run'[c].upto = run[c].upto /\ run'[c].latest = run[c].latest
      /\ \A d \in Commands \ {c} : run'[d] = run[d]
  <2>1. run' = [run EXCEPT ![c].pc = "store", ![c].page = p, ![c].next = next]
    BY <1>2, <1>3
  <2> QED BY <2>1, RunTypes DEF RunStates
<1>8. Within(c)'
  BY <1>1, <1>7 DEF Within, Still
<1>9. Wanted(c)' = Wanted(c) /\ Top(ScanToken(c))' = top /\ (Backfill(c)' <=> Backfill(c))
  BY <1>1, <1>3, <1>7, StillFacts DEF Wanted, Top, ScanToken, Backfill, Still
<1>10. RunInv(c)'
  <2>1. Scanning(c)'
    BY <1>1, <1>6, <1>7, <1>9 DEF Scanning, Still
  <2> QED BY <1>7, <1>8, <2>1 DEF RunInv, Replaying, Refreshing
<1>11. RunsInv'
  BY <1>1, <1>7, <1>10, RunsWhole DEF Still
<1> QED BY <1>1, <1>11, StillRest

LEMMA FinishMoves ==
    ASSUME HistoryInv, RestInv, NEW c \in Commands, FinishScan(c)
    PROVE  RestInv'
<1>1. /\ Still /\ run[c].pc = "finish" /\ Owed = {} /\ lock' = c /\ ~st.complete
      /\ Within(c) /\ RunsInv /\ StateInv /\ Origin = st.captured
  BY DEF FinishScan, Still, mailboxVars, storeVars, ghostVars, RestInv, RunsInv, RunInv, Scanning, StoreInv, Wanted, Origin
<1>2. CASE st.captured # None
  <2>2. /\ run'[c].pc = "history" /\ run'[c].pos = st.captured
        /\ run'[c].upto = run[c].upto /\ run'[c].latest = run[c].latest
        /\ \A d \in Commands \ {c} : run'[d] = run[d]
    BY <1>2, RunTypes DEF FinishScan, RunStates
  <2>3. Within(c)'
    BY <1>1, <2>2 DEF Within, Still, StateInv
  <2>4. Origin' = Origin /\ st.captured \in Nat
    <3>1. st.captured \in Nat
      BY <1>2, NumberFacts DEF None
    <3> QED BY <1>1, <3>1, StillFacts
  <2>5. UpTo(run[c].pos)'
    <3>1. PICK h \in Nat : h = st.captured
      BY <2>4
    <3>2. UpTo(h)
      BY <1>1, <3>1 DEF UpTo, Owed, Followed
    <3>3. UpTo(h)'
      BY <1>1, <3>2, StillFacts
    <3> QED BY <2>2, <3>1, <3>3, UpToPos
  <2>6. RunInv(c)'
    BY <1>1, <1>2, <2>2, <2>3, <2>4, <2>5 DEF RunInv, Scanning, Replaying, Refreshing
  <2>7. RunsInv'
    BY <1>1, <2>2, <2>6, RunsWhole DEF Still
  <2> QED BY <1>1, <2>7, StillRest
<1>3. CASE st.captured = None
  <2>2. /\ run'[c].pc = "publish" /\ run'[c].latest = Len(history)
        /\ run'[c].pos = run[c].pos /\ run'[c].upto = run[c].upto
        /\ \A d \in Commands \ {c} : run'[d] = run[d]
    BY <1>3, RunTypes DEF FinishScan, RunStates, ProfileHistoryId
  <2>3. Within(c)'
    BY <1>1, <2>2, NumberFacts DEF Within, Still
  <2>4. UpTo(run[c].latest)'
    <3>1. PICK h \in Nat : h = Len(history)
      BY NumberFacts
    <3>2. UpTo(h)
      BY <1>1, <1>3 DEF UpTo, Owed, Followed
    <3>3. UpTo(h)'
      BY <1>1, <3>2, StillFacts
    <3> QED BY <2>2, <3>1, <3>3, UpToLatest
  <2>5. RunInv(c)'
    BY <2>2, <2>3, <2>4 DEF RunInv, Scanning, Replaying, Refreshing
  <2>6. RunsInv'
    BY <1>1, <2>2, <2>5, RunsWhole DEF Still
  <2> QED BY <1>1, <2>6, StillRest
<1> QED BY <1>2, <1>3

LEMMA HistoryMoves ==
    ASSUME HistoryInv, RestInv, NEW c \in Commands, ListHistory(c) \/ RefreshExpired(c)
    PROVE  RestInv'
<1>1. /\ Still /\ run[c].pc = "history" /\ lock' = c /\ Within(c) /\ RunsInv
      /\ Origin # None /\ Origin <= run[c].pos /\ UpTo(run[c].pos)
  BY DEF ListHistory, RefreshExpired, Still, mailboxVars, storeVars, ghostVars, RestInv, RunsInv, RunInv, Replaying
<1>2. CASE ListHistory(c)
  <2>1. PICK last : /\ last = (IF run[c].pos + HistorySize < Len(history)
                               THEN run[c].pos + HistorySize ELSE Len(history))
                    /\ run' = [run EXCEPT ![c].pc = "added", ![c].upto = last, ![c].latest = Len(history)]
    BY <1>2 DEF ListHistory
  <2>2. /\ run'[c].pc = "added" /\ run'[c].upto = last /\ run'[c].latest = Len(history)
        /\ run'[c].pos = run[c].pos
        /\ \A d \in Commands \ {c} : run'[d] = run[d]
    BY <2>1, RunTypes DEF RunStates
  <2>3. run[c].pos <= last /\ last <= Len(history)
    BY <1>1, <2>1, NumberFacts, SyncAssumption DEF Within
  <2>4. Within(c)'
    BY <1>1, <2>2, <2>3, NumberFacts DEF Within, Still
  <2>5. UpTo(run[c].pos)'
    <3>1. PICK h \in Nat : h = run[c].pos
      BY NumberFacts
    <3>2. UpTo(h)'
      BY <1>1, <3>1, StillFacts
    <3> QED BY <2>2, <3>1, <3>2, UpToPos
  <2>6. Origin' = Origin
    BY <1>1, StillFacts
  <2>7. RunInv(c)'
    BY <1>1, <2>2, <2>3, <2>4, <2>5, <2>6 DEF RunInv, Scanning, Replaying, Refreshing, Still
  <2>8. RunsInv'
    BY <1>1, <2>2, <2>7, RunsWhole DEF Still
  <2> QED BY <1>1, <2>8, StillRest
<1>3. CASE RefreshExpired(c)
  <2>1. Goto(c, "restart") /\ ~st.complete /\ st.captured < expired
    BY <1>3 DEF RefreshExpired, Origin
  <2>2. Within(c)'
    BY <1>1, <2>1, GotoFacts DEF Within, Still
  <2>3. run'[c].pc = "restart" /\ ~st'.complete /\ st'.captured < expired'
    BY <1>1, <2>1, GotoFacts DEF Still
  <2>4. RunInv(c)'
    BY <2>2, <2>3 DEF RunInv, Scanning, Replaying, Refreshing
  <2>5. RunsInv'
    BY <1>1, <2>1, <2>4, GotoFacts, RunsWhole DEF Still
  <2> QED BY <1>1, <2>5, StillRest
<1> QED BY <1>2, <1>3

-----------------------------------------------------------------------------
(* Steps that write the keys                                               *)

\* Keys are written with the mailbox and the rows as they are.
LEMMA KeysFrame ==
    ASSUME UNCHANGED <<box, history, rows>>, RowsKnown, missed \subseteq missed'
    PROVE  /\ RowsKnown'
           /\ \A m \in Messages : Right(m)' <=> Right(m)
           /\ \A m \in Messages, h \in Int : Untouched(m, h)' <=> Untouched(m, h)
<1>1. RowsKnown'
  BY DEF RowsKnown
<1>2. \A m \in Messages : Right(m)' <=> Right(m)
  BY DEF Right
<1>3. \A m \in Messages, h \in Int : Untouched(m, h)' <=> Untouched(m, h)
  BY DEF Untouched
<1> QED BY <1>1, <1>2, <1>3

\* What is owed stays what it is while the numbers are what they are.
LEMMA OwedFrame ==
    ASSUME UNCHANGED <<box, history, rows, missed>>, Origin' = Origin
    PROVE  Owed' = Owed
BY DEF Owed, Followed, Right, Untouched

\* A scan begins anew, and what it cannot put right is missed.
LEMMA ResetOwes ==
    ASSUME HistoryInv, UNCHANGED <<box, history, rows>>, missed' = missed \cup OutOfReach,
           ~st'.complete, ~st'.exhausted, st'.token = Start
    PROVE  OwedAhead'
<1> SUFFICES ASSUME NEW m \in Messages, m \notin missed', ~Right(m)' PROVE Ahead(m)'
  BY DEF OwedAhead, Owed, Followed
<1>1. ~Right(m)
  BY DEF Right
<1>2. box'[m] = "kept"
  BY <1>1 DEF OutOfReach
<1>3. m <= Newest
  BY NumberFacts DEF Messages
<1> QED BY <1>2, <1>3 DEF Ahead, Top

\* What a number says of the store, a complete store may say of itself.
LEMMA PublishOwes ==
    ASSUME UNCHANGED <<box, history, rows, missed>>, NEW h \in Nat, UpTo(h),
           st'.complete, st'.hid = h
    PROVE  OwedAhead'
<1> SUFFICES ASSUME NEW m \in Messages, m \notin missed', (Origin = None \/ Untouched(m, Origin))' PROVE Right(m)'
  BY DEF OwedAhead, Owed, Followed
<1>1. Origin' = h /\ h # None
  BY DEF Origin, None
<1>2. Untouched(m, h)
  BY <1>1 DEF Untouched
<1> QED BY <1>2 DEF UpTo, Right

LEMMA BackfillKeys ==
    ASSUME HistoryInv, RestInv, NEW c \in Commands, NEW epoch \in Messages, BeginBackfill(c, epoch)
    PROVE  RestInv'
<1>1. /\ run[c].pc = "since" /\ run[c].mode = "since" /\ lock' = c
      /\ UNCHANGED <<box, history, rows, st, missed>>
      /\ Within(c) /\ RunsInv /\ OwedAhead /\ DueAhead /\ StateInv /\ RowsKnown
  BY DEF BeginBackfill, mailboxVars, RestInv, RunsInv, RunInv, Refreshing, Backfill, StoreInv
<1>2. Newest \in Nat /\ Messages = 1..Newest /\ due \subseteq Messages
  BY NumberFacts, TypeParts DEF Messages, HistoryInv
<1>3. DueAhead'
  <2>1. CASE since.epoch = epoch
    BY <1>1, <2>1 DEF BeginBackfill, DueAhead, Top
  <2>2. CASE since.epoch # epoch
    <3>1. /\ since'.epoch = epoch /\ since'.token = Start /\ epoch # NoEpoch
          /\ due' = {m \in Messages : box[m] = "kept" /\ m >= epoch}
      BY <1>2, <2>2 DEF BeginBackfill, NoEpoch
    <3>2. \A m \in Messages : m <= Newest
      BY <1>2
    <3> QED BY <1>1, <3>1, <3>2 DEF DueAhead, Top
  <2> QED BY <2>1, <2>2
<1>4. Origin' = Origin /\ Owed' = Owed
  <2>1. Origin' = Origin
    BY <1>1 DEF Origin
  <2> QED BY <1>1, <2>1, OwedFrame
<1>5. StoreInv' /\ RowsKnown'
  <2>1. OwedAhead'
    BY <1>1, <1>4 DEF OwedAhead, Ahead, Top
  <2>2. StateInv'
    BY <1>1 DEF StateInv
  <2>3. RowsKnown'
    BY <1>1, KeysFrame
  <2> QED BY <1>3, <2>1, <2>2, <2>3 DEF StoreInv
<1>6. PICK step : step = (IF since'.token = Exhausted THEN "finish" ELSE "list") /\ Goto(c, step)
  BY DEF BeginBackfill
<1>7. run'[c].pc = step /\ run'[c].mode = "since" /\ \A d \in Commands \ {c} : run'[d] = run[d]
  BY <1>1, <1>6, GotoFacts
<1>8. since'.epoch # NoEpoch
  BY <1>2 DEF BeginBackfill, NoEpoch
<1>9. step = "finish" => due' = {}
  <2>1. due' \subseteq Messages
    BY <1>2 DEF BeginBackfill
  <2>2. \A m \in Messages : ~(m <= Exhausted)
    BY <1>2 DEF Exhausted
  <2>3. Exhausted # Start
    BY DEF Exhausted, Start
  <2> QED BY <1>3, <1>6, <2>1, <2>2, <2>3 DEF DueAhead, Top
<1>10. Within(c)'
  BY <1>1, <1>6, GotoFacts DEF Within
<1>11. RunInv(c)'
  BY <1>6, <1>7, <1>8, <1>9, <1>10 DEF RunInv, Scanning, Replaying, Refreshing, Backfill, Wanted
<1>12. RunsInv'
  BY <1>1, <1>7, <1>11, RunsWhole
<1> QED BY <1>5, <1>12 DEF RestInv

LEMMA ExhaustKeys ==
    ASSUME HistoryInv, RestInv, NEW c \in Commands, ExhaustScan(c)
    PROVE  RestInv'
<1>1. /\ run[c].pc = "list" /\ lock' = c /\ UNCHANGED <<box, history, rows, missed, due>>
      /\ Within(c) /\ RunsInv /\ OwedAhead /\ DueAhead /\ StateInv /\ RowsKnown /\ Scanning(c)
      /\ Goto(c, "finish")
  BY DEF ExhaustScan, mailboxVars, ghostVars, RestInv, RunsInv, RunInv, StoreInv
<1>2. Wanted(c) = {}
  BY <1>1, WantedListed DEF ExhaustScan
<1>3. /\ st \in States /\ since \in Backfills
  BY TypeParts DEF HistoryInv
<1>4. /\ st'.complete = st.complete /\ st'.hid = st.hid /\ st'.captured = st.captured
      /\ st'.token = st.token /\ since'.epoch = since.epoch
      /\ Backfill(c) => st' = st
      /\ ~Backfill(c) => since' = since
  BY <1>3 DEF ExhaustScan, States, Backfills
<1>5. Origin' = Origin /\ Owed' = Owed
  <2>1. Origin' = Origin
    BY <1>4 DEF Origin
  <2> QED BY <1>1, <2>1, OwedFrame
<1>6. RowsKnown'
  BY <1>1, KeysFrame
<1>7. OwedAhead' /\ DueAhead' /\ StateInv'
  <2>1. CASE Backfill(c)
    <3>1. due = {}
      BY <1>2, <2>1 DEF Wanted
    <3> QED BY <1>1, <1>4, <1>5, <2>1, <3>1 DEF OwedAhead, Ahead, Top, DueAhead, StateInv
  <2>2. CASE ~Backfill(c)
    <3>1. Owed = {} /\ ~st.complete
      BY <1>1, <1>2, <2>2 DEF Wanted, Scanning
    <3> QED BY <1>1, <1>4, <1>5, <2>2, <3>1 DEF OwedAhead, Top, DueAhead, StateInv
  <2> QED BY <2>1, <2>2
<1>8. run'[c].pc = "finish" /\ run'[c].mode = run[c].mode /\ \A d \in Commands \ {c} : run'[d] = run[d]
  BY <1>1, GotoFacts
<1>9. Within(c)'
  BY <1>1, GotoFacts DEF Within
<1>10. RunInv(c)'
  <2>1. Wanted(c)' = {} /\ (Backfill(c)' <=> Backfill(c))
    BY <1>1, <1>2, <1>5, <1>8 DEF Wanted, Backfill
  <2>2. Scanning(c)'
    BY <1>1, <1>4, <1>8, <2>1 DEF Scanning
  <2> QED BY <1>8, <1>9, <2>2 DEF RunInv, Replaying, Refreshing
<1>11. RunsInv'
  BY <1>1, <1>8, <1>10, RunsWhole
<1> QED BY <1>6, <1>7, <1>11 DEF RestInv, StoreInv

LEMMA CheckpointKeys ==
    ASSUME HistoryInv, RestInv, NEW c \in Commands, Checkpoint(c)
    PROVE  RestInv'
<1>1. /\ run[c].pc = "checkpoint" /\ lock' = c /\ UNCHANGED <<box, history, rows, missed, due>>
      /\ Within(c) /\ RunsInv /\ OwedAhead /\ DueAhead /\ StateInv /\ RowsKnown /\ Scanning(c)
  BY DEF Checkpoint, mailboxVars, ghostVars, RestInv, RunsInv, RunInv, StoreInv
<1>2. PICK next \in Nat : next = run[c].next
  BY NumberFacts
<1>3. \A m \in Wanted(c) : m <= next
  BY <1>1, <1>2 DEF Scanning
<1>4. next = Start => Wanted(c) = {}
  <2>1. Wanted(c) \subseteq Messages /\ \A m \in Messages : ~(m <= 0)
    BY TypeParts, NumberFacts DEF HistoryInv, Wanted, Owed, Messages
  <2> QED BY <1>3, <2>1 DEF Start
<1>5. /\ st \in States /\ since \in Backfills
  BY TypeParts DEF HistoryInv
<1>6. /\ st'.complete = st.complete /\ st'.hid = st.hid /\ st'.captured = st.captured
      /\ since'.epoch = since.epoch
      /\ Backfill(c) => st' = st /\ since'.token = IF next = Start THEN Exhausted ELSE next
      /\ ~Backfill(c) => since' = since /\ st'.token = next /\ st'.exhausted = (st.exhausted \/ next = Start)
  BY <1>2, <1>5 DEF Checkpoint, States, Backfills
<1>7. Origin' = Origin /\ Owed' = Owed
  <2>1. Origin' = Origin
    BY <1>6 DEF Origin
  <2> QED BY <1>1, <2>1, OwedFrame
<1>8. RowsKnown'
  BY <1>1, KeysFrame
<1>9. OwedAhead' /\ DueAhead' /\ StateInv'
  <2>1. CASE Backfill(c)
    <3>1. OwedAhead' /\ StateInv'
      BY <1>1, <1>6, <1>7, <2>1 DEF OwedAhead, Ahead, Top, StateInv
    <3>2. DueAhead'
      <4>1. CASE next = Start
        BY <1>1, <1>4, <2>1, <4>1 DEF DueAhead, Wanted
      <4>2. CASE next # Start
        BY <1>1, <1>3, <1>6, <2>1, <4>2 DEF DueAhead, Wanted, Top
      <4> QED BY <4>1, <4>2
    <3> QED BY <3>1, <3>2
  <2>2. CASE ~Backfill(c)
    <3>1. ~st.complete
      BY <1>1, <2>2 DEF Scanning
    <3>2. DueAhead' /\ StateInv'
      BY <1>1, <1>6, <2>2, <3>1 DEF DueAhead, Top, StateInv
    <3>3. OwedAhead'
      <4>1. CASE next = Start
        BY <1>4, <1>7, <2>2, <4>1 DEF OwedAhead, Wanted
      <4>2. CASE next # Start
        BY <1>1, <1>3, <1>6, <1>7, <2>2, <4>2 DEF OwedAhead, Ahead, Wanted, Top
      <4> QED BY <4>1, <4>2
    <3> QED BY <3>2, <3>3
  <2> QED BY <2>1, <2>2
<1>10. /\ run'[c].pc = (IF next = Start THEN "finish" ELSE "list") /\ run'[c].mode = run[c].mode
       /\ run'[c].pos = run[c].pos /\ run'[c].upto = run[c].upto /\ run'[c].latest = run[c].latest
       /\ \A d \in Commands \ {c} : run'[d] = run[d]
  BY <1>2, RunTypes DEF Checkpoint, RunStates
<1>11. Within(c)'
  BY <1>1, <1>10 DEF Within
<1>12. RunInv(c)'
  <2>1. Wanted(c)' = Wanted(c) /\ (Backfill(c)' <=> Backfill(c))
    BY <1>1, <1>7, <1>10 DEF Wanted, Backfill
  <2>2. Scanning(c)'
    BY <1>1, <1>4, <1>6, <1>10, <2>1 DEF Scanning
  <2> QED BY <1>10, <1>11, <2>2 DEF RunInv, Replaying, Refreshing
<1>13. RunsInv'
  BY <1>1, <1>10, <1>12, RunsWhole
<1> QED BY <1>8, <1>9, <1>13 DEF RestInv, StoreInv

LEMMA EndKeys ==
    ASSUME HistoryInv, RestInv, NEW c \in Commands,
           FinishBackfill(c) \/ PublishScan(c) \/ AdvanceHistory(c) \/ ForgetHistory(c) \/ RestartRefresh(c)
    PROVE  RestInv'
<1>1. /\ Stop(c) /\ UNCHANGED <<box, history, rows>>
      /\ RunsInv /\ OwedAhead /\ DueAhead /\ StateInv /\ RowsKnown /\ RunInv(c)
  BY DEF FinishBackfill, PublishScan, AdvanceHistory, ForgetHistory, RestartRefresh, mailboxVars,
         RestInv, RunsInv, StoreInv
<1>2. run[c].pc # "idle" /\ missed \subseteq missed'
  BY DEF FinishBackfill, PublishScan, AdvanceHistory, ForgetHistory, RestartRefresh, ghostVars
<1>3. RunsInv' /\ RowsKnown'
  BY <1>1, <1>2, StopRuns, KeysFrame
<1>4. st \in States /\ run[c].latest \in Nat /\ Len(history) \in Nat /\ run[c].latest <= Len(history)
  BY <1>1, TypeParts, NumberFacts DEF HistoryInv, RunInv, Within
<1>5. CASE FinishBackfill(c)
  <2>1. due = {} /\ UNCHANGED <<st, missed, due>>
    BY <1>1, <1>5 DEF FinishBackfill, RunInv, Scanning, Wanted, ghostVars
  <2>2. Origin' = Origin
    BY <2>1 DEF Origin
  <2>3. Owed' = Owed
    BY <1>1, <2>1, <2>2, OwedFrame
  <2>4. OwedAhead' /\ DueAhead' /\ StateInv'
    BY <1>1, <2>1, <2>3 DEF OwedAhead, Ahead, Top, DueAhead, StateInv
  <2> QED BY <1>3, <2>4 DEF RestInv, StoreInv
<1>6. CASE PublishScan(c) \/ AdvanceHistory(c)
  <2>1. /\ UNCHANGED <<missed, due, since>> /\ UpTo(run[c].latest)
        /\ st'.complete /\ st'.hid = run[c].latest /\ st'.token = Start /\ ~st'.exhausted
        /\ st'.captured <= Len(history)
    <3>1. CASE PublishScan(c)
      <4>1. st' = [InitialState EXCEPT !.hid = run[c].latest, !.complete = TRUE]
        BY <3>1 DEF PublishScan
      <4>2. st'.complete /\ st'.hid = run[c].latest /\ st'.token = Start /\ ~st'.exhausted /\ st'.captured = None
        BY <4>1 DEF InitialState
      <4> QED BY <1>1, <1>4, <3>1, <4>2 DEF PublishScan, ghostVars, RunInv, Replaying, None
    <3>2. CASE AdvanceHistory(c)
      <4>1. st' = [st EXCEPT !.hid = run[c].latest] /\ st.complete
        BY <3>2 DEF AdvanceHistory
      <4>2. /\ st'.complete /\ st'.hid = run[c].latest /\ st'.token = st.token
            /\ st'.exhausted = st.exhausted /\ st'.captured = st.captured
        BY <1>4, <4>1 DEF States
      <4> QED BY <1>1, <3>2, <4>1, <4>2 DEF AdvanceHistory, ghostVars, RunInv, Replaying, StateInv
    <3> QED BY <1>6, <3>1, <3>2
  <2>2. PICK h \in Nat : h = run[c].latest
    BY <1>4
  <2>3. OwedAhead'
    BY <1>1, <2>1, <2>2, PublishOwes
  <2>4. DueAhead'
    BY <1>1, <2>1 DEF DueAhead, Top
  <2>5. StateInv'
    BY <1>1, <1>4, <2>1 DEF StateInv, None
  <2> QED BY <1>3, <2>3, <2>4, <2>5 DEF RestInv, StoreInv
<1>7. CASE ForgetHistory(c) \/ RestartRefresh(c)
  <2>1. /\ UNCHANGED <<due, since>> /\ missed' = missed \cup OutOfReach
        /\ ~st'.complete /\ ~st'.exhausted /\ st'.token = Start
        /\ st'.hid <= Len(history) /\ st'.captured <= Len(history)
    <3>1. CASE ForgetHistory(c)
      <4>1. st' = [st EXCEPT !.hid = None, !.complete = FALSE] /\ st.complete
        BY <3>1 DEF ForgetHistory
      <4>2. /\ ~st'.complete /\ st'.hid = None /\ st'.token = st.token
            /\ st'.exhausted = st.exhausted /\ st'.captured = st.captured
        BY <1>4, <4>1 DEF States
      <4> QED BY <1>1, <1>4, <3>1, <4>1, <4>2 DEF ForgetHistory, StateInv, None
    <3>2. CASE RestartRefresh(c)
      <4>1. st' = ForcedState(run[c].latest)
        BY <3>2 DEF RestartRefresh
      <4>2. /\ ~st'.complete /\ st'.hid = None /\ st'.token = Start
            /\ ~st'.exhausted /\ st'.captured = run[c].latest
        BY <4>1 DEF ForcedState, InitialState
      <4>3. UNCHANGED <<due, since>> /\ missed' = missed \cup OutOfReach
        BY <3>2, Zenon DEF RestartRefresh
      <4> QED BY <1>4, <4>2, <4>3 DEF None
    <3> QED BY <1>7, <3>1, <3>2
  <2>2. OwedAhead'
    BY <1>1, <2>1, ResetOwes
  <2>3. DueAhead'
    BY <1>1, <2>1 DEF DueAhead, Top
  <2>4. StateInv'
    BY <1>1, <2>1 DEF StateInv
  <2> QED BY <1>3, <2>2, <2>3, <2>4 DEF RestInv, StoreInv
<1> QED BY <1>5, <1>6, <1>7

LEMMA RefreshKeys ==
    ASSUME HistoryInv, RestInv, NEW c \in Commands, BeginRefresh(c)
    PROVE  RestInv'
<1>1. /\ Goto(c, "select") /\ UNCHANGED <<box, history, rows, since, due>> /\ lock' = c
      /\ run[c].pc = "force" /\ missed' = missed \cup OutOfReach
      /\ RunsInv /\ DueAhead /\ RowsKnown /\ Within(c) /\ run[c].mode # "since"
  BY DEF BeginRefresh, mailboxVars, RestInv, RunsInv, RunInv, Refreshing, Backfill, StoreInv
<1>2. run[c].latest \in Nat /\ Len(history) \in Nat /\ run[c].latest <= Len(history)
  BY <1>1, NumberFacts DEF Within
<1>3. /\ ~st'.complete /\ st'.hid = None /\ st'.token = Start
      /\ ~st'.exhausted /\ st'.captured = run[c].latest
  <2>1. st' = ForcedState(run[c].latest)
    BY DEF BeginRefresh
  <2> QED BY <2>1 DEF ForcedState, InitialState
<1>4. OwedAhead'
  BY <1>1, <1>3, ResetOwes
<1>5. DueAhead' /\ StateInv'
  BY <1>1, <1>2, <1>3 DEF DueAhead, Top, StateInv, None
<1>6. RowsKnown'
  BY <1>1, KeysFrame
<1>7. Within(c)'
  BY <1>1, GotoFacts DEF Within
<1>8. RunInv(c)'
  BY <1>1, <1>7, GotoFacts, EarlyRun
<1>9. RunsInv'
  BY <1>1, <1>8, GotoFacts, RunsWhole
<1> QED BY <1>4, <1>5, <1>6, <1>9 DEF RestInv, StoreInv

-----------------------------------------------------------------------------
(* Steps that write rows                                                   *)

\* What is inserted is right from then on, and nothing else is touched.
LEMMA InsertRights ==
    ASSUME HistoryInv, NEW fetched, Insert(fetched), box' = box
    PROVE  /\ \A m \in Messages : IF m \in fetched /\ box[m] = "kept"
                                    THEN /\ rows'[m] = "kept" /\ Right(m)'
                                         /\ m \notin missed' /\ m \notin due'
                                    ELSE /\ rows'[m] = rows[m] /\ (Right(m)' <=> Right(m))
                                         /\ m \in missed' <=> m \in missed
                                         /\ m \in due' <=> m \in due
           /\ due' \subseteq due /\ missed' \subseteq missed
<1>1. ASSUME NEW m \in Messages, m \in fetched, box[m] = "kept"
      PROVE  /\ rows'[m] = "kept" /\ Right(m)'
             /\ m \notin missed' /\ m \notin due'
  <2>1. rows'[m] = "kept" /\ m \notin missed' /\ m \notin due'
    BY <1>1, TypeParts DEF Insert, HistoryInv
  <2> QED BY <1>1, <2>1 DEF Right
<1>2. ASSUME NEW m \in Messages, ~(m \in fetched /\ box[m] = "kept")
      PROVE  /\ rows'[m] = rows[m] /\ (Right(m)' <=> Right(m))
             /\ m \in missed' <=> m \in missed
             /\ m \in due' <=> m \in due
  <2>1. rows'[m] = rows[m]
    BY <1>2 DEF Insert
  <2>2. (m \in missed' <=> m \in missed) /\ (m \in due' <=> m \in due)
    BY <1>2 DEF Insert
  <2> QED BY <2>1, <2>2 DEF Right
<1> QED BY <1>1, <1>2 DEF Insert

LEMMA InsertStore ==
    ASSUME HistoryInv, RestInv, NEW fetched, Insert(fetched), UNCHANGED <<box, history, st, since>>
    PROVE  /\ Owed' \subseteq Owed /\ Origin' = Origin
           /\ RowsKnown' /\ StoreInv'
           /\ \A h \in Nat : UpTo(h) => UpTo(h)'
<1>1. RowsKnown /\ OwedAhead /\ DueAhead /\ StateInv
  BY DEF RestInv, StoreInv
<1>2. Origin' = Origin
  BY DEF Origin
<1>3. \A m \in Messages, h \in Int : Untouched(m, h)' <=> Untouched(m, h)
  BY DEF Untouched
<1>4. Owed' \subseteq Owed
  <2> SUFFICES ASSUME NEW m \in Messages, m \notin missed', ~Right(m)',
                      (Origin = None \/ Untouched(m, Origin))'
               PROVE  m \in Owed
    BY DEF Owed, Followed
  <2>1. m \notin missed /\ ~Right(m)
    BY InsertRights
  <2>2. Origin = None \/ Untouched(m, Origin)
    BY <1>2 DEF Untouched
  <2> QED BY <2>1, <2>2 DEF Owed, Followed
<1>5. OwedAhead' /\ DueAhead' /\ StateInv'
  <2>1. OwedAhead'
    BY <1>1, <1>4 DEF OwedAhead, Ahead, Top
  <2>2. due' \subseteq due
    BY InsertRights
  <2> QED BY <1>1, <2>1, <2>2 DEF DueAhead, StateInv, Top
<1>6. RowsKnown'
  <2>1. \A m \in Messages : box'[m] = "unborn" => rows'[m] = "none"
    BY <1>1, InsertRights DEF RowsKnown
  <2>2. ASSUME NEW m \in Messages, rows'[m] = "kept", box'[m] = "excluded"
        PROVE  \E k \in 1..Len(history') : history'[k].msg = m /\ ~history'[k].added
    <3>1. rows[m] = "kept" /\ box[m] = "excluded"
      BY <2>2, InsertRights
    <3> QED BY <1>1, <3>1 DEF RowsKnown
  <2>3. ASSUME NEW k \in 1..Len(history'), ~history'[k].added, history'[k].to = "kept"
        PROVE  \/ history'[k].msg \in missed' \/ rows'[history'[k].msg] # "none"
               \/ box'[history'[k].msg] = "gone"
    <3>1. PICK m \in Messages : m = history[k].msg
      BY <2>3, NumberFacts
    <3>2. m \in missed \/ rows[m] # "none" \/ box[m] = "gone"
      BY <1>1, <2>3, <3>1 DEF RowsKnown
    <3>3. m \in missed' \/ rows'[m] # "none" \/ box'[m] = "gone"
      BY <3>2, InsertRights
    <3> QED BY <3>1, <3>3
  <2> QED BY <2>1, <2>2, <2>3 DEF RowsKnown
<1>7. ASSUME NEW h \in Nat, UpTo(h) PROVE UpTo(h)'
  <2> SUFFICES ASSUME NEW m \in Messages, m \notin missed', Untouched(m, h)' PROVE Right(m)'
    BY DEF UpTo
  <2>1. CASE m \in fetched /\ box[m] = "kept"
    BY <2>1, InsertRights
  <2>2. CASE ~(m \in fetched /\ box[m] = "kept")
    <3>1. m \notin missed /\ Untouched(m, h)
      BY <1>3, <2>2, InsertRights
    <3> QED BY <1>7, <2>2, <3>1, InsertRights DEF UpTo
  <2> QED BY <2>1, <2>2
<1> QED BY <1>2, <1>4, <1>5, <1>6, <1>7 DEF StoreInv

LEMMA StoreRows ==
    ASSUME HistoryInv, RestInv, NEW c \in Commands, Store(c)
    PROVE  RestInv'
<1>1. PICK fetched \in SUBSET run[c].page :
         /\ Insert(fetched)
         /\ IF fetched = run[c].page
              THEN Goto(c, "checkpoint") /\ UNCHANGED <<lock, failures>>
              ELSE StopUnresolved(c)
  BY DEF Store
<1>2. /\ run[c].pc = "store" /\ UNCHANGED <<box, history, st, since>> /\ RunsInv /\ RunInv(c)
      /\ lock = c /\ OwedAhead /\ DueAhead /\ run[c].page \subseteq Messages
  BY RunTypes DEF Store, mailboxVars, RestInv, RunsInv, RunStates, StoreInv
<1>3. RowsKnown' /\ StoreInv' /\ Owed' \subseteq Owed
  BY <1>1, <1>2, InsertStore
<1>4. CASE fetched # run[c].page
  <2>1. RunsInv'
    BY <1>1, <1>2, <1>4, StopRuns DEF StopUnresolved
  <2> QED BY <1>3, <2>1 DEF RestInv
<1>5. CASE fetched = run[c].page
  <2>1. /\ run'[c].pc = "checkpoint" /\ run'[c].mode = run[c].mode
        /\ run'[c].next = run[c].next
        /\ run'[c].pos = run[c].pos /\ run'[c].upto = run[c].upto /\ run'[c].latest = run[c].latest
        /\ \A d \in Commands \ {c} : run'[d] = run[d]
        /\ lock' = c
    BY <1>1, <1>2, <1>5, GotoFacts
  <2>2. Within(c)'
    BY <1>2, <2>1 DEF RunInv, Within
  <2>3. Scanning(c) /\ (Backfill(c)' <=> Backfill(c))
    BY <1>2, <2>1 DEF RunInv, Backfill
  <2>4. ASSUME NEW m \in Wanted(c)' PROVE m <= run'[c].next
    <3>1. m \in Wanted(c) /\ m \in Messages /\ box[m] = "kept"
      BY <1>1, <1>2, <1>3, <2>3, <2>4, InsertRights, TypeParts
         DEF Wanted, OwedAhead, DueAhead, Ahead, Owed, HistoryInv
    <3>2. m \notin run[c].page
      BY <1>1, <1>2, <1>5, <2>3, <2>4, <3>1, InsertRights DEF Wanted, Owed
    <3> QED BY <1>2, <2>1, <2>3, <3>1, <3>2 DEF Scanning
  <2>5. Scanning(c)'
    BY <1>2, <2>1, <2>3, <2>4 DEF Scanning, ScanToken, Top
  <2>6. RunInv(c)'
    BY <2>1, <2>2, <2>5 DEF RunInv, Replaying, Refreshing
  <2>7. RunsInv'
    BY <1>2, <2>1, <2>6, RunsWhole
  <2> QED BY <1>3, <2>7 DEF RestInv
<1> QED BY <1>4, <1>5

LEMMA AddedRows ==
    ASSUME HistoryInv, Chronicle, RestInv, NEW c \in Commands, ApplyAdded(c)
    PROVE  RestInv'
<1> DEFINE added == {history[k].msg : k \in {j \in PageEvents(c) :
                     history[j].added /\ history[j].to = "kept"}}
<1>1. PICK fetched \in SUBSET added :
         /\ Insert(fetched)
         /\ IF fetched = added THEN Goto(c, "changed") /\ UNCHANGED failures
            ELSE Goto(c, "unresolved")
  BY DEF ApplyAdded
<1>2. /\ run[c].pc = "added" /\ UNCHANGED <<box, history, st, since>> /\ RunsInv /\ RunInv(c)
      /\ lock' = c
  BY DEF ApplyAdded, mailboxVars, RestInv, RunsInv
<1>3. RowsKnown' /\ StoreInv' /\ Owed' \subseteq Owed /\ Origin' = Origin
  BY <1>1, <1>2, InsertStore
<1>4. PICK step \in {"changed", "unresolved"} : Goto(c, step) /\ (step = "changed" => fetched = added)
  BY <1>1
<1>5. /\ run'[c].pc = step /\ run'[c].mode = run[c].mode
      /\ run'[c].pos = run[c].pos /\ run'[c].upto = run[c].upto /\ run'[c].latest = run[c].latest
      /\ \A d \in Commands \ {c} : run'[d] = run[d]
  BY <1>4, GotoFacts
<1>6. PICK h \in Nat : h = run[c].pos
  BY NumberFacts
<1>7. Origin # None /\ Origin <= h /\ UpTo(h) /\ h <= run[c].upto /\ run[c].upto <= run[c].latest
      /\ run[c].upto <= Len(history) /\ run[c].upto \in Nat /\ Len(history) \in Nat
  <2>1. Origin # None /\ Origin <= h /\ UpTo(h) /\ h <= run[c].upto /\ run[c].upto <= run[c].latest
    BY <1>2, <1>6 DEF RunInv, Replaying
  <2> QED BY <1>2, <2>1, NumberFacts DEF RunInv, Within
<1>8. UpTo(run[c].pos)'
  <2>1. UpTo(h)'
    BY <1>1, <1>2, <1>7, InsertStore
  <2>2. run'[c].pos = h
    BY <1>5, <1>6
  <2> QED BY <2>1, <2>2, UpToPos
<1>9. ASSUME step = "changed" PROVE AllFetched(c)'
  <2>1. PageEvents(c)' = PageEvents(c) /\ PageEvents(c) \subseteq 1..Len(history)
    BY <1>2, <1>5, <1>6, <1>7 DEF PageEvents
  <2> SUFFICES ASSUME NEW m \in Messages, NEW k \in PageEvents(c), history[k].msg = m,
                      history[k].added, history[k].to = "kept", Untouched(m, k)'
               PROVE  rows'[m] = "kept"
    BY <1>2, <2>1 DEF AllFetched
  <2>2. Untouched(m, k)
    BY <1>2 DEF Untouched
  <2>3. box[m] = "kept"
    BY <2>1, <2>2 DEF Chronicle, LastTells
  <2>4. m \in added
    OBVIOUS
  <2> QED BY <1>1, <1>2, <1>4, <1>9, <2>3, <2>4, InsertRights
<1>10. Within(c)'
  BY <1>2, <1>5 DEF RunInv, Within
<1>11. RunInv(c)'
  <2>1. Replaying(c)'
    BY <1>3, <1>4, <1>5, <1>6, <1>7, <1>8, <1>9 DEF Replaying
  <2> QED BY <1>4, <1>5, <1>10, <2>1 DEF RunInv, Scanning, Refreshing
<1>12. RunsInv'
  BY <1>2, <1>5, <1>11, RunsWhole
<1> QED BY <1>3, <1>12 DEF RestInv

-----------------------------------------------------------------------------
(* The replay of a page *)

PageGone(c, m) == \E k \in PageEvents(c) : history[k].msg = m /\ history[k].to = "gone"

PageLabels(c, m) ==
    {k \in PageEvents(c) : history[k].msg = m /\ ~history[k].added /\ history[k].to # "gone"}

\* What a page makes of a row.
LEMMA ReplayedFacts ==
    ASSUME NEW c \in Commands, NEW m \in Messages
    PROVE  /\ PageGone(c, m) => Replayed(c, m) = "none"
           /\ ~PageGone(c, m) /\ (rows[m] = "none" \/ PageLabels(c, m) = {}) => Replayed(c, m) = rows[m]
           /\ ~PageGone(c, m) /\ rows[m] # "none" /\ PageLabels(c, m) # {} =>
                 /\ Replayed(c, m) \in {"kept", "excluded"}
                 /\ Replayed(c, m) = "kept" <=>
                       \E k \in PageLabels(c, m) :
                          (\A j \in PageLabels(c, m) : j <= k) /\ history[k].to = "kept"
<1> DEFINE about == {k \in PageEvents(c) : history[k].msg = m}
           labels == {k \in about : ~history[k].added /\ history[k].to # "gone"}
           deleted == \E k \in about : history[k].to = "gone"
           last == {k \in labels : \A j \in labels : j <= k}
           newest == IF \E k \in last : history[k].to = "kept" THEN "kept" ELSE "excluded"
<1>1. labels = PageLabels(c, m) /\ (deleted <=> PageGone(c, m))
  BY DEF PageLabels, PageGone
<1>2. Replayed(c, m) =
        CASE deleted -> "none"
          [] ~deleted /\ (rows[m] = "none" \/ labels = {}) -> rows[m]
          [] OTHER -> newest
  BY DEF Replayed
<1>3. (\E k \in last : history[k].to = "kept") <=>
      \E k \in PageLabels(c, m) : (\A j \in PageLabels(c, m) : j <= k) /\ history[k].to = "kept"
  BY <1>1
<1>4. newest \in {"kept", "excluded"} /\ (newest = "kept" <=> \E k \in last : history[k].to = "kept")
  OBVIOUS
<1> HIDE DEF newest, last, deleted, labels
<1> QED BY <1>1, <1>2, <1>3, <1>4

\* The numbers a replay goes by.
LEMMA ReplayNumbers ==
    ASSUME HistoryInv, RestInv, NEW c \in Commands, run[c].pc \in {"added", "changed", "unresolved"}
    PROVE  \E p, u \in Nat :
              /\ p = run[c].pos /\ u = run[c].upto /\ PageEvents(c) = (p + 1)..u
              /\ Origin # None /\ Origin \in Int /\ Origin <= p /\ p <= u
              /\ u <= run[c].latest /\ run[c].latest \in Nat
              /\ UpTo(p) /\ u <= Len(history) /\ Len(history) \in Nat
              /\ \A k \in PageEvents(c) : k \in 1..Len(history) /\ history[k].msg \in Messages
<1>1. PICK p \in Nat, u \in Nat : p = run[c].pos /\ u = run[c].upto
  BY NumberFacts
<1>2. /\ Origin # None /\ Origin <= p /\ UpTo(p) /\ p <= u /\ u <= run[c].latest
      /\ u <= Len(history)
  BY <1>1 DEF RestInv, RunsInv, RunInv, Replaying, Within
<1>3. PageEvents(c) = (p + 1)..u
  BY <1>1 DEF PageEvents
<1>4. Len(history) \in Nat /\ run[c].latest \in Nat /\ Origin \in Int
  BY NumberFacts DEF Origin
<1>5. \A k \in PageEvents(c) : k \in 1..Len(history)
  BY <1>2, <1>3, <1>4
<1>6. \A k \in PageEvents(c) : history[k].msg \in Messages
  BY <1>5, NumberFacts
<1> QED BY <1>1, <1>2, <1>3, <1>4, <1>5, <1>6

\* Row r says how message m is.
Suits(m, r) ==
    CASE box[m] = "kept" -> r = "kept"
      [] box[m] = "excluded" -> r # "kept"
      [] OTHER -> r = "none"

\* A page that has the last event about a message puts its row right.
LEMMA ReplayRight ==
    ASSUME HistoryInv, Chronicle, RowsKnown, NEW c \in Commands, AllFetched(c),
           NEW m \in Messages, m \notin missed,
           NEW k \in PageEvents(c), history[k].msg = m, Untouched(m, k),
           PageEvents(c) \subseteq 1..Len(history)
    PROVE  Suits(m, Replayed(c, m))
<1>1. box[m] = history[k].to /\ k \in 1..Len(history)
  BY DEF Chronicle, LastTells
<1>2. Len(history) \in Nat /\ history[k].to \in {"kept", "excluded", "gone"}
  <2>1. history[k] \in Events
    BY <1>1, NumberFacts
  <2> QED BY <2>1, NumberFacts DEF Events
<1>3. \A j \in 1..Len(history) : history[j].msg = m => j <= k
  <2> SUFFICES ASSUME NEW j \in 1..Len(history), history[j].msg = m, ~(j <= k) PROVE FALSE
    OBVIOUS
  <2>1. j \in (k + 1)..Len(history)
    BY <1>1, <1>2
  <2> QED BY <2>1 DEF Untouched
<1>4. CASE history[k].to = "gone"
  <2>1. PageGone(c, m)
    BY <1>4 DEF PageGone
  <2> QED BY <1>1, <1>4, <2>1, ReplayedFacts DEF Suits
<1>5. CASE history[k].to # "gone"
  <2>1. ~PageGone(c, m)
    BY <1>1, <1>5 DEF PageGone, HistoryInv, Deletions
  <2>2. history[k].to = "kept" => rows[m] # "none" /\ (history[k].added => rows[m] = "kept")
    <3>1. history[k].to = "kept" /\ history[k].added => rows[m] = "kept"
      BY DEF AllFetched
    <3>2. history[k].to = "kept" /\ ~history[k].added => rows[m] # "none"
      BY <1>1 DEF RowsKnown
    <3> QED BY <3>1, <3>2
  <2>3. CASE history[k].added
    <3>1. \A j \in 1..Len(history) : history[j].msg = m => history[j].added
      BY <1>1, <1>2, <1>3, <2>3 DEF Chronicle, AddedFirst
    <3>2. PageLabels(c, m) = {}
      BY <3>1 DEF PageLabels
    <3>3. Replayed(c, m) = rows[m]
      BY <2>1, <3>2, ReplayedFacts
    <3>4. box[m] = "excluded" => rows[m] # "kept"
      BY <3>1 DEF RowsKnown
    <3> QED BY <1>1, <1>2, <1>5, <2>2, <2>3, <3>3, <3>4 DEF Suits
  <2>4. CASE ~history[k].added
    <3>1. k \in PageLabels(c, m) /\ \A j \in PageLabels(c, m) : j \in 1..Len(history) /\ j <= k
      BY <1>3, <1>5, <2>4 DEF PageLabels
    <3>2. CASE rows[m] = "none"
      <4>1. Replayed(c, m) = "none" /\ history[k].to # "kept"
        BY <2>1, <2>2, <3>2, ReplayedFacts
      <4> QED BY <1>1, <1>2, <1>5, <4>1 DEF Suits
    <3>3. CASE rows[m] # "none"
      <4>1. \A j \in PageLabels(c, m) : (\A i \in PageLabels(c, m) : i <= j) => j = k
        BY <1>1, <1>2, <3>1
      <4>2. Replayed(c, m) = "kept" <=> history[k].to = "kept"
        BY <2>1, <3>1, <3>3, <4>1, ReplayedFacts
      <4> QED BY <1>1, <1>2, <1>5, <4>2 DEF Suits
    <3> QED BY <3>2, <3>3
  <2> QED BY <2>3, <2>4
<1> QED BY <1>4, <1>5

\* A page brings the store as far as its last event.
LEMMA ReplayUpTo ==
    ASSUME HistoryInv, Chronicle, RestInv, NEW c \in Commands, run[c].pc = "changed",
           UNCHANGED <<box, history, missed>>, rows' = [m \in Messages |-> Replayed(c, m)],
           NEW u \in Nat, u = run[c].upto
    PROVE  UpTo(u)'
<1>1. PICK p \in Nat : /\ PageEvents(c) = (p + 1)..u /\ p <= u /\ UpTo(p) /\ u <= Len(history)
                       /\ Len(history) \in Nat
                       /\ \A k \in PageEvents(c) : k \in 1..Len(history)
  BY ReplayNumbers
<1>2. AllFetched(c) /\ RowsKnown
  BY DEF RestInv, RunsInv, RunInv, Replaying
<1> SUFFICES ASSUME NEW m \in Messages, m \notin missed, Untouched(m, u)' PROVE Right(m)'
  BY DEF UpTo
<1>3. Untouched(m, u)
  BY DEF Untouched
<1>4. rows'[m] = Replayed(c, m) /\ box' = box
  OBVIOUS
<1>5. CASE \E k \in PageEvents(c) : history[k].msg = m
  <2>1. PICK j \in PageEvents(c) : history[j].msg = m
    BY <1>5
  <2>2. PICK k \in 1..Len(history) : history[k].msg = m /\ Untouched(m, k)
    BY <1>1, <2>1 DEF Chronicle, HasLast
  <2>3. k <= u
    <3>1. ASSUME ~(k <= u) PROVE k \in (u + 1)..Len(history)
      BY <1>1, <2>2, <3>1
    <3> QED BY <1>3, <2>2, <3>1 DEF Untouched
  <2>4. j <= k
    <3>1. ASSUME ~(j <= k) PROVE j \in (k + 1)..Len(history)
      BY <1>1, <2>1, <2>2, <3>1
    <3> QED BY <2>1, <2>2, <3>1 DEF Untouched
  <2>5. k \in PageEvents(c)
    BY <1>1, <2>1, <2>2, <2>3, <2>4
  <2>6. Suits(m, Replayed(c, m))
    BY <1>1, <1>2, <2>2, <2>5, ReplayRight
  <2> QED BY <1>4, <2>6 DEF Right, Suits
<1>6. CASE ~\E k \in PageEvents(c) : history[k].msg = m
  <2>1. Replayed(c, m) = rows[m]
    BY <1>6, ReplayedFacts DEF PageGone, PageLabels
  <2>2. Untouched(m, p)
    <3>1. \A k \in (p + 1)..Len(history) : k \in PageEvents(c) \/ k \in (u + 1)..Len(history)
      BY <1>1
    <3> QED BY <1>3, <1>6, <3>1 DEF Untouched
  <2>3. Right(m)
    BY <1>1, <2>2 DEF UpTo
  <2> QED BY <1>4, <2>1, <2>3 DEF Right
<1> QED BY <1>5, <1>6

LEMMA ChangedRows ==
    ASSUME HistoryInv, Chronicle, RestInv, NEW c \in Commands, ApplyChanged(c)
    PROVE  RestInv'
<1>1. /\ run[c].pc \in {"changed", "unresolved"}
      /\ UNCHANGED <<box, history, st, since, missed, due>>
      /\ rows' = [m \in Messages |-> Replayed(c, m)]
      /\ RunsInv /\ RunInv(c) /\ lock = c /\ OwedAhead /\ DueAhead /\ StateInv /\ RowsKnown
  BY DEF ApplyChanged, mailboxVars, ghostVars, RestInv, RunsInv, StoreInv
<1>2. PICK p, u \in Nat :
         /\ p = run[c].pos /\ u = run[c].upto /\ PageEvents(c) = (p + 1)..u
         /\ Origin # None /\ Origin \in Int /\ Origin <= p /\ p <= u
         /\ u <= run[c].latest /\ run[c].latest \in Nat
         /\ UpTo(p) /\ u <= Len(history) /\ Len(history) \in Nat
         /\ \A k \in PageEvents(c) : k \in 1..Len(history) /\ history[k].msg \in Messages
  BY <1>1, ReplayNumbers
<1>3. Origin' = Origin
  BY <1>1 DEF Origin
<1>4. RowsKnown'
  <2>1. \A m \in Messages : rows'[m] = Replayed(c, m) /\ rows[m] \in {"none", "kept", "excluded"}
    BY <1>1, TypeParts DEF HistoryInv
  <2>2. \A m \in Messages : PageGone(c, m) => box[m] = "gone"
    BY <1>2 DEF PageGone, HistoryInv, Deletions
  <2>3. ASSUME NEW m \in Messages, box'[m] = "unborn" PROVE rows'[m] = "none"
    BY <1>1, <2>1, <2>3, ReplayedFacts DEF RowsKnown
  <2>4. ASSUME NEW m \in Messages, rows'[m] = "kept", box'[m] = "excluded"
        PROVE  \E k \in 1..Len(history') : history'[k].msg = m /\ ~history'[k].added
    <3>1. rows[m] = "kept" \/ PageLabels(c, m) # {}
      BY <2>1, <2>4, ReplayedFacts
    <3>2. CASE rows[m] = "kept"
      BY <1>1, <2>4, <3>2 DEF RowsKnown
    <3>3. CASE PageLabels(c, m) # {}
      BY <1>1, <1>2, <3>3 DEF PageLabels
    <3> QED BY <3>1, <3>2, <3>3
  <2>5. ASSUME NEW k \in 1..Len(history'), ~history'[k].added, history'[k].to = "kept"
        PROVE  \/ history'[k].msg \in missed' \/ rows'[history'[k].msg] # "none"
               \/ box'[history'[k].msg] = "gone"
    <3>1. PICK m \in Messages : m = history[k].msg
      BY <1>1, <2>5, NumberFacts
    <3>2. m \in missed \/ rows[m] # "none" \/ box[m] = "gone"
      BY <1>1, <2>5, <3>1 DEF RowsKnown
    <3>3. m \in missed' \/ rows'[m] # "none" \/ box'[m] = "gone"
      BY <1>1, <2>1, <2>2, <3>2, ReplayedFacts
    <3> QED BY <1>1, <3>1, <3>3
  <2> QED BY <2>3, <2>4, <2>5 DEF RowsKnown
<1>5. Owed' \subseteq Owed
  <2> SUFFICES ASSUME NEW m \in Messages, m \notin missed', ~Right(m)',
                      (Origin = None \/ Untouched(m, Origin))'
               PROVE  m \in Owed
    BY DEF Owed, Followed
  <2>1. m \notin missed /\ Untouched(m, Origin)
    BY <1>1, <1>2, <1>3 DEF Untouched
  <2>2. \A k \in PageEvents(c) : k \in (Origin + 1)..Len(history)
    BY <1>2
  <2>3. ~\E k \in PageEvents(c) : history[k].msg = m
    BY <2>1, <2>2 DEF Untouched
  <2>4. rows'[m] = rows[m]
    BY <1>1, <2>3, ReplayedFacts DEF PageGone, PageLabels
  <2>5. ~Right(m)
    BY <1>1, <2>4 DEF Right
  <2> QED BY <2>1, <2>5 DEF Owed, Followed
<1>6. StoreInv'
  <2>1. OwedAhead'
    BY <1>1, <1>5 DEF OwedAhead, Ahead, Top
  <2>2. DueAhead' /\ StateInv'
    BY <1>1 DEF DueAhead, StateInv, Top
  <2> QED BY <2>1, <2>2 DEF StoreInv
<1>7. CASE run[c].pc = "unresolved"
  <2>1. Stop(c)
    BY <1>7 DEF ApplyChanged
  <2>2. RunsInv'
    BY <1>1, <1>7, <2>1, StopRuns
  <2> QED BY <1>4, <1>6, <2>2 DEF RestInv
<1>8. CASE run[c].pc = "changed"
  <2>1. /\ run'[c].pc = (IF u < run[c].latest THEN "history" ELSE "publish") /\ run'[c].mode = run[c].mode
        /\ run'[c].pos = u /\ run'[c].upto = u /\ run'[c].latest = run[c].latest
        /\ \A d \in Commands \ {c} : run'[d] = run[d]
        /\ lock' = c
    BY <1>1, <1>2, <1>8, RunTypes DEF ApplyChanged, RunStates
  <2>2. UpTo(u)'
    BY <1>1, <1>2, <1>8, ReplayUpTo
  <2>3. UpTo(run[c].pos)'
    BY <2>1, <2>2, UpToPos
  <2>4. run'[c].pc = "publish" => UpTo(run[c].latest)'
    <3>1. ASSUME ~(u < run[c].latest) PROVE run'[c].latest = u
      BY <1>2, <2>1, <3>1
    <3>2. ASSUME ~(u < run[c].latest) PROVE UpTo(run[c].latest)'
      BY <2>2, <3>1, <3>2, UpToLatest
    <3> QED BY <2>1, <3>2
  <2>5. Replaying(c)'
    BY <1>2, <1>3, <2>1, <2>3, <2>4 DEF Replaying
  <2>6. Within(c)'
    BY <1>1, <1>2, <2>1 DEF RunInv, Within
  <2>7. RunInv(c)'
    BY <2>1, <2>5, <2>6 DEF RunInv, Scanning, Refreshing
  <2>8. RunsInv'
    BY <1>1, <2>1, <2>7, RunsWhole
  <2> QED BY <1>4, <1>6, <2>8 DEF RestInv
<1> QED BY <1>1, <1>7, <1>8

-----------------------------------------------------------------------------
(* Steps of the environment                                                *)

\* A run keeps what it knows while the history only expires.
LEMMA RunsStay ==
    ASSUME HistoryInv, RunsInv, UNCHANGED <<box, history, rows, st, since, missed, due, run, lock>>,
           expired' \in Nat, expired <= expired'
    PROVE  RunsInv'
<1>1. Owed' = Owed /\ Origin' = Origin /\ \A h \in Nat : UpTo(h)' <=> UpTo(h)
  BY SilentFacts
<1>2. expired \in Nat /\ st.captured \in Int
  BY NumberFacts
<1>3. ASSUME NEW c \in Commands PROVE RunInv(c)'
  <2>1. Within(c) /\ Scanning(c) /\ Replaying(c) /\ Refreshing(c)
    BY DEF RunsInv, RunInv
  <2>2. Within(c)'
    BY <2>1 DEF Within
  <2>3. Scanning(c)'
    BY <1>1, <2>1 DEF Scanning, Wanted, Backfill, ScanToken, Top
  <2>4. Replaying(c)'
    <3>1. PICK p \in Nat, l \in Nat : p = run[c].pos /\ l = run[c].latest
      BY NumberFacts
    <3>2. (UpTo(p) => UpTo(p)') /\ (UpTo(l) => UpTo(l)')
      BY <1>1
    <3>3. (UpTo(run[c].pos) => UpTo(run[c].pos)') /\ (UpTo(run[c].latest) => UpTo(run[c].latest)')
      BY <3>1, <3>2, UpToPos, UpToLatest
    <3>4. AllFetched(c) => AllFetched(c)'
      BY DEF AllFetched, PageEvents, Untouched
    <3> QED BY <1>1, <2>1, <3>3, <3>4 DEF Replaying
  <2>5. Refreshing(c)'
    <3>1. st.captured < expired => st'.captured < expired'
      BY <1>2
    <3> QED BY <2>1, <3>1, Zenon DEF Refreshing, Backfill
  <2> QED BY <2>2, <2>3, <2>4, <2>5 DEF RunInv
<1> QED BY <1>3 DEF RunsInv

LEMMA ForgottenRest ==
    ASSUME HistoryInv, RestInv, HistoryForgotten
    PROVE  RestInv'
<1>1. /\ UNCHANGED <<box, history, rows, st, since, missed, due, run, lock>>
      /\ expired' = Len(history) /\ RunsInv /\ RowsKnown /\ StoreInv
  BY DEF HistoryForgotten, Expire, storeVars, ghostVars, RestInv
<1>2. expired <= Len(history) /\ Len(history) \in Nat
  BY NumberFacts
<1>3. RunsInv'
  BY <1>1, <1>2, RunsStay
<1> QED BY <1>1, <1>3, SilentFacts DEF RestInv

\* A change of the mailbox is new to every replay, or missed.
LEMMA ChangeStore ==
    ASSUME HistoryInv, RestInv, NEW m \in Messages, NEW to \in {"kept", "excluded", "gone"}, MailboxChange(m, to)
    PROVE  /\ Owed' \subseteq Owed /\ Origin' = Origin /\ due' \subseteq due
           /\ StoreInv'
           /\ \A h \in Nat : h <= Len(history) /\ UpTo(h) => UpTo(h)'
<1>1. /\ Change(m, to) /\ UNCHANGED <<rows, st, since>> /\ due' = due \ {m} /\ missed \subseteq missed'
      /\ ~st.complete /\ st.captured = None => m \in missed'
  BY DEF MailboxChange, storeVars
<1>2. /\ Len(history') = Len(history) + 1 /\ box' = [box EXCEPT ![m] = to]
      /\ box \in [Messages -> Conditions]
  BY <1>1, ChangeFacts
<1>3. /\ Len(history) \in Nat /\ st.hid \in Int /\ st.captured \in Int
      /\ st.hid >= None /\ st.captured >= None /\ OwedAhead /\ DueAhead /\ StateInv
  BY NumberFacts DEF RestInv, StoreInv
<1>4. \A x \in Messages \ {m} : box'[x] = box[x] /\ (Right(x)' <=> Right(x))
  <2>1. \A x \in Messages \ {m} : box'[x] = box[x] /\ rows'[x] = rows[x]
    BY <1>1, <1>2
  <2> QED BY <2>1 DEF Right
<1>5. ASSUME NEW h \in Nat, h <= Len(history), UpTo(h) PROVE UpTo(h)'
  <2> SUFFICES ASSUME NEW x \in Messages, x \notin missed', Untouched(x, h)' PROVE Right(x)'
    BY DEF UpTo
  <2>1. x # m
    BY <1>1, <1>5, ChangeTouches
  <2>2. Untouched(x, h)
    BY <1>1, <1>5, <2>1, ChangeTouches
  <2> QED BY <1>1, <1>4, <1>5, <2>1, <2>2 DEF UpTo
<1>6. Origin' = Origin
  BY <1>1 DEF Origin
<1>7. PICK o \in Int : o = Origin /\ (o = None \/ o \in Nat) /\ o <= Len(history)
  BY <1>3 DEF Origin, None, StateInv
<1>8. o = None => ~st.complete /\ st.captured = None
  BY <1>3, <1>7 DEF Origin, StateInv
<1>9. Owed' \subseteq Owed \ {m}
  <2> SUFFICES ASSUME NEW x \in Messages, x \notin missed', ~Right(x)', (Origin = None \/ Untouched(x, Origin))'
               PROVE  x \in Owed \ {m}
    BY DEF Owed, Followed
  <2>1. CASE o = None
    <3>1. x # m
      BY <1>1, <1>8, <2>1
    <3> QED BY <1>1, <1>4, <1>7, <2>1, <3>1 DEF Owed, Followed
  <2>2. CASE o # None
    <3>1. Untouched(x, o)'
      BY <1>6, <1>7, <2>2 DEF Untouched
    <3>2. x # m /\ Untouched(x, o)
      BY <1>1, <1>7, <2>2, <3>1, ChangeTouches
    <3>3. Untouched(x, Origin)
      BY <1>7, <3>2 DEF Untouched
    <3> QED BY <1>1, <1>4, <3>2, <3>3 DEF Owed, Followed
  <2> QED BY <2>1, <2>2
<1>10. OwedAhead'
  <2>1. \A x \in Owed' : x \in Owed /\ x \in Messages \ {m}
    BY <1>9 DEF Owed
  <2> QED BY <1>1, <1>3, <1>4, <2>1 DEF OwedAhead, Ahead, Top
<1>11. DueAhead'
  <2>1. \A x \in due' : x \in due /\ x \in Messages \ {m}
    BY <1>1, TypeParts DEF HistoryInv
  <2> QED BY <1>1, <1>3, <1>4, <2>1 DEF DueAhead, Top
<1>12. StateInv'
  BY <1>1, <1>2, <1>3 DEF StateInv
<1> QED BY <1>1, <1>5, <1>6, <1>9, <1>10, <1>11, <1>12 DEF StoreInv

LEMMA ChangeRows ==
    ASSUME HistoryInv, RestInv, NEW m \in Messages, NEW to \in {"kept", "excluded", "gone"}, MailboxChange(m, to)
    PROVE  RowsKnown'
<1>1. /\ Change(m, to) /\ UNCHANGED rows /\ missed \subseteq missed'
      /\ box[m] = "excluded" /\ to = "kept" /\ rows[m] = "none" => m \in missed'
      /\ RowsKnown
  BY DEF MailboxChange, storeVars, RestInv
<1>2. PICK n : n = Len(history) + 1
  OBVIOUS
<1>3. /\ 1..Len(history') = 1..Len(history) \cup {n}
      /\ history'[n] = [msg |-> m, to |-> to, added |-> box[m] = "unborn"]
      /\ \A k \in 1..Len(history) : history'[k] = history[k] /\ history[k].msg \in Messages
      /\ box'[m] = to /\ \A x \in Messages \ {m} : box'[x] = box[x]
      /\ box[m] # "gone" /\ to # box[m] /\ box[m] \in Conditions
  <2>1. /\ 1..Len(history') = 1..Len(history) \cup {n}
        /\ history'[n] = [msg |-> m, to |-> to, added |-> box[m] = "unborn"]
        /\ \A k \in 1..Len(history) : history'[k] = history[k]
        /\ box' = [box EXCEPT ![m] = to] /\ box \in [Messages -> Conditions]
        /\ box[m] # "gone" /\ to # box[m]
    BY <1>1, <1>2, ChangeFacts
  <2>2. \A k \in 1..Len(history) : history[k].msg \in Messages
    BY NumberFacts
  <2>3. box'[m] = to /\ \A x \in Messages \ {m} : box'[x] = box[x]
    BY <2>1
  <2> QED BY <2>1, <2>2, <2>3
<1>4. history'[n].msg = m /\ history'[n].to = to
  BY <1>3
<1>5. history'[n].added <=> box[m] = "unborn"
  <2>1. PICK e : e = history'[n]
    OBVIOUS
  <2>2. PICK was : was = box[m]
    OBVIOUS
  <2>3. e = [msg |-> m, to |-> to, added |-> was = "unborn"]
    BY <1>3, <2>1, <2>2, Zenon
  <2>4. e.added <=> was = "unborn"
    BY <2>3, AddedSays, Zenon
  <2> QED BY <2>1, <2>2, <2>4, Zenon
<1>6. ASSUME NEW x \in Messages, box'[x] = "unborn" PROVE rows'[x] = "none"
  BY <1>1, <1>3, <1>6 DEF RowsKnown
<1>7. ASSUME NEW x \in Messages, rows'[x] = "kept", box'[x] = "excluded"
      PROVE  \E k \in 1..Len(history') : history'[k].msg = x /\ ~history'[k].added
  <2>1. CASE x = m
    <3>1. box[m] # "unborn"
      BY <1>1, <1>7, <2>1 DEF RowsKnown
    <3> QED BY <1>3, <1>4, <1>5, <2>1, <3>1
  <2>2. CASE x # m
    <3>1. PICK k \in 1..Len(history) : history[k].msg = x /\ ~history[k].added
      BY <1>1, <1>3, <1>7, <2>2 DEF RowsKnown
    <3> QED BY <1>3, <3>1
  <2> QED BY <2>1, <2>2
<1>8. ASSUME NEW k \in 1..Len(history'), ~history'[k].added, history'[k].to = "kept"
      PROVE  \/ history'[k].msg \in missed' \/ rows'[history'[k].msg] # "none"
             \/ box'[history'[k].msg] = "gone"
  <2>1. CASE k = n
    <3>1. box[m] = "excluded" /\ to = "kept"
      BY <1>3, <1>4, <1>5, <1>8, <2>1 DEF Conditions
    <3>2. m \in missed' \/ rows'[m] # "none"
      BY <1>1, <3>1
    <3> QED BY <1>4, <2>1, <3>2
  <2>2. CASE k \in 1..Len(history)
    <3>1. PICK x \in Messages : x = history[k].msg /\ x = history'[k].msg
      BY <1>3, <2>2
    <3>2. x \in missed \/ rows[x] # "none" \/ box[x] = "gone"
      BY <1>1, <1>3, <1>8, <2>2, <3>1 DEF RowsKnown
    <3>3. x \in missed' \/ rows'[x] # "none" \/ box'[x] = "gone"
      BY <1>1, <1>3, <3>2
    <3> QED BY <3>1, <3>3
  <2> QED BY <1>3, <2>1, <2>2
<1> QED BY <1>6, <1>7, <1>8 DEF RowsKnown

LEMMA ChangeRest ==
    ASSUME HistoryInv, RestInv, NEW m \in Messages, NEW to \in {"kept", "excluded", "gone"}, MailboxChange(m, to)
    PROVE  RestInv'
<1>1. /\ Change(m, to) /\ UNCHANGED <<rows, st, since, lock, run, expired>> /\ RunsInv
  BY DEF MailboxChange, storeVars, RestInv, Change
<1>2. /\ Owed' \subseteq Owed /\ Origin' = Origin /\ due' \subseteq due
      /\ StoreInv'
      /\ \A h \in Nat : h <= Len(history) /\ UpTo(h) => UpTo(h)'
  BY ChangeStore
<1>3. /\ Len(history') = Len(history) + 1 /\ Len(history) \in Nat
      /\ \A k \in 1..Len(history) : history'[k] = history[k]
  BY <1>1, ChangeFacts, NumberFacts
<1>4. ASSUME NEW c \in Commands PROVE RunInv(c)'
  <2>1. Within(c) /\ Scanning(c) /\ Replaying(c) /\ Refreshing(c)
    BY <1>1 DEF RunsInv, RunInv
  <2>2. PICK p \in Nat, u \in Nat, l \in Nat : p = run[c].pos /\ u = run[c].upto /\ l = run[c].latest
    BY NumberFacts
  <2>3. p <= Len(history) /\ u <= Len(history) /\ l <= Len(history)
    BY <2>1, <2>2 DEF Within
  <2>4. Within(c)'
    BY <1>1, <1>3, <2>2, <2>3 DEF Within
  <2>5. Scanning(c)'
    <3>1. Wanted(c)' \subseteq Wanted(c) /\ (Backfill(c)' <=> Backfill(c))
      BY <1>1, <1>2 DEF Wanted, Backfill
    <3> QED BY <1>1, <2>1, <3>1 DEF Scanning, ScanToken, Top
  <2>6. Replaying(c)'
    <3>1. (UpTo(p) => UpTo(p)') /\ (UpTo(l) => UpTo(l)')
      BY <1>2, <2>3
    <3>2. (UpTo(run[c].pos) => UpTo(run[c].pos)') /\ (UpTo(run[c].latest) => UpTo(run[c].latest)')
      BY <1>1, <2>2, <3>1, UpToPos, UpToLatest
    <3>3. AllFetched(c) => AllFetched(c)'
      <4> SUFFICES ASSUME AllFetched(c), NEW x \in Messages, NEW k \in PageEvents(c), history'[k].msg = x,
                          history'[k].added, history'[k].to = "kept", Untouched(x, k)'
                   PROVE  rows[x] = "kept"
        BY <1>1 DEF AllFetched, PageEvents
      <4>1. k \in 1..Len(history) /\ k \in Nat /\ k <= Len(history)
        BY <1>3, <2>2, <2>3 DEF PageEvents
      <4>2. history[k] = history'[k]
        BY <1>3, <4>1
      <4>3. Untouched(x, k)
        BY <1>1, <4>1, ChangeTouches
      <4> QED BY <4>2, <4>3 DEF AllFetched
    <3> QED BY <1>1, <1>2, <2>1, <3>2, <3>3 DEF Replaying
  <2>7. Refreshing(c)'
    BY <1>1, <2>1 DEF Refreshing, Backfill
  <2> QED BY <2>4, <2>5, <2>6, <2>7 DEF RunInv
<1>5. RunsInv'
  BY <1>1, <1>4 DEF RunsInv
<1>6. RowsKnown'
  BY ChangeRows
<1> QED BY <1>2, <1>5, <1>6 DEF RestInv

-----------------------------------------------------------------------------
(* The invariant                                                           *)

LEMMA InitSync == Init => SyncInv
<1> SUFFICES ASSUME Init PROVE SyncInv
  OBVIOUS
<1>1. HistoryInv /\ Chronicle
  BY InitHistory, InitChronicle
<1>2. Len(history) = 0 /\ st = InitialState /\ due = {} /\ rows = [m \in Messages |-> "none"]
      /\ run = [c \in Commands |-> NotRunning] /\ since = NoBackfill
  BY DEF Init, MailboxInit
<1>3. RowsKnown
  BY <1>2 DEF RowsKnown
<1>4. StoreInv
  <2>1. ~st.complete /\ ~st.exhausted /\ st.token = Start /\ st.hid = None /\ st.captured = None
    BY <1>2 DEF InitialState
  <2>2. \A m \in Messages : m <= Newest /\ box[m] # "gone"
    BY <1>1, NumberFacts DEF Init, MailboxInit, Messages
  <2>3. OwedAhead
    <3>1. \A m \in Messages : ~Right(m) => box[m] = "kept"
      BY <1>2, <2>2 DEF Right
    <3> QED BY <2>1, <2>2, <3>1 DEF OwedAhead, Owed, Ahead, Top
  <2>4. DueAhead /\ StateInv
    BY <1>2, <2>1 DEF DueAhead, StateInv, None
  <2> QED BY <2>3, <2>4 DEF StoreInv
<1>5. RunsInv
  <2> SUFFICES ASSUME NEW c \in Commands PROVE RunInv(c) /\ run[c].pc = "idle"
    BY DEF RunsInv
  <2>1. run[c].pc = "idle" /\ run[c].pos = 0 /\ run[c].upto = 0 /\ run[c].latest = 0
    BY <1>2 DEF NotRunning
  <2>2. Within(c)
    BY <1>2, <2>1 DEF Within
  <2>3. Scanning(c) /\ Replaying(c) /\ Refreshing(c)
    BY <2>1, Zenon DEF Scanning, Replaying, Refreshing
  <2> QED BY <2>1, <2>2, <2>3 DEF RunInv
<1> QED BY <1>1, <1>3, <1>4, <1>5 DEF SyncInv

LEMMA SyncInductive == SyncInv /\ [Next]_vars => SyncInv'
<1> SUFFICES ASSUME SyncInv, [Next]_vars PROVE SyncInv'
  OBVIOUS
<1>1. HistoryInv /\ Chronicle /\ RestInv
  BY SyncParts
<1>2. HistoryInv' /\ Chronicle'
  BY <1>1, HistoryInductive, ChronicleInductive
<1>3. ASSUME NEW c \in Commands, NEW mode \in Modes, NEW capped \in Ceilings, Begin(c, mode, capped)
      PROVE  RestInv'
  BY <1>1, <1>3, BeginMoves
<1>4. ASSUME NEW c \in Commands, Abort(c) PROVE RestInv'
  BY <1>1, <1>4, StopMoves
<1>5. ASSUME NEW c \in Commands, Work(c) PROVE RestInv'
  <2>1. CASE Prepare(c)
    BY <1>1, <2>1, PrepareMoves
  <2>2. CASE BeginRefresh(c)
    BY <1>1, <2>2, RefreshKeys
  <2>3. CASE CaptureAgain(c)
    BY <1>1, <2>3, CaptureMoves
  <2>4. CASE Select(c)
    BY <1>1, <2>4, SelectMoves
  <2>5. CASE \E epoch \in Messages : BeginBackfill(c, epoch)
    BY <1>1, <2>5, BackfillKeys
  <2>6. CASE ListMessages(c)
    BY <1>1, <2>6, ListMoves
  <2>7. CASE ExhaustScan(c)
    BY <1>1, <2>7, ExhaustKeys
  <2>8. CASE Pause(c)
    BY <1>1, <2>8, StopMoves
  <2>9. CASE Store(c)
    BY <1>1, <2>9, StoreRows
  <2>10. CASE Checkpoint(c)
    BY <1>1, <2>10, CheckpointKeys
  <2>11. CASE FinishScan(c)
    BY <1>1, <2>11, FinishMoves
  <2>12. CASE FinishBackfill(c) \/ PublishScan(c) \/ AdvanceHistory(c) \/ ForgetHistory(c) \/ RestartRefresh(c)
    BY <1>1, <2>12, EndKeys
  <2>13. CASE ListHistory(c) \/ RefreshExpired(c)
    BY <1>1, <2>13, HistoryMoves
  <2>14. CASE ApplyAdded(c)
    BY <1>1, <2>14, AddedRows
  <2>15. CASE ApplyChanged(c)
    BY <1>1, <2>15, ChangedRows
  <2> QED BY <1>5, <2>1, <2>2, <2>3, <2>4, <2>5, <2>6, <2>7, <2>8, <2>9, <2>10, <2>11, <2>12,
             <2>13, <2>14, <2>15 DEF Work
<1>6. ASSUME Environment PROVE RestInv'
  BY <1>1, <1>6, ChangeRest, ForgottenRest DEF Environment
<1>7. ASSUME UNCHANGED vars PROVE RestInv'
  <2>1. Still /\ run' = run /\ lock' = lock
    BY <1>7 DEF vars, mailboxVars, storeVars, ghostVars, Still
  <2>2. RunsInv'
    BY <1>1, <2>1, NumberFacts, RunsStay DEF Still, RestInv
  <2> QED BY <1>1, <2>1, <2>2, StillRest
<1>8. RestInv'
  BY <1>3, <1>4, <1>5, <1>6, <1>7 DEF Next
<1> QED BY <1>2, <1>8 DEF SyncInv, RestInv

\* A complete store is right about every message that no event after its number
\* is about, but for those missed: what is owed lies before a scan, and a
\* complete store has none before it.
THEOREM StoreMirrors == Spec => []MirrorsMailbox
<1>1. SyncInv => MirrorsMailbox
  <2> SUFFICES ASSUME SyncInv, st.complete, NEW m \in Messages, m \notin missed, Untouched(m, st.hid)
               PROVE  Right(m)
    BY DEF MirrorsMailbox
  <2>1. Followed(m)
    BY DEF Followed, Origin
  <2> QED BY <2>1 DEF SyncInv, StoreInv, OwedAhead, Owed, Ahead
<1> QED BY <1>1, InitSync, SyncInductive, PTL DEF Spec

\* A --since scan that cleared its keys stored whatever was due: what is due
\* lies before the scan, and without keys nothing does.
THEOREM BackfillStores == Spec => []BackfillStoresAll
<1>1. SyncInv => BackfillStoresAll
  <2> SUFFICES ASSUME SyncInv, since.epoch = NoEpoch, due # {} PROVE FALSE
    BY DEF BackfillStoresAll
  <2> QED BY DEF SyncInv, StoreInv, DueAhead
<1> QED BY <1>1, InitSync, SyncInductive, PTL DEF Spec

\* A refresh goes forward: a command that would begin it anew read that none
\* was under way, and one that starts over captures a later number.
LEMMA RefreshStep ==
    ASSUME SyncInv, [Next]_vars, st.forced, st'.forced, st'.captured = st.captured
    PROVE  /\ Top(st'.token) <= Top(st.token) \/ st'.exhausted
           /\ st.exhausted => st'.exhausted
<1>1. HistoryInv /\ RunsInv
  BY DEF SyncInv
<1>2. st \in States /\ st.token \in Nat /\ Newest \in Nat
  BY <1>1, TypeParts, NumberFacts DEF HistoryInv
<1>3. CASE st' = st
  BY <1>2, <1>3 DEF Top
<1>4. ASSUME NEW c \in Commands, Work(c), st' # st
      PROVE  /\ Top(st'.token) <= Top(st.token) \/ st'.exhausted
             /\ st.exhausted => st'.exhausted
  <2>1. RunInv(c)
    BY <1>1 DEF RunsInv
  <2>2. CASE BeginRefresh(c)
    BY <2>1, <2>2 DEF BeginRefresh, RunInv, Refreshing
  <2>3. CASE RestartRefresh(c)
    <3>1. st.captured < run[c].latest
      <4>1. run[c].pc = "force again"
        BY <2>3, Zenon DEF RestartRefresh
      <4> QED BY <2>1, <4>1, Zenon DEF RunInv, Refreshing
    <3>2. st' = ForcedState(run[c].latest)
      BY <2>3, Zenon DEF RestartRefresh
    <3>3. st'.captured = run[c].latest
      BY <3>2 DEF ForcedState, InitialState
    <3> QED BY <1>1, <3>1, <3>3, NumberFacts
  <2>4. CASE ExhaustScan(c)
    <3>1. st'.token = st.token /\ (st.exhausted => st'.exhausted)
      BY <1>2, <2>4 DEF ExhaustScan, States
    <3> QED BY <1>2, <3>1 DEF Top
  <2>5. CASE Checkpoint(c)
    <3>1. PICK next \in Nat : next = run[c].next
      BY <1>1, NumberFacts
    <3>2. ~Backfill(c) /\ st' = [st EXCEPT !.token = next, !.exhausted = st.exhausted \/ next = Start]
      BY <1>4, <2>5, <3>1 DEF Checkpoint
    <3>3. /\ st'.token = next
          /\ next = Start => st'.exhausted
          /\ st.exhausted => st'.exhausted
      BY <1>2, <3>2 DEF States
    <3>4. next = Start \/ next < Top(st.token)
      BY <2>1, <2>5, <3>1, <3>2 DEF Checkpoint, RunInv, Scanning, ScanToken
    <3> QED BY <1>2, <3>1, <3>3, <3>4 DEF Top
  <2>6. CASE PublishScan(c)
    <3>1. ~st'.forced
      BY <2>6 DEF PublishScan, InitialState
    <3> QED BY <3>1
  <2>7. CASE AdvanceHistory(c) \/ ForgetHistory(c)
    <3>1. st'.token = st.token /\ st'.exhausted = st.exhausted
      BY <1>2, <2>7 DEF AdvanceHistory, ForgetHistory, States
    <3> QED BY <1>2, <3>1 DEF Top
  <2> QED BY <1>4, <2>2, <2>3, <2>4, <2>5, <2>6, <2>7 DEF Work, storeVars, Prepare, CaptureAgain, Select,
         BeginBackfill, ListMessages, Pause, Store, FinishBackfill,
         FinishScan, ListHistory, RefreshExpired, ApplyAdded, ApplyChanged
<1>5. ASSUME Environment \/ UNCHANGED vars \/ \E c \in Commands : Abort(c)
               \/ \E mode \in Modes, capped \in Ceilings : Begin(c, mode, capped)
      PROVE  st' = st
  BY <1>5 DEF Environment, MailboxChange, HistoryForgotten, vars, storeVars, Abort, Begin
<1> QED BY <1>3, <1>4, <1>5 DEF Next

\* A refresh under way is resumed and not begun again, however the commands
\* that work on it end.
THEOREM RefreshResumes == Spec => RefreshIsResumed
<1>1. SyncInv /\ [Next]_vars
        => [st.forced /\ st'.forced /\ st'.captured = st.captured
              => /\ Top(st'.token) <= Top(st.token) \/ st'.exhausted
                 /\ st.exhausted => st'.exhausted]_vars
  BY RefreshStep
<1> QED BY <1>1, InitSync, SyncInductive, PTL DEF Spec, RefreshIsResumed

=============================================================================
