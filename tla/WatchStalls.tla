------------------------------ MODULE WatchStalls ------------------------------
(***************************************************************************)
(* The pursuit-stall watcher (watch/pursuit_stalls.py): a scan compares    *)
(* every pursuit file with what an earlier scan noted of it, appends a     *)
(* block to the alert file for each new stall, and merges its notes into   *)
(* the state file under a lock (watch/state.py).  Files change meanwhile,  *)
(* the operator snoozes pursuits, and a scan may be killed anywhere.       *)
(* Numbers of days are dates.                                              *)
(***************************************************************************)
EXTENDS Integers, FiniteSets

CONSTANTS Pursuits, Accounts,
          AccountOf,     \* pursuit -> account
          Stages, NoStage,
          Terminal,      \* TERMINAL_STAGES
          Threshold,     \* stall_threshold_days
          Tiers,         \* _ALERT_TIERS
          SnoozeDays, SentinelDays,
          Shadows,       \* <<p, q>>: the heading of q begins with the one of p
          Scans,         \* scans that may be running at a time
          LastDay, MaxMoves, MaxUndated, MaxAcks, MaxScans, MaxTroubles,
          NoFile, NoEntry

\* A stall is at least of the first tier: the default threshold is 14 days and
\* the first tier 7.
ASSUME TiersCover == \E t \in Tiers : t <= Threshold + 1

ASSUME NumbersAreNatural ==
    Threshold \in Nat /\ SnoozeDays \in Nat \ {0} /\ SentinelDays \in Nat /\ Tiers \subseteq Nat \ {0}

\* The tiers are finitely many.
ASSUME TiersHaveHighest ==
    \A crossed \in (SUBSET Tiers) \ {{}} : \E t \in crossed : \A u \in crossed : u <= t

ASSUME StagesAreStages == NoStage \notin Stages /\ Terminal \subseteq Stages

VARIABLES day,
          file,     \* pursuit -> its stage and last-transition
          notes,    \* pursuit-stall-state.json: pursuit -> entry
          alerts,   \* pursuit-stall-alerts.md: the day of a pursuit's last block, or 0
          status,   \* watcher-run-status.json: the outcome of today's last scan
          scan,     \* what each scan is at
          ack,      \* the operator's acknowledgement: what it has loaded
          truth,    \* history: pursuit -> what the properties go by
          spent     \* history: how often each bounded thing happened

vars == <<day, file, notes, alerts, status, scan, ack, truth, spent>>

Files == [stage : Stages, moved : Nat]

ASSUME NoFileIsNone == NoFile \notin Files

\* 0 stands for a date that is not there.
Entries == [stage : Stages \cup {NoStage}, moved : Nat, stalled : BOOLEAN, tier : Tiers \cup {0},
            snooze : Nat, detected : Nat]

ASSUME NoEntryIsNone == NoEntry \notin Entries

Blank == [stage |-> NoStage, moved |-> 0, stalled |-> FALSE, tier |-> 0, snooze |-> 0, detected |-> 0]

Idle == [phase |-> "idle", today |-> 0, loaded |-> [p \in Pursuits |-> NoEntry],
         updated |-> [p \in Pursuits |-> NoEntry], todo |-> {}, checked |-> {},
         failed |-> FALSE, excluded |-> FALSE, outcome |-> "ok"]

NoAck == [pursuit |-> {}, loaded |-> NoEntry]

Running == {r \in Scans : scan[r].phase # "idle"}
Present == {p \in Pursuits : file[p] # NoFile}
-----------------------------------------------------------------------------
\* Broken: the days are taken for the tier.
DaysAsTier(days) == days

\* _days_tier()
DaysTier(days) ==
    LET crossed == {t \in Tiers : days >= t}
    IN  IF crossed = {} THEN 0 ELSE CHOOSE t \in crossed : \A u \in crossed : u <= t

\* detect_stage_change()
StageChanged(e, f) == e # NoEntry /\ e.stage # NoStage /\ e.stage # f.stage

\* A detected transition stands in for a last-transition that was not updated,
\* until that catches up or the detection is too old.
Detected(e, f, today) ==
    /\ e # NoEntry
    /\ e.detected # 0
    /\ f.moved < e.detected
    /\ today - e.detected <= SentinelDays

\* Broken: the date in the file is trusted.
JudgedByFile(e, f, today) ==
    [moved |-> f.moved, days |-> today - f.moved, stalled |-> today - f.moved > Threshold, detected |-> 0]

\* detect_stage_change(), apply_detected_transition_date()
Judged(e, f, today) ==
    LET from == IF Detected(e, f, today) THEN e.detected ELSE f.moved
    IN  IF StageChanged(e, f)
        THEN [moved |-> f.moved, days |-> 0, stalled |-> FALSE,
              detected |-> IF f.moved = e.moved THEN today ELSE 0]
        ELSE [moved |-> from, days |-> today - from, stalled |-> today - from > Threshold,
              detected |-> IF Detected(e, f, today) THEN e.detected ELSE 0]

Snoozed(e, now) == e # NoEntry /\ e.snooze > now

\* Broken: a tier that was announced is announced on every day.
RepeatsLower(e, f, found) ==
    e # NoEntry /\ e.stage \in {NoStage, f.stage} /\ e.stalled /\ DaysTier(found.days) < e.tier

\* should_suppress_alert(): this tier of this stall was announced before.
Repeats(e, f, found) ==
    /\ e # NoEntry
    /\ e.stage \in {NoStage, f.stage}
    /\ e.stalled
    /\ DaysTier(found.days) <= e.tier

\* Broken: the tier is noted as announced even if the pursuit is snoozed.
NotedAsTold(e, f, found, told, now) ==
    [stage |-> f.stage, moved |-> found.moved, stalled |-> found.stalled,
     tier |-> IF found.stalled THEN DaysTier(found.days) ELSE 0,
     snooze |-> IF e = NoEntry THEN 0 ELSE e.snooze, detected |-> found.detected]

\* build_stall_state_entry()
Noted(e, f, found, told, now) ==
    LET was == IF e = NoEntry THEN Blank ELSE e
    IN  [stage |-> f.stage, moved |-> found.moved, stalled |-> found.stalled,
         tier |-> IF told THEN DaysTier(found.days) ELSE IF StageChanged(e, f) THEN 0 ELSE was.tier,
         snooze |-> IF StageChanged(e, f) \/ (found.stalled /\ was.snooze <= now) THEN 0 ELSE was.snooze,
         detected |-> found.detected]

\* alert_block_exists(): a heading of today begins with the one of p.
Headed(p) == \E q \in Pursuits : alerts[q] = day /\ (q = p \/ <<p, q>> \in Shadows)

Set(r, change) == scan' = [scan EXCEPT ![r] = change]
Spend(what) == spent' = [spent EXCEPT ![what] = @ + 1]
-----------------------------------------------------------------------------
Init ==
    /\ day = 1
    /\ file \in [Pursuits -> [stage : Stages \ Terminal, moved : {1}]]
    /\ notes = [p \in Pursuits |-> NoEntry]
    /\ alerts = [p \in Pursuits |-> 0]
    /\ status = "none"
    /\ scan = [r \in Scans |-> Idle]
    /\ ack = NoAck
    /\ truth = [p \in Pursuits |-> [grace |-> 0, quiet |-> 0, told |-> 0, disturbed |-> FALSE]]
    /\ spent = [moves |-> 0, undated |-> 0, acks |-> 0, scans |-> 0, troubles |-> 0]

\* A date that is past is forgotten, and with it the status of another day.
Coming(date) == IF date > day + 1 THEN date ELSE 0

\* A scan ends before the second midnight, an acknowledgement before the first.
NewDay ==
    /\ day < LastDay
    /\ \A r \in Running : scan[r].phase = "scan" => scan[r].today = day
    /\ ack = NoAck
    /\ day' = day + 1
    /\ status' = "none"
    /\ truth' = [p \in Pursuits |-> [truth[p] EXCEPT !.grace = Coming(@), !.quiet = Coming(@)]]
    /\ UNCHANGED <<file, notes, alerts, scan, ack, spent>>

\* A change of stage is seen if the notes have another stage; notes that are in
\* use by a scan or an acknowledgement may be older.
Seen(p, s) ==
    notes[p] # NoEntry /\ notes[p].stage \notin {NoStage, s} /\ Running = {} /\ ack = NoAck

\* A stay in a stage begins: it has a grace when the change is seen.
Stay(p, s) ==
    [grace |-> IF Seen(p, s) THEN day + Threshold + 1 ELSE 0, quiet |-> 0, told |-> 0,
     disturbed |-> Cardinality(Running) > 1]

\* pursuit advance dates the change; the advance skill, or an editor, may not.
Advance(p, s, dated) ==
    /\ spent.moves < MaxMoves
    /\ dated \/ spent.undated < MaxUndated
    /\ file[p] # NoFile
    /\ s # file[p].stage
    /\ file' = [file EXCEPT ![p] = [stage |-> s, moved |-> IF dated THEN day ELSE @.moved]]
    /\ truth' = [truth EXCEPT ![p] = Stay(p, s)]
    /\ spent' = [spent EXCEPT !.moves = @ + 1, !.undated = @ + IF dated THEN 0 ELSE 1]
    /\ UNCHANGED <<day, notes, alerts, status, scan, ack>>

\* A file is deleted, or moved to the archive.
Remove(p) ==
    /\ spent.moves < MaxMoves
    /\ file[p] # NoFile
    /\ file' = [file EXCEPT ![p] = NoFile]
    /\ truth' = [truth EXCEPT ![p] = [@ EXCEPT !.grace = 0, !.quiet = 0]]
    /\ Spend("moves")
    /\ UNCHANGED <<day, notes, alerts, status, scan, ack>>

Create(p, s) ==
    /\ file[p] = NoFile
    /\ file' = [file EXCEPT ![p] = [stage |-> s, moved |-> day]]
    /\ truth' = [truth EXCEPT ![p] = [Stay(p, s) EXCEPT !.grace = 0]]
    /\ UNCHANGED <<day, notes, alerts, status, scan, ack, spent>>

\* _check_already_ran(), without --force: a scan that ran today is not repeated.
RanToday == status # "none"

Skip ==
    /\ RanToday
    /\ status # "fatal"
    /\ status' = "ok"
    /\ UNCHANGED <<day, file, notes, alerts, scan, ack, truth, spent>>

\* Broken: of every file that is not listed.
PrunedUnlisted(scope, bad) ==
    {p \in Pursuits : AccountOf[p] \in scope /\ (p \notin Present \/ AccountOf[p] \in bad)}

\* _prune_state_for_account(): the notes of files that are gone, but not of an
\* account that cannot be listed.
Pruned(scope, bad) == {p \in Pursuits \ Present : AccountOf[p] \in scope \ bad}

\* A scan, of all accounts or of one, takes the notes and the list of files.
Start(r, scope, bad, force) ==
    /\ scan[r].phase = "idle"
    /\ spent.scans < MaxScans
    /\ force \/ ~RanToday
    /\ spent.troubles < MaxTroubles \/ bad = {}
    /\ Set(r, [phase |-> "scan", today |-> day, loaded |-> notes,
               updated |-> [p \in Pursuits |-> IF p \in Pruned(scope, bad) THEN NoEntry ELSE notes[p]],
               todo |-> {p \in Present : AccountOf[p] \in scope \ bad}, checked |-> {},
               failed |-> bad # {}, excluded |-> FALSE, outcome |-> "ok"])
    /\ truth' = IF Running = {} THEN truth
                ELSE [p \in Pursuits |-> [truth[p] EXCEPT !.disturbed = TRUE]]
    /\ spent' = [spent EXCEPT !.scans = @ + 1, !.troubles = @ + IF bad = {} THEN 0 ELSE 1]
    /\ UNCHANGED <<day, file, notes, alerts, status, ack>>

\* scan_pursuit_file_details(): not readable, or of a stage that does not stall.
PassOver(r, p) ==
    /\ scan[r].phase = "scan"
    /\ p \in scan[r].todo
    /\ \/ /\ file[p] # NoFile /\ file[p].stage \in Terminal
          /\ Set(r, [scan[r] EXCEPT !.todo = @ \ {p}, !.excluded = TRUE])
          /\ UNCHANGED spent
       \/ /\ file[p] = NoFile
          /\ Set(r, [scan[r] EXCEPT !.todo = @ \ {p}, !.failed = TRUE])
          /\ UNCHANGED spent
       \/ /\ spent.troubles < MaxTroubles
          /\ Set(r, [scan[r] EXCEPT !.todo = @ \ {p}, !.failed = TRUE])
          /\ Spend("troubles")
    /\ UNCHANGED <<day, file, notes, alerts, status, ack, truth>>

\* _process_stall_entry(): judge the file by the notes, announce, note.
Examine(r, p) ==
    /\ scan[r].phase = "scan"
    /\ p \in scan[r].todo
    /\ file[p] # NoFile /\ file[p].stage \notin Terminal
    /\ LET e == scan[r].loaded[p]
           f == file[p]
           found == Judged(e, f, scan[r].today)
           tell == found.stalled /\ ~Snoozed(e, day) /\ ~Repeats(e, f, found)
       IN  /\ IF tell /\ ~Headed(p)
              THEN /\ alerts' = [alerts EXCEPT ![p] = day]
                   /\ truth' = [truth EXCEPT ![p].told = DaysTier(found.days)]
              ELSE UNCHANGED <<alerts, truth>>
           /\ Set(r, [scan[r] EXCEPT !.todo = @ \ {p}, !.checked = @ \cup {p},
                                     !.updated[p] = Noted(e, f, found, tell, day)])
    /\ UNCHANGED <<day, file, notes, status, ack, spent>>

\* merge_state(): what the scan examined has a new time of checking and differs,
\* what it dropped is removed, and all else stays as it is in the file.
Merged(r, p) ==
    IF p \in scan[r].checked \/ scan[r].updated[p] # scan[r].loaded[p]
    THEN scan[r].updated[p] ELSE notes[p]

Outcome(r) ==
    IF scan[r].checked = {} /\ (scan[r].failed \/ ~scan[r].excluded) THEN "fatal"
    ELSE IF scan[r].failed THEN "partial" ELSE "ok"

Save(r) ==
    /\ scan[r].phase = "scan"
    /\ scan[r].todo = {}
    /\ notes' = [p \in Pursuits |-> Merged(r, p)]
    /\ Set(r, [Idle EXCEPT !.phase = "report", !.outcome = Outcome(r)])
    /\ UNCHANGED <<day, file, alerts, status, ack, truth, spent>>

\* What was announced and not noted may be announced again.
Unnoted(r) == truth' = [p \in Pursuits |->
    IF p \in scan[r].checked THEN [truth[p] EXCEPT !.disturbed = TRUE] ELSE truth[p]]

SaveFails(r) ==
    /\ scan[r].phase = "scan"
    /\ scan[r].todo = {}
    /\ spent.troubles < MaxTroubles
    /\ Set(r, [Idle EXCEPT !.phase = "report", !.outcome = "fatal"])
    /\ Unnoted(r)
    /\ Spend("troubles")
    /\ UNCHANGED <<day, file, notes, alerts, status, ack>>

\* write_run_status(): an OSError is logged and nothing else.
Report(r) ==
    /\ scan[r].phase = "report"
    /\ \/ status' = scan[r].outcome /\ UNCHANGED spent
       \/ spent.troubles < MaxTroubles /\ UNCHANGED status /\ Spend("troubles")
    /\ Set(r, Idle)
    /\ UNCHANGED <<day, file, notes, alerts, ack, truth>>

Kill(r) ==
    /\ scan[r].phase # "idle"
    /\ spent.troubles < MaxTroubles
    /\ Set(r, Idle)
    /\ Unnoted(r)
    /\ Spend("troubles")
    /\ UNCHANGED <<day, file, notes, alerts, status, ack>>

\* The notes have the stage of the file, or none.
Current(p) == file[p] # NoFile /\ (notes[p] = NoEntry \/ notes[p].stage \in {NoStage, file[p].stage})

\* snooze_pursuit(): load, and merge the whole entry if that changed.
Acked == [(IF ack.loaded = NoEntry THEN Blank ELSE ack.loaded) EXCEPT !.snooze = day + SnoozeDays]

AckLoad(p) ==
    /\ ack = NoAck
    /\ spent.acks < MaxAcks
    /\ ack' = [pursuit |-> {p}, loaded |-> notes[p]]
    /\ Spend("acks")
    /\ UNCHANGED <<day, file, notes, alerts, status, scan, truth>>

AckSave(p) ==
    /\ ack.pursuit = {p}
    /\ notes' = [notes EXCEPT ![p] = IF Acked = ack.loaded THEN @ ELSE Acked]
    /\ truth' = [truth EXCEPT ![p] =
           IF notes[p] = ack.loaded
           THEN [@ EXCEPT !.quiet = IF Running = {} /\ Current(p) THEN day + SnoozeDays ELSE 0]
           ELSE [@ EXCEPT !.quiet = 0, !.disturbed = TRUE]]
    /\ ack' = NoAck
    /\ UNCHANGED <<day, file, alerts, status, scan, spent>>

Next ==
    \/ NewDay
    \/ Skip
    \/ \E p \in Pursuits :
          \/ \E s \in Stages, dated \in BOOLEAN : Advance(p, s, dated)
          \/ \E s \in Stages \ Terminal : Create(p, s)
          \/ Remove(p) \/ AckLoad(p) \/ AckSave(p)
    \/ \E r \in Scans :
          \/ \E scope \in {Accounts} \cup {{a} : a \in Accounts} :
                \E bad \in SUBSET scope, force \in BOOLEAN : Start(r, scope, bad, force)
          \/ \E p \in Pursuits : PassOver(r, p) \/ Examine(r, p)
          \/ Save(r) \/ SaveFails(r) \/ Report(r) \/ Kill(r)

Spec == Init /\ [][Next]_vars
-----------------------------------------------------------------------------
\* Every date in the notes is a date, and every tier is one of the tiers.
TypeOK ==
    /\ day \in Nat \ {0}
    /\ file \in [Pursuits -> Files \cup {NoFile}]
    /\ notes \in [Pursuits -> Entries \cup {NoEntry}]
    /\ alerts \in [Pursuits -> Nat]
    /\ status \in {"none", "ok", "partial", "fatal"}
    /\ ack \in [pursuit : SUBSET Pursuits, loaded : Entries \cup {NoEntry}]

Announced(p) == alerts[p] # 0

\* No stall is passed over in silence: a pursuit noted as announced, or as
\* stalled and not snoozed, has a block in the alert file, whichever writer of
\* the notes came last and wherever a scan was killed.
StallsAreAnnounced == \A p \in Pursuits :
    notes[p] # NoEntry /\ (notes[p].tier > 0 \/ (notes[p].stalled /\ notes[p].snooze = 0))
        => Announced(p)

Alerts(p) == alerts'[p] # alerts[p]

\* A pursuit that changed its stage after a scan had noted another is not
\* reported as stuck before it has been there for longer than the threshold,
\* even if the file does not date the change.
GraceAfterStageChange ==
    [][\A p \in Pursuits : Alerts(p) => day >= truth[p].grace]_vars

\* A snooze of a stage the notes know holds for its days, or until the stage
\* changes, but for one saved while a scan runs.
SnoozeHolds == [][\A p \in Pursuits : Alerts(p) => day >= truth[p].quiet]_vars

\* A stay in a stage is announced once a tier, unless what was announced could
\* not be noted, or two writers of the notes overlapped.
AlertsClimb ==
    [][\A p \in Pursuits : Alerts(p) /\ ~truth[p].disturbed => truth'[p].told > truth[p].told]_vars
=============================================================================
