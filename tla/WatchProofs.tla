----------------------------- MODULE WatchProofs -----------------------------
(***************************************************************************)
(* Proofs about the pursuit-stall watcher: the type invariant, that no     *)
(* stall is passed over in silence when no heading begins another, that a  *)
(* snooze holds for its days, that a pursuit has a grace after a change of *)
(* stage that the notes can date, and that a stay in a stage is announced  *)
(* once a tier.                                                            *)
(***************************************************************************)
EXTENDS WatchStalls, TLAPS, FiniteSetTheorems

Entry == Entries \cup {NoEntry}

ScanRecords == [phase : {"idle", "scan", "report"}, today : Nat, loaded : [Pursuits -> Entry],
                updated : [Pursuits -> Entry], todo : SUBSET Pursuits, checked : SUBSET Pursuits,
                failed : BOOLEAN, excluded : BOOLEAN, outcome : {"ok", "partial", "fatal"}]

Truths == [grace : Nat, quiet : Nat, told : Tiers \cup {0}, disturbed : BOOLEAN]

\* The type invariant of all the state.
TypeInv == TypeOK /\ scan \in [Scans -> ScanRecords] /\ truth \in [Pursuits -> Truths]

\* Entry e claims that its pursuit was announced.
Claims(e) == e # NoEntry /\ (e.tier > 0 \/ (e.stalled /\ e.snooze = 0))

Backed(p, e) == Claims(e) => Announced(p)

\* Every copy of an entry, wherever it is on its way, is backed.
AllBacked ==
    /\ \A p \in Pursuits : Backed(p, notes[p])
    /\ \A r \in Scans, p \in Pursuits : Backed(p, scan[r].loaded[p]) /\ Backed(p, scan[r].updated[p])
    /\ \A p \in ack.pursuit : Backed(p, ack.loaded)

\* Entry e of file f is snoozed until that day, and has no stage but the one of f.
Quiets(e, until, f) == e # NoEntry /\ e.snooze >= until /\ e.stage \in {NoStage, f.stage}

\* While a snooze is to hold, the notes and every scan have it.
Quiet(p) ==
    /\ file[p] # NoFile
    /\ Quiets(notes[p], truth[p].quiet, file[p])
    /\ \A r \in Scans : scan[r].phase = "scan" =>
          /\ Quiets(scan[r].loaded[p], truth[p].quiet, file[p])
          /\ Quiets(scan[r].updated[p], truth[p].quiet, file[p])

AllQuiet == \A p \in Pursuits : truth[p].quiet > day => Quiet(p)
-----------------------------------------------------------------------------
(* The helpers. *)

LEMMA TierIsTier ==
    ASSUME NEW days \in Int
    PROVE  DaysTier(days) \in Tiers \cup {0}
<1> DEFINE crossed == {t \in Tiers : days >= t}
<1>1. CASE crossed = {}
  BY <1>1 DEF DaysTier
<1>2. CASE crossed # {}
  <2>1. \E t \in crossed : \A u \in crossed : u <= t
    BY <1>2, TiersHaveHighest
  <2>2. (CHOOSE t \in crossed : \A u \in crossed : u <= t) \in crossed
    BY <2>1
  <2> QED BY <1>2, <2>2 DEF DaysTier
<1> QED BY <1>1, <1>2

\* A stall is of some tier.
LEMMA StallHasTier ==
    ASSUME NEW days \in Int, days > Threshold
    PROVE  DaysTier(days) > 0
<1> DEFINE crossed == {t \in Tiers : days >= t}
<1>1. PICK t \in Tiers : t <= Threshold + 1
  BY TiersCover
<1>2. t \in crossed
  BY <1>1, NumbersAreNatural
<1>3. \E u \in crossed : \A v \in crossed : v <= u
  BY <1>2, TiersHaveHighest
<1>4. (CHOOSE u \in crossed : \A v \in crossed : v <= u) \in crossed
  BY <1>3
<1>5. DaysTier(days) \in Tiers
  BY <1>2, <1>4 DEF DaysTier
<1>6. \A u \in Tiers : u \in Nat /\ u # 0
  BY NumbersAreNatural
<1> QED BY <1>5, <1>6

LEMMA JudgedType ==
    ASSUME NEW e \in Entry, NEW f \in Files, NEW today \in Nat
    PROVE  /\ Judged(e, f, today).moved \in Nat
           /\ Judged(e, f, today).days \in Int
           /\ Judged(e, f, today).stalled \in BOOLEAN
           /\ Judged(e, f, today).detected \in Nat
           /\ Judged(e, f, today).stalled =>
                 ~StageChanged(e, f) /\ Judged(e, f, today).days > Threshold
<1>1. f.moved \in Nat
  BY DEF Files
<1>2. e # NoEntry => e.detected \in Nat
  BY DEF Entry, Entries
<1>3. CASE StageChanged(e, f)
  <2>1. Judged(e, f, today) = [moved |-> f.moved, days |-> 0, stalled |-> FALSE,
                               detected |-> IF f.moved = e.moved THEN today ELSE 0]
    BY <1>3 DEF Judged
  <2> QED BY <1>1, <2>1
<1>4. CASE ~StageChanged(e, f)
  <2> DEFINE from == IF Detected(e, f, today) THEN e.detected ELSE f.moved
             since == IF Detected(e, f, today) THEN e.detected ELSE 0
  <2>1. Judged(e, f, today) = [moved |-> from, days |-> today - from,
                               stalled |-> today - from > Threshold, detected |-> since]
    BY <1>4 DEF Judged
  <2>2. from \in Nat /\ since \in Nat
    BY <1>1, <1>2 DEF Detected
  <2> HIDE DEF from, since
  <2>3. today - from \in Int
    BY <2>2
  <2>4. (today - from > Threshold) \in BOOLEAN
    OBVIOUS
  <2>5. /\ Judged(e, f, today).moved = from
        /\ Judged(e, f, today).days = today - from
        /\ Judged(e, f, today).stalled = (today - from > Threshold)
        /\ Judged(e, f, today).detected = since
    BY <2>1
  <2>6. Judged(e, f, today).stalled \in BOOLEAN
    BY <2>4, <2>5, Zenon
  <2>7. ASSUME Judged(e, f, today).stalled PROVE Judged(e, f, today).days > Threshold
    <3>1. today - from > Threshold
      BY <2>5, <2>7, Zenon
    <3> QED BY <2>5, <3>1
  <2> QED BY <1>4, <2>2, <2>3, <2>5, <2>6, <2>7
<1> QED BY <1>3, <1>4

LEMMA BlankType == Blank \in Entries
BY DEF Blank, Entries

LEMMA NotedType ==
    ASSUME NEW e \in Entry, NEW f \in Files, NEW today \in Nat, NEW told \in BOOLEAN, NEW now \in Nat
    PROVE  Noted(e, f, Judged(e, f, today), told, now) \in Entries
<1> DEFINE found == Judged(e, f, today)
           was == IF e = NoEntry THEN Blank ELSE e
<1>1. found.moved \in Nat /\ found.days \in Int /\ found.stalled \in BOOLEAN /\ found.detected \in Nat
  BY JudgedType
<1>2. was \in Entries
  BY BlankType DEF Entry
<1>3. was.tier \in Tiers \cup {0} /\ was.snooze \in Nat
  BY <1>2 DEF Entries
<1>4. f.stage \in Stages \cup {NoStage}
  BY DEF Files
<1>5. DaysTier(found.days) \in Tiers \cup {0}
  BY <1>1, TierIsTier
<1> HIDE DEF found, was
<1>6. [stage |-> f.stage, moved |-> found.moved, stalled |-> found.stalled,
       tier |-> IF told THEN DaysTier(found.days) ELSE IF StageChanged(e, f) THEN 0 ELSE was.tier,
       snooze |-> IF StageChanged(e, f) \/ (found.stalled /\ was.snooze <= now) THEN 0 ELSE was.snooze,
       detected |-> found.detected] \in Entries
  BY <1>1, <1>3, <1>4, <1>5 DEF Entries
<1> QED BY <1>6 DEF Noted, found, was
-----------------------------------------------------------------------------
(* Types. *)

LEMMA IdleType == Idle \in ScanRecords
BY DEF Idle, ScanRecords, Entry

LEMMA ReportType ==
    ASSUME NEW outcome \in {"ok", "partial", "fatal"}
    PROVE  [Idle EXCEPT !.phase = "report", !.outcome = outcome] \in ScanRecords
BY DEF Idle, ScanRecords, Entry

LEMMA OutcomeType == ASSUME NEW r PROVE Outcome(r) \in {"ok", "partial", "fatal"}
BY DEF Outcome

LEMMA SetType ==
    ASSUME scan \in [Scans -> ScanRecords], NEW r \in Scans, NEW change \in ScanRecords, Set(r, change)
    PROVE  scan' \in [Scans -> ScanRecords]
BY DEF Set

LEMMA StayType ==
    ASSUME NEW p, NEW s, day \in Nat
    PROVE  Stay(p, s) \in Truths
<1>1. day + Threshold + 1 \in Nat
  BY NumbersAreNatural
<1>2. (Cardinality(Running) > 1) \in BOOLEAN
  OBVIOUS
<1> QED BY <1>1, <1>2 DEF Stay, Truths

LEMMA NewDayTypes == TypeInv /\ NewDay => TypeInv'
<1> SUFFICES ASSUME TypeInv, NewDay PROVE TypeInv'
  OBVIOUS
<1>1. day' \in Nat \ {0}
  <2>1. day \in Nat /\ day' = day + 1
    BY DEF TypeInv, TypeOK, NewDay
  <2> QED BY <2>1
<1>2. \A date \in Nat : Coming(date) \in Nat
  BY DEF Coming
<1>3. \A p \in Pursuits : [truth[p] EXCEPT !.grace = Coming(@), !.quiet = Coming(@)] \in Truths
  BY <1>2 DEF TypeInv, Truths
<1>4. truth' \in [Pursuits -> Truths]
  BY <1>3 DEF NewDay
<1> QED BY <1>1, <1>4 DEF TypeInv, TypeOK, NewDay

LEMMA AdvanceTypes ==
    ASSUME TypeInv, NEW p \in Pursuits, NEW s \in Stages, NEW dated \in BOOLEAN, Advance(p, s, dated)
    PROVE  TypeInv'
<1>1. Stay(p, s) \in Truths /\ day \in Nat
  BY StayType DEF TypeInv, TypeOK
<1>2. truth' \in [Pursuits -> Truths]
  BY <1>1 DEF TypeInv, Advance
<1>3. file[p] \in Files /\ file[p].moved \in Nat
  BY DEF TypeInv, TypeOK, Advance, Files
<1>4. [stage |-> s, moved |-> IF dated THEN day ELSE file[p].moved] \in Files
  BY <1>1, <1>3 DEF Files
<1>5. file' \in [Pursuits -> Files \cup {NoFile}]
  BY <1>4 DEF TypeInv, TypeOK, Advance
<1> QED BY <1>2, <1>5 DEF TypeInv, TypeOK, Advance

LEMMA RemoveTypes ==
    ASSUME TypeInv, NEW p \in Pursuits, Remove(p)
    PROVE  TypeInv'
<1>1. [truth[p] EXCEPT !.grace = 0, !.quiet = 0] \in Truths
  BY DEF TypeInv, Truths
<1>2. truth' \in [Pursuits -> Truths]
  BY <1>1 DEF TypeInv, Remove
<1> QED BY <1>2 DEF TypeInv, TypeOK, Remove

LEMMA CreateTypes ==
    ASSUME TypeInv, NEW p \in Pursuits, NEW s \in Stages, Create(p, s)
    PROVE  TypeInv'
<1>1. Stay(p, s) \in Truths /\ day \in Nat
  BY StayType DEF TypeInv, TypeOK
<1>2. [Stay(p, s) EXCEPT !.grace = 0] \in Truths
  BY <1>1 DEF Truths
<1>3. truth' \in [Pursuits -> Truths]
  BY <1>2 DEF TypeInv, Create
<1>4. [stage |-> s, moved |-> day] \in Files
  BY <1>1 DEF Files
<1> QED BY <1>3, <1>4 DEF TypeInv, TypeOK, Create

LEMMA DisturbType ==
    ASSUME NEW t \in Truths
    PROVE  [t EXCEPT !.disturbed = TRUE] \in Truths
BY DEF Truths

LEMMA StartTypes ==
    ASSUME TypeInv, NEW r \in Scans, NEW scope, NEW bad, NEW force, Start(r, scope, bad, force)
    PROVE  TypeInv'
<1> DEFINE updated == [p \in Pursuits |-> IF p \in Pruned(scope, bad) THEN NoEntry ELSE notes[p]]
           todo == {p \in Present : AccountOf[p] \in scope \ bad}
<1>1. notes \in [Pursuits -> Entry] /\ updated \in [Pursuits -> Entry]
  BY DEF TypeInv, TypeOK, Entry
<1>2. todo \in SUBSET Pursuits
  BY DEF Present
<1>3. day \in Nat /\ (bad # {}) \in BOOLEAN
  BY DEF TypeInv, TypeOK
<1>4. Set(r, [phase |-> "scan", today |-> day, loaded |-> notes, updated |-> updated, todo |-> todo,
              checked |-> {}, failed |-> bad # {}, excluded |-> FALSE, outcome |-> "ok"])
  BY DEF Start
<1> HIDE DEF updated, todo
<1>5. [phase |-> "scan", today |-> day, loaded |-> notes, updated |-> updated, todo |-> todo,
       checked |-> {}, failed |-> bad # {}, excluded |-> FALSE, outcome |-> "ok"] \in ScanRecords
  BY <1>1, <1>2, <1>3 DEF ScanRecords
<1>6. scan' \in [Scans -> ScanRecords]
  BY <1>4, <1>5, SetType DEF TypeInv
<1>7. truth' \in [Pursuits -> Truths]
  BY DisturbType DEF TypeInv, Start
<1> QED BY <1>6, <1>7 DEF TypeInv, TypeOK, Start

LEMMA PassOverTypes ==
    ASSUME TypeInv, NEW r \in Scans, NEW p \in Pursuits, PassOver(r, p)
    PROVE  TypeInv'
<1>1. scan[r] \in ScanRecords
  BY DEF TypeInv
<1>2. /\ [scan[r] EXCEPT !.todo = @ \ {p}, !.excluded = TRUE] \in ScanRecords
      /\ [scan[r] EXCEPT !.todo = @ \ {p}, !.failed = TRUE] \in ScanRecords
  BY <1>1 DEF ScanRecords
<1>3. scan' \in [Scans -> ScanRecords]
  BY <1>2, SetType DEF TypeInv, PassOver
<1> QED BY <1>3 DEF TypeInv, TypeOK, PassOver

\* What a scan found of p, by its notes and the file.
Found(r, p) == Judged(scan[r].loaded[p], file[p], scan[r].today)

Tells(r, p) ==
    /\ Found(r, p).stalled
    /\ ~Snoozed(scan[r].loaded[p], day)
    /\ ~Repeats(scan[r].loaded[p], file[p], Found(r, p))

Notes(r, p) == Noted(scan[r].loaded[p], file[p], Found(r, p), Tells(r, p), day)

LEMMA ExamineSteps ==
    ASSUME NEW r \in Scans, NEW p \in Pursuits, Examine(r, p)
    PROVE  /\ scan[r].phase = "scan" /\ p \in scan[r].todo /\ file[p] # NoFile
           /\ IF Tells(r, p) /\ ~Headed(p)
              THEN /\ alerts' = [alerts EXCEPT ![p] = day]
                   /\ truth' = [truth EXCEPT ![p].told = DaysTier(Found(r, p).days)]
              ELSE UNCHANGED <<alerts, truth>>
           /\ scan' = [scan EXCEPT ![r] = [scan[r] EXCEPT !.todo = @ \ {p}, !.checked = @ \cup {p},
                                                          !.updated[p] = Notes(r, p)]]
           /\ UNCHANGED <<day, file, notes, status, ack, spent>>
BY DEF Examine, Found, Tells, Notes, Set

LEMMA ExamineTypes ==
    ASSUME TypeInv, NEW r \in Scans, NEW p \in Pursuits, Examine(r, p)
    PROVE  TypeInv' /\ Notes(r, p) \in Entries
<1>1. scan[r] \in ScanRecords
  BY DEF TypeInv
<1>2. scan[r].loaded[p] \in Entry /\ scan[r].today \in Nat
  BY <1>1 DEF ScanRecords
<1>3. file[p] \in Files /\ day \in Nat
  BY ExamineSteps DEF TypeInv, TypeOK
<1>4. Tells(r, p) \in BOOLEAN
  BY DEF Tells
<1>5. Notes(r, p) \in Entries
  BY <1>2, <1>3, <1>4, NotedType DEF Notes, Found
<1>6. DaysTier(Found(r, p).days) \in Tiers \cup {0}
  BY <1>2, <1>3, JudgedType, TierIsTier DEF Found
<1>7. [scan[r] EXCEPT !.todo = @ \ {p}, !.checked = @ \cup {p}, !.updated[p] = Notes(r, p)] \in ScanRecords
  BY <1>1, <1>5 DEF ScanRecords, Entry
<1>8. scan' \in [Scans -> ScanRecords]
  <2> DEFINE step == [scan[r] EXCEPT !.todo = @ \ {p}, !.checked = @ \cup {p}, !.updated[p] = Notes(r, p)]
  <2>1. scan' = [scan EXCEPT ![r] = step]
    BY ExamineSteps
  <2>2. step \in ScanRecords
    BY <1>7
  <2> HIDE DEF step
  <2> QED BY <2>1, <2>2 DEF TypeInv
<1>9. [truth[p] EXCEPT !.told = DaysTier(Found(r, p).days)] \in Truths
  BY <1>6 DEF TypeInv, Truths
<1>10. truth' \in [Pursuits -> Truths]
  <2> DEFINE told == [truth[p] EXCEPT !.told = DaysTier(Found(r, p).days)]
  <2>1. truth' = [truth EXCEPT ![p] = told] \/ truth' = truth
    BY ExamineSteps DEF TypeInv
  <2>2. told \in Truths
    BY <1>9
  <2> HIDE DEF told
  <2> QED BY <2>1, <2>2 DEF TypeInv
<1>11. alerts' \in [Pursuits -> Nat]
  BY <1>3, ExamineSteps DEF TypeInv, TypeOK
<1> QED BY <1>5, <1>8, <1>10, <1>11, ExamineSteps DEF TypeInv, TypeOK

LEMMA SaveTypes ==
    ASSUME TypeInv, NEW r \in Scans, Save(r)
    PROVE  TypeInv'
<1>1. scan[r] \in ScanRecords
  BY DEF TypeInv
<1>2. \A p \in Pursuits : Merged(r, p) \in Entry
  BY <1>1 DEF Merged, TypeInv, TypeOK, ScanRecords, Entry
<1>3. notes' \in [Pursuits -> Entries \cup {NoEntry}]
  BY <1>2 DEF Save, Entry
<1>4. scan' \in [Scans -> ScanRecords]
  BY OutcomeType, ReportType, SetType DEF TypeInv, Save
<1> QED BY <1>3, <1>4 DEF TypeInv, TypeOK, Save

LEMMA UnnotedType ==
    ASSUME TypeInv, NEW r \in Scans, Unnoted(r)
    PROVE  truth' \in [Pursuits -> Truths]
BY DisturbType DEF TypeInv, Unnoted

LEMMA SaveFailsTypes ==
    ASSUME TypeInv, NEW r \in Scans, SaveFails(r)
    PROVE  TypeInv'
<1>1. scan' \in [Scans -> ScanRecords]
  <2>1. Set(r, [Idle EXCEPT !.phase = "report", !.outcome = "fatal"])
    BY DEF SaveFails
  <2> QED BY <2>1, ReportType, SetType DEF TypeInv
<1>2. truth' \in [Pursuits -> Truths]
  <2>1. Unnoted(r)
    BY DEF SaveFails
  <2> QED BY <2>1, UnnotedType
<1> QED BY <1>1, <1>2 DEF TypeInv, TypeOK, SaveFails

LEMMA ReportTypes ==
    ASSUME TypeInv, NEW r \in Scans, Report(r)
    PROVE  TypeInv'
<1>1. scan' \in [Scans -> ScanRecords]
  BY IdleType, SetType DEF TypeInv, Report
<1>2. scan[r].outcome \in {"ok", "partial", "fatal"}
  BY DEF TypeInv, ScanRecords
<1> QED BY <1>1, <1>2 DEF TypeInv, TypeOK, Report

LEMMA KillTypes ==
    ASSUME TypeInv, NEW r \in Scans, Kill(r)
    PROVE  TypeInv'
<1>1. scan' \in [Scans -> ScanRecords]
  BY IdleType, SetType DEF TypeInv, Kill
<1>2. truth' \in [Pursuits -> Truths]
  BY UnnotedType DEF Kill
<1> QED BY <1>1, <1>2 DEF TypeInv, TypeOK, Kill

LEMMA AckLoadTypes ==
    ASSUME TypeInv, NEW p \in Pursuits, AckLoad(p)
    PROVE  TypeInv'
BY DEF TypeInv, TypeOK, AckLoad

LEMMA AckedType == TypeInv => Acked \in Entries
<1> SUFFICES ASSUME TypeInv PROVE Acked \in Entries
  OBVIOUS
<1> DEFINE was == IF ack.loaded = NoEntry THEN Blank ELSE ack.loaded
<1>1. was \in Entries
  BY BlankType DEF TypeInv, TypeOK
<1>2. day + SnoozeDays \in Nat
  BY NumbersAreNatural DEF TypeInv, TypeOK
<1> HIDE DEF was
<1>3. [was EXCEPT !.snooze = day + SnoozeDays] \in Entries
  BY <1>1, <1>2 DEF Entries
<1> QED BY <1>3 DEF Acked, was

LEMMA AckSaveTypes ==
    ASSUME TypeInv, NEW p \in Pursuits, AckSave(p)
    PROVE  TypeInv'
<1>1. notes' \in [Pursuits -> Entries \cup {NoEntry}]
  BY AckedType DEF TypeInv, TypeOK, AckSave
<1>2. day + SnoozeDays \in Nat
  BY NumbersAreNatural DEF TypeInv, TypeOK
<1>3. truth[p] \in Truths
  BY DEF TypeInv
<1>4. /\ [truth[p] EXCEPT !.quiet = IF Running = {} /\ Current(p) THEN day + SnoozeDays ELSE 0] \in Truths
      /\ [truth[p] EXCEPT !.quiet = 0, !.disturbed = TRUE] \in Truths
  BY <1>2, <1>3 DEF Truths
<1>5. truth' \in [Pursuits -> Truths]
  BY <1>4 DEF TypeInv, AckSave
<1>6. ack' \in [pursuit : SUBSET Pursuits, loaded : Entries \cup {NoEntry}]
  BY DEF AckSave, NoAck
<1> QED BY <1>1, <1>5, <1>6 DEF TypeInv, TypeOK, AckSave

LEMMA InitTypes == Init => TypeInv
<1> SUFFICES ASSUME Init PROVE TypeInv
  OBVIOUS
<1>1. file \in [Pursuits -> Files \cup {NoFile}]
  BY DEF Init, Files
<1>2. scan \in [Scans -> ScanRecords]
  BY IdleType DEF Init
<1>3. ack \in [pursuit : SUBSET Pursuits, loaded : Entries \cup {NoEntry}]
  BY DEF Init, NoAck
<1>4. truth \in [Pursuits -> Truths]
  BY DEF Init, Truths
<1> QED BY <1>1, <1>2, <1>3, <1>4 DEF TypeInv, TypeOK, Init

LEMMA NextTypes == TypeInv /\ [Next]_vars => TypeInv'
<1> SUFFICES ASSUME TypeInv, [Next]_vars PROVE TypeInv'
  OBVIOUS
<1>1. CASE NewDay
  BY <1>1, NewDayTypes
<1>2. CASE Skip
  BY <1>2 DEF Skip, TypeInv, TypeOK
<1>3. ASSUME NEW p \in Pursuits, NEW s \in Stages, NEW dated \in BOOLEAN, Advance(p, s, dated) PROVE TypeInv'
  BY <1>3, AdvanceTypes
<1>4. ASSUME NEW p \in Pursuits, NEW s \in Stages \ Terminal, Create(p, s) PROVE TypeInv'
  BY <1>4, CreateTypes
<1>5. ASSUME NEW p \in Pursuits, Remove(p) \/ AckLoad(p) \/ AckSave(p) PROVE TypeInv'
  BY <1>5, RemoveTypes, AckLoadTypes, AckSaveTypes
<1>6. ASSUME NEW r \in Scans, NEW scope, NEW bad, NEW force, Start(r, scope, bad, force) PROVE TypeInv'
  BY <1>6, StartTypes
<1>7. ASSUME NEW r \in Scans, NEW p \in Pursuits, PassOver(r, p) \/ Examine(r, p) PROVE TypeInv'
  BY <1>7, PassOverTypes, ExamineTypes
<1>8. ASSUME NEW r \in Scans, Save(r) \/ SaveFails(r) \/ Report(r) \/ Kill(r) PROVE TypeInv'
  BY <1>8, SaveTypes, SaveFailsTypes, ReportTypes, KillTypes
<1>9. CASE UNCHANGED vars
  BY <1>9 DEF vars, TypeInv, TypeOK
<1> QED BY <1>1, <1>2, <1>3, <1>4, <1>5, <1>6, <1>7, <1>8, <1>9 DEF Next

\* Type correctness: every date, tier and entry is one.
THEOREM WatchTypes == Spec => []TypeOK
<1>1. Spec => []TypeInv
  BY InitTypes, NextTypes, PTL DEF Spec
<1>2. TypeInv => TypeOK
  BY DEF TypeInv
<1> QED BY <1>1, <1>2, PTL
-----------------------------------------------------------------------------
(* No stall in silence. *)

LEMMA NoEntryBacked == \A p : Backed(p, NoEntry)
BY DEF Backed, Claims

\* The alert file loses nothing.
LEMMA BlocksStay ==
    ASSUME TypeInv, [Next]_vars, NEW p \in Pursuits, Announced(p)
    PROVE  Announced(p)'
<1>1. ASSUME NEW r \in Scans, NEW q \in Pursuits, Examine(r, q) PROVE Announced(p)'
  <2>1. alerts' = alerts \/ alerts' = [alerts EXCEPT ![q] = day]
    BY <1>1, ExamineSteps
  <2>2. day # 0 /\ alerts \in [Pursuits -> Nat]
    BY DEF TypeInv, TypeOK
  <2> QED BY <2>1, <2>2 DEF Announced
<1>2. CASE alerts' = alerts
  BY <1>2 DEF Announced
<1> QED BY <1>1, <1>2 DEF Next, vars, NewDay, Skip, Advance, Create, Remove, AckLoad, AckSave, Start,
                          PassOver, Save, SaveFails, Report, Kill

\* What Examine notes is backed: a stall it does not announce is snoozed, or was
\* announced before, as far as the notes it went by were backed.
LEMMA NotesBacked ==
    ASSUME Shadows = {}, TypeInv, NEW r \in Scans, NEW p \in Pursuits, Examine(r, p),
           Backed(p, scan[r].loaded[p]), Claims(Notes(r, p))
    PROVE  Announced(p)'
<1> DEFINE e == scan[r].loaded[p]
           found == Found(r, p)
<1>1. e \in Entry /\ scan[r].today \in Nat /\ file[p] \in Files
  <2>1. scan[r] \in ScanRecords
    BY DEF TypeInv
  <2>2. scan[r].loaded \in [Pursuits -> Entry] /\ scan[r].today \in Nat
    BY <2>1 DEF ScanRecords
  <2>3. e \in Entry
    BY <2>2
  <2>4. file[p] \in Files \cup {NoFile} /\ file[p] # NoFile
    BY ExamineSteps DEF TypeInv, TypeOK
  <2> QED BY <2>2, <2>3, <2>4
<1>2. /\ found.days \in Int
      /\ found.stalled => ~StageChanged(e, file[p]) /\ found.days > Threshold
  BY <1>1, JudgedType DEF Found
<1>3. day \in Nat \ {0} /\ alerts \in [Pursuits -> Nat]
  BY DEF TypeInv, TypeOK
<1>4. Announced(p) => Announced(p)'
  BY <1>3, ExamineSteps DEF Announced
<1>5. CASE Tells(r, p)
  <2>1. CASE Headed(p)
    <3>1. alerts[p] = day
      BY <2>1 DEF Headed
    <3> QED BY <1>3, <1>4, <3>1 DEF Announced
  <2>2. CASE ~Headed(p)
    <3>1. alerts' = [alerts EXCEPT ![p] = day]
      BY <1>5, <2>2, ExamineSteps
    <3> QED BY <1>3, <3>1 DEF Announced
  <2> QED BY <2>1, <2>2
<1>6. CASE ~Tells(r, p)
  <2>1. SUFFICES Claims(e)
    BY <1>4, <2>1 DEF Backed
  <2> DEFINE was == IF e = NoEntry THEN Blank ELSE e
  <2>2. /\ Notes(r, p).tier = IF StageChanged(e, file[p]) THEN 0 ELSE was.tier
        /\ Notes(r, p).stalled = found.stalled
        /\ Notes(r, p).snooze =
              IF StageChanged(e, file[p]) \/ (found.stalled /\ was.snooze <= day) THEN 0 ELSE was.snooze
    BY <1>6 DEF Notes, Noted
  <2>3. Blank.tier = 0 /\ Blank.snooze = 0
    BY DEF Blank
  <2>4. CASE Notes(r, p).tier > 0
    BY <2>2, <2>3, <2>4 DEF Claims
  <2>5. CASE ~(Notes(r, p).tier > 0)
    <3>1. Notes(r, p).stalled /\ Notes(r, p).snooze = 0
      BY <2>5 DEF Claims
    <3>2. found.stalled
      BY <2>2, <3>1, Zenon
    <3>3. CASE Snoozed(e, day)
      <4>1. e \in Entries /\ e # NoEntry /\ e.snooze > day
        BY <1>1, <3>3 DEF Snoozed, Entry
      <4>2. e.snooze \in Nat
        BY <4>1 DEF Entries
      <4>3. Notes(r, p).snooze = e.snooze
        BY <1>2, <1>3, <2>2, <3>2, <4>1, <4>2
      <4> QED BY <1>3, <3>1, <4>1, <4>2, <4>3
    <3>4. CASE ~Snoozed(e, day)
      <4>1. Repeats(e, file[p], found)
        BY <1>6, <3>2, <3>4, Zenon DEF Tells
      <4>2. e # NoEntry /\ DaysTier(found.days) <= e.tier
        BY <4>1 DEF Repeats
      <4>3. DaysTier(found.days) > 0
        BY <1>2, <3>2, StallHasTier
      <4>4. DaysTier(found.days) \in Tiers \cup {0} /\ e.tier \in Tiers \cup {0}
        BY <1>1, <1>2, <4>2, TierIsTier DEF Entry, Entries
      <4>5. \A t \in Tiers \cup {0} : t \in Nat
        BY NumbersAreNatural
      <4>6. e.tier > 0
        BY <4>2, <4>3, <4>4, <4>5
      <4> QED BY <4>2, <4>6 DEF Claims
    <3> QED BY <3>3, <3>4
  <2> QED BY <2>4, <2>5
<1> QED BY <1>5, <1>6

LEMMA AckedBacked ==
    ASSUME TypeInv, NEW p \in Pursuits, Backed(p, ack.loaded)
    PROVE  Backed(p, Acked)
<1> DEFINE was == IF ack.loaded = NoEntry THEN Blank ELSE ack.loaded
<1>1. was \in Entries
  BY BlankType DEF TypeInv, TypeOK
<1>2. day \in Nat \ {0} /\ day + SnoozeDays # 0
  BY NumbersAreNatural DEF TypeInv, TypeOK
<1>3. Acked.tier = was.tier /\ Acked.snooze = day + SnoozeDays
  BY <1>1 DEF Acked, Entries
<1>4. Claims(Acked) => was.tier > 0
  BY <1>2, <1>3 DEF Claims
<1>5. was.tier > 0 => Claims(ack.loaded)
  BY DEF Blank, Claims
<1> QED BY <1>4, <1>5 DEF Backed

LEMMA BackedStays ==
    ASSUME TypeInv, [Next]_vars, NEW p \in Pursuits, NEW e, Backed(p, e)
    PROVE  Claims(e) => Announced(p)'
BY BlocksStay DEF Backed

\* AllBacked of the next state, with its claims not primed.
LEMMA AllBackedNext ==
    ASSUME \A p \in Pursuits : Claims(notes'[p]) => Announced(p)',
           \A r \in Scans, p \in Pursuits : /\ Claims(scan'[r].loaded[p]) => Announced(p)'
                                            /\ Claims(scan'[r].updated[p]) => Announced(p)',
           \A p \in ack'.pursuit : Claims(ack'.loaded) => Announced(p)'
    PROVE  AllBacked'
BY DEF AllBacked, Backed, Claims

LEMMA IdleBacked ==
    \A phase, outcome : \A p \in Pursuits :
        LET idle == [Idle EXCEPT !.phase = phase, !.outcome = outcome]
        IN  /\ ~Claims(idle.loaded[p]) /\ ~Claims(idle.updated[p])
            /\ ~Claims(Idle.loaded[p]) /\ ~Claims(Idle.updated[p])
BY DEF Idle, Claims

LEMMA ExamineBacked ==
    ASSUME Shadows = {}, TypeInv, AllBacked, [Next]_vars, NEW r \in Scans, NEW p \in Pursuits, Examine(r, p)
    PROVE  AllBacked'
<1>1. /\ \A q \in Pursuits : Backed(q, notes[q])
      /\ \A s \in Scans, q \in Pursuits : Backed(q, scan[s].loaded[q]) /\ Backed(q, scan[s].updated[q])
      /\ \A q \in ack.pursuit : Backed(q, ack.loaded)
  BY DEF AllBacked
<1>2. Claims(Notes(r, p)) => Announced(p)'
  BY <1>1, NotesBacked
<1>3. notes' = notes /\ ack' = ack
  BY ExamineSteps
<1>4. ASSUME NEW q \in Pursuits PROVE Claims(notes'[q]) => Announced(q)'
  BY <1>1, <1>3, BackedStays
<1>5. ASSUME NEW q \in ack'.pursuit PROVE Claims(ack'.loaded) => Announced(q)'
  <2>1. q \in Pursuits /\ q \in ack.pursuit
    BY <1>3, <1>5 DEF TypeInv, TypeOK
  <2> QED BY <1>1, <1>3, <2>1, BackedStays
<1>6. ASSUME NEW s \in Scans, NEW q \in Pursuits
      PROVE  /\ Claims(scan'[s].loaded[q]) => Announced(q)'
             /\ Claims(scan'[s].updated[q]) => Announced(q)'
  <2>1. /\ scan'[s].loaded[q] = scan[s].loaded[q]
        /\ \/ scan'[s].updated[q] = scan[s].updated[q]
           \/ q = p /\ scan'[s].updated[q] = Notes(r, p)
    <3>1. scan \in [Scans -> ScanRecords] /\ scan[r] \in ScanRecords
      BY DEF TypeInv
    <3>2. CASE s # r
      BY <3>1, <3>2, ExamineSteps
    <3>3. CASE s = r
      <4> DEFINE step == [scan[r] EXCEPT !.todo = @ \ {p}, !.checked = @ \cup {p}, !.updated[p] = Notes(r, p)]
      <4>1. scan' = [scan EXCEPT ![r] = step]
        BY ExamineSteps
      <4>2. step.loaded = scan[r].loaded /\ step.updated = [scan[r].updated EXCEPT ![p] = Notes(r, p)]
        BY <3>1 DEF ScanRecords
      <4>3. scan[r].updated \in [Pursuits -> Entry]
        BY <3>1 DEF ScanRecords
      <4> HIDE DEF step
      <4>4. scan'[s] = step
        BY <3>1, <3>3, <4>1
      <4> QED BY <3>3, <4>2, <4>3, <4>4
    <3> QED BY <3>2, <3>3
  <2>2. Backed(q, scan[s].loaded[q]) /\ Backed(q, scan[s].updated[q])
    BY <1>1
  <2> QED BY <1>2, <2>1, <2>2, BackedStays
<1> QED BY <1>4, <1>5, <1>6, AllBackedNext

\* A step that copies entries, and writes none but the acknowledged one.
LEMMA CopyBacked ==
    ASSUME TypeInv, AllBacked, [Next]_vars,
           \A p \in Pursuits : notes'[p] = notes[p] \/ \E r \in Scans : notes'[p] = scan[r].updated[p],
           \A s \in Scans, p \in Pursuits :
               /\ ~Claims(scan'[s].loaded[p]) \/ scan'[s].loaded[p] \in {scan[s].loaded[p], notes[p]}
               /\ ~Claims(scan'[s].updated[p]) \/ scan'[s].updated[p] \in {scan[s].updated[p], notes[p]},
           ack' = ack
    PROVE  AllBacked'
<1>1. /\ \A q \in Pursuits : Backed(q, notes[q])
      /\ \A s \in Scans, q \in Pursuits : Backed(q, scan[s].loaded[q]) /\ Backed(q, scan[s].updated[q])
      /\ \A q \in ack.pursuit : Backed(q, ack.loaded)
  BY DEF AllBacked
<1>2. ASSUME NEW q \in Pursuits PROVE Claims(notes'[q]) => Announced(q)'
  BY <1>1, BackedStays
<1>3. ASSUME NEW q \in ack'.pursuit PROVE Claims(ack'.loaded) => Announced(q)'
  <2>1. q \in Pursuits /\ q \in ack.pursuit
    BY <1>3 DEF TypeInv, TypeOK
  <2> QED BY <1>1, <2>1, BackedStays
<1>4. ASSUME NEW s \in Scans, NEW q \in Pursuits
      PROVE  /\ Claims(scan'[s].loaded[q]) => Announced(q)'
             /\ Claims(scan'[s].updated[q]) => Announced(q)'
  <2>1. Backed(q, scan[s].loaded[q]) /\ Backed(q, scan[s].updated[q]) /\ Backed(q, notes[q])
    BY <1>1
  <2> QED BY <2>1, BackedStays
<1> QED BY <1>2, <1>3, <1>4, AllBackedNext

LEMMA PassOverKeeps ==
    ASSUME scan \in [Scans -> ScanRecords], NEW r \in Scans, NEW p \in Pursuits, PassOver(r, p)
    PROVE  \A s \in Scans : /\ scan'[s].phase = scan[s].phase
                            /\ scan'[s].loaded = scan[s].loaded
                            /\ scan'[s].updated = scan[s].updated
<1> DEFINE excluded == [scan[r] EXCEPT !.todo = @ \ {p}, !.excluded = TRUE]
           failed == [scan[r] EXCEPT !.todo = @ \ {p}, !.failed = TRUE]
<1>1. scan' = [scan EXCEPT ![r] = excluded] \/ scan' = [scan EXCEPT ![r] = failed]
  BY DEF PassOver, Set
<1>2. scan[r] \in ScanRecords
  OBVIOUS
<1>3. \A step \in {excluded, failed} :
          step.phase = scan[r].phase /\ step.loaded = scan[r].loaded /\ step.updated = scan[r].updated
  BY <1>2 DEF ScanRecords
<1> HIDE DEF excluded, failed
<1> QED BY <1>1, <1>3

LEMMA AckBacked ==
    ASSUME TypeInv, AllBacked, [Next]_vars, NEW p \in Pursuits, AckLoad(p) \/ AckSave(p)
    PROVE  AllBacked'
<1>1. /\ \A q \in Pursuits : Backed(q, notes[q])
      /\ \A s \in Scans, q \in Pursuits : Backed(q, scan[s].loaded[q]) /\ Backed(q, scan[s].updated[q])
      /\ \A q \in ack.pursuit : Backed(q, ack.loaded)
  BY DEF AllBacked
<1>2. scan' = scan
  BY DEF AckLoad, AckSave
<1>3. ASSUME NEW s \in Scans, NEW q \in Pursuits
      PROVE  /\ Claims(scan'[s].loaded[q]) => Announced(q)'
             /\ Claims(scan'[s].updated[q]) => Announced(q)'
  BY <1>1, <1>2, BackedStays
<1>4. ASSUME NEW q \in Pursuits PROVE Claims(notes'[q]) => Announced(q)'
  <2>1. notes'[q] = notes[q] \/ (q = p /\ notes'[q] = Acked /\ p \in ack.pursuit)
    BY DEF AckLoad, AckSave, TypeInv, TypeOK
  <2>2. p \in ack.pursuit => Backed(p, Acked)
    BY <1>1, AckedBacked
  <2> QED BY <1>1, <2>1, <2>2, BackedStays
<1>5. ASSUME NEW q \in ack'.pursuit PROVE Claims(ack'.loaded) => Announced(q)'
  <2>1. q = p /\ ack'.loaded = notes[p]
    BY <1>5 DEF AckLoad, AckSave, NoAck
  <2> QED BY <1>1, <2>1, BackedStays
<1> QED BY <1>3, <1>4, <1>5, AllBackedNext

LEMMA NextBacked == Shadows = {} /\ TypeInv /\ AllBacked /\ [Next]_vars => AllBacked'
<1> SUFFICES ASSUME Shadows = {}, TypeInv, AllBacked, [Next]_vars PROVE AllBacked'
  OBVIOUS
<1>1. CASE UNCHANGED <<notes, scan, ack>>
  BY <1>1, CopyBacked
<1>2. ASSUME NEW r \in Scans, NEW scope, NEW bad, NEW force, Start(r, scope, bad, force) PROVE AllBacked'
  <2> DEFINE updated == [p \in Pursuits |-> IF p \in Pruned(scope, bad) THEN NoEntry ELSE notes[p]]
             todo == {p \in Present : AccountOf[p] \in scope \ bad}
  <2>1. scan' = [scan EXCEPT ![r] =
            [phase |-> "scan", today |-> day, loaded |-> notes, updated |-> updated, todo |-> todo,
             checked |-> {}, failed |-> bad # {}, excluded |-> FALSE, outcome |-> "ok"]]
    BY <1>2 DEF Start, Set
  <2>2. \A p \in Pursuits : updated[p] \in {NoEntry, notes[p]}
    OBVIOUS
  <2>3. ~Claims(NoEntry) /\ scan \in [Scans -> ScanRecords] /\ notes' = notes /\ ack' = ack
    BY <1>2 DEF Claims, TypeInv, Start
  <2> HIDE DEF updated, todo
  <2>4. \A s \in Scans, p \in Pursuits :
            /\ scan'[s].loaded[p] \in {scan[s].loaded[p], notes[p]}
            /\ ~Claims(scan'[s].updated[p]) \/ scan'[s].updated[p] \in {scan[s].updated[p], notes[p]}
    BY <2>1, <2>2, <2>3
  <2> QED BY <2>3, <2>4, CopyBacked
<1>3. ASSUME NEW r \in Scans, NEW p \in Pursuits, PassOver(r, p) PROVE AllBacked'
  <2>1. scan[r] \in ScanRecords /\ scan \in [Scans -> ScanRecords] /\ notes' = notes /\ ack' = ack
    BY <1>3 DEF TypeInv, PassOver
  <2>2. \A s \in Scans : scan'[s].loaded = scan[s].loaded /\ scan'[s].updated = scan[s].updated
    BY <1>3, <2>1, PassOverKeeps
  <2> QED BY <2>1, <2>2, CopyBacked
<1>4. ASSUME NEW r \in Scans, Save(r) \/ SaveFails(r) \/ Report(r) \/ Kill(r) PROVE AllBacked'
  <2>1. PICK idle : /\ scan' = [scan EXCEPT ![r] = idle]
                    /\ \A p \in Pursuits : ~Claims(idle.loaded[p]) /\ ~Claims(idle.updated[p])
    <3>1. CASE Report(r) \/ Kill(r)
      BY <3>1, IdleBacked DEF Report, Kill, Set
    <3>2. CASE Save(r) \/ SaveFails(r)
      <4>1. PICK outcome : scan' = [scan EXCEPT ![r] = [Idle EXCEPT !.phase = "report", !.outcome = outcome]]
        BY <3>2 DEF Save, SaveFails, Set
      <4> DEFINE idle == [Idle EXCEPT !.phase = "report", !.outcome = outcome]
      <4>2. \A p \in Pursuits : ~Claims(idle.loaded[p]) /\ ~Claims(idle.updated[p])
        BY IdleBacked
      <4> HIDE DEF idle
      <4> QED BY <4>1, <4>2 DEF idle
    <3> QED BY <1>4, <3>1, <3>2
  <2>2. \A s \in Scans, p \in Pursuits :
            /\ ~Claims(scan'[s].loaded[p]) \/ scan'[s].loaded[p] = scan[s].loaded[p]
            /\ ~Claims(scan'[s].updated[p]) \/ scan'[s].updated[p] = scan[s].updated[p]
    BY <2>1 DEF TypeInv
  <2>3. \A p \in Pursuits : notes'[p] = notes[p] \/ notes'[p] = scan[r].updated[p]
    BY <1>4 DEF Save, SaveFails, Report, Kill, Merged
  <2>4. ack' = ack
    BY <1>4 DEF Save, SaveFails, Report, Kill
  <2> QED BY <2>2, <2>3, <2>4, CopyBacked
<1>5. ASSUME NEW r \in Scans, NEW p \in Pursuits, Examine(r, p) PROVE AllBacked'
  BY <1>5, ExamineBacked
<1>6. ASSUME NEW p \in Pursuits, AckLoad(p) \/ AckSave(p) PROVE AllBacked'
  BY <1>6, AckBacked
<1> QED BY <1>1, <1>2, <1>3, <1>4, <1>5, <1>6 DEF Next, vars, NewDay, Skip, Advance, Create, Remove

LEMMA InitBacked == Init => AllBacked
BY DEF Init, AllBacked, Backed, Claims, Idle, NoAck

\* No stall is passed over in silence: if no heading begins another, a pursuit
\* noted as announced, or as stalled and not snoozed, has a block in the alert
\* file, whichever writer came last and wherever a scan was killed.
THEOREM StallsReported == Shadows = {} => (Spec => []StallsAreAnnounced)
<1>1. Shadows = {} /\ Init => TypeInv /\ AllBacked
  BY InitTypes, InitBacked
<1>2. Shadows = {} /\ (TypeInv /\ AllBacked) /\ [Next]_vars => (TypeInv /\ AllBacked)'
  BY NextTypes, NextBacked
<1>3. TypeInv /\ AllBacked => StallsAreAnnounced
  BY DEF StallsAreAnnounced, AllBacked, Backed, Claims
<1> SUFFICES ASSUME Shadows = {} PROVE Spec => []StallsAreAnnounced
  OBVIOUS
<1>4. Init => TypeInv /\ AllBacked
  BY <1>1
<1>5. (TypeInv /\ AllBacked) /\ [Next]_vars => (TypeInv /\ AllBacked)'
  BY <1>2
<1> QED BY <1>3, <1>4, <1>5, PTL DEF Spec
-----------------------------------------------------------------------------
(* What the steps of a scan change. *)

\* A step of a scan that copies entries, and leaves the rest as it is.
Copies ==
    /\ UNCHANGED <<day, file, ack>>
    /\ \A p \in Pursuits : truth'[p].quiet = truth[p].quiet /\ truth'[p].grace = truth[p].grace
    /\ \A p \in Pursuits : \/ notes'[p] = notes[p]
                           \/ \E r \in Scans : scan[r].phase = "scan" /\ notes'[p] = scan[r].updated[p]
    /\ \A s \in Scans : scan'[s].phase = "scan" =>
          \/ /\ scan'[s].today = day /\ scan'[s].checked = {}
             /\ \A p \in Pursuits : file[p] # NoFile =>
                   scan'[s].loaded[p] = notes[p] /\ scan'[s].updated[p] = notes[p]
          \/ /\ scan[s].phase = "scan" /\ scan'[s].today = scan[s].today
             /\ scan'[s].todo \subseteq scan[s].todo /\ scan'[s].checked = scan[s].checked
             /\ scan'[s].loaded = scan[s].loaded /\ scan'[s].updated = scan[s].updated

LEMMA TruthFields ==
    ASSUME NEW t \in Truths
    PROVE  /\ [t EXCEPT !.disturbed = TRUE].quiet = t.quiet /\ [t EXCEPT !.disturbed = TRUE].grace = t.grace
           /\ [t EXCEPT !.disturbed = TRUE].told = t.told /\ [t EXCEPT !.disturbed = TRUE].disturbed
           /\ \A tier : /\ [t EXCEPT !.told = tier].quiet = t.quiet /\ [t EXCEPT !.told = tier].grace = t.grace
                        /\ [t EXCEPT !.told = tier].told = tier
                        /\ [t EXCEPT !.told = tier].disturbed = t.disturbed
BY DEF Truths

LEMMA StartCopies ==
    ASSUME TypeInv, NEW r \in Scans, NEW scope, NEW bad, NEW force, Start(r, scope, bad, force)
    PROVE  Copies
<1> DEFINE updated == [p \in Pursuits |-> IF p \in Pruned(scope, bad) THEN NoEntry ELSE notes[p]]
           todo == {p \in Present : AccountOf[p] \in scope \ bad}
           begun == [phase |-> "scan", today |-> day, loaded |-> notes, updated |-> updated, todo |-> todo,
                     checked |-> {}, failed |-> bad # {}, excluded |-> FALSE, outcome |-> "ok"]
<1>1. scan' = [scan EXCEPT ![r] = begun] /\ notes' = notes /\ UNCHANGED <<day, file, ack>>
  BY DEF Start, Set
<1>2. \A p \in Pursuits : file[p] # NoFile => updated[p] = notes[p]
  BY DEF Pruned, Present
<1>3. begun.loaded = notes /\ begun.updated = updated /\ begun.today = day /\ begun.checked = {}
  OBVIOUS
<1>4. scan \in [Scans -> ScanRecords] /\ truth \in [Pursuits -> Truths]
  BY DEF TypeInv
<1>5. \A p \in Pursuits : truth'[p].quiet = truth[p].quiet /\ truth'[p].grace = truth[p].grace
  BY <1>4, TruthFields DEF Start
<1> HIDE DEF updated, todo, begun
<1>6. \A s \in Scans : scan'[s] = IF s = r THEN begun ELSE scan[s]
  BY <1>1, <1>4
<1> QED BY <1>1, <1>2, <1>3, <1>5, <1>6 DEF Copies

LEMMA PassOverCopies ==
    ASSUME TypeInv, NEW r \in Scans, NEW p \in Pursuits, PassOver(r, p)
    PROVE  Copies
<1> DEFINE excluded == [scan[r] EXCEPT !.todo = @ \ {p}, !.excluded = TRUE]
           failed == [scan[r] EXCEPT !.todo = @ \ {p}, !.failed = TRUE]
<1>1. /\ scan' = [scan EXCEPT ![r] = excluded] \/ scan' = [scan EXCEPT ![r] = failed]
      /\ truth' = truth /\ notes' = notes /\ UNCHANGED <<day, file, ack>>
  BY DEF PassOver, Set
<1>2. scan[r] \in ScanRecords /\ scan \in [Scans -> ScanRecords]
  BY DEF TypeInv
<1>3. \A step \in {excluded, failed} :
          /\ step.phase = scan[r].phase /\ step.loaded = scan[r].loaded /\ step.updated = scan[r].updated
          /\ step.today = scan[r].today /\ step.checked = scan[r].checked /\ step.todo \subseteq scan[r].todo
  BY <1>2 DEF ScanRecords
<1> HIDE DEF excluded, failed
<1>4. \A s \in Scans : scan'[s] = scan[s] \/ (s = r /\ scan'[s] \in {excluded, failed})
  BY <1>1, <1>2
<1> QED BY <1>1, <1>3, <1>4 DEF Copies

LEMMA EndCopies ==
    ASSUME TypeInv, NEW r \in Scans, Save(r) \/ SaveFails(r) \/ Report(r) \/ Kill(r)
    PROVE  Copies /\ \A s \in Scans : scan'[s] = scan[s] \/ scan'[s].phase # "scan"
<1>1. PICK idle : scan' = [scan EXCEPT ![r] = idle] /\ idle.phase # "scan"
  <2>1. CASE Report(r) \/ Kill(r)
    <3>1. scan' = [scan EXCEPT ![r] = Idle]
      BY <2>1 DEF Report, Kill, Set
    <3>2. Idle.phase # "scan"
      BY DEF Idle
    <3> QED BY <3>1, <3>2
  <2>2. CASE Save(r) \/ SaveFails(r)
    <3>1. PICK outcome : scan' = [scan EXCEPT ![r] = [Idle EXCEPT !.phase = "report", !.outcome = outcome]]
      BY <2>2 DEF Save, SaveFails, Set
    <3> DEFINE reported == [Idle EXCEPT !.phase = "report", !.outcome = outcome]
    <3>2. scan' = [scan EXCEPT ![r] = reported] /\ reported.phase # "scan"
      BY <3>1 DEF Idle
    <3> HIDE DEF reported
    <3> QED BY <3>2
  <2> QED BY <2>1, <2>2
<1>2. \A p \in Pursuits : truth'[p].quiet = truth[p].quiet /\ truth'[p].grace = truth[p].grace
  <2>1. truth \in [Pursuits -> Truths]
    BY DEF TypeInv
  <2>2. truth' = truth \/ Unnoted(r)
    BY DEF Save, SaveFails, Report, Kill
  <2>3. \A t \in Truths : [t EXCEPT !.disturbed = TRUE].quiet = t.quiet /\ [t EXCEPT !.disturbed = TRUE].grace = t.grace
    BY TruthFields
  <2>4. CASE Unnoted(r)
    BY <2>1, <2>3, <2>4 DEF Unnoted
  <2> QED BY <2>2, <2>4
<1>3. \A s \in Scans : scan'[s] = scan[s] \/ scan'[s].phase # "scan"
  BY <1>1 DEF TypeInv
<1>4. \A p \in Pursuits : notes'[p] = notes[p] \/ (scan[r].phase = "scan" /\ notes'[p] = scan[r].updated[p])
  BY DEF Save, SaveFails, Report, Kill, Merged
<1>5. UNCHANGED <<day, file, ack>>
  BY DEF Save, SaveFails, Report, Kill
<1> QED BY <1>2, <1>3, <1>4, <1>5 DEF Copies

\* What an examination does to the scan.
LEMMA ExamineScan ==
    ASSUME TypeInv, NEW r \in Scans, NEW p \in Pursuits, Examine(r, p)
    PROVE  /\ scan'[r].phase = "scan" /\ scan[r].phase = "scan" /\ scan'[r].today = scan[r].today
           /\ p \in scan[r].todo
           /\ scan'[r].todo = scan[r].todo \ {p} /\ scan'[r].checked = scan[r].checked \cup {p}
           /\ scan'[r].loaded = scan[r].loaded
           /\ \A q \in Pursuits : scan'[r].updated[q] = IF q = p THEN Notes(r, p) ELSE scan[r].updated[q]
           /\ \A s \in Scans \ {r} : scan'[s] = scan[s]
<1> DEFINE step == [scan[r] EXCEPT !.todo = @ \ {p}, !.checked = @ \cup {p}, !.updated[p] = Notes(r, p)]
<1>1. scan' = [scan EXCEPT ![r] = step] /\ scan[r].phase = "scan" /\ p \in scan[r].todo
  BY ExamineSteps
<1>2. scan[r] \in ScanRecords /\ scan \in [Scans -> ScanRecords]
  BY DEF TypeInv
<1>3. /\ step.loaded = scan[r].loaded /\ step.updated = [scan[r].updated EXCEPT ![p] = Notes(r, p)]
      /\ step.phase = scan[r].phase /\ step.today = scan[r].today
      /\ step.todo = scan[r].todo \ {p} /\ step.checked = scan[r].checked \cup {p}
  BY <1>2 DEF ScanRecords
<1>4. scan[r].updated \in [Pursuits -> Entry]
  BY <1>2 DEF ScanRecords
<1> HIDE DEF step
<1>5. scan'[r] = step /\ \A s \in Scans \ {r} : scan'[s] = scan[s]
  BY <1>1, <1>2
<1>6. \A q \in Pursuits : scan'[r].updated[q] = IF q = p THEN Notes(r, p) ELSE scan[r].updated[q]
  BY <1>3, <1>4, <1>5
<1> QED BY <1>1, <1>3, <1>5, <1>6

\* An examination leaves the graces, the snoozes and the disturbances.
LEMMA TellKeeps ==
    ASSUME TypeInv, NEW r \in Scans, NEW p \in Pursuits, Examine(r, p)
    PROVE  \A q \in Pursuits : truth'[q].quiet = truth[q].quiet /\ truth'[q].grace = truth[q].grace
                               /\ truth'[q].disturbed = truth[q].disturbed
<1>1. truth \in [Pursuits -> Truths]
  BY DEF TypeInv
<1>2. PICK tier : truth' = [truth EXCEPT ![p] = [truth[p] EXCEPT !.told = tier]] \/ truth' = truth
  <2>1. \/ truth' = [truth EXCEPT ![p] = [truth[p] EXCEPT !.told = DaysTier(Found(r, p).days)]]
        \/ truth' = truth
    BY ExamineSteps
  <2> QED BY <2>1, Zenon
<1> DEFINE told == [truth[p] EXCEPT !.told = tier]
<1>3. told.quiet = truth[p].quiet /\ told.grace = truth[p].grace /\ told.disturbed = truth[p].disturbed
  BY <1>1, TruthFields
<1>4. truth' = [truth EXCEPT ![p] = told] \/ truth' = truth
  BY <1>2
<1> HIDE DEF told
<1> QED BY <1>1, <1>3, <1>4

\* Only an examination announces, and only what it tells.
LEMMA AnnounceTells ==
    ASSUME TypeInv, [Next]_vars, NEW p \in Pursuits, Alerts(p)
    PROVE  \E r \in Scans : Examine(r, p) /\ Tells(r, p) /\ ~Headed(p)
<1>1. PICK r \in Scans, q \in Pursuits : Examine(r, q)
  BY DEF Alerts, Next, vars, NewDay, Skip, Advance, Create, Remove, AckLoad, AckSave, Start, PassOver,
         Save, SaveFails, Report, Kill
<1>2. IF Tells(r, q) /\ ~Headed(q) THEN alerts' = [alerts EXCEPT ![q] = day] ELSE alerts' = alerts
  BY <1>1, ExamineSteps
<1>3. alerts \in [Pursuits -> Nat]
  BY DEF TypeInv, TypeOK
<1>4. q = p /\ Tells(r, p) /\ ~Headed(p)
  BY <1>2, <1>3 DEF Alerts
<1> QED BY <1>1, <1>4

-----------------------------------------------------------------------------
(* A snooze holds: every copy of the notes has it. *)

LEMMA NewDayQuiet == TypeInv /\ AllQuiet /\ NewDay => AllQuiet'
<1> SUFFICES ASSUME TypeInv, AllQuiet, NewDay PROVE AllQuiet'
  OBVIOUS
<1>1. /\ day' = day + 1 /\ day \in Nat
      /\ file' = file /\ notes' = notes /\ scan' = scan
  BY DEF NewDay, TypeInv, TypeOK
<1>2. ASSUME NEW p \in Pursuits, truth'[p].quiet > day' PROVE Quiet(p)'
  <2>1. truth[p] \in Truths /\ truth[p].quiet \in Nat
    BY DEF TypeInv, Truths
  <2>2. truth'[p].quiet = Coming(truth[p].quiet)
    BY <2>1 DEF NewDay, Truths
  <2>3. truth'[p].quiet = truth[p].quiet /\ truth[p].quiet > day
    BY <1>1, <1>2, <2>1, <2>2 DEF Coming
  <2>4. Quiet(p)
    BY <2>3 DEF AllQuiet
  <2> QED BY <1>1, <2>3, <2>4 DEF Quiet
<1> QED BY <1>2 DEF AllQuiet

\* A change of the file ends its snooze.
LEMMA FileQuiet ==
    ASSUME TypeInv, AllQuiet, NEW p \in Pursuits,
           (\E s \in Stages, dated \in BOOLEAN : Advance(p, s, dated)) \/ (\E s \in Stages : Create(p, s)) \/ Remove(p)
    PROVE  AllQuiet'
<1>1. /\ truth \in [Pursuits -> Truths] /\ truth[p] \in Truths /\ file \in [Pursuits -> Files \cup {NoFile}]
      /\ day \in Nat \ {0} /\ day' = day /\ notes' = notes /\ scan' = scan
  BY DEF TypeInv, TypeOK, Advance, Create, Remove
<1>2. \A s : Stay(p, s).quiet = 0 /\ [Stay(p, s) EXCEPT !.grace = 0].quiet = 0
  BY DEF Stay
<1>3. [truth[p] EXCEPT !.grace = 0, !.quiet = 0].quiet = 0
  BY <1>1 DEF Truths
<1>4. PICK stay : truth' = [truth EXCEPT ![p] = stay] /\ stay.quiet = 0
  BY <1>2, <1>3 DEF Advance, Create, Remove
<1>5. PICK now : file' = [file EXCEPT ![p] = now]
  BY DEF Advance, Create, Remove
<1>6. ASSUME NEW q \in Pursuits, truth'[q].quiet > day' PROVE Quiet(q)'
  <2>1. q # p
    BY <1>1, <1>4, <1>6
  <2>2. truth'[q] = truth[q] /\ file'[q] = file[q]
    BY <1>1, <1>4, <1>5, <2>1
  <2>3. Quiet(q)
    BY <1>1, <1>6, <2>2 DEF AllQuiet
  <2> QED BY <1>1, <2>2, <2>3 DEF Quiet
<1> QED BY <1>6 DEF AllQuiet

\* A step that copies entries keeps the snoozes.
LEMMA CopyQuiet ==
    ASSUME AllQuiet, Copies
    PROVE  AllQuiet'
<1>1. ASSUME NEW p \in Pursuits, truth'[p].quiet > day' PROVE Quiet(p)'
  <2>1. Quiet(p) /\ truth'[p].quiet = truth[p].quiet /\ file'[p] = file[p]
    BY <1>1 DEF AllQuiet, Copies
  <2>2. Quiets(notes'[p], truth[p].quiet, file[p])
    BY <2>1 DEF Quiet, Copies
  <2>3. ASSUME NEW s \in Scans, scan'[s].phase = "scan"
        PROVE  /\ Quiets(scan'[s].loaded[p], truth[p].quiet, file[p])
               /\ Quiets(scan'[s].updated[p], truth[p].quiet, file[p])
    BY <2>1, <2>3 DEF Quiet, Copies
  <2> QED BY <2>1, <2>2, <2>3 DEF Quiet
<1> QED BY <1>1 DEF AllQuiet

LEMMA ExamineQuiet ==
    ASSUME TypeInv, AllQuiet, NEW r \in Scans, NEW p \in Pursuits, Examine(r, p)
    PROVE  AllQuiet'
<1> DEFINE step == [scan[r] EXCEPT !.todo = @ \ {p}, !.checked = @ \cup {p}, !.updated[p] = Notes(r, p)]
<1>1. /\ scan' = [scan EXCEPT ![r] = step] /\ scan[r].phase = "scan"
      /\ day' = day /\ file' = file /\ notes' = notes
  BY ExamineSteps
<1>2. scan[r] \in ScanRecords /\ scan \in [Scans -> ScanRecords]
  BY DEF TypeInv
<1>3. step.loaded = scan[r].loaded /\ step.updated = [scan[r].updated EXCEPT ![p] = Notes(r, p)]
  BY <1>2 DEF ScanRecords
<1>4. scan[r].updated \in [Pursuits -> Entry]
  BY <1>2 DEF ScanRecords
<1> HIDE DEF step
<1>5. \A q \in Pursuits : truth'[q].quiet = truth[q].quiet
  BY TellKeeps
<1>6. ASSUME NEW q \in Pursuits, truth'[q].quiet > day' PROVE Quiet(q)'
  <2>1. Quiet(q) /\ truth[q].quiet > day
    BY <1>1, <1>5, <1>6 DEF AllQuiet
  <2>2. q = p => Quiets(Notes(r, p), truth[p].quiet, file[p])
    <3> SUFFICES ASSUME q = p PROVE Quiets(Notes(r, p), truth[p].quiet, file[p])
      OBVIOUS
    <3> DEFINE e == scan[r].loaded[p]
    <3>1. Quiets(e, truth[p].quiet, file[p])
      BY <1>1, <2>1 DEF Quiet
    <3>2. e \in Entries /\ e # NoEntry /\ e.snooze \in Nat
      BY <1>2, <3>1 DEF Quiets, ScanRecords, Entry, Entries
    <3>3. ~StageChanged(e, file[p])
      BY <3>1 DEF Quiets, StageChanged
    <3>4. day \in Nat /\ truth[p].quiet \in Nat
      BY DEF TypeInv, TypeOK, Truths
    <3>5. e.snooze > day
      BY <2>1, <3>1, <3>2, <3>4 DEF Quiets
    <3>6. ~(e.snooze <= day)
      BY <3>2, <3>4, <3>5
    <3>7. Notes(r, p).snooze = e.snooze /\ Notes(r, p).stage = file[p].stage
      BY <3>2, <3>3, <3>6 DEF Notes, Noted
    <3>8. Notes(r, p) # NoEntry
      BY ExamineTypes, NoEntryIsNone
    <3> QED BY <3>1, <3>7, <3>8 DEF Quiets
  <2>3. ASSUME NEW s \in Scans, scan'[s].phase = "scan"
        PROVE  /\ Quiets(scan'[s].loaded[q], truth[q].quiet, file[q])
               /\ Quiets(scan'[s].updated[q], truth[q].quiet, file[q])
    <3>1. CASE s # r
      BY <1>1, <1>2, <2>1, <2>3, <3>1 DEF Quiet
    <3>2. CASE s = r
      <4>1. scan'[s].loaded[q] = scan[r].loaded[q]
        BY <1>1, <1>2, <1>3, <3>2
      <4>2. scan'[s].updated[q] = IF q = p THEN Notes(r, p) ELSE scan[r].updated[q]
        BY <1>1, <1>2, <1>3, <1>4, <3>2
      <4> QED BY <1>1, <2>1, <2>2, <4>1, <4>2 DEF Quiet
    <3> QED BY <3>1, <3>2
  <2> QED BY <1>1, <1>5, <2>1, <2>3 DEF Quiet
<1> QED BY <1>6 DEF AllQuiet

LEMMA AckQuiet ==
    ASSUME TypeInv, AllQuiet, NEW p \in Pursuits, AckLoad(p) \/ AckSave(p)
    PROVE  AllQuiet'
<1>1. UNCHANGED <<day, file, scan>>
  BY DEF AckLoad, AckSave
<1>2. CASE AckLoad(p)
  BY <1>1, <1>2 DEF AckLoad, AllQuiet, Quiet
<1>3. CASE AckSave(p)
  <2>1. /\ truth \in [Pursuits -> Truths] /\ truth[p] \in Truths /\ notes \in [Pursuits -> Entry]
        /\ day \in Nat \ {0}
    BY DEF TypeInv, TypeOK, Entry
  <2> DEFINE held == day + SnoozeDays
  <2>2. held \in Nat /\ ~(0 > day)
    BY <2>1, NumbersAreNatural
  <2>3. /\ \A until \in Nat : [truth[p] EXCEPT !.quiet = until].quiet = until
        /\ [truth[p] EXCEPT !.quiet = 0, !.disturbed = TRUE].quiet = 0
    BY <2>1 DEF Truths
  <2>4. truth'[p].quiet = IF notes[p] = ack.loaded /\ Running = {} /\ Current(p) THEN held ELSE 0
    BY <1>3, <2>1, <2>2, <2>3 DEF AckSave
  <2>5. \A q \in Pursuits \ {p} : truth'[q] = truth[q] /\ notes'[q] = notes[q]
    BY <1>3, <2>1 DEF AckSave
  <2>6. ASSUME NEW q \in Pursuits, truth'[q].quiet > day' PROVE Quiet(q)'
    <3>1. CASE q # p
      <4>1. Quiet(q) /\ truth'[q] = truth[q] /\ notes'[q] = notes[q]
        BY <1>1, <2>5, <2>6, <3>1 DEF AllQuiet
      <4> QED BY <1>1, <4>1 DEF Quiet
    <3>2. CASE q = p
      <4>1. /\ notes[p] = ack.loaded /\ Running = {} /\ Current(p)
            /\ truth'[p].quiet = held
        BY <1>1, <2>2, <2>4, <2>6, <3>2
      <4>2. notes'[p] = Acked
        BY <1>3, <2>1, <4>1 DEF AckSave
      <4>3. Acked \in Entries
        BY AckedType
      <4> DEFINE was == IF ack.loaded = NoEntry THEN Blank ELSE ack.loaded
      <4>4. was \in Entries
        BY BlankType DEF TypeInv, TypeOK
      <4>5. Acked.snooze = held /\ Acked.stage = was.stage
        BY <4>4 DEF Acked, Entries
      <4>6. was.stage \in {NoStage, file[p].stage}
        BY <4>1 DEF Current, Blank
      <4>7. Acked.snooze >= held
        BY <2>2, <4>5
      <4>8. Quiets(notes'[p], truth'[p].quiet, file[p])
        BY <4>1, <4>2, <4>3, <4>5, <4>6, <4>7, NoEntryIsNone DEF Quiets
      <4>9. file[p] # NoFile /\ \A r \in Scans : scan[r].phase # "scan"
        BY <4>1 DEF Current, Running
      <4> QED BY <1>1, <3>2, <4>8, <4>9 DEF Quiet
    <3> QED BY <3>1, <3>2
  <2> QED BY <2>6 DEF AllQuiet
<1> QED BY <1>2, <1>3

LEMMA NextQuiet == TypeInv /\ AllQuiet /\ [Next]_vars => AllQuiet'
<1> SUFFICES ASSUME TypeInv, AllQuiet, [Next]_vars PROVE AllQuiet'
  OBVIOUS
<1>1. CASE NewDay
  BY <1>1, NewDayQuiet
<1>2. CASE UNCHANGED <<day, file, notes, scan, ack, truth>>
  BY <1>2, CopyQuiet DEF Copies
<1>3. ASSUME NEW p \in Pursuits,
             (\E s \in Stages, dated \in BOOLEAN : Advance(p, s, dated)) \/ (\E s \in Stages : Create(p, s)) \/ Remove(p)
      PROVE  AllQuiet'
  BY <1>3, FileQuiet
<1>4. ASSUME NEW p \in Pursuits, AckLoad(p) \/ AckSave(p) PROVE AllQuiet'
  BY <1>4, AckQuiet
<1>5. ASSUME NEW r \in Scans, NEW scope, NEW bad, NEW force, Start(r, scope, bad, force) PROVE AllQuiet'
  BY <1>5, StartCopies, CopyQuiet
<1>6. ASSUME NEW r \in Scans, NEW p \in Pursuits, PassOver(r, p) PROVE AllQuiet'
  BY <1>6, PassOverCopies, CopyQuiet
<1>7. ASSUME NEW r \in Scans, NEW p \in Pursuits, Examine(r, p) PROVE AllQuiet'
  BY <1>7, ExamineQuiet
<1>8. ASSUME NEW r \in Scans, Save(r) \/ SaveFails(r) \/ Report(r) \/ Kill(r) PROVE AllQuiet'
  BY <1>8, EndCopies, CopyQuiet
<1>9. CASE Skip
  BY <1>2, <1>9 DEF Skip
<1> QED BY <1>1, <1>2, <1>3, <1>4, <1>5, <1>6, <1>7, <1>8, <1>9 DEF Next, vars

LEMMA InitQuiet == Init => AllQuiet
<1> SUFFICES ASSUME Init, NEW p \in Pursuits PROVE ~(truth[p].quiet > day)
  BY DEF AllQuiet
<1>1. truth[p].quiet = 0 /\ day = 1
  BY DEF Init
<1> QED BY <1>1

\* The only steps that announce find no snooze that is to hold.
LEMMA AnnounceOnlyAwake ==
    ASSUME TypeInv, AllQuiet, [Next]_vars, NEW p \in Pursuits, Alerts(p)
    PROVE  day >= truth[p].quiet
<1>1. PICK r \in Scans : Examine(r, p) /\ Tells(r, p)
  BY AnnounceTells
<1>2. day \in Nat /\ truth[p].quiet \in Nat
  BY DEF TypeInv, TypeOK, Truths
<1>3. CASE truth[p].quiet > day
  <2>1. Quiets(scan[r].loaded[p], truth[p].quiet, file[p])
    <3>1. scan[r].phase = "scan"
      BY <1>1, ExamineSteps
    <3> QED BY <1>3, <3>1 DEF AllQuiet, Quiet
  <2>2. scan[r].loaded[p] \in Entries
    BY <2>1 DEF TypeInv, ScanRecords, Entry, Quiets
  <2>3. scan[r].loaded[p].snooze > day
    BY <1>2, <1>3, <2>1, <2>2 DEF Quiets, Entries
  <2>4. Snoozed(scan[r].loaded[p], day)
    BY <2>1, <2>3 DEF Snoozed, Quiets
  <2> QED BY <1>1, <2>4 DEF Tells
<1> QED BY <1>2, <1>3

\* A snooze of a stage the notes know holds for its days, or until the stage
\* changes, but for one saved while a scan runs.
THEOREM SnoozesHold == Spec => SnoozeHolds
<1>1. Init => TypeInv /\ AllQuiet
  BY InitTypes, InitQuiet
<1>2. (TypeInv /\ AllQuiet) /\ [Next]_vars => (TypeInv /\ AllQuiet)'
  BY NextTypes, NextQuiet
<1>3. (TypeInv /\ AllQuiet) /\ [Next]_vars =>
          [\A p \in Pursuits : Alerts(p) => day >= truth[p].quiet]_vars
  BY AnnounceOnlyAwake
<1> QED BY <1>1, <1>2, <1>3, PTL DEF Spec, SnoozeHolds

-----------------------------------------------------------------------------
(* A grace holds: every copy of the notes shows when the stage changed. *)

\* A scan goes by a day that has come, and does not look at a pursuit twice.
Timely == \A r \in Scans : scan[r].phase = "scan" =>
    scan[r].today <= day /\ scan[r].todo \cap scan[r].checked = {}

LEMMA CopyTimely ==
    ASSUME TypeInv, Timely, Copies
    PROVE  Timely'
<1>1. day \in Nat
  BY DEF TypeInv, TypeOK
<1>2. ASSUME NEW s \in Scans, scan'[s].phase = "scan"
      PROVE  scan'[s].today <= day' /\ scan'[s].todo \cap scan'[s].checked = {}
  <2>1. CASE scan'[s].today = day /\ scan'[s].checked = {}
    BY <1>1, <2>1 DEF Copies
  <2>2. CASE ~(scan'[s].today = day /\ scan'[s].checked = {})
    BY <1>2, <2>2 DEF Copies, Timely
  <2> QED BY <2>1, <2>2
<1> QED BY <1>2 DEF Timely

LEMMA NextTimely == TypeInv /\ Timely /\ [Next]_vars => Timely'
<1> SUFFICES ASSUME TypeInv, Timely, [Next]_vars PROVE Timely'
  OBVIOUS
<1>1. day \in Nat /\ \A s \in Scans : scan[s].today \in Nat
  BY DEF TypeInv, TypeOK, ScanRecords
<1>2. CASE scan' = scan /\ day' \in {day, day + 1}
  BY <1>1, <1>2 DEF Timely
<1>3. ASSUME NEW r \in Scans, NEW scope, NEW bad, NEW force, Start(r, scope, bad, force) PROVE Timely'
  BY <1>3, StartCopies, CopyTimely
<1>4. ASSUME NEW r \in Scans, NEW p \in Pursuits, PassOver(r, p) PROVE Timely'
  BY <1>4, PassOverCopies, CopyTimely
<1>5. ASSUME NEW r \in Scans, Save(r) \/ SaveFails(r) \/ Report(r) \/ Kill(r) PROVE Timely'
  BY <1>5, EndCopies, CopyTimely
<1>6. ASSUME NEW r \in Scans, NEW p \in Pursuits, Examine(r, p) PROVE Timely'
  <2>1. day' = day
    BY <1>6, ExamineSteps
  <2> QED BY <1>6, <2>1, ExamineScan DEF Timely
<1> QED BY <1>2, <1>3, <1>4, <1>5, <1>6 DEF Next, vars, NewDay, Skip, Advance, Create, Remove, AckLoad, AckSave

LEMMA InitTimely == Init => Timely
BY DEF Init, Timely, Idle

\* The day the grace of p began.
Since(p) == truth[p].grace - Threshold - 1

\* Entry e shows that file f changed its stage on that day or later.
Youngs(e, f, since) ==
    /\ e # NoEntry /\ e.stage # NoStage
    /\ IF e.stage = f.stage THEN f.moved >= since \/ e.detected >= since
       ELSE f.moved >= since \/ e.moved = f.moved

\* While there is a grace, every copy of the entry shows it.
Young(p) ==
    /\ file[p] # NoFile
    /\ Since(p) <= day
    /\ Youngs(notes[p], file[p], Since(p))
    /\ \A r \in Scans : scan[r].phase = "scan" =>
          /\ scan[r].today >= Since(p)
          /\ Youngs(scan[r].loaded[p], file[p], Since(p))
          /\ Youngs(scan[r].updated[p], file[p], Since(p))
    /\ ack.pursuit = {p} => Youngs(ack.loaded, file[p], Since(p))

AllYoung == \A p \in Pursuits : truth[p].grace > day => Young(p)

\* A change of stage of a file the notes know is dated, by the day or by the
\* date the notes have of the file: the one that detect_stage_change() compares.
DatesSeen == \A p \in Pursuits :
    file[p] # NoFile /\ file'[p] # NoFile /\ file'[p] # file[p] /\ Seen(p, file'[p].stage)
        => file'[p].moved = day \/ notes[p].moved = file[p].moved

LEMMA YoungJudged ==
    ASSUME Threshold <= SentinelDays, NEW e \in Entry, NEW f \in Files, NEW today \in Nat, NEW since \in Int,
           Youngs(e, f, since), since <= today, today - since <= Threshold
    PROVE  /\ ~Judged(e, f, today).stalled
           /\ Judged(e, f, today).detected >= since \/ f.moved >= since
<1>1. /\ e # NoEntry /\ e.stage # NoStage /\ e.detected \in Nat /\ e.moved \in Nat /\ f.moved \in Nat
      /\ Threshold \in Nat /\ SentinelDays \in Nat
  BY NumbersAreNatural DEF Youngs, Entry, Entries, Files
<1>2. CASE StageChanged(e, f)
  <2>1. Judged(e, f, today) = [moved |-> f.moved, days |-> 0, stalled |-> FALSE,
                               detected |-> IF f.moved = e.moved THEN today ELSE 0]
    BY <1>2 DEF Judged
  <2>2. f.moved >= since \/ e.moved = f.moved
    BY <1>2 DEF StageChanged, Youngs
  <2> QED BY <2>1, <2>2
<1>3. CASE ~StageChanged(e, f)
  <2> DEFINE from == IF Detected(e, f, today) THEN e.detected ELSE f.moved
             kept == IF Detected(e, f, today) THEN e.detected ELSE 0
  <2>1. Judged(e, f, today) = [moved |-> from, days |-> today - from,
                               stalled |-> today - from > Threshold, detected |-> kept]
    BY <1>3 DEF Judged
  <2>2. f.moved >= since \/ e.detected >= since
    BY <1>1, <1>3 DEF StageChanged, Youngs
  <2>3. f.moved >= since \/ Detected(e, f, today)
    BY <1>1, <2>2 DEF Detected
  <2>4. from >= since /\ (kept >= since \/ f.moved >= since) /\ from \in Nat
    BY <1>1, <2>2, <2>3 DEF Detected
  <2> HIDE DEF from, kept
  <2>5. ~(today - from > Threshold)
    BY <1>1, <2>4
  <2>6. Judged(e, f, today).stalled = (today - from > Threshold)
    BY <2>1
  <2>7. Judged(e, f, today).detected = kept
    BY <2>1
  <2> QED BY <2>4, <2>5, <2>6, <2>7
<1> QED BY <1>2, <1>3

LEMMA YoungNoted ==
    ASSUME Threshold <= SentinelDays, NEW e \in Entry, NEW f \in Files, NEW today \in Nat, NEW since \in Int,
           Youngs(e, f, since), since <= today, today - since <= Threshold,
           NEW told \in BOOLEAN, NEW now \in Nat
    PROVE  Youngs(Noted(e, f, Judged(e, f, today), told, now), f, since)
<1> DEFINE found == Judged(e, f, today)
           noted == Noted(e, f, found, told, now)
<1>1. noted \in Entries
  BY NotedType
<1>2. noted.stage = f.stage /\ noted.detected = found.detected
  BY DEF Noted
<1>3. found.detected >= since \/ f.moved >= since
  BY YoungJudged
<1>4. f.stage # NoStage
  BY StagesAreStages DEF Files
<1> HIDE DEF found, noted
<1>5. Youngs(noted, f, since)
  BY <1>1, <1>2, <1>3, <1>4, NoEntryIsNone DEF Youngs
<1> QED BY <1>5 DEF found, noted

LEMMA NewDayYoung == TypeInv /\ AllYoung /\ NewDay => AllYoung'
<1> SUFFICES ASSUME TypeInv, AllYoung, NewDay PROVE AllYoung'
  OBVIOUS
<1>1. /\ day' = day + 1 /\ day \in Nat
      /\ file' = file /\ notes' = notes /\ scan' = scan /\ ack' = ack
  BY DEF NewDay, TypeInv, TypeOK
<1>2. ASSUME NEW p \in Pursuits, truth'[p].grace > day' PROVE Young(p)'
  <2>1. truth[p] \in Truths /\ truth[p].grace \in Nat
    BY DEF TypeInv, Truths
  <2>2. truth'[p].grace = Coming(truth[p].grace)
    BY <2>1 DEF NewDay, Truths
  <2>3. truth'[p].grace = truth[p].grace /\ truth[p].grace > day
    BY <1>1, <1>2, <2>1, <2>2 DEF Coming
  <2>4. Young(p) /\ Since(p)' = Since(p)
    BY <2>3 DEF AllYoung, Since
  <2>5. Since(p) <= day'
    BY <1>1, <2>1, <2>4, NumbersAreNatural DEF Young, Since
  <2> QED BY <1>1, <2>4, <2>5 DEF Young
<1> QED BY <1>2 DEF AllYoung

\* A change of the file begins a grace if it is seen, and ends one if not.
LEMMA AdvanceYoung ==
    ASSUME TypeInv, AllYoung, DatesSeen, NEW p \in Pursuits, NEW s \in Stages, NEW dated \in BOOLEAN,
           Advance(p, s, dated)
    PROVE  AllYoung'
<1>1. /\ truth \in [Pursuits -> Truths] /\ file \in [Pursuits -> Files \cup {NoFile}]
      /\ day \in Nat \ {0} /\ UNCHANGED <<day, notes, scan, ack>> /\ Threshold \in Nat
  BY NumbersAreNatural DEF TypeInv, TypeOK, Advance
<1> DEFINE now == [stage |-> s, moved |-> IF dated THEN day ELSE file[p].moved]
<1>2. file' = [file EXCEPT ![p] = now] /\ truth' = [truth EXCEPT ![p] = Stay(p, s)] /\ file[p] # NoFile
  BY DEF Advance
<1>3. file[p] \in Files /\ s # file[p].stage
  BY <1>1 DEF Advance
<1>4. now.stage = s /\ now.moved = (IF dated THEN day ELSE file[p].moved) /\ now \in Files
  BY <1>1, <1>3 DEF Files
<1> HIDE DEF now
<1>5. file'[p] = now /\ truth'[p] = Stay(p, s)
  BY <1>1, <1>2
<1>6. now # NoFile
  BY <1>4, NoFileIsNone
<1>7. Stay(p, s).grace = IF Seen(p, s) THEN day + Threshold + 1 ELSE 0
  BY DEF Stay
<1>8. ASSUME NEW q \in Pursuits, truth'[q].grace > day' PROVE Young(q)'
  <2>1. CASE q # p
    <3>1. truth'[q] = truth[q] /\ file'[q] = file[q]
      BY <1>1, <1>2, <2>1
    <3>2. Young(q) /\ Since(q)' = Since(q)
      BY <1>1, <1>8, <3>1 DEF AllYoung, Since
    <3> QED BY <1>1, <3>1, <3>2 DEF Young
  <2>2. CASE q = p
    <3>1. Seen(p, s) /\ truth'[p].grace = day + Threshold + 1
      BY <1>1, <1>5, <1>7, <1>8, <2>2
    <3>2. Since(p)' = day
      BY <1>1, <3>1 DEF Since
    <3>3. now.moved = day \/ notes[p].moved = now.moved
      <4>1. file'[p] # file[p] /\ file'[p] # NoFile /\ file'[p].stage = s
        BY <1>3, <1>4, <1>5, <1>6
      <4>2. now.moved = day \/ notes[p].moved = file[p].moved
        BY <1>2, <1>5, <3>1, <4>1 DEF DatesSeen
      <4> QED BY <1>4, <4>2
    <3>4. Youngs(notes[p], now, day)
      BY <1>1, <1>4, <3>1, <3>3 DEF Youngs, Seen
    <3>5. ack.pursuit # {p} /\ \A r \in Scans : scan[r].phase # "scan"
      BY <3>1 DEF Seen, Running, NoAck
    <3> QED BY <1>1, <1>5, <1>6, <2>2, <3>2, <3>4, <3>5 DEF Young
  <2> QED BY <2>1, <2>2
<1> QED BY <1>8 DEF AllYoung

LEMMA FileYoung ==
    ASSUME TypeInv, AllYoung, NEW p \in Pursuits, Remove(p) \/ \E s \in Stages : Create(p, s)
    PROVE  AllYoung'
<1>1. /\ truth \in [Pursuits -> Truths] /\ truth[p] \in Truths /\ file \in [Pursuits -> Files \cup {NoFile}]
      /\ day \in Nat \ {0} /\ UNCHANGED <<day, notes, scan, ack>>
  BY DEF TypeInv, TypeOK, Remove, Create
<1>2. \A s : [Stay(p, s) EXCEPT !.grace = 0].grace = 0
  BY DEF Stay
<1>3. [truth[p] EXCEPT !.grace = 0, !.quiet = 0].grace = 0
  BY <1>1 DEF Truths
<1>4. PICK stay : truth' = [truth EXCEPT ![p] = stay] /\ stay.grace = 0
  BY <1>2, <1>3 DEF Create, Remove
<1>5. PICK now : file' = [file EXCEPT ![p] = now]
  BY DEF Create, Remove
<1>6. ASSUME NEW q \in Pursuits, truth'[q].grace > day' PROVE Young(q)'
  <2>1. q # p
    BY <1>1, <1>4, <1>6
  <2>2. truth'[q] = truth[q] /\ file'[q] = file[q]
    BY <1>1, <1>4, <1>5, <2>1
  <2>3. Young(q) /\ Since(q)' = Since(q)
    BY <1>1, <1>6, <2>2 DEF AllYoung, Since
  <2> QED BY <1>1, <2>2, <2>3 DEF Young
<1> QED BY <1>6 DEF AllYoung

LEMMA CopyYoung ==
    ASSUME TypeInv, AllYoung, Copies
    PROVE  AllYoung'
<1>1. ASSUME NEW p \in Pursuits, truth'[p].grace > day' PROVE Young(p)'
  <2>1. /\ Young(p) /\ truth'[p].grace = truth[p].grace /\ file'[p] = file[p] /\ Since(p)' = Since(p)
        /\ day' = day /\ ack' = ack
    BY <1>1 DEF AllYoung, Copies, Since
  <2>2. Youngs(notes'[p], file[p], Since(p))
    BY <2>1 DEF Young, Copies
  <2>3. ASSUME NEW s \in Scans, scan'[s].phase = "scan"
        PROVE  /\ scan'[s].today >= Since(p)
               /\ Youngs(scan'[s].loaded[p], file[p], Since(p))
               /\ Youngs(scan'[s].updated[p], file[p], Since(p))
    <3>1. CASE /\ scan'[s].today = day
               /\ scan'[s].loaded[p] = notes[p] /\ scan'[s].updated[p] = notes[p]
      <4>1. day >= Since(p)
        <5>1. day \in Nat /\ truth[p].grace \in Nat /\ Threshold \in Nat /\ Since(p) <= day
          BY <2>1, NumbersAreNatural DEF TypeInv, TypeOK, Truths, Young
        <5> QED BY <5>1 DEF Since
      <4> QED BY <2>1, <3>1, <4>1 DEF Young
    <3>2. CASE /\ scan[s].phase = "scan" /\ scan'[s].today = scan[s].today
               /\ scan'[s].loaded = scan[s].loaded /\ scan'[s].updated = scan[s].updated
      BY <2>1, <3>2 DEF Young
    <3> QED BY <2>1, <2>3, <3>1, <3>2 DEF Copies, Young
  <2> QED BY <2>1, <2>2, <2>3 DEF Young
<1> QED BY <1>1 DEF AllYoung

\* What a scan has of p while there is a grace.
LEMMA YoungScan ==
    ASSUME TypeInv, Timely, AllYoung, NEW r \in Scans, NEW p \in Pursuits,
           scan[r].phase = "scan", truth[p].grace > day
    PROVE  /\ scan[r].loaded[p] \in Entry /\ file[p] \in Files /\ scan[r].today \in Nat /\ Since(p) \in Int
           /\ Youngs(scan[r].loaded[p], file[p], Since(p))
           /\ Since(p) <= scan[r].today /\ scan[r].today - Since(p) <= Threshold
<1>1. Young(p) /\ scan[r].today <= day
  BY DEF AllYoung, Timely
<1>2. /\ day \in Nat /\ truth[p].grace \in Nat /\ scan[r].today \in Nat /\ Threshold \in Nat
      /\ scan[r].loaded[p] \in Entry
  BY NumbersAreNatural DEF TypeInv, TypeOK, Truths, ScanRecords
<1>3. file[p] \in Files
  BY <1>1 DEF Young, TypeInv, TypeOK
<1>4. scan[r].today >= Since(p) /\ Youngs(scan[r].loaded[p], file[p], Since(p))
  BY <1>1 DEF Young
<1>5. Since(p) = truth[p].grace - Threshold - 1
  BY DEF Since
<1> QED BY <1>1, <1>2, <1>3, <1>4, <1>5

LEMMA ExamineYoung ==
    ASSUME Threshold <= SentinelDays, TypeInv, Timely, AllYoung,
           NEW r \in Scans, NEW p \in Pursuits, Examine(r, p)
    PROVE  AllYoung'
<1>1. UNCHANGED <<day, file, notes, ack>> /\ scan[r].phase = "scan"
  BY ExamineSteps
<1>2. ASSUME NEW q \in Pursuits, truth'[q].grace > day' PROVE Young(q)'
  <2>1. truth'[q].grace = truth[q].grace /\ truth[q].grace > day
    BY <1>1, <1>2, TellKeeps
  <2>2. Young(q) /\ Since(q)' = Since(q)
    BY <2>1 DEF AllYoung, Since
  <2>3. q = p => Youngs(Notes(r, p), file[p], Since(p))
    <3> SUFFICES ASSUME q = p PROVE Youngs(Notes(r, p), file[p], Since(p))
      OBVIOUS
    <3>1. /\ scan[r].loaded[p] \in Entry /\ file[p] \in Files /\ scan[r].today \in Nat /\ Since(p) \in Int
          /\ Youngs(scan[r].loaded[p], file[p], Since(p))
          /\ Since(p) <= scan[r].today /\ scan[r].today - Since(p) <= Threshold
      BY <1>1, <2>1, YoungScan
    <3>2. Tells(r, p) \in BOOLEAN /\ day \in Nat
      BY DEF Tells, TypeInv, TypeOK
    <3> QED BY <3>1, <3>2, YoungNoted DEF Notes, Found
  <2>4. ASSUME NEW s \in Scans, scan'[s].phase = "scan"
        PROVE  /\ scan'[s].today >= Since(q)
               /\ Youngs(scan'[s].loaded[q], file[q], Since(q))
               /\ Youngs(scan'[s].updated[q], file[q], Since(q))
    <3>1. CASE s # r
      <4>1. scan'[s] = scan[s]
        BY <3>1, ExamineScan
      <4> QED BY <2>2, <2>4, <4>1 DEF Young
    <3>2. CASE s = r
      <4>1. /\ scan'[r].today = scan[r].today /\ scan'[r].loaded = scan[r].loaded
            /\ scan'[r].updated[q] = IF q = p THEN Notes(r, p) ELSE scan[r].updated[q]
        BY ExamineScan
      <4> QED BY <1>1, <2>2, <2>3, <3>2, <4>1 DEF Young
    <3> QED BY <3>1, <3>2
  <2> QED BY <1>1, <2>2, <2>4 DEF Young
<1> QED BY <1>2 DEF AllYoung

LEMMA AckYoung ==
    ASSUME TypeInv, AllYoung, NEW p \in Pursuits, AckLoad(p) \/ AckSave(p)
    PROVE  AllYoung'
<1>1. UNCHANGED <<day, file, scan>>
  BY DEF AckLoad, AckSave
<1>2. truth \in [Pursuits -> Truths] /\ notes \in [Pursuits -> Entry]
  BY DEF TypeInv, TypeOK, Entry
<1>3. CASE AckLoad(p)
  <2>1. ack' = [pursuit |-> {p}, loaded |-> notes[p]] /\ UNCHANGED <<notes, truth>>
    BY <1>3 DEF AckLoad
  <2>2. ASSUME NEW q \in Pursuits, truth'[q].grace > day' PROVE Young(q)'
    <3>1. Young(q) /\ Since(q)' = Since(q)
      BY <1>1, <2>1, <2>2 DEF AllYoung, Since
    <3>2. ack'.pursuit = {q} => ack'.loaded = notes[q]
      BY <2>1
    <3> QED BY <1>1, <2>1, <3>1, <3>2 DEF Young
  <2> QED BY <2>2 DEF AllYoung
<1>4. CASE AckSave(p)
  <2>1. ack' = NoAck /\ ack.pursuit = {p}
    BY <1>4 DEF AckSave
  <2>2. \A q \in Pursuits \ {p} : truth'[q] = truth[q] /\ notes'[q] = notes[q]
    BY <1>2, <1>4 DEF AckSave
  <2>3. truth'[p].grace = truth[p].grace
    <3>1. /\ \A until : [truth[p] EXCEPT !.quiet = until].grace = truth[p].grace
          /\ [truth[p] EXCEPT !.quiet = 0, !.disturbed = TRUE].grace = truth[p].grace
      BY <1>2 DEF Truths
    <3> QED BY <1>2, <1>4, <3>1 DEF AckSave
  <2>4. notes'[p] = notes[p] \/ notes'[p] = Acked
    BY <1>2, <1>4 DEF AckSave
  <2>5. \A q \in Pursuits : ack'.pursuit # {q}
    BY <2>1 DEF NoAck
  <2>6. ASSUME NEW q \in Pursuits, truth'[q].grace > day' PROVE Young(q)'
    <3>1. truth'[q].grace = truth[q].grace
      BY <2>2, <2>3
    <3>2. Young(q) /\ Since(q)' = Since(q)
      BY <1>1, <2>6, <3>1 DEF AllYoung, Since
    <3>3. Youngs(notes'[q], file[q], Since(q))
      <4>1. CASE notes'[q] = notes[q]
        BY <3>2, <4>1 DEF Young
      <4>2. CASE q = p /\ notes'[q] = Acked
        <5>1. Youngs(ack.loaded, file[p], Since(p))
          BY <2>1, <3>2, <4>2 DEF Young
        <5>2. ack.loaded \in Entries /\ ack.loaded # NoEntry
          BY <5>1 DEF Youngs, TypeInv, TypeOK
        <5>3. Acked.stage = ack.loaded.stage /\ Acked.moved = ack.loaded.moved
              /\ Acked.detected = ack.loaded.detected
          BY <5>2 DEF Acked, Entries
        <5>4. Acked # NoEntry
          BY AckedType, NoEntryIsNone
        <5> QED BY <4>2, <5>1, <5>3, <5>4 DEF Youngs
      <4> QED BY <2>2, <2>4, <4>1, <4>2
    <3> QED BY <1>1, <2>5, <3>2, <3>3 DEF Young
  <2> QED BY <2>6 DEF AllYoung
<1> QED BY <1>3, <1>4

LEMMA NextYoung ==
    ASSUME Threshold <= SentinelDays, TypeInv, Timely, AllYoung, [Next /\ DatesSeen]_vars
    PROVE  AllYoung'
<1>1. CASE NewDay
  BY <1>1, NewDayYoung
<1>2. CASE UNCHANGED <<day, file, notes, scan, ack, truth>>
  BY <1>2, CopyYoung DEF Copies
<1>3. CASE DatesSeen /\ \E p \in Pursuits, s \in Stages, dated \in BOOLEAN : Advance(p, s, dated)
  BY <1>3, AdvanceYoung
<1>4. ASSUME NEW p \in Pursuits, Remove(p) \/ \E s \in Stages : Create(p, s) PROVE AllYoung'
  BY <1>4, FileYoung
<1>5. ASSUME NEW p \in Pursuits, AckLoad(p) \/ AckSave(p) PROVE AllYoung'
  BY <1>5, AckYoung
<1>6. ASSUME NEW r \in Scans, NEW scope, NEW bad, NEW force, Start(r, scope, bad, force) PROVE AllYoung'
  BY <1>6, StartCopies, CopyYoung
<1>7. ASSUME NEW r \in Scans, NEW p \in Pursuits, PassOver(r, p) PROVE AllYoung'
  BY <1>7, PassOverCopies, CopyYoung
<1>8. ASSUME NEW r \in Scans, NEW p \in Pursuits, Examine(r, p) PROVE AllYoung'
  BY <1>8, ExamineYoung
<1>9. ASSUME NEW r \in Scans, Save(r) \/ SaveFails(r) \/ Report(r) \/ Kill(r) PROVE AllYoung'
  BY <1>9, EndCopies, CopyYoung
<1>10. CASE Skip
  BY <1>2, <1>10 DEF Skip
<1> QED BY <1>1, <1>2, <1>3, <1>4, <1>5, <1>6, <1>7, <1>8, <1>9, <1>10 DEF Next, vars

LEMMA InitYoung == Init => AllYoung
<1> SUFFICES ASSUME Init, NEW p \in Pursuits PROVE ~(truth[p].grace > day)
  BY DEF AllYoung
<1>1. truth[p].grace = 0 /\ day = 1
  BY DEF Init
<1> QED BY <1>1

\* The only steps that announce find no grace.
LEMMA AnnounceNoneYoung ==
    ASSUME Threshold <= SentinelDays, TypeInv, Timely, AllYoung, [Next]_vars, NEW p \in Pursuits, Alerts(p)
    PROVE  day >= truth[p].grace
<1>1. PICK r \in Scans : Examine(r, p) /\ Tells(r, p)
  BY AnnounceTells
<1>2. day \in Nat /\ truth[p].grace \in Nat
  BY DEF TypeInv, TypeOK, Truths
<1>3. CASE truth[p].grace > day
  <2>1. scan[r].phase = "scan"
    BY <1>1, ExamineSteps
  <2>2. ~Found(r, p).stalled
    BY <1>3, <2>1, YoungScan, YoungJudged DEF Found
  <2> QED BY <1>1, <2>2 DEF Tells
<1> QED BY <1>2, <1>3

\* A pursuit that changed its stage after a scan had noted another is not
\* reported as stuck before it has been there for longer than the threshold, if
\* a detected change is remembered that long and the notes can date each change.
THEOREM GraceHolds ==
    ASSUME Threshold <= SentinelDays
    PROVE  Spec /\ [][DatesSeen]_vars => GraceAfterStageChange
<1>1. Init => TypeInv /\ Timely /\ AllYoung
  BY InitTypes, InitTimely, InitYoung
<1>2. (TypeInv /\ Timely /\ AllYoung) /\ [Next]_vars /\ [DatesSeen]_vars => (TypeInv /\ Timely /\ AllYoung)'
  BY NextTypes, NextTimely, NextYoung
<1>3. (TypeInv /\ Timely /\ AllYoung) /\ [Next]_vars =>
          [\A p \in Pursuits : Alerts(p) => day >= truth[p].grace]_vars
  BY AnnounceNoneYoung
<1> QED BY <1>1, <1>2, <1>3, PTL DEF Spec, GraceAfterStageChange

-----------------------------------------------------------------------------
(* Alerts climb: what was announced is noted, or to be noted. *)

\* The day an entry has its pursuit moved on.
Base(e, f) == IF e.detected > f.moved THEN e.detected ELSE f.moved

\* On that date, entry e shows that file f is stalled and was announced at that tier.
Shows(e, f, tier, date) ==
    /\ e # NoEntry /\ e.stage = f.stage
    /\ e.stalled /\ e.tier >= tier
    /\ date - Base(e, f) > Threshold

\* What was announced of p is noted, and every scan knows it.
Standing(p) ==
    /\ Shows(notes[p], file[p], truth[p].told, day)
    /\ \A r \in Scans : scan[r].phase = "scan" =>
          /\ Shows(scan[r].loaded[p], file[p], truth[p].told, scan[r].today)
          /\ Shows(scan[r].updated[p], file[p], truth[p].told, scan[r].today)

\* A scan that examined p is to note what was announced of it.
Telling(p) == \E r \in Scans :
    /\ scan[r].phase = "scan" /\ p \in scan[r].checked
    /\ Shows(scan[r].updated[p], file[p], truth[p].told, scan[r].today)

Alone == \A r, s \in Running : r = s

\* Scans are alone while a pursuit is undisturbed, and what was announced of it
\* is noted or to be noted.
AllTold == \A p \in Pursuits : ~truth[p].disturbed =>
    Alone /\ (file[p] # NoFile /\ truth[p].told > 0 => Standing(p) \/ Telling(p))

LEMMA BaseType ==
    ASSUME NEW e \in Entries, NEW f \in Files
    PROVE  Base(e, f) \in Nat
BY DEF Base, Entries, Files

LEMMA ShowsLater ==
    ASSUME NEW e \in Entry, NEW f \in Files, NEW tier, NEW date \in Nat, NEW later \in Nat,
           Shows(e, f, tier, date), date <= later
    PROVE  Shows(e, f, tier, later)
<1>1. e \in Entries
  BY DEF Shows, Entry
<1>2. Base(e, f) \in Nat /\ Threshold \in Nat
  BY <1>1, BaseType, NumbersAreNatural
<1> QED BY <1>2 DEF Shows

\* The note of a stall shows it, at the tier that is told or had been.
LEMMA StallNoted ==
    ASSUME NEW e \in Entry, NEW f \in Files, NEW today \in Nat, NEW told \in BOOLEAN, NEW now \in Nat,
           Judged(e, f, today).stalled
    PROVE  \E noted \in Entries :
              /\ noted = Noted(e, f, Judged(e, f, today), told, now)
              /\ noted.stage = f.stage /\ noted.stalled
              /\ noted.tier = IF told THEN DaysTier(Judged(e, f, today).days)
                              ELSE IF e = NoEntry THEN 0 ELSE e.tier
              /\ today - Base(noted, f) > Threshold
<1> DEFINE found == Judged(e, f, today)
           noted == Noted(e, f, found, told, now)
           from == IF Detected(e, f, today) THEN e.detected ELSE f.moved
           kept == IF Detected(e, f, today) THEN e.detected ELSE 0
<1>1. ~StageChanged(e, f)
  BY JudgedType
<1>2. found = [moved |-> from, days |-> today - from,
               stalled |-> today - from > Threshold, detected |-> kept]
  BY <1>1 DEF Judged
<1>3. noted \in Entries
  BY NotedType
<1>4. /\ noted.stage = f.stage /\ noted.stalled = found.stalled /\ noted.detected = found.detected
      /\ noted.tier = IF told THEN DaysTier(found.days) ELSE (IF e = NoEntry THEN Blank ELSE e).tier
  BY <1>1 DEF Noted
<1>5. f.moved \in Nat /\ (e # NoEntry => e.detected \in Nat)
  BY DEF Files, Entry, Entries
<1>6. (IF kept > f.moved THEN kept ELSE f.moved) = from
  BY <1>5 DEF Detected
<1>7. found.stalled = (today - from > Threshold) /\ found.detected = kept
  <2> HIDE DEF from, kept, found
  <2>1. found.detected = kept
    BY <1>2
  <2>2. found.stalled = (today - from > Threshold)
    BY <1>2
  <2> QED BY <2>1, <2>2, Zenon
<1> HIDE DEF from, kept, noted, found
<1>8. today - from > Threshold
  <2>1. found.stalled
    BY DEF found
  <2> QED BY <1>7, <2>1, Zenon
<1>9. Base(noted, f) = from
  BY <1>4, <1>6, <1>7 DEF Base
<1>10. noted.stalled
  <2>1. found.stalled
    BY DEF found
  <2> QED BY <1>4, <2>1, Zenon
<1>11. noted.tier = IF told THEN DaysTier(found.days) ELSE IF e = NoEntry THEN 0 ELSE e.tier
  BY <1>4 DEF Blank
<1>12. today - Base(noted, f) > Threshold
  BY <1>8, <1>9
<1> QED BY <1>3, <1>4, <1>10, <1>11, <1>12 DEF noted, found

\* A stall that an entry shows is still one when it is judged by that entry.
LEMMA ShownIsStalled ==
    ASSUME NEW e \in Entry, NEW f \in Files, NEW today \in Nat, NEW tier, Shows(e, f, tier, today)
    PROVE  Judged(e, f, today).stalled
<1> DEFINE from == IF Detected(e, f, today) THEN e.detected ELSE f.moved
           kept == IF Detected(e, f, today) THEN e.detected ELSE 0
<1>1. ~StageChanged(e, f) /\ e \in Entries
  BY DEF Shows, StageChanged, Entry
<1>2. Judged(e, f, today) = [moved |-> from, days |-> today - from,
                             stalled |-> today - from > Threshold, detected |-> kept]
  BY <1>1 DEF Judged
<1>3. f.moved \in Nat /\ e.detected \in Nat /\ Threshold \in Nat
  BY <1>1, NumbersAreNatural DEF Files, Entries
<1>4. from <= Base(e, f) /\ from \in Nat
  BY <1>3 DEF Base, Detected
<1>5. today - Base(e, f) > Threshold /\ Base(e, f) \in Nat
  BY <1>1, BaseType DEF Shows
<1> HIDE DEF from, kept
<1>6. today - from > Threshold
  BY <1>3, <1>4, <1>5
<1>7. Judged(e, f, today).stalled = (today - from > Threshold)
  BY <1>2
<1> QED BY <1>6, <1>7, Zenon

\* Running scans can be counted.
Counted == IsFiniteSet(Running)

LEMMA AloneByCount ==
    ASSUME Counted, ~(Cardinality(Running) > 1)
    PROVE  Alone
<1> SUFFICES ASSUME NEW r \in Running, NEW s \in Running, r # s PROVE FALSE
  BY DEF Alone
<1>1. IsFiniteSet({r}) /\ Cardinality({r}) = 1
  BY FS_Singleton
<1>2. IsFiniteSet({r, s}) /\ Cardinality({r, s}) = 2
  <2>1. {r} \cup {s} = {r, s} /\ s \notin {r}
    OBVIOUS
  <2>2. IsFiniteSet({r} \cup {s}) /\ Cardinality({r} \cup {s}) = 2
    BY <1>1, <2>1, FS_AddElement
  <2> QED BY <2>1, <2>2
<1>3. Cardinality({r, s}) <= Cardinality(Running)
  BY <1>2, FS_Subset DEF Counted
<1>4. Cardinality(Running) \in Nat
  BY FS_CardinalityType DEF Counted
<1> QED BY <1>2, <1>3, <1>4

LEMMA NextCounted ==
    ASSUME TypeInv, Counted, [Next]_vars
    PROVE  Counted'
<1>1. CASE scan' = scan
  BY <1>1 DEF Counted, Running
<1>2. ASSUME NEW r \in Scans, NEW step, scan' = [scan EXCEPT ![r] = step] PROVE Counted'
  <2>1. Running' \subseteq Running \cup {r}
    BY <1>2 DEF Running, TypeInv
  <2>2. IsFiniteSet(Running \cup {r})
    BY FS_AddElement DEF Counted
  <2> QED BY <2>1, <2>2, FS_Subset DEF Counted
<1>3. CASE \E r \in Scans, p \in Pursuits : Examine(r, p)
  BY <1>2, <1>3, ExamineSteps
<1> QED BY <1>1, <1>2, <1>3 DEF Next, vars, NewDay, Skip, Advance, Create, Remove, AckLoad, AckSave,
         Start, PassOver, Save, SaveFails, Report, Kill, Set

LEMMA InitCounted == Init => Counted
<1> SUFFICES ASSUME Init PROVE Running = {}
  BY FS_EmptySet DEF Counted
<1> QED BY DEF Init, Running, Idle

\* What a pursuit has of it when another one, or the day, is what changes.
LEMMA SameTold ==
    ASSUME TypeInv, AllTold, NEW q \in Pursuits, day' \in Nat, day <= day',
           truth'[q].told = truth[q].told, truth'[q].disturbed = truth[q].disturbed,
           file'[q] = file[q], notes'[q] = notes[q], scan' = scan, ~truth'[q].disturbed
    PROVE  Alone' /\ (file'[q] # NoFile /\ truth'[q].told > 0 => Standing(q)' \/ Telling(q)')
<1>1. Alone' /\ Running' = Running
  BY DEF AllTold, Alone, Running
<1>2. ASSUME file'[q] # NoFile, truth'[q].told > 0 PROVE Standing(q)' \/ Telling(q)'
  <2>1. Standing(q) \/ Telling(q)
    BY <1>2 DEF AllTold
  <2>2. CASE Telling(q)
    BY <2>2 DEF Telling
  <2>3. CASE Standing(q)
    <3>1. notes[q] \in Entry /\ file[q] \in Files /\ day \in Nat
      BY <1>2 DEF TypeInv, TypeOK, Entry
    <3>2. Shows(notes[q], file[q], truth[q].told, day')
      BY <2>3, <3>1, ShowsLater DEF Standing
    <3> QED BY <2>3, <3>2 DEF Standing
  <2> QED BY <2>1, <2>2, <2>3
<1> QED BY <1>1, <1>2

LEMMA NewDayTold == TypeInv /\ AllTold /\ NewDay => AllTold'
<1> SUFFICES ASSUME TypeInv, AllTold, NewDay, NEW q \in Pursuits, ~truth'[q].disturbed
             PROVE  Alone' /\ (file'[q] # NoFile /\ truth'[q].told > 0 => Standing(q)' \/ Telling(q)')
  BY DEF AllTold
<1>1. day \in Nat /\ day' = day + 1 /\ file' = file /\ notes' = notes /\ scan' = scan
  BY DEF NewDay, TypeInv, TypeOK
<1>2. truth'[q] = [truth[q] EXCEPT !.grace = Coming(@), !.quiet = Coming(@)] /\ truth[q] \in Truths
  BY DEF NewDay, TypeInv
<1>3. truth'[q].told = truth[q].told /\ truth'[q].disturbed = truth[q].disturbed
  BY <1>2 DEF Truths
<1> QED BY <1>1, <1>3, SameTold

\* A stay begins with nothing told.
LEMMA FileTold ==
    ASSUME TypeInv, Counted, AllTold, NEW p \in Pursuits,
           (\E s \in Stages, dated \in BOOLEAN : Advance(p, s, dated)) \/ (\E s \in Stages : Create(p, s)) \/ Remove(p)
    PROVE  AllTold'
<1> SUFFICES ASSUME NEW q \in Pursuits, ~truth'[q].disturbed
             PROVE  Alone' /\ (file'[q] # NoFile /\ truth'[q].told > 0 => Standing(q)' \/ Telling(q)')
  BY DEF AllTold
<1>1. /\ truth \in [Pursuits -> Truths] /\ truth[p] \in Truths /\ file \in [Pursuits -> Files \cup {NoFile}]
      /\ day \in Nat /\ UNCHANGED <<day, notes, scan>>
  BY DEF TypeInv, TypeOK, Remove, Create, Advance
<1>2. CASE q # p
  <2>1. truth'[q] = truth[q] /\ file'[q] = file[q]
    BY <1>1, <1>2 DEF Remove, Create, Advance
  <2> QED BY <1>1, <2>1, SameTold
<1>3. CASE q = p /\ Remove(p)
  <2>1. file'[p] = NoFile
    BY <1>1, <1>3 DEF Remove
  <2>2. [truth[p] EXCEPT !.grace = 0, !.quiet = 0].disturbed = truth[p].disturbed
    BY <1>1 DEF Truths
  <2>3. truth'[p].disturbed = truth[p].disturbed
    BY <1>1, <1>3, <2>2 DEF Remove
  <2> QED BY <1>1, <1>3, <2>1, <2>3 DEF AllTold, Alone, Running
<1>4. CASE q = p /\ ~Remove(p)
  <2>1. PICK s, stay : /\ truth' = [truth EXCEPT ![p] = stay]
                       /\ stay = Stay(p, s) \/ stay = [Stay(p, s) EXCEPT !.grace = 0]
    <3>1. \/ \E s : truth' = [truth EXCEPT ![p] = Stay(p, s)]
          \/ \E s : truth' = [truth EXCEPT ![p] = [Stay(p, s) EXCEPT !.grace = 0]]
      BY <1>4 DEF Create, Advance
    <3> QED BY <3>1
  <2>2. stay.told = 0 /\ stay.disturbed = (Cardinality(Running) > 1)
    <3>1. PICK crowded \in BOOLEAN : crowded = (Cardinality(Running) > 1)
      <4>1. (Cardinality(Running) > 1) \in BOOLEAN
        OBVIOUS
      <4> QED BY <4>1, Zenon
    <3>2. PICK grace : Stay(p, s) = [grace |-> grace, quiet |-> 0, told |-> 0, disturbed |-> crowded]
      BY <3>1, Zenon DEF Stay
    <3>3. stay.told = 0 /\ stay.disturbed = crowded
      BY <2>1, <3>2
    <3> QED BY <3>1, <3>3, Zenon
  <2>3. truth'[p].told = 0 /\ ~(Cardinality(Running) > 1)
    <3>1. truth'[p] = stay
      BY <1>1, <2>1
    <3>2. ~stay.disturbed
      BY <1>4, <3>1
    <3>3. ~(Cardinality(Running) > 1)
      BY <2>2, <3>2, Zenon
    <3> QED BY <2>2, <3>1, <3>3
  <2>4. Alone'
    BY <1>1, <2>3, AloneByCount DEF Alone, Running
  <2> QED BY <1>4, <2>3, <2>4
<1> QED BY <1>2, <1>3, <1>4

LEMMA StartTold ==
    ASSUME TypeInv, AllTold, NEW r \in Scans, NEW scope, NEW bad, NEW force, Start(r, scope, bad, force)
    PROVE  AllTold'
<1> SUFFICES ASSUME NEW q \in Pursuits, ~truth'[q].disturbed
             PROVE  Alone' /\ (file'[q] # NoFile /\ truth'[q].told > 0 => Standing(q)' \/ Telling(q)')
  BY DEF AllTold
<1>1. truth \in [Pursuits -> Truths] /\ scan \in [Scans -> ScanRecords]
  BY DEF TypeInv
<1>2. Running = {} /\ truth' = truth
  BY <1>1, TruthFields DEF Start
<1>3. /\ UNCHANGED <<day, file, notes>>
      /\ \A s \in Scans : scan'[s].phase = "scan" => scan[s].phase = "scan" \/
            (file[q] # NoFile => /\ scan'[s].today = day /\ scan'[s].loaded[q] = notes[q]
                                 /\ scan'[s].updated[q] = notes[q])
  <2>1. notes' = notes
    BY DEF Start
  <2> QED BY <2>1, StartCopies DEF Copies
<1>4. \A s \in Scans \ {r} : scan'[s] = scan[s]
  BY <1>1 DEF Start, Set
<1>5. Alone'
  BY <1>2, <1>4 DEF Alone, Running
<1>6. ASSUME file'[q] # NoFile, truth'[q].told > 0 PROVE Standing(q)'
  <2>1. Standing(q)
    BY <1>2, <1>3, <1>6 DEF AllTold, Telling, Running
  <2>2. \A s \in Scans : scan[s].phase # "scan"
    BY <1>2 DEF Running
  <2> QED BY <1>2, <1>3, <1>6, <2>1, <2>2 DEF Standing
<1> QED BY <1>5, <1>6

LEMMA PassOverTold ==
    ASSUME TypeInv, AllTold, NEW r \in Scans, NEW p \in Pursuits, PassOver(r, p)
    PROVE  AllTold'
<1> SUFFICES ASSUME NEW q \in Pursuits, ~truth'[q].disturbed
             PROVE  Alone' /\ (file'[q] # NoFile /\ truth'[q].told > 0 => Standing(q)' \/ Telling(q)')
  BY DEF AllTold
<1>1. truth' = truth /\ notes' = notes /\ UNCHANGED <<day, file>>
  BY DEF PassOver
<1>2. \A s \in Scans : /\ scan'[s].phase = scan[s].phase /\ scan'[s].today = scan[s].today
                       /\ scan'[s].loaded = scan[s].loaded /\ scan'[s].updated = scan[s].updated
                       /\ scan'[s].checked = scan[s].checked
  <2> DEFINE excluded == [scan[r] EXCEPT !.todo = @ \ {p}, !.excluded = TRUE]
             failed == [scan[r] EXCEPT !.todo = @ \ {p}, !.failed = TRUE]
  <2>1. scan' = [scan EXCEPT ![r] = excluded] \/ scan' = [scan EXCEPT ![r] = failed]
    BY DEF PassOver, Set
  <2>2. scan[r] \in ScanRecords /\ scan \in [Scans -> ScanRecords]
    BY DEF TypeInv
  <2>3. \A step \in {excluded, failed} :
            /\ step.phase = scan[r].phase /\ step.loaded = scan[r].loaded /\ step.updated = scan[r].updated
            /\ step.today = scan[r].today /\ step.checked = scan[r].checked
    BY <2>2 DEF ScanRecords
  <2> HIDE DEF excluded, failed
  <2>4. \A s \in Scans : scan'[s] = scan[s] \/ (s = r /\ scan'[s] \in {excluded, failed})
    BY <2>1, <2>2
  <2> QED BY <2>3, <2>4
<1>3. Alone'
  BY <1>1, <1>2 DEF AllTold, Alone, Running
<1>4. ASSUME file'[q] # NoFile, truth'[q].told > 0 PROVE Standing(q)' \/ Telling(q)'
  <2>1. CASE Standing(q)
    BY <1>1, <1>2, <2>1 DEF Standing
  <2>2. CASE Telling(q)
    BY <1>1, <1>2, <2>2 DEF Telling
  <2> QED BY <1>1, <1>4, <2>1, <2>2 DEF AllTold
<1> QED BY <1>3, <1>4

\* A scan that ends has noted what it told, or disturbs what it examined.
LEMMA SaveTold ==
    ASSUME TypeInv, Timely, AllTold, NEW r \in Scans, Save(r)
    PROVE  AllTold'
<1> SUFFICES ASSUME NEW q \in Pursuits, ~truth'[q].disturbed
             PROVE  Alone' /\ (file'[q] # NoFile /\ truth'[q].told > 0 => Standing(q)' \/ Telling(q)')
  BY DEF AllTold
<1>1. /\ truth' = truth /\ UNCHANGED <<day, file>> /\ scan[r].phase = "scan" /\ notes'[q] = Merged(r, q)
      /\ scan \in [Scans -> ScanRecords] /\ scan[r] \in ScanRecords
  BY DEF Save, TypeInv
<1>2. Alone
  BY <1>1 DEF AllTold
<1>3. \A s \in Scans : s # r => scan'[s] = scan[s] /\ scan[s].phase = "idle"
  BY <1>1, <1>2 DEF Save, Set, Alone, Running
<1>4. scan'[r].phase # "scan"
  <2> DEFINE reported == [Idle EXCEPT !.phase = "report", !.outcome = Outcome(r)]
  <2>1. scan' = [scan EXCEPT ![r] = reported] /\ reported.phase # "scan"
    BY DEF Save, Set, Idle
  <2> HIDE DEF reported
  <2> QED BY <1>1, <2>1
<1>5. Alone'
  BY <1>3 DEF Alone, Running
<1>6. ASSUME file'[q] # NoFile, truth'[q].told > 0 PROVE Standing(q)'
  <2>1. /\ scan[r].updated[q] \in Entry /\ file[q] \in Files
        /\ day \in Nat /\ scan[r].today \in Nat /\ scan[r].today <= day
    BY <1>1, <1>6 DEF ScanRecords, TypeInv, TypeOK, Timely
  <2>2. Shows(notes'[q], file[q], truth[q].told, day)
    <3>1. CASE Standing(q)
      <4>1. Shows(scan[r].updated[q], file[q], truth[q].told, scan[r].today)
        BY <1>1, <3>1 DEF Standing
      <4>2. Shows(scan[r].updated[q], file[q], truth[q].told, day)
        BY <2>1, <4>1, ShowsLater
      <4> QED BY <1>1, <3>1, <4>2 DEF Merged, Standing
    <3>2. CASE Telling(q)
      <4>1. /\ q \in scan[r].checked
            /\ Shows(scan[r].updated[q], file[q], truth[q].told, scan[r].today)
        BY <1>3, <3>2 DEF Telling
      <4>2. Shows(scan[r].updated[q], file[q], truth[q].told, day)
        BY <2>1, <4>1, ShowsLater
      <4> QED BY <1>1, <4>1, <4>2 DEF Merged
    <3> QED BY <1>1, <1>6, <3>1, <3>2 DEF AllTold
  <2>3. \A s \in Scans : scan'[s].phase # "scan"
    BY <1>3, <1>4
  <2> QED BY <1>1, <2>2, <2>3 DEF Standing
<1> QED BY <1>5, <1>6

LEMMA EndTold ==
    ASSUME TypeInv, AllTold, NEW r \in Scans, SaveFails(r) \/ Kill(r) \/ Report(r)
    PROVE  AllTold'
<1> SUFFICES ASSUME NEW q \in Pursuits, ~truth'[q].disturbed
             PROVE  Alone' /\ (file'[q] # NoFile /\ truth'[q].told > 0 => Standing(q)' \/ Telling(q)')
  BY DEF AllTold
<1>1. UNCHANGED <<day, file, notes>> /\ truth \in [Pursuits -> Truths] /\ r \in Running
  BY DEF SaveFails, Kill, Report, TypeInv, Running
<1>2. truth'[q] = truth[q] /\ (q \notin scan[r].checked \/ scan[r].phase = "report")
  <2>1. CASE Report(r)
    BY <2>1 DEF Report
  <2>2. CASE SaveFails(r) \/ Kill(r)
    <3>1. truth[q] \in Truths /\ [truth[q] EXCEPT !.disturbed = TRUE].disturbed
      BY <1>1, TruthFields
    <3>2. truth'[q] = IF q \in scan[r].checked THEN [truth[q] EXCEPT !.disturbed = TRUE] ELSE truth[q]
      BY <2>2 DEF SaveFails, Kill, Unnoted
    <3>3. q \notin scan[r].checked
      BY <3>1, <3>2
    <3> QED BY <3>2, <3>3
  <2> QED BY <2>1, <2>2
<1>3. /\ \A s \in Scans : scan'[s] = scan[s] \/ scan'[s].phase # "scan"
      /\ \A s \in Scans \ {r} : scan'[s] = scan[s]
  <2>1. \A s \in Scans : scan'[s] = scan[s] \/ scan'[s].phase # "scan"
    BY EndCopies
  <2>2. \A s \in Scans \ {r} : scan'[s] = scan[s]
    BY DEF SaveFails, Kill, Report, Set, TypeInv
  <2> QED BY <2>1, <2>2
<1>4. Alone
  BY <1>2 DEF AllTold
<1>5. Alone'
  BY <1>1, <1>3, <1>4 DEF Alone, Running
<1>6. ASSUME file'[q] # NoFile, truth'[q].told > 0 PROVE Standing(q)'
  <2>1. ~Telling(q)
    BY <1>1, <1>2, <1>4 DEF Telling, Alone, Running
  <2>2. Standing(q)
    BY <1>1, <1>2, <1>6, <2>1 DEF AllTold
  <2> QED BY <1>1, <1>2, <1>3, <2>2 DEF Standing
<1> QED BY <1>5, <1>6

LEMMA AckTold ==
    ASSUME TypeInv, AllTold, NEW p \in Pursuits, AckLoad(p) \/ AckSave(p)
    PROVE  AllTold'
<1> SUFFICES ASSUME NEW q \in Pursuits, ~truth'[q].disturbed
             PROVE  Alone' /\ (file'[q] # NoFile /\ truth'[q].told > 0 => Standing(q)' \/ Telling(q)')
  BY DEF AllTold
<1>1. /\ UNCHANGED <<day, file, scan>> /\ day \in Nat
      /\ truth \in [Pursuits -> Truths] /\ notes \in [Pursuits -> Entry]
  BY DEF AckLoad, AckSave, TypeInv, TypeOK, Entry
<1>2. CASE AckLoad(p) \/ q # p
  <2>1. truth'[q] = truth[q] /\ notes'[q] = notes[q]
    BY <1>1, <1>2 DEF AckLoad, AckSave
  <2> QED BY <1>1, <2>1, SameTold
<1>3. CASE AckSave(p) /\ q = p
  <2>1. /\ \A until : /\ [truth[p] EXCEPT !.quiet = until].told = truth[p].told
                      /\ [truth[p] EXCEPT !.quiet = until].disturbed = truth[p].disturbed
        /\ [truth[p] EXCEPT !.quiet = 0, !.disturbed = TRUE].disturbed
    BY <1>1 DEF Truths
  <2>2. /\ notes[p] = ack.loaded
        /\ truth'[p].told = truth[p].told /\ truth'[p].disturbed = truth[p].disturbed
    BY <1>1, <1>3, <2>1 DEF AckSave
  <2>3. notes'[p] = notes[p] \/ notes'[p] = Acked
    BY <1>1, <1>3 DEF AckSave
  <2>4. Alone
    BY <1>3, <2>2 DEF AllTold
  <2>5. CASE Telling(p)
    BY <1>1, <1>3, <2>2, <2>4, <2>5 DEF Telling, Alone, Running
  <2>6. CASE Standing(p)
    <3>1. Shows(notes'[p], file[p], truth[p].told, day)
      <4>1. CASE notes'[p] = notes[p]
        BY <2>6, <4>1 DEF Standing
      <4>2. CASE notes'[p] = Acked
        <5>1. Shows(ack.loaded, file[p], truth[p].told, day)
          BY <2>2, <2>6 DEF Standing
        <5>2. ack.loaded \in Entries /\ ack.loaded # NoEntry
          BY <5>1 DEF Shows, TypeInv, TypeOK
        <5>3. /\ Acked.stage = ack.loaded.stage /\ Acked.stalled = ack.loaded.stalled
              /\ Acked.tier = ack.loaded.tier /\ Acked.detected = ack.loaded.detected
          BY <5>2 DEF Acked, Entries
        <5>4. Acked # NoEntry
          BY AckedType, NoEntryIsNone
        <5>5. Base(Acked, file[p]) = Base(ack.loaded, file[p])
          BY <5>3 DEF Base
        <5> QED BY <4>2, <5>1, <5>3, <5>4, <5>5 DEF Shows
      <4> QED BY <2>3, <4>1, <4>2
    <3> QED BY <1>1, <1>3, <2>2, <2>4, <2>6, <3>1 DEF Standing, Alone, Running
  <2> QED BY <1>1, <1>3, <2>2, <2>4, <2>5, <2>6 DEF AllTold, Alone, Running
<1> QED BY <1>2, <1>3

LEMMA TierIsNumber == \A tier \in Tiers \cup {0} : tier \in Nat
<1>1. \A tier \in Tiers : tier \in Nat
  BY NumbersAreNatural
<1> QED BY <1>1

\* What is told will be noted.
LEMMA TellingShows ==
    ASSUME TypeInv, NEW r \in Scans, NEW p \in Pursuits, file[p] # NoFile, Tells(r, p)
    PROVE  /\ Shows(Notes(r, p), file[p], DaysTier(Found(r, p).days), scan[r].today)
           /\ DaysTier(Found(r, p).days) \in Nat \ {0}
<1>1. /\ scan[r].loaded[p] \in Entry /\ file[p] \in Files /\ scan[r].today \in Nat
      /\ Tells(r, p) \in BOOLEAN /\ day \in Nat
  BY DEF TypeInv, TypeOK, ScanRecords, Tells
<1>2. Judged(scan[r].loaded[p], file[p], scan[r].today).stalled
  BY DEF Tells, Found
<1>3. PICK noted \in Entries :
         /\ noted = Notes(r, p) /\ noted.stage = file[p].stage /\ noted.stalled
         /\ noted.tier = IF Tells(r, p) THEN DaysTier(Found(r, p).days)
                         ELSE IF scan[r].loaded[p] = NoEntry THEN 0 ELSE scan[r].loaded[p].tier
         /\ scan[r].today - Base(noted, file[p]) > Threshold
  <2> DEFINE e == scan[r].loaded[p]
             found == Judged(e, file[p], scan[r].today)
  <2>1. \A told \in BOOLEAN : \E noted \in Entries :
           /\ noted = Noted(e, file[p], found, told, day)
           /\ noted.stage = file[p].stage /\ noted.stalled
           /\ noted.tier = IF told THEN DaysTier(found.days) ELSE IF e = NoEntry THEN 0 ELSE e.tier
           /\ scan[r].today - Base(noted, file[p]) > Threshold
    BY <1>1, <1>2, StallNoted
  <2> HIDE DEF e, found
  <2>2. \E noted \in Entries :
           /\ noted = Noted(e, file[p], found, Tells(r, p), day)
           /\ noted.stage = file[p].stage /\ noted.stalled
           /\ noted.tier = IF Tells(r, p) THEN DaysTier(found.days) ELSE IF e = NoEntry THEN 0 ELSE e.tier
           /\ scan[r].today - Base(noted, file[p]) > Threshold
    BY <1>1, <2>1, Zenon
  <2> QED BY <2>2 DEF Notes, Found, e, found
<1>4. DaysTier(Found(r, p).days) \in Nat \ {0}
  <2>1. Found(r, p).days \in Int /\ Found(r, p).days > Threshold
    BY <1>1, <1>2, JudgedType DEF Found
  <2>2. DaysTier(Found(r, p).days) > 0
    BY <2>1, StallHasTier
  <2>3. DaysTier(Found(r, p).days) \in Nat
    BY <2>1, TierIsTier, TierIsNumber
  <2> QED BY <2>2, <2>3
<1>5. noted.tier = DaysTier(Found(r, p).days) /\ noted.tier \in Nat
  BY <1>3, <1>4
<1> QED BY <1>3, <1>4, <1>5, NoEntryIsNone DEF Shows

\* What was told stays shown, and only a higher tier is told.
LEMMA ShownNoted ==
    ASSUME TypeInv, NEW r \in Scans, NEW p \in Pursuits, file[p] # NoFile, NEW tier \in Nat,
           Shows(scan[r].loaded[p], file[p], tier, scan[r].today)
    PROVE  /\ Shows(Notes(r, p), file[p], tier, scan[r].today)
           /\ Tells(r, p) => DaysTier(Found(r, p).days) > tier
<1> DEFINE e == scan[r].loaded[p]
<1>1. /\ e \in Entry /\ file[p] \in Files /\ scan[r].today \in Nat
      /\ Tells(r, p) \in BOOLEAN /\ day \in Nat
  BY DEF TypeInv, TypeOK, ScanRecords, Tells
<1>2. /\ e # NoEntry /\ e.stage = file[p].stage /\ e.stalled /\ e.tier >= tier /\ e.tier \in Nat
  <2>1. e \in Entries
    BY <1>1 DEF Shows, Entry
  <2>2. e.tier \in Nat
    BY <2>1, TierIsNumber DEF Entries
  <2>3. Shows(e, file[p], tier, scan[r].today)
    OBVIOUS
  <2> HIDE DEF e
  <2> QED BY <2>2, <2>3 DEF Shows
<1>3. Judged(e, file[p], scan[r].today).stalled
  BY <1>1, ShownIsStalled
<1>4. PICK noted \in Entries :
         /\ noted = Notes(r, p) /\ noted.stage = file[p].stage /\ noted.stalled
         /\ noted.tier = IF Tells(r, p) THEN DaysTier(Found(r, p).days) ELSE e.tier
         /\ scan[r].today - Base(noted, file[p]) > Threshold
  BY <1>1, <1>2, <1>3, StallNoted DEF Notes, Found
<1>5. DaysTier(Found(r, p).days) \in Nat
  <2>1. Found(r, p).days \in Int
    BY <1>1, JudgedType DEF Found
  <2> QED BY <2>1, TierIsTier, TierIsNumber
<1>6. ASSUME Tells(r, p) PROVE DaysTier(Found(r, p).days) > e.tier
  <2>1. ~Repeats(e, file[p], Found(r, p))
    BY <1>6 DEF Tells
  <2> HIDE DEF e
  <2> QED BY <1>2, <1>5, <2>1 DEF Repeats
<1> HIDE DEF e
<1> QED BY <1>2, <1>4, <1>5, <1>6, NoEntryIsNone DEF Shows

\* The tier that was told, once a scan has examined.
LEMMA ExamineTells ==
    ASSUME TypeInv, NEW r \in Scans, NEW p \in Pursuits, Examine(r, p)
    PROVE  /\ truth'[p].told = IF Tells(r, p) /\ ~Headed(p) THEN DaysTier(Found(r, p).days) ELSE truth[p].told
           /\ \A q \in Pursuits \ {p} : truth'[q] = truth[q]
<1>1. truth \in [Pursuits -> Truths]
  BY DEF TypeInv
<1> DEFINE tier == DaysTier(Found(r, p).days)
           told == [truth[p] EXCEPT !.told = tier]
<1>2. IF Tells(r, p) /\ ~Headed(p) THEN truth' = [truth EXCEPT ![p] = told] ELSE truth' = truth
  BY ExamineSteps
<1>3. told.told = tier
  BY <1>1, TruthFields
<1> HIDE DEF told, tier
<1>4. truth'[p].told = IF Tells(r, p) /\ ~Headed(p) THEN tier ELSE truth[p].told
  BY <1>1, <1>2, <1>3
<1>5. \A q \in Pursuits \ {p} : truth'[q] = truth[q]
  BY <1>1, <1>2
<1> QED BY <1>4, <1>5 DEF tier

LEMMA ExamineTold ==
    ASSUME TypeInv, Timely, AllTold, NEW r \in Scans, NEW p \in Pursuits, Examine(r, p)
    PROVE  /\ AllTold'
           /\ ~truth[p].disturbed /\ Tells(r, p) => DaysTier(Found(r, p).days) > truth[p].told
<1>1. /\ UNCHANGED <<day, file, notes>> /\ scan[r].phase = "scan" /\ p \in scan[r].todo /\ file[p] # NoFile
  BY ExamineSteps
<1>2. \A q \in Pursuits : truth'[q].disturbed = truth[q].disturbed
  BY TellKeeps
<1>3. \A s \in Scans : /\ scan'[s].phase = scan[s].phase /\ scan'[s].today = scan[s].today
                       /\ scan'[s].loaded = scan[s].loaded /\ scan[s].checked \subseteq scan'[s].checked
                       /\ \A q \in Pursuits \ {p} : scan'[s].updated[q] = scan[s].updated[q]
                       /\ s # r => scan'[s] = scan[s]
  BY ExamineScan
<1>4. truth[p].told \in Nat
  BY TierIsNumber DEF TypeInv, Truths
<1>5. ASSUME ~truth[p].disturbed, truth[p].told > 0
      PROVE  Standing(p) /\ Shows(scan[r].loaded[p], file[p], truth[p].told, scan[r].today)
  <2>1. ~Telling(p)
    <3>1. \A s \in Scans : scan[s].phase = "scan" => s = r
      BY <1>1, <1>5 DEF AllTold, Alone, Running
    <3>2. p \notin scan[r].checked
      BY <1>1 DEF Timely
    <3> QED BY <3>1, <3>2 DEF Telling
  <2>2. Standing(p)
    BY <1>1, <1>5, <2>1 DEF AllTold
  <2> QED BY <1>1, <2>2 DEF Standing
<1>6. ~truth[p].disturbed /\ Tells(r, p) => DaysTier(Found(r, p).days) > truth[p].told
  <2>1. CASE truth[p].told > 0
    BY <1>1, <1>4, <1>5, <2>1, ShownNoted
  <2>2. CASE truth[p].told = 0
    <3> SUFFICES ASSUME Tells(r, p) PROVE DaysTier(Found(r, p).days) > truth[p].told
      OBVIOUS
    <3>1. DaysTier(Found(r, p).days) \in Nat \ {0}
      BY <1>1, TellingShows
    <3> QED BY <2>2, <3>1
  <2> QED BY <1>4, <2>1, <2>2
<1>7. ASSUME NEW q \in Pursuits, ~truth'[q].disturbed
      PROVE  Alone' /\ (file'[q] # NoFile /\ truth'[q].told > 0 => Standing(q)' \/ Telling(q)')
  <2>1. Alone'
    BY <1>2, <1>3, <1>7 DEF AllTold, Alone, Running
  <2>2. ASSUME file'[q] # NoFile, truth'[q].told > 0 PROVE Standing(q)' \/ Telling(q)'
    <3>1. CASE q # p
      <4>1. truth'[q] = truth[q]
        BY <3>1, ExamineTells
      <4>2. Standing(q) \/ Telling(q)
        BY <1>1, <1>7, <2>2, <4>1 DEF AllTold
      <4>3. CASE Standing(q)
        BY <1>1, <1>3, <3>1, <4>1, <4>3 DEF Standing
      <4>4. CASE Telling(q)
        BY <1>1, <1>3, <3>1, <4>1, <4>4 DEF Telling
      <4> QED BY <4>2, <4>3, <4>4
    <3>2. CASE q = p /\ Tells(r, p) /\ ~Headed(p)
      <4>1. truth'[p].told = DaysTier(Found(r, p).days)
        BY <3>2, ExamineTells
      <4>2. Shows(Notes(r, p), file[p], truth'[p].told, scan[r].today)
        BY <1>1, <3>2, <4>1, TellingShows
      <4>3. /\ scan'[r].phase = "scan" /\ p \in scan'[r].checked
            /\ scan'[r].updated[p] = Notes(r, p) /\ scan'[r].today = scan[r].today
        BY ExamineScan
      <4> QED BY <1>1, <3>2, <4>2, <4>3 DEF Telling
    <3>3. CASE q = p /\ ~(Tells(r, p) /\ ~Headed(p))
      <4>1. truth'[p].told = truth[p].told
        BY <3>3, ExamineTells
      <4>2. Standing(p) /\ Shows(Notes(r, p), file[p], truth[p].told, scan[r].today)
        BY <1>1, <1>2, <1>4, <1>5, <1>7, <2>2, <3>3, <4>1, ShownNoted
      <4>3. scan'[r].updated[p] = Notes(r, p)
        BY ExamineScan
      <4> QED BY <1>1, <1>3, <3>3, <4>1, <4>2, <4>3 DEF Standing
    <3> QED BY <3>1, <3>2, <3>3
  <2> QED BY <2>1, <2>2
<1> QED BY <1>6, <1>7 DEF AllTold

LEMMA NextTold ==
    ASSUME TypeInv, Timely, Counted, AllTold, [Next]_vars
    PROVE  AllTold'
<1>1. CASE NewDay
  BY <1>1, NewDayTold
<1>2. CASE UNCHANGED <<day, file, notes, scan, truth>>
  BY <1>2 DEF AllTold, Alone, Running, Standing, Telling
<1>3. ASSUME NEW p \in Pursuits,
             (\E s \in Stages, dated \in BOOLEAN : Advance(p, s, dated)) \/ (\E s \in Stages : Create(p, s)) \/ Remove(p)
      PROVE  AllTold'
  BY <1>3, FileTold
<1>4. ASSUME NEW p \in Pursuits, AckLoad(p) \/ AckSave(p) PROVE AllTold'
  BY <1>4, AckTold
<1>5. ASSUME NEW r \in Scans, NEW scope, NEW bad, NEW force, Start(r, scope, bad, force) PROVE AllTold'
  BY <1>5, StartTold
<1>6. ASSUME NEW r \in Scans, NEW p \in Pursuits, PassOver(r, p) \/ Examine(r, p) PROVE AllTold'
  BY <1>6, PassOverTold, ExamineTold
<1>7. ASSUME NEW r \in Scans, Save(r) \/ SaveFails(r) \/ Report(r) \/ Kill(r) PROVE AllTold'
  BY <1>7, SaveTold, EndTold
<1>8. CASE Skip
  BY <1>2, <1>8 DEF Skip
<1> QED BY <1>1, <1>2, <1>3, <1>4, <1>5, <1>6, <1>7, <1>8 DEF Next, vars

LEMMA InitTold == Init => AllTold
<1> SUFFICES ASSUME Init, NEW p \in Pursuits PROVE Alone /\ ~(truth[p].told > 0)
  BY DEF AllTold
<1>1. truth[p].told = 0 /\ Running = {}
  BY DEF Init, Running, Idle
<1> QED BY <1>1 DEF Alone

\* The only steps that announce of an undisturbed pursuit tell a higher tier.
LEMMA AnnounceHigher ==
    ASSUME TypeInv, Timely, AllTold, [Next]_vars, NEW p \in Pursuits, Alerts(p), ~truth[p].disturbed
    PROVE  truth'[p].told > truth[p].told
<1>1. PICK r \in Scans : Examine(r, p) /\ Tells(r, p) /\ ~Headed(p)
  BY AnnounceTells
<1>2. DaysTier(Found(r, p).days) > truth[p].told
  BY <1>1, ExamineTold
<1> QED BY <1>1, <1>2, ExamineTells

\* A stay in a stage is announced once a tier, unless what was announced could
\* not be noted, or two writers of the notes overlapped.
THEOREM AlertsOnlyClimb == Spec => AlertsClimb
<1> DEFINE Inv == TypeInv /\ Timely /\ Counted /\ AllTold
<1>1. Init => Inv
  BY InitTypes, InitTimely, InitCounted, InitTold
<1>2. Inv /\ [Next]_vars => Inv'
  BY NextTypes, NextTimely, NextCounted, NextTold
<1>3. Inv /\ [Next]_vars =>
          [\A p \in Pursuits : Alerts(p) /\ ~truth[p].disturbed => truth'[p].told > truth[p].told]_vars
  BY AnnounceHigher
<1> QED BY <1>1, <1>2, <1>3, PTL DEF Spec, AlertsClimb
=============================================================================
