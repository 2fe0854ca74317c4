----------------------------- MODULE PursuitProofs -----------------------------
(***************************************************************************)
(* PursuitFile implements PursuitRecord: no write is lost, for every set   *)
(* of paths, commands and renames that move a file once.                   *)
(***************************************************************************)
EXTENDS PursuitFile, SequenceTheorems, TLAPS

Creations == [kind : {"create"}, arg : Stages]
Moves == [kind : {"move"}, arg : Paths]

HasText(w) ==
    \/ phase[w] \in {"fstat", "render", "drive"}
    \/ phase[w] \in {"lock", "check", "publish"} /\ edit[w].kind # "create"

\* What each phase works with.
JobOf(w) ==
    /\ phase[w] \in {"read", "fstat"} => edit[w] \in Requests
    /\ phase[w] = "drive" => edit[w].kind = "link"
    /\ phase[w] = "render" => edit[w] \in Edits
    /\ phase[w] \in {"lock", "check", "publish"} => edit[w] \in Edits \cup Creations
    /\ HasText(w) => seen[w].text \in Contents
    /\ phase[w] = "fstat" => seen[w].file \in 1..Len(files)
    /\ phase[w] = "rename" => edit[w].kind = "move" /\ <<target[w], edit[w].arg>> \in Renames

JobsInv == \A w \in Procs : JobOf(w)

\* The command that checks or writes a path has its lock.
LocksInv == \A w \in Procs : phase[w] \in {"check", "publish"} => lock[target[w]] = w

\* No two files have one modification time, and none has a later one.
TimesInv ==
    /\ \A i, j \in 1..Len(files) : files[i].mtime = files[j].mtime => i = j
    /\ \A i \in 1..Len(files) : files[i].mtime < clock
    /\ \A w \in Procs : seen[w].mtime < clock

\* The file a command goes by stays under its name, or where a rename took it.
Away(w, p) == <<target[w], p>> \in Renames

Timed == {"read", "render", "drive", "lock", "check"}

HomeInv == \A w \in Procs, p \in Paths : Exists(p) =>
    /\ phase[w] = "fstat" /\ at[p] = seen[w].file => p = target[w] \/ Away(w, p)
    /\ phase[w] \in Timed /\ edit[w].kind # "create" /\ FileAt(p).mtime = seen[w].mtime
          => p = target[w] \/ Away(w, p)

\* A file that still has the time a command saw says what the command read.
ReadInv == \A w \in Procs :
    /\ phase[w] = "fstat" => Matches(files[seen[w].file].text, seen[w].text)
    /\ HasRead(w) /\ ~Stale(w) => Matches(FileAt(target[w]).text, seen[w].text)

IInv == TypeOK /\ JobsInv /\ LocksInv /\ TimesInv /\ HomeInv /\ ReadInv
-----------------------------------------------------------------------------
LEMMA FreshType == ASSUME NEW s \in Stages PROVE Fresh(s) \in Bodies
<1>1. <<>> \in Seq(Stages \X Stages)
  OBVIOUS
<1> QED BY <1>1 DEF Fresh, Bodies

LEMMA AppliedType ==
  ASSUME NEW e \in Edits, NEW b \in Bodies
  PROVE  Applied(e, b) \in Bodies
<1> DEFINE H == Seq(Stages \X Stages)
<1>0. H = Seq(Stages \X Stages)
  OBVIOUS
<1>1. CASE e.kind = "advance"
  <2>1. e.arg \in Stages
    BY <1>1 DEF Edits
  <2>2. b.history \in Seq(Stages \X Stages) /\ <<b.stage, e.arg>> \in Stages \X Stages
    BY <2>1 DEF Bodies
  <2>3. Append(b.history, <<b.stage, e.arg>>) \in H
    BY <2>2, AppendProperties
  <2> HIDE DEF H
  <2>4. [b EXCEPT !.stage = e.arg, !.moved = "today",
                  !.history = Append(b.history, <<b.stage, e.arg>>)] \in Bodies
    BY <1>0, <2>1, <2>3 DEF Bodies
  <2> QED BY <1>1, <2>4 DEF Applied
<1>2. CASE e.kind = "link"
  <2>1. e.arg \in Docs
    BY <1>2 DEF Edits
  <2> HIDE DEF H
  <2> QED BY <1>0, <1>2, <2>1 DEF Applied, Bodies
<1>3. CASE e.kind = "note"
  <2>1. e.arg \in Meetings
    BY <1>3 DEF Edits
  <2> HIDE DEF H
  <2> QED BY <1>0, <1>3, <2>1 DEF Applied, Bodies
<1>4. CASE e.kind = "sync"
  <2>1. e.arg \in Payloads
    BY <1>4 DEF Edits
  <2> HIDE DEF H
  <2> QED BY <1>0, <1>4, <2>1 DEF Applied, Bodies
<1>5. CASE e.kind \in {"repair", "fix"}
  <2> HIDE DEF H
  <2> QED BY <1>0, <1>5 DEF Applied, Bodies
<1> QED BY <1>1, <1>2, <1>3, <1>4, <1>5 DEF Edits

\* What Append and an overwritten file do to a sequence of files.
LEMMA Appended ==
  ASSUME NEW S, NEW f \in Seq(S), NEW x \in S
  PROVE  /\ Append(f, x) \in Seq(S)
         /\ Len(Append(f, x)) = Len(f) + 1
         /\ Len(f) \in Nat
         /\ Append(f, x)[Len(f) + 1] = x
         /\ \A i \in 1..Len(f) : Append(f, x)[i] = f[i]
BY AppendProperties, LenProperties

LEMMA Overwritten ==
  ASSUME NEW S, NEW f \in Seq(S), NEW x \in S, NEW i \in 1..Len(f)
  PROVE  /\ [f EXCEPT ![i] = x] \in Seq(S)
         /\ Len([f EXCEPT ![i] = x]) = Len(f)
         /\ [f EXCEPT ![i] = x][i] = x
         /\ \A j \in 1..Len(f) : j # i => [f EXCEPT ![i] = x][j] = f[j]
BY ExceptSeq
-----------------------------------------------------------------------------
(* Types, one part of the state at a time. *)
DiskOK ==
    /\ files \in Seq([mtime : Nat, text : Contents])
    /\ at \in [Paths -> 0..Len(files)]
    /\ \A p, q \in Paths : Exists(p) /\ at[p] = at[q] => p = q
    /\ clock \in Nat

Sights(n) == [file : 0..n, mtime : Nat, text : Contents \cup {Absent}]

ProcOK ==
    /\ lock \in [Paths -> Procs \cup {NoProc}]
    /\ docs \subseteq Docs
    /\ phase \in [Procs -> Phases]
    /\ target \in [Procs -> Paths]
    /\ edit \in [Procs -> Jobs]
    /\ seen \in [Procs -> Sights(Len(files))]
    /\ runs \in Nat

LEMMA TypeParts == TypeOK <=> DiskOK /\ ProcOK
BY DEF TypeOK, DiskOK, ProcOK, Sights

LEMMA PutDisk ==
  ASSUME DiskOK, NEW p \in Paths, NEW text \in Contents, Put(p, text)
  PROVE  /\ DiskOK'
         /\ Len(files') = Len(files) + 1
         /\ Len(files) \in Nat
         /\ \A i \in 1..Len(files) : files'[i] = files[i]
         /\ files'[Len(files) + 1] = [mtime |-> clock, text |-> text]
         /\ at' = [at EXCEPT ![p] = Len(files) + 1]
         /\ clock' = clock + 1
<1> DEFINE F == [mtime : Nat, text : Contents]
           x == [mtime |-> clock, text |-> text]
<1>1. x \in F /\ files \in Seq(F)
  BY DEF DiskOK
<1>2. files' = Append(files, x) /\ at' = [at EXCEPT ![p] = Len(files) + 1] /\ clock' = clock + 1
  BY DEF Put
<1> HIDE DEF F, x
<1>3. /\ files' \in Seq(F)
      /\ Len(files') = Len(files) + 1
      /\ Len(files) \in Nat
      /\ files'[Len(files) + 1] = x
      /\ \A i \in 1..Len(files) : files'[i] = files[i]
  BY <1>1, <1>2, Appended
<1>4. at' \in [Paths -> 0..Len(files')] /\ clock' \in Nat
  BY <1>2, <1>3 DEF DiskOK
<1>5. \A q, r \in Paths : at'[q] # 0 /\ at'[q] = at'[r] => q = r
  BY <1>2, <1>3 DEF DiskOK, Exists
<1> QED BY <1>1, <1>2, <1>3, <1>4, <1>5 DEF DiskOK, Exists, F, x

\* An editor saves over the file.
LEMMA OverDisk ==
  ASSUME DiskOK, NEW p \in Paths, NEW text \in Contents, Exists(p),
         files' = [files EXCEPT ![at[p]] = [mtime |-> clock, text |-> text]],
         clock' = clock + 1, at' = at
  PROVE  /\ DiskOK'
         /\ Len(files') = Len(files)
         /\ Len(files) \in Nat
         /\ at[p] \in 1..Len(files)
         /\ files'[at[p]] = [mtime |-> clock, text |-> text]
         /\ \A i \in 1..Len(files) : i # at[p] => files'[i] = files[i]
<1> DEFINE F == [mtime : Nat, text : Contents]
           x == [mtime |-> clock, text |-> text]
<1>1. x \in F /\ files \in Seq(F) /\ Len(files) \in Nat
  BY LenProperties DEF DiskOK
<1>2. at[p] \in 1..Len(files)
  BY <1>1 DEF DiskOK, Exists
<1> HIDE DEF F
<1>3. /\ files' \in Seq(F)
      /\ Len(files') = Len(files)
      /\ files'[at[p]] = x
      /\ \A i \in 1..Len(files) : i # at[p] => files'[i] = files[i]
  <2> HIDE DEF x
  <2>1. files' = [files EXCEPT ![at[p]] = x]
    BY DEF x
  <2> QED BY <1>1, <1>2, <2>1, Overwritten
<1> QED BY <1>1, <1>2, <1>3 DEF DiskOK, Exists, F

LEMMA MoveDisk ==
  ASSUME DiskOK, NEW p \in Paths, NEW q \in Paths, p # q, UNCHANGED <<files, clock>>,
         at' = [at EXCEPT ![q] = at[p], ![p] = 0]
  PROVE  DiskOK'
<1>1. at' \in [Paths -> 0..Len(files')]
  BY LenProperties DEF DiskOK
<1>2. \A r, t \in Paths : at'[r] # 0 /\ at'[r] = at'[t] => r = t
  BY DEF DiskOK, Exists
<1> QED BY <1>1, <1>2 DEF DiskOK, Exists

\* What a command that ends, or starts, does to the state of its own.
LEMMA FinishProc ==
  ASSUME ProcOK, NEW w \in Procs, Finish(w),
         NEW n \in Nat, Len(files) \in Nat, Len(files) <= n, Len(files') = n,
         UNCHANGED <<docs, runs>>
  PROVE  ProcOK'
<1>1. Unseen \in Sights(n) /\ Unasked \in Jobs
  BY DEF Unseen, Unasked, Sights, Jobs, Edits
<1>2. seen \in [Procs -> Sights(n)]
  BY DEF ProcOK, Sights
<1>3. seen' \in [Procs -> Sights(n)] /\ edit' \in [Procs -> Jobs] /\ target' \in [Procs -> Paths]
  BY <1>1, <1>2, FirstPathIsPath DEF Finish, ProcOK
<1>4. phase' \in [Procs -> Phases]
  BY DEF Finish, Goto, ProcOK, Phases
<1>5. lock' \in [Paths -> Procs \cup {NoProc}]
  BY DEF Finish, Release, ProcOK
<1> QED BY <1>3, <1>4, <1>5 DEF ProcOK

LEMMA StartProc ==
  ASSUME ProcOK, NEW w \in Procs, NEW p \in Paths, NEW e \in Jobs, NEW next \in Phases,
         NEW first \in Sights(Len(files)), Start(w, p, e, next, first)
  PROVE  ProcOK'
<1>1. files' = files
  BY DEF Start, disk
<1>2. seen' \in [Procs -> Sights(Len(files))] /\ edit' \in [Procs -> Jobs] /\ target' \in [Procs -> Paths]
  BY DEF Start, ProcOK
<1>3. phase' \in [Procs -> Phases] /\ runs' \in Nat
  BY DEF Start, Goto, ProcOK
<1> QED BY <1>1, <1>2, <1>3 DEF Start, ProcOK

LEMMA FileType ==
  ASSUME DiskOK, NEW p \in Paths, Exists(p)
  PROVE  /\ at[p] \in 1..Len(files)
         /\ FileAt(p).mtime \in Nat
         /\ FileAt(p).text \in Contents
<1>1. at[p] \in 1..Len(files)
  BY LenProperties DEF DiskOK, Exists
<1>2. files[at[p]] \in [mtime : Nat, text : Contents]
  BY <1>1, ElementOfSeq DEF DiskOK
<1> QED BY <1>1, <1>2 DEF FileAt

LEMMA EditText ==
  ASSUME NEW t \in Contents, NEW e \in Edits
  PROVE  [t EXCEPT !.body = Applied(e, @)] \in Contents
<1>1. t.body \in Bodies /\ t.remarks \in SUBSET Remarks
  BY DEF Contents
<1>2. Applied(e, t.body) \in Bodies
  BY <1>1, AppliedType
<1> QED BY <1>1, <1>2 DEF Contents

LEMMA NewText ==
  ASSUME NEW s \in Stages
  PROVE  [body |-> Fresh(s), remarks |-> {}] \in Contents
BY FreshType DEF Contents

LEMMA RemarkText ==
  ASSUME NEW t \in Contents, NEW r \in Remarks
  PROVE  [t EXCEPT !.remarks = @ \cup {r}] \in Contents
BY DEF Contents

LEMMA TypeInit == Init => TypeOK
<1> SUFFICES ASSUME Init PROVE TypeOK
  OBVIOUS
<1>1. PICK s \in Stages : files = <<[mtime |-> 1, text |-> [body |-> [Fresh(s) EXCEPT !.legacy = TRUE],
                                                           remarks |-> {}]]>>
  BY DEF Init
<1>2. [Fresh(s) EXCEPT !.legacy = TRUE] \in Bodies
  <2> DEFINE H == Seq(Stages \X Stages)
  <2>1. Fresh(s) \in Bodies /\ H = Seq(Stages \X Stages)
    BY FreshType
  <2> HIDE DEF H
  <2> QED BY <2>1 DEF Bodies
<1> DEFINE x == [mtime |-> 1, text |-> [body |-> [Fresh(s) EXCEPT !.legacy = TRUE], remarks |-> {}]]
<1>3. x \in [mtime : Nat, text : Contents]
  BY <1>2 DEF Contents
<1> HIDE DEF x
<1>4. files \in Seq([mtime : Nat, text : Contents]) /\ Len(files) = 1
  BY <1>1, <1>3 DEF x
<1>5. DiskOK
  BY <1>4 DEF Init, DiskOK, Exists
<1>6. Unseen \in Sights(Len(files)) /\ Unasked \in Jobs
  BY <1>4 DEF Unseen, Unasked, Sights, Jobs, Edits
<1>7. ProcOK
  BY <1>6, FirstPathIsPath DEF Init, ProcOK, Phases
<1> QED BY <1>5, <1>7, TypeParts

LEMMA TypeStep == TypeOK /\ JobsInv /\ [Next]_vars => TypeOK'
<1> SUFFICES ASSUME TypeOK, JobsInv, [Next]_vars PROVE TypeOK'
  OBVIOUS
<1>1. DiskOK /\ ProcOK /\ Len(files) \in Nat
  BY TypeParts, LenProperties DEF DiskOK
<1>s. SUFFICES DiskOK' /\ ProcOK'
  BY DEF TypeOK, DiskOK, ProcOK, Sights
<1>k. ASSUME UNCHANGED disk PROVE DiskOK' /\ Len(files') = Len(files)
  BY <1>1, <1>k DEF disk, DiskOK, Exists
<1>2. ASSUME NEW w \in Procs, NEW p \in Paths, NEW e \in Requests, BeginWithStat(w, p, e)
      PROVE  DiskOK' /\ ProcOK'
  <2>1. [Unseen EXCEPT !.mtime = FileAt(p).mtime] \in Sights(Len(files))
    BY <1>1, <1>2, FileType DEF BeginWithStat, Unseen, Sights
  <2>2. e \in Jobs /\ "read" \in Phases
    BY DEF Jobs, Phases
  <2>3. Start(w, p, e, "read", [Unseen EXCEPT !.mtime = FileAt(p).mtime])
    BY <1>2 DEF BeginWithStat
  <2> QED BY <1>1, <1>k, <2>1, <2>2, <2>3, StartProc DEF Start
<1>3. ASSUME NEW w \in Procs, NEW p \in Paths, NEW e \in Requests, BeginWithRead(w, p, e)
      PROVE  DiskOK' /\ ProcOK'
  <2>1. [Unseen EXCEPT !.file = at[p], !.text = FileAt(p).text] \in Sights(Len(files))
    <3>1. at[p] \in 0..Len(files) /\ FileAt(p).text \in Contents
      BY <1>1, <1>3, FileType DEF BeginWithRead
    <3> QED BY <3>1 DEF Unseen, Sights
  <2>2. e \in Jobs /\ "fstat" \in Phases
    BY DEF Jobs, Phases
  <2>3. Start(w, p, e, "fstat", [Unseen EXCEPT !.file = at[p], !.text = FileAt(p).text])
    BY <1>3 DEF BeginWithRead
  <2> QED BY <1>1, <1>k, <2>1, <2>2, <2>3, StartProc DEF Start
<1>4. ASSUME NEW w \in Procs, NEW p \in Paths, NEW s \in Stages, BeginCreate(w, p, s)
      PROVE  DiskOK' /\ ProcOK'
  <2>1. Unseen \in Sights(Len(files)) /\ [kind |-> "create", arg |-> s] \in Jobs /\ "lock" \in Phases
    BY <1>1 DEF Unseen, Sights, Jobs, Phases
  <2>2. Start(w, p, [kind |-> "create", arg |-> s], "lock", Unseen)
    BY <1>4 DEF BeginCreate
  <2> QED BY <1>1, <1>k, <2>1, <2>2, StartProc DEF Start
<1>5. ASSUME NEW w \in Procs, NEW m \in Renames, BeginMove(w, m)
      PROVE  DiskOK' /\ ProcOK'
  <2>1. m[1] \in Paths /\ m[2] \in Paths
    BY RenamesOnce
  <2>2. Unseen \in Sights(Len(files)) /\ [kind |-> "move", arg |-> m[2]] \in Jobs /\ "rename" \in Phases
    BY <1>1, <2>1 DEF Unseen, Sights, Jobs, Phases
  <2>3. Start(w, m[1], [kind |-> "move", arg |-> m[2]], "rename", Unseen)
    BY <1>5 DEF BeginMove
  <2> QED BY <1>1, <1>k, <2>1, <2>2, <2>3, StartProc DEF Start
<1>6. ASSUME NEW w \in Procs, Finish(w), UNCHANGED <<disk, docs, runs>>
      PROVE  DiskOK' /\ ProcOK'
  <2>1. DiskOK' /\ Len(files') = Len(files)
    BY <1>6, <1>k
  <2> QED BY <1>1, <1>6, <2>1, FinishProc
<1>7. ASSUME NEW w \in Procs, NEW p \in Paths, NEW text \in Contents, Put(p, text), Finish(w),
             UNCHANGED <<docs, runs>>
      PROVE  DiskOK' /\ ProcOK'
  <2>1. DiskOK' /\ Len(files') = Len(files) + 1
    BY <1>1, <1>7, PutDisk
  <2> QED BY <1>1, <1>7, <2>1, FinishProc
<1>8. ASSUME NEW w \in Procs, Command(w) PROVE DiskOK' /\ ProcOK'
  <2>0. target[w] \in Paths /\ edit[w] \in Jobs /\ seen[w] \in Sights(Len(files))
    BY <1>1 DEF ProcOK
  <2>1. CASE Read(w)
    <3>1. CASE Finish(w)
      BY <2>1, <3>1, <1>6 DEF Read
    <3>2. CASE ~Finish(w)
      <4>1. /\ Exists(target[w])
            /\ seen' = [seen EXCEPT ![w].text = FileAt(target[w]).text]
            /\ Goto(w, AfterRead(edit[w]))
            /\ UNCHANGED <<disk, docs, runs, lock, target, edit>>
        BY <2>1, <3>2 DEF Read
      <4>2. FileAt(target[w]).text \in Contents
        BY <1>1, <2>0, <4>1, FileType
      <4>3. seen' \in [Procs -> Sights(Len(files))]
        BY <1>1, <4>1, <4>2 DEF ProcOK, Sights
      <4>4. phase' \in [Procs -> Phases]
        BY <1>1, <4>1 DEF Goto, AfterRead, Phases, ProcOK
      <4> QED BY <1>1, <1>k, <4>1, <4>3, <4>4 DEF ProcOK
    <3> QED BY <3>1, <3>2
  <2>2. CASE Fstat(w)
    <3>1. CASE Finish(w)
      BY <2>2, <3>1, <1>6 DEF Fstat
    <3>2. CASE ~Finish(w)
      <4>1. /\ phase[w] = "fstat"
            /\ seen' = [seen EXCEPT ![w].mtime = files[seen[w].file].mtime]
            /\ Goto(w, AfterRead(edit[w]))
            /\ UNCHANGED <<disk, docs, runs, lock, target, edit>>
        BY <2>2, <3>2 DEF Fstat
      <4>2. files[seen[w].file].mtime \in Nat
        <5>1. seen[w].file \in 1..Len(files)
          BY <4>1 DEF JobsInv, JobOf
        <5>2. files[seen[w].file] \in [mtime : Nat, text : Contents]
          BY <1>1, <5>1, ElementOfSeq DEF DiskOK
        <5> QED BY <5>2
      <4>3. seen' \in [Procs -> Sights(Len(files))]
        BY <1>1, <4>1, <4>2 DEF ProcOK, Sights
      <4>4. phase' \in [Procs -> Phases]
        BY <1>1, <4>1 DEF Goto, AfterRead, Phases, ProcOK
      <4> QED BY <1>1, <1>k, <4>1, <4>3, <4>4 DEF ProcOK
    <3> QED BY <3>1, <3>2
  <2>3. CASE Render(w)
    <3>1. CASE Finish(w)
      BY <2>3, <3>1, <1>6 DEF Render
    <3>2. CASE ~Finish(w)
      BY <1>1, <1>k, <2>3, <3>2 DEF Render, Goto, Phases, ProcOK
    <3> QED BY <3>1, <3>2
  <2>4. CASE CreateDoc(w)
    <3>1. PICK d \in Docs : docs' = docs \cup {d} /\ edit' = [edit EXCEPT ![w].arg = d]
      BY <2>4 DEF CreateDoc
    <3>2. edit[w].kind = "link"
      BY <2>4 DEF CreateDoc, JobsInv, JobOf
    <3>3. [edit[w] EXCEPT !.arg = d] \in Jobs
      BY <2>0, <3>2 DEF Jobs, Requests, Edits
    <3>4. edit' \in [Procs -> Jobs]
      BY <1>1, <3>1, <3>3 DEF ProcOK
    <3> QED BY <1>1, <1>k, <2>4, <3>1, <3>4 DEF CreateDoc, Goto, Phases, ProcOK
  <2>5. CASE Acquire(w)
    BY <1>1, <1>k, <2>5 DEF Acquire, Goto, Phases, ProcOK
  <2>6. CASE Check(w)
    <3>1. CASE Finish(w)
      BY <2>6, <3>1, <1>6 DEF Check
    <3>2. CASE ~Finish(w)
      BY <1>1, <1>k, <2>6, <3>2 DEF Check, Goto, Phases, ProcOK
    <3> QED BY <3>1, <3>2
  <2>7. CASE Publish(w)
    <3>1. CASE edit[w].kind # "create"
      <4>1. edit[w] \in Edits /\ seen[w].text \in Contents
        BY <2>7, <3>1 DEF Publish, JobsInv, JobOf, HasText, Creations
      <4>2. [seen[w].text EXCEPT !.body = Applied(edit[w], @)] \in Contents
        BY <4>1, EditText
      <4> QED BY <2>0, <2>7, <3>1, <4>2, <1>7 DEF Publish
    <3>2. CASE edit[w].kind = "create" /\ ~Exists(target[w])
      <4>1. edit[w].arg \in Stages
        BY <2>7, <3>2 DEF Publish, JobsInv, JobOf, Creations, Edits
      <4>2. [body |-> Fresh(edit[w].arg), remarks |-> {}] \in Contents
        BY <4>1, NewText
      <4> QED BY <2>0, <2>7, <3>2, <4>2, <1>7 DEF Publish
    <3>3. CASE edit[w].kind = "create" /\ Exists(target[w])
      BY <2>7, <3>3, <1>6 DEF Publish
    <3> QED BY <3>1, <3>2, <3>3
  <2>8. CASE Rename(w)
    <3>1. CASE ~Exists(target[w])
      BY <2>8, <3>1, <1>6 DEF Rename, disk
    <3>2. CASE Exists(target[w])
      <4>1. <<target[w], edit[w].arg>> \in Renames
        BY <2>8 DEF Rename, JobsInv, JobOf
      <4>2. edit[w].arg \in Paths /\ target[w] # edit[w].arg
        BY <4>1, RenamesOnce
      <4>3. DiskOK' /\ Len(files') = Len(files)
        BY <1>1, <2>0, <2>8, <3>2, <4>2, MoveDisk DEF Rename
      <4> QED BY <1>1, <2>8, <4>3, FinishProc DEF Rename
    <3> QED BY <3>1, <3>2
  <2>9. CASE Abort(w)
    BY <2>9, <1>6 DEF Abort
  <2> QED BY <1>8, <2>1, <2>2, <2>3, <2>4, <2>5, <2>6, <2>7, <2>8, <2>9 DEF Command
<1>9. ASSUME NEW p \in Paths, NEW r \in Remarks, Remark(p, r) PROVE DiskOK' /\ ProcOK'
  <2> DEFINE text == [FileAt(p).text EXCEPT !.remarks = @ \cup {r}]
  <2>1. text \in Contents
    BY <1>1, <1>9, FileType, RemarkText DEF Remark
  <2>2. DiskOK' /\ Len(files') \in {Len(files), Len(files) + 1}
    <3>1. CASE Put(p, text)
      BY <1>1, <2>1, <3>1, PutDisk
    <3>2. CASE files' = [files EXCEPT ![at[p]] = [mtime |-> clock, text |-> text]]
               /\ clock' = clock + 1 /\ at' = at
      BY <1>1, <1>9, <2>1, <3>2, OverDisk DEF Remark
    <3> QED BY <1>9, <3>1, <3>2 DEF Remark
  <2>3. UNCHANGED <<lock, docs, phase, target, edit, seen, runs>>
    BY <1>9 DEF Remark
  <2>4. seen \in [Procs -> Sights(Len(files'))]
    BY <1>1, <2>2 DEF ProcOK, Sights
  <2> QED BY <1>1, <2>2, <2>3, <2>4 DEF ProcOK
<1>10. CASE UNCHANGED vars
  BY <1>1, <1>k, <1>10 DEF vars, ProcOK
<1> QED BY <1>2, <1>3, <1>4, <1>5, <1>8, <1>9, <1>10 DEF Next
-----------------------------------------------------------------------------
(* What a step leaves of the other commands, and of the files. *)
Others(w) == \A v \in Procs \ {w} :
    /\ phase'[v] = phase[v]
    /\ target'[v] = target[v]
    /\ edit'[v] = edit[v]
    /\ seen'[v] = seen[v]

Ended(w) == phase'[w] = "idle" /\ seen'[w] = Unseen

LEMMA FinishEnds ==
  ASSUME TypeOK, NEW w \in Procs, Finish(w)
  PROVE  Others(w) /\ Ended(w)
BY DEF Finish, Goto, Others, Ended, TypeOK

LEMMA StartBegins ==
  ASSUME TypeOK, NEW w \in Procs, NEW p, NEW e, NEW next, NEW first, Start(w, p, e, next, first)
  PROVE  /\ Others(w) /\ UNCHANGED <<disk, lock, docs>>
         /\ phase'[w] = next /\ target'[w] = p /\ edit'[w] = e /\ seen'[w] = first
BY DEF Start, Goto, Others, TypeOK

Grown ==
    /\ Len(files) \in Nat
    /\ Len(files') \in Nat
    /\ Len(files) <= Len(files')

LEMMA FilesGrow == TypeOK /\ JobsInv /\ [Next]_vars => Grown
<1> SUFFICES ASSUME TypeOK, JobsInv, [Next]_vars PROVE Grown
  OBVIOUS
<1>1. DiskOK /\ Len(files) \in Nat
  BY TypeParts, LenProperties DEF DiskOK
<1>2. CASE UNCHANGED files
  BY <1>1, <1>2 DEF Grown
<1>3. ASSUME NEW w \in Procs, Publish(w), ~UNCHANGED files PROVE Grown
  <2>1. CASE edit[w].kind # "create"
    <3>1. edit[w] \in Edits /\ seen[w].text \in Contents
      BY <1>3, <2>1 DEF Publish, JobsInv, JobOf, HasText, Creations
    <3>2. [seen[w].text EXCEPT !.body = Applied(edit[w], @)] \in Contents
      BY <3>1, EditText
    <3>3. Put(target[w], [seen[w].text EXCEPT !.body = Applied(edit[w], @)]) /\ target[w] \in Paths
      BY <1>3, <2>1 DEF Publish, TypeOK
    <3>4. Len(files') = Len(files) + 1
      BY <1>1, <3>2, <3>3, PutDisk
    <3> QED BY <1>1, <3>4 DEF Grown
  <2>2. CASE edit[w].kind = "create"
    <3>1. edit[w].arg \in Stages
      BY <1>3, <2>2 DEF Publish, JobsInv, JobOf, Creations, Edits
    <3>2. [body |-> Fresh(edit[w].arg), remarks |-> {}] \in Contents
      BY <3>1, NewText
    <3>3. Put(target[w], [body |-> Fresh(edit[w].arg), remarks |-> {}]) /\ target[w] \in Paths
      BY <1>3, <2>2 DEF Publish, TypeOK, disk
    <3>4. Len(files') = Len(files) + 1
      BY <1>1, <3>2, <3>3, PutDisk
    <3> QED BY <1>1, <3>4 DEF Grown
  <2> QED BY <2>1, <2>2
<1>4. ASSUME NEW p \in Paths, NEW r \in Remarks, Remark(p, r) PROVE Grown
  <2> DEFINE text == [FileAt(p).text EXCEPT !.remarks = @ \cup {r}]
  <2>1. text \in Contents
    BY <1>1, <1>4, FileType, RemarkText DEF Remark
  <2>2. CASE Put(p, text)
    <3>1. Len(files') = Len(files) + 1
      BY <1>1, <2>1, <2>2, PutDisk
    <3> QED BY <1>1, <3>1 DEF Grown
  <2>3. CASE files' = [files EXCEPT ![at[p]] = [mtime |-> clock, text |-> text]]
             /\ clock' = clock + 1 /\ at' = at
    <3>1. Len(files') = Len(files)
      BY <1>1, <1>4, <2>1, <2>3, OverDisk DEF Remark
    <3> QED BY <1>1, <3>1 DEF Grown
  <2> QED BY <1>4, <2>2, <2>3 DEF Remark
<1>5. ASSUME NEW w \in Procs, Command(w), ~UNCHANGED files PROVE Grown
  BY <1>3, <1>5 DEF Command, Read, Fstat, Render, CreateDoc, Acquire, Check, Rename, Abort, disk
<1>6. ASSUME ~UNCHANGED files,
             \/ \E w \in Procs, p \in Paths, e \in Requests : BeginWithStat(w, p, e) \/ BeginWithRead(w, p, e)
             \/ \E w \in Procs, p \in Paths, s \in Stages : BeginCreate(w, p, s)
             \/ \E w \in Procs, m \in Renames : BeginMove(w, m)
      PROVE  FALSE
  BY <1>6 DEF BeginWithStat, BeginWithRead, BeginCreate, BeginMove, Start, disk
<1> QED BY <1>2, <1>4, <1>5, <1>6 DEF Next, vars, disk

LEMMA JobsStep == TypeOK /\ JobsInv /\ [Next]_vars => JobsInv'
<1> SUFFICES ASSUME TypeOK, JobsInv, [Next]_vars PROVE JobsInv'
  OBVIOUS
<1>g. Grown /\ TypeOK'
  BY FilesGrow, TypeStep
<1>d. DiskOK /\ DiskOK'
  BY <1>g DEF TypeOK, DiskOK, Exists
<1>o. ASSUME NEW w \in Procs, Others(w), JobOf(w)' PROVE JobsInv'
  <2> SUFFICES ASSUME NEW v \in Procs, v # w PROVE JobOf(v)'
    BY <1>o DEF JobsInv
  <2> QED BY <1>g, <1>o DEF Others, JobsInv, JobOf, HasText, Grown
<1>f. ASSUME NEW w \in Procs, Finish(w) PROVE JobsInv'
  <2>1. Others(w) /\ Ended(w)
    BY <1>f, FinishEnds
  <2> QED BY <1>o, <2>1 DEF Ended, JobOf, HasText
<1>1. ASSUME NEW w \in Procs, NEW p \in Paths, NEW e \in Requests, BeginWithStat(w, p, e)
      PROVE  JobsInv'
  <2>1. Others(w) /\ phase'[w] = "read" /\ edit'[w] = e
    BY <1>1, StartBegins DEF BeginWithStat
  <2> QED BY <1>o, <2>1 DEF JobOf, HasText
<1>2. ASSUME NEW w \in Procs, NEW p \in Paths, NEW e \in Requests, BeginWithRead(w, p, e)
      PROVE  JobsInv'
  <2>1. /\ Others(w) /\ phase'[w] = "fstat" /\ edit'[w] = e /\ files' = files
        /\ seen'[w] = [Unseen EXCEPT !.file = at[p], !.text = FileAt(p).text]
    BY <1>2, StartBegins DEF BeginWithRead, disk
  <2>2. at[p] \in 1..Len(files) /\ FileAt(p).text \in Contents
    BY <1>2, <1>d, FileType DEF BeginWithRead
  <2>3. seen'[w].file = at[p] /\ seen'[w].text = FileAt(p).text
    BY <2>1 DEF Unseen
  <2> QED BY <1>o, <2>1, <2>2, <2>3 DEF JobOf, HasText
<1>3. ASSUME NEW w \in Procs, NEW p \in Paths, NEW s \in Stages, BeginCreate(w, p, s)
      PROVE  JobsInv'
  <2>1. Others(w) /\ phase'[w] = "lock" /\ edit'[w] = [kind |-> "create", arg |-> s]
    BY <1>3, StartBegins DEF BeginCreate
  <2>2. edit'[w] \in Creations /\ edit'[w].kind = "create"
    BY <2>1 DEF Creations
  <2>3. JobOf(w)'
    BY <2>1, <2>2 DEF JobOf, HasText
  <2> QED BY <1>o, <2>1, <2>3
<1>4. ASSUME NEW w \in Procs, NEW m \in Renames, BeginMove(w, m) PROVE JobsInv'
  <2>1. /\ Others(w) /\ phase'[w] = "rename" /\ target'[w] = m[1]
        /\ edit'[w] = [kind |-> "move", arg |-> m[2]]
    BY <1>4, StartBegins DEF BeginMove
  <2>2. m = <<m[1], m[2]>>
    BY RenamesOnce
  <2>3. edit'[w].kind = "move" /\ <<target'[w], edit'[w].arg>> \in Renames
    BY <2>1, <2>2
  <2>4. JobOf(w)'
    BY <2>1, <2>3 DEF JobOf, HasText
  <2> QED BY <1>o, <2>1, <2>4
<1>5. ASSUME NEW w \in Procs, Command(w) PROVE JobsInv'
  <2>1. CASE Read(w) /\ ~Finish(w)
    <3>1. /\ phase[w] = "read"
          /\ Exists(target[w])
          /\ seen' = [seen EXCEPT ![w].text = FileAt(target[w]).text]
          /\ phase' = [phase EXCEPT ![w] = AfterRead(edit[w])]
          /\ UNCHANGED <<disk, docs, runs, lock, target, edit>>
      BY <2>1 DEF Read, Goto
    <3>2. Others(w) /\ phase'[w] = AfterRead(edit[w]) /\ seen'[w].text = FileAt(target[w]).text
      BY <3>1 DEF Others, TypeOK
    <3>3. FileAt(target[w]).text \in Contents
      BY <1>d, <3>1, FileType DEF TypeOK
    <3>4. edit[w] \in Requests /\ edit'[w] = edit[w]
      BY <3>1 DEF JobsInv, JobOf
    <3> QED BY <1>o, <3>2, <3>3, <3>4 DEF JobOf, HasText, AfterRead, Requests
  <2>2. CASE Fstat(w) /\ ~Finish(w)
    <3>1. /\ phase[w] = "fstat"
          /\ seen' = [seen EXCEPT ![w].mtime = files[seen[w].file].mtime]
          /\ phase' = [phase EXCEPT ![w] = AfterRead(edit[w])]
          /\ UNCHANGED <<disk, docs, runs, lock, target, edit>>
      BY <2>2 DEF Fstat, Goto
    <3>2. Others(w) /\ phase'[w] = AfterRead(edit[w]) /\ seen'[w].text = seen[w].text
      BY <3>1 DEF Others, TypeOK
    <3>3. edit[w] \in Requests /\ edit'[w] = edit[w] /\ seen[w].text \in Contents
      BY <3>1 DEF JobsInv, JobOf, HasText
    <3> QED BY <1>o, <3>2, <3>3 DEF JobOf, HasText, AfterRead, Requests
  <2>3. CASE Render(w) /\ ~Finish(w)
    <3>1. Others(w) /\ phase[w] = "render" /\ phase'[w] = "lock" /\ edit'[w] = edit[w] /\ seen'[w] = seen[w]
      BY <2>3 DEF Render, Goto, Others, TypeOK
    <3> QED BY <1>o, <3>1 DEF JobsInv, JobOf, HasText
  <2>4. CASE CreateDoc(w)
    <3>1. PICK d \in Docs : edit' = [edit EXCEPT ![w].arg = d]
      BY <2>4 DEF CreateDoc
    <3>2. phase[w] = "drive" /\ edit[w].kind = "link" /\ seen[w].text \in Contents
      BY <2>4 DEF CreateDoc, JobsInv, JobOf, HasText
    <3>3. Others(w) /\ phase'[w] = "lock" /\ seen'[w] = seen[w]
      BY <2>4, <3>1 DEF CreateDoc, Goto, Others, TypeOK
    <3>4. [edit[w] EXCEPT !.arg = d] \in Edits
      BY <3>2 DEF TypeOK, Jobs, Requests, Edits
    <3>5. edit'[w] \in Edits
      BY <3>1, <3>4 DEF TypeOK
    <3> QED BY <1>o, <3>2, <3>3, <3>5 DEF JobOf, HasText
  <2>5. CASE Acquire(w)
    <3>1. Others(w) /\ phase[w] = "lock" /\ phase'[w] = "check" /\ edit'[w] = edit[w] /\ seen'[w] = seen[w]
      BY <2>5 DEF Acquire, Goto, Others, TypeOK
    <3> QED BY <1>o, <3>1 DEF JobsInv, JobOf, HasText
  <2>6. CASE Check(w) /\ ~Finish(w)
    <3>1. Others(w) /\ phase[w] = "check" /\ phase'[w] = "publish" /\ edit'[w] = edit[w] /\ seen'[w] = seen[w]
      BY <2>6 DEF Check, Goto, Others, TypeOK
    <3> QED BY <1>o, <3>1 DEF JobsInv, JobOf, HasText
  <2>7. CASE Publish(w)
    BY <2>7, <1>f DEF Publish
  <2>8. CASE Rename(w)
    BY <2>8, <1>f DEF Rename
  <2>9. CASE Abort(w)
    BY <2>9, <1>f DEF Abort
  <2> QED BY <1>5, <1>f, <2>1, <2>2, <2>3, <2>4, <2>5, <2>6, <2>7, <2>8, <2>9 DEF Command
<1>6. ASSUME NEW p \in Paths, NEW r \in Remarks, Remark(p, r) PROVE JobsInv'
  BY <1>6, <1>g DEF Remark, JobsInv, JobOf, HasText, Grown
<1>7. CASE UNCHANGED vars
  BY <1>7 DEF vars, disk, JobsInv, JobOf, HasText
<1> QED BY <1>1, <1>2, <1>3, <1>4, <1>5, <1>6, <1>7 DEF Next
-----------------------------------------------------------------------------
LEMMA LocksStep == TypeOK /\ LocksInv /\ [Next]_vars => LocksInv'
<1> SUFFICES ASSUME TypeOK, LocksInv, [Next]_vars PROVE LocksInv'
  OBVIOUS
<1>f. ASSUME NEW w \in Procs, Finish(w) PROVE LocksInv'
  <2>1. Others(w) /\ Ended(w)
    BY <1>f, FinishEnds
  <2>2. \A p \in Paths : lock[p] # w => lock'[p] = lock[p]
    BY <1>f DEF Finish, Release
  <2> QED BY <2>1, <2>2 DEF LocksInv, Others, Ended, TypeOK
<1>k. ASSUME NEW w \in Procs, Others(w), lock' = lock,
             phase'[w] \in {"check", "publish"} => phase[w] = "check" /\ target'[w] = target[w]
      PROVE  LocksInv'
  BY <1>k DEF LocksInv, Others
<1>1. ASSUME NEW w \in Procs, NEW p, NEW e, NEW next, NEW first, Start(w, p, e, next, first),
             next \notin {"check", "publish"}
      PROVE  LocksInv'
  <2>1. Others(w) /\ lock' = lock /\ phase'[w] = next
    BY <1>1, StartBegins
  <2> QED BY <1>1, <1>k, <2>1
<1>2. ASSUME NEW w \in Procs, Command(w), ~Finish(w), ~Acquire(w) PROVE LocksInv'
  <2>1. CASE Read(w) \/ Fstat(w)
    <3>1. Others(w) /\ phase'[w] = AfterRead(edit[w]) /\ lock' = lock
      BY <1>2, <2>1 DEF Read, Fstat, Goto, Others, TypeOK
    <3> QED BY <1>k, <3>1 DEF AfterRead
  <2>2. CASE Render(w) \/ CreateDoc(w)
    <3>1. Others(w) /\ phase'[w] = "lock" /\ lock' = lock
      BY <1>2, <2>2 DEF Render, CreateDoc, Goto, Others, TypeOK
    <3> QED BY <1>k, <3>1
  <2>3. CASE Check(w)
    <3>1. Others(w) /\ phase[w] = "check" /\ target'[w] = target[w] /\ lock' = lock
      BY <1>2, <2>3 DEF Check, Goto, Others, TypeOK
    <3> QED BY <1>k, <3>1
  <2> QED BY <1>2, <2>1, <2>2, <2>3 DEF Command, Publish, Rename, Abort
<1>3. ASSUME NEW w \in Procs, Acquire(w) PROVE LocksInv'
  <2>1. /\ Others(w) /\ target'[w] = target[w]
        /\ lock[target[w]] = NoProc /\ lock' = [lock EXCEPT ![target[w]] = w]
    BY <1>3 DEF Acquire, Goto, Others, TypeOK
  <2>2. ASSUME NEW v \in Procs, v # w, phase'[v] \in {"check", "publish"}
        PROVE  lock'[target'[v]] = v
    <3>1. lock[target[v]] = v /\ target'[v] = target[v]
      BY <2>1, <2>2 DEF Others, LocksInv
    <3>2. target[v] # target[w]
      BY <2>1, <3>1, NoProcIsNone
    <3> QED BY <2>1, <3>1, <3>2 DEF TypeOK
  <2>3. lock'[target'[w]] = w
    BY <2>1 DEF TypeOK
  <2> QED BY <2>2, <2>3 DEF LocksInv
<1>4. ASSUME NEW w \in Procs, NEW p \in Paths, NEW e \in Requests,
             BeginWithStat(w, p, e) \/ BeginWithRead(w, p, e)
      PROVE  LocksInv'
  BY <1>1, <1>4 DEF BeginWithStat, BeginWithRead
<1>5. ASSUME NEW w \in Procs, NEW p \in Paths, NEW s \in Stages, BeginCreate(w, p, s)
      PROVE  LocksInv'
  BY <1>1, <1>5 DEF BeginCreate
<1>6. ASSUME NEW w \in Procs, NEW m \in Renames, BeginMove(w, m) PROVE LocksInv'
  <2>1. Start(w, m[1], [kind |-> "move", arg |-> m[2]], "rename", Unseen)
    BY <1>6 DEF BeginMove
  <2>2. Others(w) /\ lock' = lock /\ phase'[w] = "rename"
    BY <2>1, StartBegins
  <2> QED BY <1>k, <2>2
<1>7. ASSUME NEW p \in Paths, NEW r \in Remarks, Remark(p, r) PROVE LocksInv'
  BY <1>7 DEF Remark, LocksInv
<1>8. CASE UNCHANGED vars
  BY <1>8 DEF vars, LocksInv
<1> QED BY <1>f, <1>2, <1>3, <1>4, <1>5, <1>6, <1>7, <1>8 DEF Next
-----------------------------------------------------------------------------
(* The four things a step may do to the disk, and the things a command may do *)
(* to what it goes by.                                                        *)
PutShape(p) ==
    /\ Len(files') = Len(files) + 1
    /\ \A i \in 1..Len(files) : files'[i] = files[i]
    /\ files'[Len(files) + 1].mtime = clock
    /\ at' = [at EXCEPT ![p] = Len(files) + 1]
    /\ clock' = clock + 1

OverShape(p) ==
    /\ Exists(p)
    /\ Len(files') = Len(files)
    /\ \A i \in 1..Len(files) : i # at[p] => files'[i] = files[i]
    /\ files'[at[p]].mtime = clock
    /\ Matches(files'[at[p]].text, files[at[p]].text)
    /\ at' = at
    /\ clock' = clock + 1

MoveShape(p, q) ==
    /\ <<p, q>> \in Renames
    /\ UNCHANGED <<files, clock>>
    /\ at' = [at EXCEPT ![q] = at[p], ![p] = 0]

Shape ==
    \/ UNCHANGED disk
    \/ \E p \in Paths : PutShape(p) \/ OverShape(p)
    \/ \E p, q \in Paths : MoveShape(p, q)

LEMMA Shapes == TypeOK /\ JobsInv /\ [Next]_vars => Shape
<1> SUFFICES ASSUME TypeOK, JobsInv, [Next]_vars, ~UNCHANGED disk PROVE Shape
  BY DEF Shape
<1>1. DiskOK /\ Len(files) \in Nat
  BY TypeParts, LenProperties DEF DiskOK
<1>2. ASSUME NEW p \in Paths, NEW text \in Contents, Put(p, text) PROVE Shape
  <2>1. /\ Len(files') = Len(files) + 1
        /\ \A i \in 1..Len(files) : files'[i] = files[i]
        /\ files'[Len(files) + 1] = [mtime |-> clock, text |-> text]
        /\ at' = [at EXCEPT ![p] = Len(files) + 1]
        /\ clock' = clock + 1
    BY <1>1, <1>2, PutDisk
  <2>2. PutShape(p)
    BY <2>1 DEF PutShape
  <2> QED BY <2>2 DEF Shape
<1>3. ASSUME NEW w \in Procs, Publish(w) PROVE Shape
  <2>0. target[w] \in Paths
    BY DEF TypeOK
  <2>1. CASE edit[w].kind # "create"
    <3>1. edit[w] \in Edits /\ seen[w].text \in Contents
      BY <1>3, <2>1 DEF Publish, JobsInv, JobOf, HasText, Creations
    <3>2. [seen[w].text EXCEPT !.body = Applied(edit[w], @)] \in Contents
      BY <3>1, EditText
    <3>3. Put(target[w], [seen[w].text EXCEPT !.body = Applied(edit[w], @)])
      BY <1>3, <2>1 DEF Publish
    <3> QED BY <1>2, <2>0, <3>2, <3>3
  <2>2. CASE edit[w].kind = "create"
    <3>1. edit[w].arg \in Stages
      BY <1>3, <2>2 DEF Publish, JobsInv, JobOf, Creations, Edits
    <3>2. [body |-> Fresh(edit[w].arg), remarks |-> {}] \in Contents
      BY <3>1, NewText
    <3>3. Put(target[w], [body |-> Fresh(edit[w].arg), remarks |-> {}])
      BY <1>3, <2>2 DEF Publish
    <3> QED BY <1>2, <2>0, <3>2, <3>3
  <2> QED BY <2>1, <2>2
<1>4. ASSUME NEW p \in Paths, NEW r \in Remarks, Remark(p, r) PROVE Shape
  <2> DEFINE text == [FileAt(p).text EXCEPT !.remarks = @ \cup {r}]
  <2>1. text \in Contents /\ Exists(p) /\ FileAt(p).text \in Contents
    BY <1>1, <1>4, FileType, RemarkText DEF Remark
  <2>2. Matches(text, FileAt(p).text)
    BY <2>1 DEF Matches, Contents
  <2>3. CASE Put(p, text)
    BY <1>2, <2>1, <2>3
  <2>4. CASE files' = [files EXCEPT ![at[p]] = [mtime |-> clock, text |-> text]]
             /\ clock' = clock + 1 /\ at' = at
    <3>1. /\ Len(files') = Len(files)
          /\ files'[at[p]] = [mtime |-> clock, text |-> text]
          /\ \A i \in 1..Len(files) : i # at[p] => files'[i] = files[i]
      BY <1>1, <2>1, <2>4, OverDisk
    <3>2. files'[at[p]].mtime = clock /\ files'[at[p]].text = text
      BY <3>1
    <3>3. Matches(files'[at[p]].text, files[at[p]].text)
      BY <2>2, <3>2 DEF FileAt
    <3>4. OverShape(p)
      BY <2>1, <2>4, <3>1, <3>2, <3>3 DEF OverShape
    <3> QED BY <3>4 DEF Shape
  <2> QED BY <1>4, <2>3, <2>4 DEF Remark
<1>5. ASSUME NEW w \in Procs, Rename(w) PROVE Shape
  <2>1. <<target[w], edit[w].arg>> \in Renames
    BY <1>5 DEF Rename, JobsInv, JobOf
  <2>2. target[w] \in Paths /\ edit[w].arg \in Paths
    BY <2>1, RenamesOnce
  <2>3. MoveShape(target[w], edit[w].arg)
    BY <1>5, <2>1 DEF Rename, MoveShape, disk
  <2> QED BY <2>2, <2>3 DEF Shape
<1>6. ASSUME NEW w \in Procs, Command(w) PROVE Publish(w) \/ Rename(w)
  BY <1>6 DEF Command, Read, Fstat, Render, CreateDoc, Acquire, Check, Abort, disk
<1>7. ASSUME \/ \E w \in Procs, p \in Paths, e \in Requests : BeginWithStat(w, p, e) \/ BeginWithRead(w, p, e)
             \/ \E w \in Procs, p \in Paths, s \in Stages : BeginCreate(w, p, s)
             \/ \E w \in Procs, m \in Renames : BeginMove(w, m)
      PROVE  FALSE
  BY <1>7 DEF BeginWithStat, BeginWithRead, BeginCreate, BeginMove, Start, disk
<1> QED BY <1>3, <1>4, <1>5, <1>6, <1>7 DEF Next, vars, disk

Going(w) == phase[w] \in Timed /\ edit[w].kind # "create"

Keeps(w) ==
    /\ seen'[w] = seen[w] /\ target'[w] = target[w]
    /\ phase'[w] = "fstat" => phase[w] = "fstat"
    /\ Going(w)' => Going(w)
    /\ HasRead(w)' => HasRead(w)

Rests(w) ==
    /\ seen'[w] = Unseen
    /\ phase'[w] # "fstat" /\ ~Going(w)' /\ ~HasRead(w)'

StatsNow(w) ==
    /\ Exists(target'[w]) /\ phase'[w] = "read"
    /\ seen'[w].mtime = FileAt(target'[w]).mtime
    /\ UNCHANGED disk

OpensNow(w) ==
    /\ Exists(target'[w]) /\ phase'[w] = "fstat"
    /\ seen'[w].file = at[target'[w]]
    /\ seen'[w].mtime = 0
    /\ seen'[w].text = FileAt(target'[w]).text
    /\ UNCHANGED disk

ReadsNow(w) ==
    /\ phase[w] = "read" /\ phase'[w] # "fstat"
    /\ Exists(target[w])
    /\ target'[w] = target[w] /\ edit'[w] = edit[w]
    /\ seen'[w].mtime = seen[w].mtime
    /\ seen'[w].text = FileAt(target[w]).text
    /\ UNCHANGED disk

FstatsNow(w) ==
    /\ phase[w] = "fstat" /\ phase'[w] # "fstat"
    /\ target'[w] = target[w]
    /\ seen'[w].file = seen[w].file
    /\ seen'[w].mtime = files[seen[w].file].mtime
    /\ seen'[w].text = seen[w].text
    /\ UNCHANGED disk

Local(w) ==
    Keeps(w) \/ Rests(w) \/ StatsNow(w) \/ OpensNow(w) \/ ReadsNow(w) \/ FstatsNow(w)

LEMMA Locals == TypeOK /\ JobsInv /\ [Next]_vars => \A w \in Procs : Local(w)
<1> SUFFICES ASSUME TypeOK, JobsInv, [Next]_vars PROVE \A w \in Procs : Local(w)
  OBVIOUS
<1>o. ASSUME NEW w \in Procs, Others(w), Local(w) PROVE \A v \in Procs : Local(v)
  BY <1>o DEF Others, Local, Keeps, Going, HasRead
<1>f. ASSUME NEW w \in Procs, Finish(w) PROVE \A v \in Procs : Local(v)
  <2>1. Others(w) /\ Ended(w)
    BY <1>f, FinishEnds
  <2>2. Rests(w)
    BY <2>1 DEF Ended, Rests, Going, HasRead, Timed
  <2> QED BY <1>o, <2>1, <2>2 DEF Local
<1>1. ASSUME NEW w \in Procs, NEW p \in Paths, NEW e \in Requests, BeginWithStat(w, p, e)
      PROVE  \A v \in Procs : Local(v)
  <2>1. /\ Others(w) /\ phase'[w] = "read" /\ target'[w] = p /\ UNCHANGED disk /\ Exists(p)
        /\ seen'[w] = [Unseen EXCEPT !.mtime = FileAt(p).mtime]
    BY <1>1, StartBegins DEF BeginWithStat
  <2>2. StatsNow(w)
    BY <2>1 DEF StatsNow, Unseen
  <2> QED BY <1>o, <2>1, <2>2 DEF Local
<1>2. ASSUME NEW w \in Procs, NEW p \in Paths, NEW e \in Requests, BeginWithRead(w, p, e)
      PROVE  \A v \in Procs : Local(v)
  <2>1. /\ Others(w) /\ phase'[w] = "fstat" /\ target'[w] = p /\ UNCHANGED disk /\ Exists(p)
        /\ seen'[w] = [Unseen EXCEPT !.file = at[p], !.text = FileAt(p).text]
    BY <1>2, StartBegins DEF BeginWithRead
  <2>2. OpensNow(w)
    BY <2>1 DEF OpensNow, Unseen
  <2> QED BY <1>o, <2>1, <2>2 DEF Local
<1>3. ASSUME NEW w \in Procs, NEW p \in Paths, NEW s \in Stages, BeginCreate(w, p, s)
      PROVE  \A v \in Procs : Local(v)
  <2>1. /\ Others(w) /\ phase'[w] = "lock" /\ edit'[w] = [kind |-> "create", arg |-> s]
        /\ seen'[w] = Unseen
    BY <1>3, StartBegins DEF BeginCreate
  <2>2. Rests(w)
    BY <2>1 DEF Rests, Going, HasRead
  <2> QED BY <1>o, <2>1, <2>2 DEF Local
<1>4. ASSUME NEW w \in Procs, NEW m \in Renames, BeginMove(w, m) PROVE \A v \in Procs : Local(v)
  <2>0. Start(w, m[1], [kind |-> "move", arg |-> m[2]], "rename", Unseen)
    BY <1>4 DEF BeginMove
  <2>1. Others(w) /\ phase'[w] = "rename" /\ seen'[w] = Unseen
    BY <2>0, StartBegins
  <2>2. Rests(w)
    BY <2>1 DEF Rests, Going, HasRead, Timed
  <2> QED BY <1>o, <2>1, <2>2 DEF Local
<1>5. ASSUME NEW w \in Procs, Command(w), ~Finish(w) PROVE \A v \in Procs : Local(v)
  <2>1. CASE Read(w)
    <3>1. /\ phase[w] = "read"
          /\ Exists(target[w])
          /\ seen' = [seen EXCEPT ![w].text = FileAt(target[w]).text]
          /\ phase' = [phase EXCEPT ![w] = AfterRead(edit[w])]
          /\ UNCHANGED <<disk, docs, runs, lock, target, edit>>
      BY <1>5, <2>1 DEF Read, Goto
    <3>2. Others(w) /\ phase'[w] # "fstat"
      BY <3>1 DEF Others, AfterRead, TypeOK
    <3>3. seen'[w].mtime = seen[w].mtime /\ seen'[w].text = FileAt(target[w]).text
      BY <3>1 DEF TypeOK
    <3>4. ReadsNow(w)
      BY <3>1, <3>2, <3>3 DEF ReadsNow
    <3> QED BY <1>o, <3>2, <3>4 DEF Local
  <2>2. CASE Fstat(w)
    <3>1. /\ phase[w] = "fstat"
          /\ seen' = [seen EXCEPT ![w].mtime = files[seen[w].file].mtime]
          /\ phase' = [phase EXCEPT ![w] = AfterRead(edit[w])]
          /\ UNCHANGED <<disk, docs, runs, lock, target, edit>>
      BY <1>5, <2>2 DEF Fstat, Goto
    <3>2. Others(w) /\ phase'[w] # "fstat"
      BY <3>1 DEF Others, AfterRead, TypeOK
    <3>3. /\ seen'[w].mtime = files[seen[w].file].mtime
          /\ seen'[w].text = seen[w].text /\ seen'[w].file = seen[w].file
      BY <3>1 DEF TypeOK
    <3>4. FstatsNow(w)
      BY <3>1, <3>2, <3>3 DEF FstatsNow
    <3> QED BY <1>o, <3>2, <3>4 DEF Local
  <2>3. CASE Render(w)
    <3>1. /\ Others(w) /\ phase[w] = "render" /\ phase'[w] = "lock" /\ edit'[w] = edit[w]
          /\ seen'[w] = seen[w] /\ target'[w] = target[w]
      BY <1>5, <2>3 DEF Render, Goto, Others, TypeOK
    <3> QED BY <1>o, <3>1 DEF Local, Keeps, Going, HasRead, Timed
  <2>4. CASE CreateDoc(w)
    <3>1. PICK d \in Docs : edit' = [edit EXCEPT ![w].arg = d]
      BY <2>4 DEF CreateDoc
    <3>2. edit'[w].kind = edit[w].kind
      BY <3>1 DEF TypeOK
    <3>3. /\ Others(w) /\ phase[w] = "drive" /\ phase'[w] = "lock"
          /\ seen'[w] = seen[w] /\ target'[w] = target[w]
      BY <2>4, <3>1 DEF CreateDoc, Goto, Others, TypeOK
    <3> QED BY <1>o, <3>2, <3>3 DEF Local, Keeps, Going, HasRead, Timed
  <2>5. CASE Acquire(w)
    <3>1. /\ Others(w) /\ phase[w] = "lock" /\ phase'[w] = "check" /\ edit'[w] = edit[w]
          /\ seen'[w] = seen[w] /\ target'[w] = target[w]
      BY <2>5 DEF Acquire, Goto, Others, TypeOK
    <3> QED BY <1>o, <3>1 DEF Local, Keeps, Going, HasRead, Timed
  <2>6. CASE Check(w)
    <3>1. /\ Others(w) /\ phase'[w] = "publish" /\ seen'[w] = seen[w] /\ target'[w] = target[w]
      BY <1>5, <2>6 DEF Check, Goto, Others, TypeOK
    <3> QED BY <1>o, <3>1 DEF Local, Keeps, Going, HasRead, Timed
  <2> QED BY <1>5, <2>1, <2>2, <2>3, <2>4, <2>5, <2>6 DEF Command, Publish, Rename, Abort
<1>6. ASSUME NEW p \in Paths, NEW r \in Remarks, Remark(p, r) PROVE \A v \in Procs : Local(v)
  BY <1>6 DEF Remark, Local, Keeps, Going, HasRead
<1>7. CASE UNCHANGED vars
  BY <1>7 DEF vars, Local, Keeps, Going, HasRead
<1> QED BY <1>f, <1>1, <1>2, <1>3, <1>4, <1>5, <1>6, <1>7 DEF Next
-----------------------------------------------------------------------------
LEMMA TimesStep ==
  TypeOK /\ JobsInv /\ TimesInv /\ [Next]_vars => TimesInv'
<1> SUFFICES ASSUME TypeOK, JobsInv, TimesInv, [Next]_vars PROVE TimesInv'
  OBVIOUS
<1>1. Len(files) \in Nat /\ clock \in Nat /\ DiskOK
  BY TypeParts, LenProperties DEF DiskOK
<1>2. Shape /\ \A w \in Procs : Local(w)
  BY Shapes, Locals
<1>t. \A i \in 1..Len(files) : files[i].mtime \in Nat
  <2> TAKE i \in 1..Len(files)
  <2>1. files[i] \in [mtime : Nat, text : Contents]
    BY <1>1, ElementOfSeq DEF DiskOK
  <2> QED BY <2>1
<1>3. clock' >= clock /\ clock' \in Nat
  <2>1. clock' = clock \/ clock' = clock + 1
    <3>1. UNCHANGED disk => clock' = clock
      BY DEF disk
    <3>2. \A p \in Paths : PutShape(p) \/ OverShape(p) => clock' = clock + 1
      BY DEF PutShape, OverShape
    <3>3. \A p, q \in Paths : MoveShape(p, q) => clock' = clock
      BY DEF MoveShape
    <3> QED BY <1>2, <3>1, <3>2, <3>3 DEF Shape
  <2> QED BY <1>1, <2>1
<1>4. ASSUME NEW w \in Procs PROVE seen'[w].mtime < clock'
  <2>0. seen[w].mtime < clock /\ seen[w].mtime \in Nat /\ 0 < clock
    BY <1>1 DEF TimesInv, TypeOK
  <2>1. CASE Keeps(w) \/ ReadsNow(w)
    BY <1>1, <1>3, <2>0, <2>1 DEF Keeps, ReadsNow
  <2>2. CASE Rests(w) \/ OpensNow(w)
    BY <1>1, <1>3, <2>0, <2>2 DEF Rests, OpensNow, Unseen
  <2>3. CASE StatsNow(w)
    <3>1. target'[w] \in Paths
      BY TypeStep DEF TypeOK
    <3>2. at[target'[w]] \in 1..Len(files)
      BY <1>1, <2>3, <3>1, FileType DEF StatsNow
    <3> QED BY <1>1, <1>3, <2>3, <3>2 DEF StatsNow, TimesInv, FileAt, disk
  <2>4. CASE FstatsNow(w)
    BY <1>1, <1>3, <2>4 DEF FstatsNow, TimesInv, JobsInv, JobOf, disk
  <2> QED BY <1>2, <2>1, <2>2, <2>3, <2>4 DEF Local
<1>5. /\ \A i, j \in 1..Len(files') : files'[i].mtime = files'[j].mtime => i = j
      /\ \A i \in 1..Len(files') : files'[i].mtime < clock'
  <2>1. CASE UNCHANGED <<files, clock>>
    BY <2>1 DEF TimesInv
  <2>2. ASSUME NEW p \in Paths, PutShape(p)
        PROVE  /\ \A i, j \in 1..Len(files') : files'[i].mtime = files'[j].mtime => i = j
               /\ \A i \in 1..Len(files') : files'[i].mtime < clock'
    <3>1. \A i \in 1..Len(files') : i \in 1..Len(files) \/ i = Len(files) + 1
      BY <1>1, <2>2 DEF PutShape
    <3>2. \A i \in 1..Len(files) : files'[i].mtime < clock /\ files'[i].mtime \in Nat
      BY <1>t, <2>2 DEF PutShape, TimesInv
    <3>3. files'[Len(files) + 1].mtime = clock /\ clock' = clock + 1
      BY <2>2 DEF PutShape
    <3>4. \A i, j \in 1..Len(files) : files'[i].mtime = files'[j].mtime => i = j
      BY <2>2 DEF PutShape, TimesInv
    <3>5. \A i \in 1..Len(files') : files'[i].mtime < clock'
      BY <1>1, <3>1, <3>2, <3>3
    <3>6. ASSUME NEW i \in 1..Len(files'), NEW j \in 1..Len(files'), files'[i].mtime = files'[j].mtime
          PROVE  i = j
      <4>1. i \in 1..Len(files) => files'[i].mtime < clock
        BY <3>2
      <4>2. j \in 1..Len(files) => files'[j].mtime < clock
        BY <3>2
      <4>3. i \in 1..Len(files) <=> j \in 1..Len(files)
        BY <1>1, <3>1, <3>3, <3>6, <4>1, <4>2
      <4> QED BY <3>1, <3>4, <3>6, <4>3
    <3> QED BY <3>5, <3>6
  <2>3. ASSUME NEW p \in Paths, OverShape(p)
        PROVE  /\ \A i, j \in 1..Len(files') : files'[i].mtime = files'[j].mtime => i = j
               /\ \A i \in 1..Len(files') : files'[i].mtime < clock'
    <3>1. \A i \in 1..Len(files) : i # at[p] => files'[i].mtime < clock /\ files'[i].mtime \in Nat
      BY <1>t, <2>3 DEF OverShape, TimesInv
    <3>2. Len(files') = Len(files) /\ files'[at[p]].mtime = clock /\ clock' = clock + 1
      BY <2>3 DEF OverShape
    <3>3. \A i, j \in 1..Len(files) : i # at[p] /\ j # at[p] /\ files'[i].mtime = files'[j].mtime => i = j
      BY <2>3 DEF OverShape, TimesInv
    <3> QED BY <1>1, <3>1, <3>2, <3>3
  <2> QED BY <1>2, <2>1, <2>2, <2>3 DEF Shape, MoveShape, disk
<1> QED BY <1>4, <1>5 DEF TimesInv

\* A file that leaves a path does not come back to it.
LEMMA NoReturn ==
  ASSUME NEW t \in Paths, NEW p \in Paths, NEW q \in Paths, <<p, q>> \in Renames,
         p = t \/ <<t, p>> \in Renames
  PROVE  p = t /\ q # t /\ <<t, q>> \in Renames
BY RenamesOnce

LEMMA HomeStep ==
  TypeOK /\ JobsInv /\ TimesInv /\ HomeInv /\ [Next]_vars => HomeInv'
<1> SUFFICES ASSUME TypeOK, JobsInv, TimesInv, HomeInv, [Next]_vars,
                    NEW w \in Procs, NEW p \in Paths, Exists(p)'
             PROVE  /\ phase'[w] = "fstat" /\ at'[p] = seen'[w].file => p = target'[w] \/ Away(w, p)'
                    /\ Going(w)' /\ FileAt(p).mtime' = seen'[w].mtime => p = target'[w] \/ Away(w, p)'
  BY DEF HomeInv, Going
<1>1. Len(files) \in Nat /\ clock \in Nat /\ DiskOK
  BY TypeParts, LenProperties DEF DiskOK
<1>2. Shape /\ Local(w)
  BY Shapes, Locals
<1>3. target[w] \in Paths /\ seen[w].file \in 0..Len(files) /\ seen[w].mtime \in Nat
      /\ seen[w].mtime < clock
  BY DEF TypeOK, TimesInv
<1>4. CASE Keeps(w)
  <2> SUFFICES /\ phase[w] = "fstat" /\ at'[p] = seen[w].file => p = target[w] \/ Away(w, p)
               /\ Going(w) /\ files'[at'[p]].mtime = seen[w].mtime => p = target[w] \/ Away(w, p)
    BY <1>4 DEF Keeps, Away, FileAt
  <2>1. \A q \in Paths : Exists(q) =>
           /\ phase[w] = "fstat" /\ at[q] = seen[w].file => q = target[w] \/ Away(w, q)
           /\ Going(w) /\ files[at[q]].mtime = seen[w].mtime => q = target[w] \/ Away(w, q)
    BY DEF HomeInv, Going, FileAt
  <2>2. CASE UNCHANGED disk
    BY <2>1, <2>2 DEF disk, Exists
  <2>3. ASSUME NEW q \in Paths, PutShape(q)
        PROVE  /\ phase[w] = "fstat" /\ at'[p] = seen[w].file => p = target[w] \/ Away(w, p)
               /\ Going(w) /\ files'[at'[p]].mtime = seen[w].mtime => p = target[w] \/ Away(w, p)
    <3>1. CASE p = q
      BY <1>1, <1>3, <2>3, <3>1 DEF PutShape, DiskOK
    <3>2. CASE p # q
      <4>1. at'[p] = at[p] /\ Exists(p)
        BY <1>1, <2>3, <3>2 DEF PutShape, DiskOK, Exists
      <4>2. files'[at[p]] = files[at[p]]
        BY <1>1, <2>3, <4>1, FileType DEF PutShape
      <4> QED BY <2>1, <4>1, <4>2
    <3> QED BY <3>1, <3>2
  <2>4. ASSUME NEW q \in Paths, OverShape(q)
        PROVE  /\ phase[w] = "fstat" /\ at'[p] = seen[w].file => p = target[w] \/ Away(w, p)
               /\ Going(w) /\ files'[at'[p]].mtime = seen[w].mtime => p = target[w] \/ Away(w, p)
    <3>1. at'[p] = at[p] /\ Exists(p) /\ at[p] \in 1..Len(files)
      BY <1>1, <2>4, FileType DEF OverShape, Exists
    <3>2. files'[at[p]] = files[at[p]] \/ files'[at[p]].mtime = clock
      BY <2>4, <3>1 DEF OverShape
    <3> QED BY <1>1, <1>3, <2>1, <3>1, <3>2
  <2>5. ASSUME NEW q \in Paths, NEW r \in Paths, MoveShape(q, r)
        PROVE  /\ phase[w] = "fstat" /\ at'[p] = seen[w].file => p = target[w] \/ Away(w, p)
               /\ Going(w) /\ files'[at'[p]].mtime = seen[w].mtime => p = target[w] \/ Away(w, p)
    <3>0. q # r
      BY <2>5, RenamesOnce DEF MoveShape
    <3>1. CASE p = r
      <4>1. at'[p] = at[q] /\ Exists(q) /\ files' = files
        BY <1>1, <2>5, <3>0, <3>1 DEF MoveShape, DiskOK, Exists
      <4>2. q = target[w] \/ Away(w, q) => Away(w, p)
        BY <1>3, <2>5, <3>1, NoReturn DEF Away, MoveShape
      <4> QED BY <2>1, <4>1, <4>2
    <3>2. CASE p # r
      <4>1. at'[p] = at[p] /\ Exists(p) /\ files' = files
        BY <1>1, <2>5, <3>2 DEF MoveShape, DiskOK, Exists
      <4> QED BY <2>1, <4>1
    <3> QED BY <3>1, <3>2
  <2> QED BY <1>2, <2>2, <2>3, <2>4, <2>5 DEF Shape
<1>5. CASE Rests(w)
  BY <1>5 DEF Rests
<1>6. CASE StatsNow(w) \/ OpensNow(w)
  <2>0. target'[w] \in Paths /\ Exists(target'[w]) /\ UNCHANGED disk /\ Exists(p)
    BY <1>6, TypeStep DEF StatsNow, OpensNow, TypeOK, disk, Exists
  <2>1. at[p] \in 1..Len(files) /\ at[target'[w]] \in 1..Len(files)
    BY <1>1, <2>0, FileType
  <2>2. at[p] = at[target'[w]] => p = target'[w]
    BY <1>1, <2>0 DEF DiskOK
  <2>3. CASE StatsNow(w)
    BY <2>0, <2>1, <2>2, <2>3 DEF StatsNow, TimesInv, FileAt, disk
  <2>4. CASE OpensNow(w)
    BY <2>0, <2>1, <2>2, <2>4 DEF OpensNow, disk, Going, Timed
  <2> QED BY <1>6, <2>3, <2>4
<1>7. CASE ReadsNow(w)
  BY <1>7 DEF ReadsNow, HomeInv, Going, Timed, Away, FileAt, Exists, disk
<1>8. CASE FstatsNow(w)
  <2>0. /\ UNCHANGED disk /\ Exists(p) /\ phase[w] = "fstat" /\ phase'[w] # "fstat"
        /\ target'[w] = target[w] /\ seen'[w].mtime = files[seen[w].file].mtime
    BY <1>8 DEF FstatsNow, Exists, disk
  <2>1. at[p] \in 1..Len(files) /\ seen[w].file \in 1..Len(files)
    BY <1>1, <2>0, FileType DEF JobsInv, JobOf
  <2>2. files[at[p]].mtime = files[seen[w].file].mtime => at[p] = seen[w].file
    BY <2>1 DEF TimesInv
  <2> QED BY <2>0, <2>2 DEF HomeInv, FileAt, Away, disk
<1> QED BY <1>2, <1>4, <1>5, <1>6, <1>7, <1>8 DEF Local

LEMMA MatchesItself == \A t : Matches(t, t)
BY DEF Matches

LEMMA MatchesOn ==
  ASSUME NEW a, NEW b, NEW c, Matches(a, b), Matches(b, c)
  PROVE  Matches(a, c)
BY DEF Matches

LEMMA ReadStep ==
  TypeOK /\ JobsInv /\ TimesInv /\ HomeInv /\ ReadInv /\ [Next]_vars => ReadInv'
<1> SUFFICES ASSUME TypeOK, JobsInv, TimesInv, HomeInv, ReadInv, [Next]_vars, NEW w \in Procs
             PROVE  /\ phase'[w] = "fstat" => Matches(files'[seen'[w].file].text, seen'[w].text)
                    /\ HasRead(w)' /\ ~Stale(w)' => Matches(FileAt(target[w])'.text, seen'[w].text)
  BY DEF ReadInv, HasRead
<1>1. Len(files) \in Nat /\ clock \in Nat /\ DiskOK
  BY TypeParts, LenProperties DEF DiskOK
<1>2. Shape /\ Local(w)
  BY Shapes, Locals
<1>3. target[w] \in Paths /\ seen[w].mtime \in Nat /\ seen[w].mtime < clock
  BY DEF TypeOK, TimesInv
<1>4. CASE Keeps(w)
  <2> DEFINE t == target[w]
  <2> SUFFICES /\ phase[w] = "fstat" => Matches(files'[seen[w].file].text, seen[w].text)
               /\ HasRead(w) /\ at'[t] # 0 /\ files'[at'[t]].mtime = seen[w].mtime
                     => Matches(files'[at'[t]].text, seen[w].text)
    BY <1>4 DEF Keeps, FileAt, Stale, Exists
  <2>1. phase[w] = "fstat" =>
           seen[w].file \in 1..Len(files) /\ Matches(files[seen[w].file].text, seen[w].text)
    BY DEF ReadInv, JobsInv, JobOf
  <2>2. HasRead(w) /\ Exists(t) /\ files[at[t]].mtime = seen[w].mtime
           => Matches(files[at[t]].text, seen[w].text)
    BY DEF ReadInv, HasRead, Stale, FileAt
  <2>3. CASE UNCHANGED disk
    BY <2>1, <2>2, <2>3 DEF disk, Exists
  <2>4. ASSUME NEW q \in Paths, PutShape(q)
        PROVE  /\ phase[w] = "fstat" => Matches(files'[seen[w].file].text, seen[w].text)
               /\ HasRead(w) /\ at'[t] # 0 /\ files'[at'[t]].mtime = seen[w].mtime
                     => Matches(files'[at'[t]].text, seen[w].text)
    <3>1. phase[w] = "fstat" => Matches(files'[seen[w].file].text, seen[w].text)
      BY <2>1, <2>4 DEF PutShape
    <3>2. CASE t = q
      BY <1>1, <1>3, <2>4, <3>1, <3>2 DEF PutShape, DiskOK
    <3>3. CASE t # q /\ at'[t] # 0
      <4>1. at'[t] = at[t] /\ Exists(t)
        BY <1>1, <1>3, <2>4, <3>3 DEF PutShape, DiskOK, Exists
      <4>2. files'[at[t]] = files[at[t]]
        BY <1>1, <1>3, <2>4, <4>1, FileType DEF PutShape
      <4> QED BY <2>2, <3>1, <4>1, <4>2
    <3> QED BY <3>1, <3>2, <3>3
  <2>5. ASSUME NEW q \in Paths, OverShape(q)
        PROVE  /\ phase[w] = "fstat" => Matches(files'[seen[w].file].text, seen[w].text)
               /\ HasRead(w) /\ at'[t] # 0 /\ files'[at'[t]].mtime = seen[w].mtime
                     => Matches(files'[at'[t]].text, seen[w].text)
    <3>1. \A i \in 1..Len(files) : Matches(files'[i].text, files[i].text)
      BY <2>5, MatchesItself DEF OverShape
    <3>2. phase[w] = "fstat" => Matches(files'[seen[w].file].text, seen[w].text)
      BY <2>1, <3>1, MatchesOn
    <3>3. CASE at'[t] # 0
      <4>1. at'[t] = at[t] /\ Exists(t) /\ at[t] \in 1..Len(files)
        BY <1>1, <1>3, <2>5, <3>3, FileType DEF OverShape, Exists
      <4>2. files'[at[t]] = files[at[t]] \/ files'[at[t]].mtime = clock
        BY <2>5, <4>1 DEF OverShape
      <4> QED BY <1>1, <1>3, <2>2, <3>2, <4>1, <4>2
    <3> QED BY <3>2, <3>3
  <2>6. ASSUME NEW q \in Paths, NEW r \in Paths, MoveShape(q, r)
        PROVE  /\ phase[w] = "fstat" => Matches(files'[seen[w].file].text, seen[w].text)
               /\ HasRead(w) /\ at'[t] # 0 /\ files'[at'[t]].mtime = seen[w].mtime
                     => Matches(files'[at'[t]].text, seen[w].text)
    <3>0. q # r /\ files' = files
      BY <2>6, RenamesOnce DEF MoveShape
    <3>1. CASE t = r /\ at'[t] # 0
      <4>1. at'[t] = at[q] /\ Exists(q)
        BY <1>1, <1>3, <2>6, <3>0, <3>1 DEF MoveShape, DiskOK, Exists
      <4>2. ~(q = t \/ Away(w, q))
        BY <1>3, <2>6, <3>0, <3>1, NoReturn DEF Away, MoveShape
      <4>3. HasRead(w) => files[at[q]].mtime # seen[w].mtime
        BY <4>1, <4>2 DEF HomeInv, HasRead, Timed, FileAt
      <4> QED BY <2>1, <3>0, <4>1, <4>3
    <3>2. CASE t # r /\ at'[t] # 0
      <4>1. at'[t] = at[t] /\ Exists(t)
        BY <1>1, <1>3, <2>6, <3>2 DEF MoveShape, DiskOK, Exists
      <4> QED BY <2>1, <2>2, <3>0, <4>1
    <3> QED BY <2>1, <3>0, <3>1, <3>2
  <2> HIDE DEF t
  <2> QED BY <1>2, <2>3, <2>4, <2>5, <2>6 DEF Shape
<1>5. CASE Rests(w)
  BY <1>5 DEF Rests
<1>6. CASE StatsNow(w)
  BY <1>6 DEF StatsNow, HasRead, Timed
<1>7. CASE OpensNow(w)
  <2>1. files'[seen'[w].file].text = seen'[w].text
    BY <1>7 DEF OpensNow, FileAt, disk
  <2> QED BY <1>7, <2>1, MatchesItself DEF OpensNow, HasRead, Timed
<1>8. CASE ReadsNow(w)
  <2>1. FileAt(target[w])'.text = seen'[w].text
    BY <1>8 DEF ReadsNow, FileAt, disk
  <2> QED BY <1>8, <2>1, MatchesItself DEF ReadsNow
<1>9. CASE FstatsNow(w)
  <2>0. /\ UNCHANGED disk /\ phase[w] = "fstat" /\ phase'[w] # "fstat"
        /\ target'[w] = target[w] /\ seen'[w].mtime = files[seen[w].file].mtime
        /\ seen'[w].text = seen[w].text
    BY <1>9 DEF FstatsNow
  <2>1. SUFFICES ASSUME ~Stale(w)' PROVE Matches(FileAt(target[w])'.text, seen'[w].text)
    BY <2>0
  <2>2. Exists(target[w]) /\ files[at[target[w]]].mtime = files[seen[w].file].mtime
    BY <2>0, <2>1 DEF Stale, Exists, FileAt, disk
  <2>3. at[target[w]] \in 1..Len(files) /\ seen[w].file \in 1..Len(files)
    BY <1>1, <1>3, <2>0, <2>2, FileType DEF JobsInv, JobOf
  <2>4. at[target[w]] = seen[w].file
    BY <2>2, <2>3 DEF TimesInv
  <2> QED BY <2>0, <2>4 DEF ReadInv, FileAt, disk
<1> QED BY <1>2, <1>4, <1>5, <1>6, <1>7, <1>8, <1>9 DEF Local

LEMMA InvInit == Init => IInv
<1> SUFFICES ASSUME Init PROVE IInv
  OBVIOUS
<1>1. TypeOK
  BY TypeInit
<1>2. \A w \in Procs : phase[w] = "idle" /\ seen[w] = Unseen
  BY DEF Init
<1>3. JobsInv /\ LocksInv /\ HomeInv /\ ReadInv
  BY <1>2 DEF JobsInv, JobOf, HasText, LocksInv, HomeInv, Timed, ReadInv, HasRead
<1>4. Len(files) = 1 /\ files[1].mtime = 1 /\ clock = 2
  BY DEF Init
<1>5. TimesInv
  BY <1>2, <1>4 DEF TimesInv, Unseen
<1> QED BY <1>1, <1>3, <1>5 DEF IInv

LEMMA InvStep == IInv /\ [Next]_vars => IInv'
BY TypeStep, JobsStep, LocksStep, TimesStep, HomeStep, ReadStep DEF IInv

THEOREM PursuitInvariant == Spec => []IInv
<1>1. Init => IInv
  BY InvInit
<1>2. IInv /\ [Next]_vars => IInv'
  BY InvStep
<1> QED BY <1>1, <1>2, PTL DEF Spec

\* Types, and one name for a file.
THEOREM PursuitTypes == Spec => []TypeOK
<1>1. IInv => TypeOK
  BY DEF IInv
<1> QED BY <1>1, PursuitInvariant, PTL

\* Between check and replacement a command is alone with its path: the lock is
\* held over both (_pursuit_lock() around the _locked functions).
THEOREM PursuitExclusion == Spec => []OneWriterPerPath
<1>1. IInv => OneWriterPerPath
  BY DEF IInv, LocksInv, OneWriterPerPath
<1> QED BY <1>1, PursuitInvariant, PTL
-----------------------------------------------------------------------------
(* The refinement of PursuitRecord. *)
LEMMA Writers ==
  TypeOK /\ JobsInv /\ [Next]_vars =>
    \A w \in Procs : Replaces(w)' =>
       /\ target'[w] = target[w] /\ seen'[w] = seen[w]
       /\ Replaces(w) \/ (HasRead(w) /\ ~Stale(w) /\ UNCHANGED disk)
<1> SUFFICES ASSUME TypeOK, JobsInv, [Next]_vars, NEW w \in Procs, Replaces(w)'
             PROVE  /\ target'[w] = target[w] /\ seen'[w] = seen[w]
                    /\ Replaces(w) \/ (HasRead(w) /\ ~Stale(w) /\ UNCHANGED disk)
  OBVIOUS
<1>f. ASSUME NEW v \in Procs, Finish(v)
      PROVE  target'[w] = target[w] /\ seen'[w] = seen[w] /\ Replaces(w)
  <2>1. Others(v) /\ Ended(v)
    BY <1>f, FinishEnds
  <2> QED BY <2>1 DEF Others, Ended, Replaces
<1>s. ASSUME NEW v \in Procs, NEW p, NEW e, NEW next, NEW first, Start(v, p, e, next, first),
             next # "publish"
      PROVE  target'[w] = target[w] /\ seen'[w] = seen[w] /\ Replaces(w)
  <2>1. Others(v) /\ phase'[v] = next
    BY <1>s, StartBegins
  <2> QED BY <1>s, <2>1 DEF Others, Replaces
<1>o. ASSUME NEW v \in Procs, Others(v), phase'[v] # "publish"
      PROVE  target'[w] = target[w] /\ seen'[w] = seen[w] /\ Replaces(w)
  BY <1>o DEF Others, Replaces
<1>1. ASSUME NEW v \in Procs, Check(v), ~Finish(v)
      PROVE  /\ target'[w] = target[w] /\ seen'[w] = seen[w]
             /\ Replaces(w) \/ (HasRead(w) /\ ~Stale(w) /\ UNCHANGED disk)
  <2>1. /\ Others(v) /\ phase[v] = "check" /\ ~Refused(v) /\ UNCHANGED disk
        /\ seen' = seen /\ target' = target /\ edit' = edit
    BY <1>1 DEF Check, Goto, Others, TypeOK
  <2> QED BY <2>1 DEF Others, Replaces, Refused, HasRead
<1>2. ASSUME NEW v \in Procs, Command(v), ~Check(v), ~Finish(v)
      PROVE  target'[w] = target[w] /\ seen'[w] = seen[w] /\ Replaces(w)
  <2>1. CASE Read(v) \/ Fstat(v)
    <3>1. Others(v) /\ phase'[v] = AfterRead(edit[v])
      BY <1>2, <2>1 DEF Read, Fstat, Goto, Others, TypeOK
    <3> QED BY <1>o, <3>1 DEF AfterRead
  <2>2. CASE Render(v) \/ CreateDoc(v)
    <3>1. Others(v) /\ phase'[v] = "lock"
      BY <1>2, <2>2 DEF Render, CreateDoc, Goto, Others, TypeOK
    <3> QED BY <1>o, <3>1
  <2>3. CASE Acquire(v)
    <3>1. Others(v) /\ phase'[v] = "check"
      BY <1>2, <2>3 DEF Acquire, Goto, Others, TypeOK
    <3> QED BY <1>o, <3>1
  <2> QED BY <1>2, <2>1, <2>2, <2>3 DEF Command, Publish, Rename, Abort
<1>3. ASSUME NEW v \in Procs, NEW p \in Paths, NEW e \in Requests,
             BeginWithStat(v, p, e) \/ BeginWithRead(v, p, e)
      PROVE  target'[w] = target[w] /\ seen'[w] = seen[w] /\ Replaces(w)
  BY <1>s, <1>3 DEF BeginWithStat, BeginWithRead
<1>4. ASSUME NEW v \in Procs, NEW p \in Paths, NEW s \in Stages, BeginCreate(v, p, s)
      PROVE  target'[w] = target[w] /\ seen'[w] = seen[w] /\ Replaces(w)
  BY <1>s, <1>4 DEF BeginCreate
<1>5. ASSUME NEW v \in Procs, NEW m \in Renames, BeginMove(v, m)
      PROVE  target'[w] = target[w] /\ seen'[w] = seen[w] /\ Replaces(w)
  <2>1. Start(v, m[1], [kind |-> "move", arg |-> m[2]], "rename", Unseen)
    BY <1>5 DEF BeginMove
  <2>2. Others(v) /\ phase'[v] = "rename"
    BY <2>1, StartBegins
  <2> QED BY <1>o, <2>2
<1>6. ASSUME NEW p \in Paths, NEW r \in Remarks, Remark(p, r)
      PROVE  target'[w] = target[w] /\ seen'[w] = seen[w] /\ Replaces(w)
  BY <1>6 DEF Remark, Replaces
<1>7. CASE UNCHANGED vars
  BY <1>7 DEF vars, Replaces
<1> QED BY <1>f, <1>1, <1>2, <1>3, <1>4, <1>5, <1>6, <1>7 DEF Next

\* A step that leaves the disk alone puts nothing at risk.
LEMMA RiskQuiet ==
  IInv /\ [Next]_vars /\ UNCHANGED disk => AtRisk' \subseteq AtRisk /\ Torn' \subseteq Torn
<1> SUFFICES ASSUME IInv, [Next]_vars, UNCHANGED disk
             PROVE  AtRisk' \subseteq AtRisk /\ Torn' \subseteq Torn
  OBVIOUS
<1>0. TypeOK /\ JobsInv /\ TimesInv /\ ReadInv
  BY DEF IInv
<1>1. (\A w \in Procs : Local(w))
      /\ \A w \in Procs : Replaces(w)' =>
           /\ target'[w] = target[w] /\ seen'[w] = seen[w]
           /\ Replaces(w) \/ (HasRead(w) /\ ~Stale(w))
  BY <1>0, Locals, Writers
<1>2. ASSUME NEW w \in Procs, NEW r \in Remarks, Misses(w, r)' PROVE Misses(w, r)
  <2>1. CASE Replaces(w)'
    <3>1. target'[w] = target[w] /\ seen'[w] = seen[w] /\ (Replaces(w) \/ (HasRead(w) /\ ~Stale(w)))
      BY <1>1, <2>1
    <3> QED BY <1>2, <3>1 DEF Misses, Exists, FileAt, disk
  <2>2. CASE ~Replaces(w)'
    <3>1. CASE Keeps(w)
      BY <1>2, <2>2, <3>1 DEF Misses, Keeps, InOpenFile, Stale, Exists, FileAt, disk
    <3>2. CASE Rests(w) \/ StatsNow(w)
      BY <1>2, <2>2, <3>2 DEF Misses, Rests, StatsNow, InOpenFile, HasRead
    <3>3. CASE OpensNow(w) \/ ReadsNow(w)
      BY <1>2, <3>3 DEF Misses, OpensNow, ReadsNow, FileAt, disk
    <3>4. CASE FstatsNow(w)
      <4>1. /\ HasRead(w)' /\ ~Stale(w)' /\ target'[w] = target[w] /\ phase[w] = "fstat"
            /\ seen'[w].mtime = files[seen[w].file].mtime /\ seen'[w].text = seen[w].text
        BY <1>2, <2>2, <3>4 DEF Misses, FstatsNow, InOpenFile
      <4>2. Exists(target[w]) /\ files[at[target[w]]].mtime = files[seen[w].file].mtime
        BY <4>1 DEF Stale, Exists, FileAt, disk
      <4>3. at[target[w]] \in 1..Len(files) /\ seen[w].file \in 1..Len(files)
        <5>1. target[w] \in Paths /\ DiskOK
          BY <1>0, TypeParts DEF TypeOK
        <5> QED BY <1>0, <4>1, <4>2, <5>1, FileType DEF JobsInv, JobOf
      <4>4. InOpenFile(w)
        BY <1>0, <4>1, <4>2, <4>3 DEF TimesInv, InOpenFile
      <4> QED BY <1>2, <4>1, <4>2, <4>4 DEF Misses, FileAt, disk
    <3> QED BY <1>1, <3>1, <3>2, <3>3, <3>4 DEF Local
  <2> QED BY <2>1, <2>2
<1>3. AtRisk' \subseteq AtRisk
  BY <1>2 DEF AtRisk
<1>5. ASSUME NEW p \in Paths, NEW w \in Procs, Replaces(w)', target'[w] = p,
             (Exists(p) => ~Matches(FileAt(p).text, seen[w].text))'
      PROVE  p \in Torn
  <2>1. target[w] = p /\ seen'[w] = seen[w] /\ (Replaces(w) \/ (HasRead(w) /\ ~Stale(w)))
    BY <1>1, <1>5
  <2>2. Exists(p) => ~Matches(FileAt(p).text, seen[w].text)
    BY <1>5, <2>1 DEF Exists, FileAt, disk
  <2>3. ~(HasRead(w) /\ ~Stale(w))
    BY <1>0, <2>1, <2>2 DEF ReadInv, Stale
  <2> QED BY <2>1, <2>2, <2>3 DEF Torn
<1>6. Torn' \subseteq Torn
  BY <1>5 DEF Torn
<1> QED BY <1>3, <1>6

\* A file that takes a path, from a command that had its lock or an editor,
\* outdates all that was read of the path.
LEMMA RiskPut ==
  ASSUME IInv, [Next]_vars, NEW p \in Paths, PutShape(p),
         NEW w \in Procs, NEW r \in Remarks, Misses(w, r)', ~(Replaces(w)' /\ target'[w] = p)
  PROVE  Misses(w, r)
<1>0. TypeOK /\ JobsInv /\ TimesInv /\ DiskOK /\ Len(files) \in Nat /\ clock \in Nat
  BY TypeParts, LenProperties DEF IInv, DiskOK
<1>1. Local(w) /\ seen[w].file \in 0..Len(files) /\ seen[w].mtime < clock /\ seen[w].mtime \in Nat
      /\ target[w] \in Paths
  BY <1>0, Locals DEF TimesInv, TypeOK
<1>2. ~UNCHANGED disk
  BY <1>0 DEF PutShape, disk
<1>3. Replaces(w)' => Replaces(w) /\ target'[w] = target[w] /\ seen'[w] = seen[w]
  BY <1>0, <1>2, Writers
<1>4. Keeps(w) \/ Rests(w)
  BY <1>1, <1>2 DEF Local, StatsNow, OpensNow, ReadsNow, FstatsNow
<1>5. target'[w] = target[w] /\ seen'[w] = seen[w]
  BY <1>3, <1>4 DEF Misses, Keeps, Rests, InOpenFile
<1>6. target[w] # p
  <2> SUFFICES ASSUME target[w] = p PROVE FALSE
    OBVIOUS
  <2>1. at'[p] = Len(files) + 1 /\ FileAt(p)'.mtime = clock
    BY <1>0 DEF PutShape, DiskOK, FileAt
  <2>2. ~InOpenFile(w)'
    BY <1>0, <1>1, <1>5, <2>1 DEF InOpenFile
  <2>3. ~Stale(w)' => FALSE
    BY <1>0, <1>1, <1>5, <2>1 DEF Stale
  <2> QED BY <1>5, <2>2, <2>3 DEF Misses
<1>7. at'[target[w]] = at[target[w]] /\ Exists(target[w])
  BY <1>0, <1>1, <1>5, <1>6 DEF PutShape, DiskOK, Misses, Exists
<1>8. FileAt(target[w])' = FileAt(target[w])
  BY <1>0, <1>1, <1>5, <1>7, FileType DEF PutShape, FileAt
<1>9. InOpenFile(w)' => InOpenFile(w)
  BY <1>4, <1>5, <1>7 DEF InOpenFile, Keeps, Rests
<1>10. HasRead(w)' /\ ~Stale(w)' => HasRead(w) /\ ~Stale(w)
  BY <1>4, <1>5, <1>7, <1>8 DEF Keeps, Rests, Stale, Exists
<1> QED BY <1>3, <1>5, <1>7, <1>8, <1>9, <1>10 DEF Misses

LEMMA TornPut ==
  ASSUME IInv, [Next]_vars, NEW p \in Paths, PutShape(p),
         \A w \in Procs : ~(Replaces(w)' /\ target'[w] = p)
  PROVE  Torn' \subseteq Torn
<1>0. TypeOK /\ JobsInv /\ DiskOK /\ Len(files) \in Nat
  BY TypeParts, LenProperties DEF IInv, DiskOK
<1>1. ~UNCHANGED disk
  BY <1>0 DEF PutShape, disk
<1>2. ASSUME NEW q \in Paths, NEW w \in Procs, Replaces(w)', target'[w] = q,
             (Exists(q) => ~Matches(FileAt(q).text, seen[w].text))'
      PROVE  q \in Torn
  <2>1. Replaces(w) /\ target[w] = q /\ seen'[w] = seen[w] /\ q # p
    BY <1>0, <1>1, <1>2, Writers
  <2>2. at'[q] = at[q]
    BY <1>0, <2>1 DEF PutShape, DiskOK
  <2>3. Exists(q) => FileAt(q)' = FileAt(q)
    BY <1>0, <2>2, FileType DEF PutShape, FileAt
  <2> QED BY <1>2, <2>1, <2>2, <2>3 DEF Torn, Exists
<1> QED BY <1>2 DEF Torn

\* A rename brings new remarks, and another file, only under a writer that is
\* past its check.
LEMMA RiskMove ==
  ASSUME IInv, [Next]_vars, NEW p \in Paths, NEW q \in Paths, MoveShape(p, q), Exists(p),
         NEW w \in Procs, NEW r \in Remarks, Misses(w, r)'
  PROVE  Misses(w, r) \/ (Replaces(w) /\ target[w] = q /\ r \in FileAt(p).text.remarks)
<1>0. TypeOK /\ JobsInv /\ TimesInv /\ HomeInv /\ DiskOK
  BY TypeParts DEF IInv
<1>1. Local(w) /\ target[w] \in Paths /\ p # q /\ <<p, q>> \in Renames
  BY <1>0, Locals, RenamesOnce DEF TypeOK, MoveShape
<1>2. ~UNCHANGED disk
  BY <1>0, <1>1 DEF MoveShape, disk, DiskOK, Exists
<1>3. Replaces(w)' => Replaces(w) /\ target'[w] = target[w] /\ seen'[w] = seen[w]
  BY <1>0, <1>2, Writers
<1>4. Keeps(w) \/ Rests(w)
  BY <1>1, <1>2 DEF Local, StatsNow, OpensNow, ReadsNow, FstatsNow
<1>5. target'[w] = target[w] /\ seen'[w] = seen[w]
  BY <1>3, <1>4 DEF Misses, Keeps, Rests, InOpenFile
<1>6. target[w] # p
  BY <1>0, <1>1, <1>5 DEF MoveShape, Misses, Exists, DiskOK
<1>7. CASE target[w] = q
  <2>1. at'[q] = at[p] /\ FileAt(q)' = FileAt(p)
    BY <1>0, <1>1 DEF MoveShape, DiskOK, FileAt
  <2>2. ~(p = target[w] \/ Away(w, p))
    BY <1>1, <1>7, NoReturn DEF Away
  <2>3. ~InOpenFile(w)'
    BY <1>0, <1>4, <1>5, <1>7, <2>1, <2>2 DEF HomeInv, InOpenFile, Keeps, Rests
  <2>4. HasRead(w)' => Stale(w)'
    <3>1. HasRead(w)' => HasRead(w)
      BY <1>4 DEF Keeps, Rests
    <3>2. HasRead(w) => FileAt(p).mtime # seen[w].mtime
      BY <1>0, <2>2 DEF HomeInv, HasRead, Timed
    <3> QED BY <1>5, <1>7, <2>1, <3>1, <3>2 DEF Stale
  <2> QED BY <1>3, <1>5, <1>7, <2>1, <2>3, <2>4 DEF Misses
<1>8. CASE target[w] # q
  <2>1. at'[target[w]] = at[target[w]] /\ FileAt(target[w])' = FileAt(target[w])
    BY <1>0, <1>1, <1>5, <1>6, <1>8 DEF MoveShape, DiskOK, FileAt
  <2>2. InOpenFile(w)' => InOpenFile(w)
    BY <1>4, <1>5, <2>1 DEF InOpenFile, Keeps, Rests
  <2>3. HasRead(w)' /\ ~Stale(w)' => HasRead(w) /\ ~Stale(w)
    BY <1>4, <1>5, <2>1 DEF Keeps, Rests, Stale, Exists
  <2> QED BY <1>3, <1>5, <2>1, <2>2, <2>3 DEF Misses, Exists
<1> QED BY <1>7, <1>8

LEMMA TornMove ==
  ASSUME IInv, [Next]_vars, NEW p \in Paths, NEW q \in Paths, MoveShape(p, q), Exists(p)
  PROVE  Torn' \subseteq Torn \cup {x \in {p, q} : \E w \in Procs : Replaces(w) /\ target[w] = x}
<1>0. TypeOK /\ JobsInv /\ DiskOK
  BY TypeParts DEF IInv
<1>1. p # q
  BY RenamesOnce DEF MoveShape
<1>2. ~UNCHANGED disk
  BY <1>0, <1>1 DEF MoveShape, disk, DiskOK, Exists
<1>3. ASSUME NEW x \in Paths, NEW w \in Procs, Replaces(w)', target'[w] = x,
             (Exists(x) => ~Matches(FileAt(x).text, seen[w].text))', x \notin {p, q}
      PROVE  x \in Torn
  <2>1. Replaces(w) /\ target[w] = x /\ seen'[w] = seen[w]
    BY <1>0, <1>2, <1>3, Writers
  <2>2. at'[x] = at[x] /\ FileAt(x)' = FileAt(x)
    BY <1>0, <1>3 DEF MoveShape, DiskOK, FileAt
  <2> QED BY <1>3, <2>1, <2>2 DEF Torn, Exists
<1>4. ASSUME NEW w \in Procs, Replaces(w)' PROVE Replaces(w) /\ target'[w] = target[w]
  BY <1>0, <1>2, <1>4, Writers
<1> QED BY <1>3, <1>4 DEF Torn

\* An editor's remark is at risk only from a command that is past its check, or
\* that has the file open.
LEMMA Remarked ==
  ASSUME TypeOK, NEW p \in Paths, NEW r \in Remarks, Remark(p, r)
  PROVE  /\ Exists(p) /\ at'[p] # 0
         /\ at'[p] = at[p] \/ at'[p] = Len(files) + 1
         /\ FileAt(p)'.mtime = clock
         /\ FileAt(p)'.text = [FileAt(p).text EXCEPT !.remarks = @ \cup {r}]
         /\ \A q \in Paths : q # p => at'[q] = at[q] /\ (Exists(q) => FileAt(q)' = FileAt(q))
         /\ UNCHANGED <<phase, target, edit, seen>>
<1> DEFINE text == [FileAt(p).text EXCEPT !.remarks = @ \cup {r}]
<1>1. DiskOK /\ Len(files) \in Nat
  BY TypeParts, LenProperties DEF DiskOK
<1>2. Exists(p) /\ at[p] \in 1..Len(files) /\ text \in Contents
  BY <1>1, FileType, RemarkText DEF Remark
<1>3. UNCHANGED <<phase, target, edit, seen>>
  BY DEF Remark
<1>4. Put(p, text) \/ (/\ files' = [files EXCEPT ![at[p]] = [mtime |-> clock, text |-> text]]
                       /\ clock' = clock + 1 /\ at' = at)
  BY DEF Remark
<1> HIDE DEF text
<1>5. /\ at'[p] = at[p] \/ at'[p] = Len(files) + 1
      /\ at'[p] # 0
      /\ files'[at'[p]] = [mtime |-> clock, text |-> text]
      /\ \A q \in Paths : q # p => at'[q] = at[q] /\ (Exists(q) => files'[at[q]] = files[at[q]])
  <2>1. CASE Put(p, text)
    <3>1. /\ at' = [at EXCEPT ![p] = Len(files) + 1]
          /\ files'[Len(files) + 1] = [mtime |-> clock, text |-> text]
          /\ \A i \in 1..Len(files) : files'[i] = files[i]
      BY <1>1, <1>2, <2>1, PutDisk
    <3> QED BY <1>1, <3>1, FileType DEF DiskOK
  <2>2. CASE files' = [files EXCEPT ![at[p]] = [mtime |-> clock, text |-> text]]
             /\ clock' = clock + 1 /\ at' = at
    <3>1. /\ files'[at[p]] = [mtime |-> clock, text |-> text]
          /\ \A i \in 1..Len(files) : i # at[p] => files'[i] = files[i]
      BY <1>1, <1>2, <2>2, OverDisk
    <3>2. \A q \in Paths : q # p /\ Exists(q) => at[q] \in 1..Len(files) /\ at[q] # at[p]
      BY <1>1, FileType DEF DiskOK
    <3> QED BY <1>2, <2>2, <3>1, <3>2 DEF Exists
  <2> QED BY <1>4, <2>1, <2>2
<1>6. FileAt(p)' = [mtime |-> clock, text |-> text]
  BY <1>5 DEF FileAt
<1>7. \A q \in Paths : q # p => at'[q] = at[q] /\ (Exists(q) => FileAt(q)' = FileAt(q))
  BY <1>5 DEF FileAt
<1> QED BY <1>2, <1>3, <1>5, <1>6, <1>7 DEF text

LEMMA RiskRemark ==
  ASSUME IInv, NEW p \in Paths, NEW r \in Remarks, Remark(p, r),
         NEW w \in Procs, NEW x \in Remarks, Misses(w, x)'
  PROVE  Misses(w, x) \/ (x = r /\ target[w] = p /\ (Replaces(w) \/ InOpenFile(w)))
<1>0. TypeOK /\ TimesInv /\ DiskOK /\ Len(files) \in Nat
  BY TypeParts, LenProperties DEF IInv, DiskOK
<1>1. /\ Exists(p) /\ at'[p] # 0
      /\ at'[p] = at[p] \/ at'[p] = Len(files) + 1
      /\ FileAt(p)'.mtime = clock
      /\ FileAt(p)'.text = [FileAt(p).text EXCEPT !.remarks = @ \cup {r}]
      /\ \A q \in Paths : q # p => at'[q] = at[q] /\ (Exists(q) => FileAt(q)' = FileAt(q))
      /\ UNCHANGED <<phase, target, edit, seen>>
  BY <1>0, Remarked
<1>2. /\ target[w] \in Paths /\ target'[w] = target[w]
      /\ seen[w].file \in 0..Len(files) /\ seen[w].mtime < clock /\ seen[w].mtime \in Nat
      /\ clock \in Nat
  BY <1>0, <1>1 DEF TypeOK, TimesInv
<1>3. CASE target[w] # p
  <2>1. at'[target[w]] = at[target[w]] /\ Exists(target[w])
    BY <1>1, <1>2, <1>3 DEF Misses, Exists
  <2>2. FileAt(target[w])' = FileAt(target[w])
    BY <1>1, <1>2, <1>3, <2>1
  <2>3. (Replaces(w) \/ InOpenFile(w) \/ (HasRead(w) /\ ~Stale(w)))
    BY <1>1, <1>2, <2>1, <2>2 DEF Misses, Replaces, InOpenFile, HasRead, Stale, Exists
  <2> QED BY <1>1, <2>1, <2>2, <2>3 DEF Misses
<1>4. CASE target[w] = p
  <2>1. x = r \/ x \in FileAt(p).text.remarks \ seen[w].text.remarks
    <3>1. FileAt(target[w])' = FileAt(p)'
      BY <1>2, <1>4 DEF FileAt
    <3>2. FileAt(p).text \in Contents
      BY <1>0, <1>1, FileType
    <3>3. FileAt(p)'.text.remarks = FileAt(p).text.remarks \cup {r}
      BY <1>1, <3>2 DEF Contents
    <3> QED BY <1>1, <3>1, <3>3 DEF Misses
  <2>2. ~Stale(w)' => FALSE
    <3>1. FileAt(target[w])' = FileAt(p)'
      BY <1>2, <1>4 DEF FileAt
    <3> QED BY <1>1, <1>2, <3>1 DEF Stale
  <2>3. InOpenFile(w)' => InOpenFile(w)
    BY <1>0, <1>1, <1>2, <1>4 DEF InOpenFile
  <2>4. Replaces(w)' => Replaces(w)
    BY <1>1 DEF Replaces
  <2>5. Replaces(w) \/ InOpenFile(w)
    BY <2>2, <2>3, <2>4 DEF Misses
  <2> QED BY <1>1, <1>4, <2>1, <2>5 DEF Misses
<1> QED BY <1>3, <1>4

LEMMA TornRemark ==
  ASSUME IInv, NEW p \in Paths, NEW r \in Remarks, Remark(p, r)
  PROVE  Torn' \subseteq Torn
<1>0. TypeOK /\ DiskOK
  BY TypeParts DEF IInv
<1>1. /\ Exists(p) /\ at'[p] # 0
      /\ FileAt(p)'.text = [FileAt(p).text EXCEPT !.remarks = @ \cup {r}]
      /\ \A q \in Paths : q # p => at'[q] = at[q] /\ (Exists(q) => FileAt(q)' = FileAt(q))
      /\ UNCHANGED <<phase, target, edit, seen>>
  BY <1>0, Remarked
<1>2. Matches(FileAt(p)'.text, FileAt(p).text)
  BY <1>0, <1>1, FileType DEF Matches, Contents
<1>3. ASSUME NEW x \in Paths, NEW w \in Procs, Replaces(w)', target'[w] = x,
             (Exists(x) => ~Matches(FileAt(x).text, seen[w].text))'
      PROVE  x \in Torn
  <2>1. Replaces(w) /\ target[w] = x /\ seen'[w] = seen[w]
    BY <1>1, <1>3 DEF Replaces
  <2>2. CASE x = p
    BY <1>1, <1>2, <1>3, <2>1, <2>2, MatchesOn DEF Torn, Exists
  <2>3. CASE x # p
    BY <1>1, <1>3, <2>1, <2>3 DEF Torn, Exists
  <2> QED BY <2>2, <2>3
<1> QED BY <1>3 DEF Torn
-----------------------------------------------------------------------------
LEMMA RecordedAt ==
  ASSUME DiskOK, NEW p \in Paths
  PROVE  /\ Exists(p) => /\ Recorded[p] = FileAt(p).text
                         /\ Recorded[p] \in Contents /\ Recorded[p] # Absent
         /\ ~Exists(p) => Recorded[p] = Absent
BY FileType, AbsentIsNone DEF Recorded

LEMMA RecordedPut ==
  ASSUME DiskOK, NEW p \in Paths, NEW text \in Contents, Put(p, text)
  PROVE  Recorded' = [Recorded EXCEPT ![p] = text]
<1>1. /\ Len(files) \in Nat
      /\ at' = [at EXCEPT ![p] = Len(files) + 1]
      /\ files'[Len(files) + 1] = [mtime |-> clock, text |-> text]
      /\ \A i \in 1..Len(files) : files'[i] = files[i]
  BY PutDisk
<1> HIDE DEF Put
<1>2. at'[p] # 0 /\ files'[at'[p]].text = text
  BY <1>1 DEF DiskOK
<1>3. ASSUME NEW q \in Paths, q # p
      PROVE  at'[q] = at[q] /\ (Exists(q) => files'[at[q]] = files[at[q]])
  BY <1>1, <1>3, FileType DEF DiskOK
<1> QED BY <1>2, <1>3 DEF Recorded, Exists, FileAt

LEMMA RecordedMove ==
  ASSUME DiskOK, NEW p \in Paths, NEW q \in Paths, MoveShape(p, q), Exists(p)
  PROVE  Recorded' = [Recorded EXCEPT ![p] = Absent, ![q] = Recorded[p]]
<1>1. p # q
  BY RenamesOnce DEF MoveShape
<1>2. files' = files /\ at'[p] = 0 /\ at'[q] = at[p] /\ \A r \in Paths \ {p, q} : at'[r] = at[r]
  BY <1>1 DEF MoveShape, DiskOK
<1> QED BY <1>1, <1>2 DEF Recorded, Exists, FileAt

LEMMA RecordedQuiet == UNCHANGED disk => Recorded' = Recorded
BY DEF disk, Recorded, Exists, FileAt

LEMMA WindowsType == IInv => Windows \subseteq {"write", "move"} \X Paths
<1> SUFFICES ASSUME IInv, NEW w \in Procs
             PROVE  target[w] \in Paths /\ (phase[w] = "rename" => edit[w].arg \in Paths)
  BY DEF Windows
<1>1. target[w] \in Paths
  BY DEF IInv, TypeOK
<1>2. phase[w] = "rename" => <<target[w], edit[w].arg>> \in Paths \X Paths
  BY RenamesOnce DEF IInv, JobsInv, JobOf
<1> QED BY <1>1, <1>2

\* PursuitRecord's files are these.
LEMMA SameBodies ==
  /\ Record!Contents = Contents
  /\ Record!Edits = Edits
  /\ \A e, b : Record!Applied(e, b) = Applied(e, b)
  /\ \A s : Record!NewFile(s) = [body |-> Fresh(s), remarks |-> {}]
BY DEF Record!Contents, Contents, Record!Bodies, Bodies, Record!Edits, Edits,
       Record!Applied, Applied, Record!NewFile, Record!Fresh, Fresh

\* The command that replaces a file is the only one past its check there.
LEMMA Alone ==
  ASSUME IInv, NEW w \in Procs, Publish(w), NEW v \in Procs
  PROVE  ~(Replaces(v)' /\ target'[v] = target[w])
<1>1. Others(w) /\ Ended(w)
  BY FinishEnds DEF IInv, Publish
<1>2. phase[w] = "publish"
  BY DEF Publish
<1> QED BY <1>1, <1>2 DEF Others, Ended, Replaces, IInv, LocksInv

LEMMA PublishRefines ==
  ASSUME IInv, [Next]_vars, NEW w \in Procs, Publish(w), ~UNCHANGED disk
  PROVE  \/ \E p \in Paths, e \in Edits : Record!Apply(p, e)
         \/ \E p \in Paths : Record!Restore(p)
         \/ \E p \in Paths, s \in Stages : Record!Create(p, s)
<1> DEFINE p == target[w]
<1>0. DiskOK /\ p \in Paths /\ phase[w] = "publish" /\ TypeOK /\ JobsInv
  BY TypeParts DEF IInv, TypeOK, Publish
<1>1. ASSUME NEW text \in Contents, Put(p, text)
      PROVE  /\ Recorded' = [Recorded EXCEPT ![p] = text]
             /\ AtRisk' \subseteq AtRisk /\ Torn' \subseteq Torn
  <2>1. PutShape(p)
    <3>1. /\ Len(files') = Len(files) + 1
          /\ \A i \in 1..Len(files) : files'[i] = files[i]
          /\ files'[Len(files) + 1] = [mtime |-> clock, text |-> text]
          /\ at' = [at EXCEPT ![p] = Len(files) + 1]
          /\ clock' = clock + 1
      BY <1>0, <1>1, PutDisk
    <3> QED BY <3>1 DEF PutShape
  <2>2. \A v \in Procs : ~(Replaces(v)' /\ target'[v] = p)
    BY Alone
  <2>3. Torn' \subseteq Torn
    BY <1>0, <2>1, <2>2, TornPut
  <2>4. \A v \in Procs, r \in Remarks : Misses(v, r)' => Misses(v, r)
    BY <1>0, <2>1, <2>2, RiskPut
  <2>5. AtRisk' \subseteq AtRisk
    BY <2>4 DEF AtRisk
  <2> QED BY <1>0, <1>1, <2>3, <2>5, RecordedPut
<1>2. CASE edit[w].kind # "create"
  <2> DEFINE text == [seen[w].text EXCEPT !.body = Applied(edit[w], @)]
  <2>0. Replaces(w) /\ edit[w] \in Edits /\ seen[w].text \in Contents
    BY <1>0, <1>2 DEF Replaces, JobsInv, JobOf, HasText, Creations
  <2>1. text \in Contents /\ Put(p, text)
    BY <1>2, <2>0, EditText DEF Publish
  <2>2. /\ Recorded' = [Recorded EXCEPT ![p] = text]
        /\ AtRisk' \subseteq AtRisk /\ Torn' \subseteq Torn
    BY <1>1, <2>1
  <2>3. CASE p \in Torn
    <3>1. <<"write", p>> \in Windows
      BY <2>0 DEF Windows
    <3>2. Recorded'[p] = text
      BY <1>0, <2>2 DEF Recorded
    <3> HIDE DEF text, p
    <3>3. Recorded'[p] \in Record!Contents
      <4>1. text \in Contents
        BY <2>1
      <4> QED BY <3>2, <4>1, SameBodies
    <3>5. Recorded' = [Recorded EXCEPT ![p] = Recorded'[p]]
      <4>1. Recorded' = [Recorded EXCEPT ![p] = text]
        BY <2>2
      <4> QED BY <3>2, <4>1
    <3>4. Record!Restore(p)
      BY <2>2, <2>3, <3>1, <3>3, <3>5 DEF Record!Restore, Record!Writing
    <3> QED BY <1>0, <3>4
  <2>4. CASE p \notin Torn
    <3> DEFINE now == FileAt(p).text
               lost == now.remarks \ seen[w].text.remarks
    <3>1. Exists(p) /\ Matches(now, seen[w].text)
      BY <1>0, <2>0, <2>4 DEF Torn
    <3>2. Recorded[p] = now /\ Recorded[p] # Absent /\ now \in Contents
      BY <1>0, <3>1, RecordedAt
    <3>3. lost \in SUBSET AtRisk
      BY <2>0, <3>1, <3>2 DEF AtRisk, Misses, Contents
    <3>4. text = [body |-> Applied(edit[w], now.body), remarks |-> now.remarks \ lost]
      BY <2>0, <3>1 DEF Matches, Contents
    <3> HIDE DEF text, now, lost, p
    <3>5. Record!Apply(p, edit[w])
      BY <2>2, <3>2, <3>3, <3>4, SameBodies DEF Record!Apply
    <3> QED BY <1>0, <2>0, <3>5
  <2> QED BY <2>3, <2>4
<1>3. CASE edit[w].kind = "create"
  <2> DEFINE text == [body |-> Fresh(edit[w].arg), remarks |-> {}]
  <2>1. edit[w].arg \in Stages
    BY <1>0, <1>3 DEF JobsInv, JobOf, Creations, Edits
  <2>2. text \in Contents
    BY <2>1, NewText
  <2>3. ~Exists(p) /\ Put(p, text)
    BY <1>3 DEF Publish
  <2>4. /\ Recorded' = [Recorded EXCEPT ![p] = text]
        /\ AtRisk' \subseteq AtRisk /\ Torn' \subseteq Torn
    BY <1>1, <2>2, <2>3
  <2>5. Recorded[p] = Absent
    BY <1>0, <2>3, RecordedAt
  <2> HIDE DEF p
  <2>6. Record!Create(p, edit[w].arg)
    BY <2>4, <2>5, SameBodies DEF Record!Create
  <2> QED BY <1>0, <2>1, <2>6
<1> QED BY <1>2, <1>3

LEMMA RenameRefines ==
  ASSUME IInv, [Next]_vars, NEW w \in Procs, Rename(w), ~UNCHANGED disk
  PROVE  \E p, q \in Paths : Record!Move(p, q)
<1> DEFINE p == target[w]
           q == edit[w].arg
<1>0. DiskOK /\ <<p, q>> \in Renames /\ Exists(p)
  BY TypeParts DEF IInv, Rename, JobsInv, JobOf, disk
<1>1. p \in Paths /\ q \in Paths /\ MoveShape(p, q)
  BY <1>0, RenamesOnce DEF Rename, MoveShape
<1>2. <<"move", q>> \in Windows
  BY DEF Rename, Windows
<1> HIDE DEF p, q
<1>3. Recorded' = [Recorded EXCEPT ![p] = Absent, ![q] = Recorded[p]]
  BY <1>0, <1>1, RecordedMove
<1>4. Recorded[p] # Absent /\ Recorded[p] = FileAt(p).text
  BY <1>0, <1>1, RecordedAt
<1>5. \A v \in Procs : Replaces(v) => <<"write", target[v]>> \in Windows
  BY DEF Windows
<1>6. AtRisk' \subseteq AtRisk \cup (IF <<"write", q>> \in Windows THEN Recorded[p].remarks ELSE {})
  <2>1. \A v \in Procs, r \in Remarks : Misses(v, r)' =>
           Misses(v, r) \/ (Replaces(v) /\ target[v] = q /\ r \in FileAt(p).text.remarks)
    BY <1>0, <1>1, RiskMove
  <2> QED BY <1>4, <1>5, <2>1 DEF AtRisk
<1>7. Torn' \subseteq Torn \cup {x \in {p, q} : <<"write", x>> \in Windows}
  <2>1. Torn' \subseteq Torn \cup {x \in {p, q} : \E v \in Procs : Replaces(v) /\ target[v] = x}
    BY <1>0, <1>1, TornMove
  <2> QED BY <1>5, <2>1
<1>8. Record!Move(p, q)
  BY <1>2, <1>3, <1>4, <1>6, <1>7 DEF Record!Move, Record!Moving, Record!Writing
<1> QED BY <1>1, <1>8

LEMMA RemarkRefines ==
  ASSUME IInv, NEW p \in Paths, NEW r \in Remarks, Remark(p, r)
  PROVE  Record!Remark(p, r)
<1>0. TypeOK /\ DiskOK
  BY TypeParts DEF IInv
<1>1. /\ Exists(p) /\ at'[p] # 0
      /\ FileAt(p)'.text = [FileAt(p).text EXCEPT !.remarks = @ \cup {r}]
      /\ \A q \in Paths : q # p => at'[q] = at[q] /\ (Exists(q) => FileAt(q)' = FileAt(q))
  BY <1>0, Remarked
<1>2. Recorded' = [Recorded EXCEPT ![p].remarks = @ \cup {r}]
  <2>1. Recorded'[p] = [Recorded[p] EXCEPT !.remarks = @ \cup {r}]
    BY <1>1 DEF Recorded, Exists, FileAt
  <2>2. \A q \in Paths : q # p => Recorded'[q] = Recorded[q]
    BY <1>1 DEF Recorded, Exists, FileAt
  <2> QED BY <2>1, <2>2 DEF Recorded
<1>3. Recorded[p] # Absent
  BY <1>0, <1>1, RecordedAt
<1>4. AtRisk' \subseteq AtRisk \cup (IF <<"write", p>> \in Windows THEN {r} ELSE {})
  <2>1. \A w \in Procs, x \in Remarks : Misses(w, x)' =>
           Misses(w, x) \/ (x = r /\ target[w] = p /\ (Replaces(w) \/ InOpenFile(w)))
    BY RiskRemark
  <2>2. \A w \in Procs : Replaces(w) \/ InOpenFile(w) => <<"write", target[w]>> \in Windows
    BY DEF Windows
  <2> QED BY <2>1, <2>2 DEF AtRisk
<1>5. Torn' \subseteq Torn
  BY TornRemark
<1> QED BY <1>2, <1>3, <1>4, <1>5 DEF Record!Remark, Record!Writing

LEMMA StepRefines == IInv /\ [Next]_vars => [Record!RecordNext]_(Record!recordVars)
<1> SUFFICES ASSUME IInv, [Next]_vars PROVE Record!RecordNext
  OBVIOUS
<1>1. IInv'
  BY InvStep
<1>2. Windows' \subseteq {"write", "move"} \X Paths
  <2>1. IInv' => (Windows \subseteq {"write", "move"} \X Paths)'
    BY WindowsType, PTL
  <2> QED BY <1>1, <2>1
<1>3. CASE UNCHANGED disk
  BY <1>2, <1>3, RiskQuiet, RecordedQuiet DEF Record!RecordNext, Record!Settle
<1>4. CASE ~UNCHANGED disk
  <2>1. \/ \E w \in Procs : Publish(w) \/ Rename(w)
        \/ \E p \in Paths, r \in Remarks : Remark(p, r)
    BY <1>4 DEF Next, vars, disk, Command, Read, Fstat, Render, CreateDoc, Acquire, Check,
                Abort, BeginWithStat, BeginWithRead, BeginCreate, BeginMove, Start
  <2>2. CASE \E w \in Procs : Publish(w)
    BY <1>2, <1>4, <2>2, PublishRefines, SameBodies DEF Record!RecordNext
  <2>3. CASE \E w \in Procs : Rename(w)
    BY <1>2, <1>4, <2>3, RenameRefines DEF Record!RecordNext
  <2>4. CASE \E p \in Paths, r \in Remarks : Remark(p, r)
    BY <1>2, <2>4, RemarkRefines DEF Record!RecordNext
  <2> QED BY <2>1, <2>2, <2>3, <2>4
<1> QED BY <1>3, <1>4

LEMMA InitRefines == Init => Record!RecordInit
<1> SUFFICES ASSUME Init PROVE Record!RecordInit
  OBVIOUS
<1>0. DiskOK
  BY TypeInit, TypeParts
<1>1. Recorded \in [Paths -> Contents \cup {Absent}]
  <2>1. \A p \in Paths : Recorded[p] \in Contents \cup {Absent}
    BY <1>0, RecordedAt
  <2> QED BY <2>1 DEF Recorded
<1>2. \A w \in Procs : phase[w] = "idle"
  BY DEF Init
<1>3. AtRisk = {} /\ Torn = {} /\ Windows = {}
  BY <1>2 DEF AtRisk, Torn, Windows, Misses, Replaces, InOpenFile, HasRead
<1> QED BY <1>1, <1>3, SameBodies DEF Record!RecordInit

\* No command's write is lost and none is undone by another command: between
\* the check of the modification time and the replacement only an editor and a
\* rename can come, and each path is a register of PursuitRecord.
THEOREM PursuitRefinement == Spec => WritesAreAtomic
<1>1. Init => Record!RecordInit
  BY InitRefines
<1>2. IInv /\ [Next]_vars => [Record!RecordNext]_(Record!recordVars)
  BY StepRefines
<1> QED BY <1>1, <1>2, PursuitInvariant, PTL DEF Spec, WritesAreAtomic, Record!RecordSpec
=============================================================================
