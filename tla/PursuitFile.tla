------------------------------ MODULE PursuitFile ------------------------------
(***************************************************************************)
(* Pursuit files and the commands that write them (pursuit/io.py and its   *)
(* callers), beside an editor.  A command takes the modification time and  *)
(* the text of a file, works out the new text -- asking Drive or git in    *)
(* between --, and replaces the file under its lock only if the time is    *)
(* still the same.  A write makes a new file with a new modification time. *)
(***************************************************************************)
EXTENDS PursuitBody, Integers

CONSTANTS Paths,
          FirstPath,   \* the path of the file there is at the start
          Renames,  \* the moves that may be asked for: pursuit rename, archive
          Remarks,  \* what an editor may add
          Procs,    \* the commands that run at a time
          MaxRuns,  \* commands started in a behaviour
          NoProc, Absent

\* What a rename makes is no rename's origin: a file is moved once.
ASSUME RenamesOnce ==
    /\ Renames \subseteq Paths \X Paths
    /\ \A m, n \in Renames : m[2] # n[1]

ASSUME FirstPathIsPath == FirstPath \in Paths

ASSUME NoProcIsNone == NoProc \notin Procs

VARIABLES files,   \* every file there was: its modification time and text
          at,      \* path -> the number of its file, 0 if there is none
          clock,   \* the modification time of the next write
          lock,    \* path -> the command that holds its lock
          docs,    \* workbooks created in Drive
          phase,   \* command -> what it does next
          target,  \* command -> the path it works on
          edit,    \* command -> what it is to do
          seen,    \* command -> the file, time and text it goes by
          runs     \* commands started

disk == <<files, at, clock>>
vars == <<disk, lock, docs, phase, target, edit, seen, runs>>

Contents == [body : Bodies, remarks : SUBSET Remarks]

ASSUME AbsentIsNone == Absent \notin Contents

Phases == {"idle", "read", "fstat", "render", "drive", "lock", "check", "publish", "rename"}

\* Drive names the workbook of a link when it has made it.
Requests == {e \in Edits : e.kind # "link"} \cup [kind : {"link"}, arg : {NoDoc}]
Jobs == Edits \cup Requests \cup [kind : {"create"}, arg : Stages] \cup [kind : {"move"}, arg : Paths]

\* A command that is not running.
Unseen == [file |-> 0, mtime |-> 0, text |-> Absent]
Unasked == [kind |-> "fix", arg |-> NoDoc]

Exists(p) == at[p] # 0
FileAt(p) == files[at[p]]

\* load_pursuit() and the ingest writeback take text and time from one open
\* file; the other commands ask for the time first, and read by name.
ReadsFirst(e) == e.kind \in {"note", "repair"}

\* When it has the text, a sync renders once before it writes, and a link has
\* Drive create the workbook.
AfterRead(e) == CASE e.kind = "sync" -> "render" [] e.kind = "link" -> "drive" [] OTHER -> "lock"

\* Broken form: whatever is there is replaced.
StaleIfGone(w) == ~Exists(target[w])

\* The file is gone or its time is another one.
Stale(w) == ~Exists(target[w]) \/ FileAt(target[w]).mtime # seen[w].mtime

Goto(w, next) == phase' = [phase EXCEPT ![w] = next]

\* A command ends, and with its process its lock.
Release(w) == lock' = [p \in Paths |-> IF lock[p] = w THEN NoProc ELSE lock[p]]
Finish(w) ==
    /\ Goto(w, "idle")
    /\ target' = [target EXCEPT ![w] = FirstPath]
    /\ edit' = [edit EXCEPT ![w] = Unasked]
    /\ seen' = [seen EXCEPT ![w] = Unseen]
    /\ Release(w)

Start(w, p, e, next, first) ==
    /\ phase[w] = "idle"
    /\ runs < MaxRuns
    /\ runs' = runs + 1
    /\ Goto(w, next)
    /\ target' = [target EXCEPT ![w] = p]
    /\ edit' = [edit EXCEPT ![w] = e]
    /\ seen' = [seen EXCEPT ![w] = first]
    /\ UNCHANGED <<disk, lock, docs>>

\* A new file takes the path.
Put(p, text) ==
    /\ files' = Append(files, [mtime |-> clock, text |-> text])
    /\ at' = [at EXCEPT ![p] = Len(files) + 1]
    /\ clock' = clock + 1
-----------------------------------------------------------------------------
Init ==
    /\ \E s \in Stages \ Closed :
          files = <<[mtime |-> 1, text |-> [body |-> [Fresh(s) EXCEPT !.legacy = TRUE],
                                            remarks |-> {}]]>>
    /\ at = [p \in Paths |-> IF p = FirstPath THEN 1 ELSE 0]
    /\ clock = 2
    /\ lock = [p \in Paths |-> NoProc]
    /\ docs = {}
    /\ phase = [w \in Procs |-> "idle"]
    /\ target = [w \in Procs |-> FirstPath]
    /\ edit = [w \in Procs |-> Unasked]
    /\ seen = [w \in Procs |-> Unseen]
    /\ runs = 0

\* pursuit advance, meeting link, audit --fix, the sync: stat(), then read.
BeginWithStat(w, p, e) ==
    /\ Exists(p)
    /\ ~ReadsFirst(e)
    /\ Start(w, p, e, "read", [Unseen EXCEPT !.mtime = FileAt(p).mtime])

Read(w) ==
    /\ phase[w] = "read"
    /\ IF ~Exists(target[w]) \/ ~Wanted(edit[w], FileAt(target[w]).text.body) THEN Finish(w)
       ELSE /\ seen' = [seen EXCEPT ![w].text = FileAt(target[w]).text]
            /\ Goto(w, AfterRead(edit[w]))
            /\ UNCHANGED <<lock, target, edit>>
    /\ UNCHANGED <<disk, docs, runs>>

\* _append_meeting_to_pursuit(), load_pursuit(): read, then fstat() what is open.
BeginWithRead(w, p, e) ==
    /\ Exists(p)
    /\ ReadsFirst(e)
    /\ Start(w, p, e, "fstat", [Unseen EXCEPT !.file = at[p], !.text = FileAt(p).text])

Fstat(w) ==
    /\ phase[w] = "fstat"
    /\ IF ~Wanted(edit[w], seen[w].text.body) THEN Finish(w)
       ELSE /\ seen' = [seen EXCEPT ![w].mtime = files[seen[w].file].mtime]
            /\ Goto(w, AfterRead(edit[w]))
            /\ UNCHANGED <<lock, target, edit>>
    /\ UNCHANGED <<disk, docs, runs>>

\* _finish_sf_mode() renders and validates the new text once without the lock.
Render(w) ==
    /\ phase[w] = "render"
    /\ IF Stale(w) THEN Finish(w) ELSE Goto(w, "lock") /\ UNCHANGED <<lock, target, edit, seen>>
    /\ UNCHANGED <<disk, docs, runs>>

\* link(): a document is created before the pursuit names it.
CreateDoc(w) ==
    /\ phase[w] = "drive"
    /\ \E d \in Docs \ docs :
          /\ docs' = docs \cup {d}
          /\ edit' = [edit EXCEPT ![w].arg = d]
    /\ Goto(w, "lock")
    /\ UNCHANGED <<disk, lock, target, seen, runs>>

\* pursuit create, when there is no such file.
BeginCreate(w, p, s) ==
    /\ ~Exists(p)
    /\ Start(w, p, [kind |-> "create", arg |-> s], "lock", Unseen)

\* Broken form: a lock file that is only touched.
AcquireUnlocked(w) ==
    /\ phase[w] = "lock"
    /\ lock' = [lock EXCEPT ![target[w]] = w]
    /\ Goto(w, "check")
    /\ UNCHANGED <<disk, docs, target, edit, seen, runs>>

\* _pursuit_lock(): wait for it.
Acquire(w) ==
    /\ phase[w] = "lock"
    /\ lock[target[w]] = NoProc
    /\ lock' = [lock EXCEPT ![target[w]] = w]
    /\ Goto(w, "check")
    /\ UNCHANGED <<disk, docs, target, edit, seen, runs>>

\* _write_frontmatter_locked(), _write_frontmatter_raw_locked(): refuse a stale
\* text, or to create what exists; render the new one.
Refused(w) == IF edit[w].kind = "create" THEN Exists(target[w]) ELSE Stale(w)

Check(w) ==
    /\ phase[w] = "check"
    /\ IF Refused(w) THEN Finish(w) ELSE Goto(w, "publish") /\ UNCHANGED <<lock, target, edit, seen>>
    /\ UNCHANGED <<disk, docs, runs>>

\* _publish_text_temp(): replace(), or link(), which fails if there is a file.
Publish(w) ==
    /\ phase[w] = "publish"
    /\ \/ /\ edit[w].kind # "create"
          /\ Put(target[w], [seen[w].text EXCEPT !.body = Applied(edit[w], @)])
       \/ /\ edit[w].kind = "create"
          /\ ~Exists(target[w])
          /\ Put(target[w], [body |-> Fresh(edit[w].arg), remarks |-> {}])
       \/ /\ edit[w].kind = "create"
          /\ Exists(target[w])
          /\ UNCHANGED disk
    /\ Finish(w)
    /\ UNCHANGED <<docs, runs>>

\* Broken form: a hard link under the new name, and the old one kept.
RenameByLink(w) ==
    /\ phase[w] = "rename"
    /\ at' = IF Exists(target[w]) THEN [at EXCEPT ![edit[w].arg] = at[target[w]]] ELSE at
    /\ Finish(w)
    /\ UNCHANGED <<files, clock, docs, runs>>

\* pursuit rename, pursuit archive: no lock; rename() replaces what is there.
BeginMove(w, m) ==
    /\ Exists(m[1])
    /\ ~Exists(m[2])
    /\ Start(w, m[1], [kind |-> "move", arg |-> m[2]], "rename", Unseen)

Rename(w) ==
    /\ phase[w] = "rename"
    /\ IF Exists(target[w])
       THEN at' = [at EXCEPT ![edit[w].arg] = at[target[w]], ![target[w]] = 0]
       ELSE at' = at
    /\ Finish(w)
    /\ UNCHANGED <<files, clock, docs, runs>>

\* The process is killed, or Drive, git or the disk fails it.
Abort(w) ==
    /\ phase[w] # "idle"
    /\ Finish(w)
    /\ UNCHANGED <<disk, docs, runs>>

\* An editor saves what it has just read with a remark added, over the file or
\* as a new one.
Remark(p, r) ==
    /\ Exists(p)
    /\ \A i \in DOMAIN files : r \notin files[i].text.remarks
    /\ LET text == [FileAt(p).text EXCEPT !.remarks = @ \cup {r}]
       IN  \/ Put(p, text)
           \/ /\ files' = [files EXCEPT ![at[p]] = [mtime |-> clock, text |-> text]]
              /\ clock' = clock + 1
              /\ at' = at
    /\ UNCHANGED <<lock, docs, phase, target, edit, seen, runs>>

Command(w) ==
    \/ Read(w) \/ Fstat(w) \/ Render(w) \/ CreateDoc(w) \/ Acquire(w) \/ Check(w)
    \/ Publish(w) \/ Rename(w) \/ Abort(w)

Next ==
    \/ \E w \in Procs : Command(w)
    \/ \E w \in Procs, p \in Paths, e \in Requests : BeginWithStat(w, p, e) \/ BeginWithRead(w, p, e)
    \/ \E w \in Procs, p \in Paths, s \in Stages : BeginCreate(w, p, s)
    \/ \E w \in Procs, m \in Renames : BeginMove(w, m)
    \/ \E p \in Paths, r \in Remarks : Remark(p, r)

Spec == Init /\ [][Next]_vars
-----------------------------------------------------------------------------
\* Types; and no file has two names.
TypeOK ==
    /\ files \in Seq([mtime : Nat, text : Contents])
    /\ at \in [Paths -> 0..Len(files)]
    /\ \A p, q \in Paths : Exists(p) /\ at[p] = at[q] => p = q
    /\ clock \in Nat
    /\ lock \in [Paths -> Procs \cup {NoProc}]
    /\ docs \subseteq Docs
    /\ phase \in [Procs -> Phases]
    /\ target \in [Procs -> Paths]
    /\ edit \in [Procs -> Jobs]
    /\ seen \in [Procs -> [file : 0..Len(files), mtime : Nat, text : Contents \cup {Absent}]]
    /\ runs \in Nat

\* Between its check and its replacement a command is alone with the path: of
\* two that had waited for the lock, the second looks only after the first wrote.
OneWriterPerPath ==
    \A v, w \in Procs :
        phase[v] \in {"check", "publish"} /\ phase[w] \in {"check", "publish"}
        /\ target[v] = target[w] => v = w

\* The refinement: each path is a register of PursuitRecord.
Replaces(w) == phase[w] = "publish" /\ edit[w].kind # "create"
InOpenFile(w) == phase[w] = "fstat" /\ seen[w].file = at[target[w]]
Recorded == [p \in Paths |-> IF Exists(p) THEN FileAt(p).text ELSE Absent]

HasRead(w) == phase[w] \in {"render", "drive", "lock", "check"} /\ edit[w].kind # "create"

\* What a command read lacks this remark, and it may yet replace the file.
Misses(w, r) ==
    /\ \/ Replaces(w)
       \/ InOpenFile(w)
       \/ HasRead(w) /\ ~Stale(w)
    /\ Exists(target[w])
    /\ r \in FileAt(target[w]).text.remarks \ seen[w].text.remarks

AtRisk == {r \in Remarks : \E w \in Procs : Misses(w, r)}

\* What is read is still there, perhaps with more remarks.
Matches(now, read) == now.body = read.body /\ read.remarks \subseteq now.remarks

\* What a command is about to replace is no longer what it checked.
Torn == {p \in Paths : \E w \in Procs :
            /\ Replaces(w) /\ target[w] = p
            /\ Exists(p) => ~Matches(FileAt(p).text, seen[w].text)}

Windows ==
    {<<"write", target[w]>> : w \in {v \in Procs : Replaces(v) \/ InOpenFile(v)}}
    \cup {<<"move", edit[w].arg>> : w \in {v \in Procs : phase[v] = "rename"}}

Record == INSTANCE PursuitRecord
          WITH record <- Recorded, atRisk <- AtRisk, torn <- Torn, windows <- Windows

\* No command's write is lost, and no command undoes another's: each replacement
\* applies its edit to what the file says at that moment, whatever was read or
\* asked of Drive in between; only remarks saved inside a window, and files
\* renamed inside one, are exempt.
WritesAreAtomic == Record!RecordSpec
=============================================================================
