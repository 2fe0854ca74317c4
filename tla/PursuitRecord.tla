----------------------------- MODULE PursuitRecord -----------------------------
(***************************************************************************)
(* What the writers of pursuit files promise each other: a file is a       *)
(* register that one command at a time reads and replaces, and a new file  *)
(* never takes the place of another.  Two parties do not keep to the lock: *)
(* an editor, whose remark is at risk only if it is saved inside a         *)
(* writer's window, and a rename, which may leave a second copy behind or  *)
(* overwrite a file, but only inside such a window.                        *)
(***************************************************************************)
EXTENDS PursuitBody

CONSTANTS Paths, Remarks, Absent

VARIABLES record,   \* path -> what the file says and the remarks in it, or Absent
          atRisk,   \* remarks saved inside a window, which it may lose
          torn,     \* paths a rename changed inside a window
          windows   \* <<"write", path>>, <<"move", path>>: commands past their check

recordVars == <<record, atRisk, torn, windows>>

Contents == [body : Bodies, remarks : SUBSET Remarks]

NewFile(stage) == [body |-> Fresh(stage), remarks |-> {}]

Writing(p) == <<"write", p>> \in windows
Moving(p) == <<"move", p>> \in windows

\* A command's replacement of what is there, but for remarks at risk.
Apply(p, e) ==
    /\ record[p] # Absent
    /\ \E lost \in SUBSET atRisk :
          record' = [record EXCEPT ![p] = [body |-> Applied(e, record[p].body),
                                           remarks |-> record[p].remarks \ lost]]
    /\ atRisk' \subseteq atRisk
    /\ torn' \subseteq torn

\* The file was renamed, or another renamed over it, under the command, which
\* then writes its own copy.
Restore(p) ==
    /\ p \in torn
    /\ Writing(p)
    /\ record'[p] \in Contents
    /\ record' = [record EXCEPT ![p] = record'[p]]
    /\ atRisk' \subseteq atRisk
    /\ torn' \subseteq torn

Create(p, stage) ==
    /\ record[p] = Absent
    /\ record' = [record EXCEPT ![p] = NewFile(stage)]
    /\ atRisk' \subseteq atRisk
    /\ torn' \subseteq torn

Remark(p, r) ==
    /\ record[p] # Absent
    /\ record' = [record EXCEPT ![p].remarks = @ \cup {r}]
    /\ atRisk' \subseteq atRisk \cup (IF Writing(p) THEN {r} ELSE {})
    /\ torn' \subseteq torn

Move(p, q) ==
    /\ record[p] # Absent
    /\ record[q] = Absent \/ Moving(q)
    /\ record' = [record EXCEPT ![p] = Absent, ![q] = record[p]]
    /\ atRisk' \subseteq atRisk \cup (IF Writing(q) THEN record[p].remarks ELSE {})
    /\ torn' \subseteq torn \cup {x \in {p, q} : Writing(x)}

\* Nothing is written.
Settle ==
    /\ record' = record
    /\ atRisk' \subseteq atRisk
    /\ torn' \subseteq torn

RecordInit ==
    /\ record \in [Paths -> Contents \cup {Absent}]
    /\ atRisk = {}
    /\ torn = {}
    /\ windows = {}

\* Windows open and close as they may.
RecordNext ==
    /\ \/ \E p \in Paths, e \in Edits : Apply(p, e)
       \/ \E p \in Paths : Restore(p)
       \/ \E p \in Paths, s \in Stages : Create(p, s)
       \/ \E p \in Paths, r \in Remarks : Remark(p, r)
       \/ \E p, q \in Paths : Move(p, q)
       \/ Settle
    /\ windows' \subseteq {"write", "move"} \X Paths

RecordSpec == RecordInit /\ [][RecordNext]_recordVars

=============================================================================
