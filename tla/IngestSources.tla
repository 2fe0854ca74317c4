---------------------------- MODULE IngestSources ----------------------------
(***************************************************************************)
(* What ingest runs share: the rows of pipeline.db (ingest/sources.py) and *)
(* what a processed transcript leaves outside it -- its vault note, the    *)
(* entries in pursuit logs and TASKS.md, its artifact row.  Each operation *)
(* is one committed statement or one file replacement.                     *)
(***************************************************************************)
EXTENDS Naturals, FiniteSets

CONSTANTS Sources,  \* the transcripts there are
          NoteOf    \* source -> the path of its note: account, date and title

VARIABLES status,    \* source -> its row's status, or "absent"
          noted,     \* sources whose vault note is on disk under its path
          logged,    \* the notes the logs of the pursuits refer to
          artifacts  \* source -> artifact rows it has

sourceVars == <<status, noted, logged, artifacts>>

Statuses == {"absent", "pending", "in_progress", "processed", "failed"}

SourcesTypeOK ==
    /\ status \in [Sources -> Statuses]
    /\ noted \subseteq Sources
    /\ logged \subseteq {NoteOf[s] : s \in Sources}
    /\ artifacts \in [Sources -> Nat]

SourcesInit ==
    /\ status = [s \in Sources |-> "absent"]
    /\ noted = {}
    /\ logged = {}
    /\ artifacts = [s \in Sources |-> 0]

\* discover_gemini_sources(): INSERT OR IGNORE of what the mailbox has.
Discover(found) ==
    status' = [s \in Sources |-> IF s \in found /\ status[s] = "absent"
                                 THEN "pending" ELSE status[s]]

\* get_pending_sources(), after that.
PendingAfter(found) == {s \in Sources : status[s] = "pending" \/ (s \in found /\ status[s] = "absent")}

\* Broken form: whatever is not settled is taken.
ClaimableUnsettled(s) == status[s] \in {"pending", "in_progress"}

\* claim_pending_source(): UPDATE ... WHERE status = 'pending'.
Claimable(s) == status[s] = "pending"

Mark(s, value) == status' = [status EXCEPT ![s] = value]

\* There is a note under the path of s, which another source of that path may
\* have written; the logs refer to it.
HasNote(s) == \E t \in noted : NoteOf[t] = NoteOf[s]
IsLogged(s) == NoteOf[s] \in logged

\* write_text() replaces the note there is under this path, of this source or of
\* another.
WriteVaultNote(s) == noted' = {t \in noted : NoteOf[t] # NoteOf[s]} \cup {s}

\* apply_meeting_writebacks(): an entry that names the note is not repeated.
Append(s) == logged' = logged \cup {NoteOf[s]}

InsertVaultNoteArtifact(s) == artifacts' = [artifacts EXCEPT ![s] = @ + 1]

=============================================================================
