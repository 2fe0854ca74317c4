------------------------------ MODULE PursuitBody ------------------------------
(***************************************************************************)
(* What a pursuit file says, and what each command makes of it: pursuit    *)
(* advance, meeting link, the meeting reference of an ingest, the          *)
(* Salesforce frontmatter sync, repair-transition-dates and audit --fix.   *)
(* A command computes the whole new file from the whole file it has read.  *)
(***************************************************************************)
EXTENDS Sequences

CONSTANTS Stages,    \* pursuit/stages.py: ALLOWED_STAGES
          Closed,    \* CLOSED_STAGES
          Docs,      \* the Google Docs Drive may come to create
          Meetings,  \* vault notes an ingest may refer to
          Payloads,  \* opportunity records a sync may carry
          NoDoc, NoPayload

Bodies == [stage    : Stages,
           history  : Seq(Stages \X Stages),  \* transition-history: from, to
           moved    : {"today", "earlier"},   \* last-transition
           doc      : Docs \cup {NoDoc},      \* the linked workbook
           meetings : SUBSET Meetings,        \* the activity log
           sf       : Payloads \cup {NoPayload},
           legacy   : BOOLEAN]                \* hyphenated field names

Fresh(stage) == [stage |-> stage, history |-> <<>>, moved |-> "today", doc |-> NoDoc,
                 meetings |-> {}, sf |-> NoPayload, legacy |-> FALSE]

Edits == [kind : {"advance"}, arg : Stages]  \cup [kind : {"link"}, arg : Docs]
    \cup [kind : {"note"}, arg : Meetings]   \cup [kind : {"sync"}, arg : Payloads]
    \cup [kind : {"repair", "fix"}, arg : {NoDoc}]

\* The command goes on to write: the gate has passed or is overridden, there is
\* no workbook yet, the log does not name the note, git knows an earlier date,
\* there is something to fix.
Wanted(e, b) ==
    \/ e.kind = "advance" /\ b.stage \notin Closed /\ e.arg # b.stage
    \/ e.kind = "link" /\ b.doc = NoDoc
    \/ e.kind = "note" /\ e.arg \notin b.meetings
    \/ e.kind = "sync"
    \/ e.kind = "repair" /\ b.moved = "today"
    \/ e.kind = "fix" /\ b.legacy

Applied(e, b) ==
    CASE e.kind = "advance" -> [b EXCEPT !.stage = e.arg, !.moved = "today",
                                         !.history = Append(@, <<b.stage, e.arg>>)]
      [] e.kind = "link"    -> [b EXCEPT !.doc = e.arg]
      [] e.kind = "note"    -> [b EXCEPT !.meetings = @ \cup {e.arg}]
      [] e.kind = "sync"    -> [b EXCEPT !.sf = e.arg]
      [] e.kind = "repair"  -> [b EXCEPT !.moved = "earlier"]
      [] e.kind = "fix"     -> [b EXCEPT !.legacy = FALSE]

=============================================================================
