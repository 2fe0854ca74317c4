---------------------------- MODULE GmailMailbox ----------------------------
(***************************************************************************)
(* The Gmail service as the sync uses it: messages listed newest first, a  *)
(* history of events numbered from 1 of which the old part expires, and a  *)
(* profile that tells the newest number.  A message that is present has    *)
(* one of two label sets, one the sync keeps and one it excludes, and an   *)
(* event moves it from one to the other in a single history record.        *)
(***************************************************************************)
EXTENDS Integers, Sequences, FiniteSets

CONSTANTS Newest,    \* messages are 1..Newest, in the order they arrive
          MaxEvents  \* bound: changes to the mailbox

ASSUME MailboxAssumption == Newest \in Nat \ {0} /\ MaxEvents \in Nat

VARIABLES box,     \* message -> its condition
          history, \* every event so far
          expired  \* events up to this number are gone from the history

mailboxVars == <<box, history, expired>>

Messages == 1..Newest

Conditions == {"unborn", "kept", "excluded", "gone"}

Events == [msg: Messages, to: {"kept", "excluded", "gone"}, added: BOOLEAN]

MailboxTypeOK ==
    /\ box \in [Messages -> Conditions]
    /\ history \in Seq(Events)
    /\ Len(history) <= MaxEvents
    /\ expired \in 0..Len(history)

Present(m) == box[m] \in {"kept", "excluded"}

\* The mailbox when the sync is first installed: some messages have arrived.
MailboxInit ==
    /\ \E k \in 0..Newest :
         box \in {b \in [Messages -> {"unborn", "kept", "excluded"}] :
                    \A m \in Messages : b[m] = "unborn" <=> m > k}
    /\ history = <<>>
    /\ expired = 0

\* A message arrives, is deleted, or has its labels changed.
Change(m, to) ==
    /\ Len(history) < MaxEvents
    /\ to # box[m]
    /\ \/ /\ box[m] = "unborn"
          /\ to # "gone"
          /\ \A k \in 1..(m - 1) : box[k] # "unborn"
       \/ Present(m)
    /\ box' = [box EXCEPT ![m] = to]
    /\ history' = Append(history, [msg |-> m, to |-> to, added |-> box[m] = "unborn"])
    /\ UNCHANGED expired

\* The service forgets old history.
Expire ==
    /\ expired < Len(history)
    /\ expired' = Len(history)
    /\ UNCHANGED <<box, history>>

\* users.getProfile(): the number of the newest event.
ProfileHistoryId == Len(history)

\* messages.list(): the newest `size` messages present, of those numbered at
\* most `top` and at least `oldest`.
Listable(top, oldest) == {m \in Messages : Present(m) /\ m <= top /\ m >= oldest}
Page(top, oldest, size) ==
    {m \in Listable(top, oldest) :
        Cardinality({k \in Listable(top, oldest) : k > m}) < size}

=============================================================================
