----------------------------- MODULE CompanionFeed -----------------------------
(***************************************************************************)
(* The attention feed (companion/feed.py get_feed) and its two readers.    *)
(* `companion feed` prints what it has not delivered before: it loads the  *)
(* cursor without a lock, merges what it is about to print into it under   *)
(* the lock, and prints.  Polls overlap, and may die between any two of    *)
(* these.  A pass of the loop reads the feed without the cursor and        *)
(* handles at most Cap of its items, chosen in rounds over the severities  *)
(* (companion/loop.py _select_pass).                                       *)
(***************************************************************************)
EXTENDS Integers, FiniteSets

CONSTANTS Items,
          Account,     \* item -> account
          Severity,    \* item -> 0 critical, 1 warning, 2 info
          Place,       \* item -> its place among all, in the order of source and id
          Filters,     \* --account: the sets of accounts a poll may ask for
          Polls,       \* polls that may run at a time
          Cap,         \* _MAX_ITEMS_PER_PASS
          MaxPolls, MaxDeaths

Severities == 0..2

ASSUME ItemsAreOrdered ==
    /\ IsFiniteSet(Items)
    /\ Severity \in [Items -> Severities]
    /\ Place \in [Items -> Nat]
    /\ \A i, j \in Items : Place[i] = Place[j] => i = j

\* Every severity finds a place in the first round.
ASSUME CapCovers == Cap \in Nat /\ Cap >= Cardinality({Severity[i] : i \in Items})

VARIABLES feed,       \* items in any of the surfaces that no cooldown and no proposal withholds
          cursor,     \* companion-cursor.json
          poll,       \* what each poll is at
          todo,       \* what the loop's pass has left to handle, {} between two passes
          shown,      \* history: what polls with the cursor have printed
          lost,       \* history: what polls that died had taken over
          spent       \* history: how often each bounded thing happened

vars == <<feed, cursor, poll, todo, shown, lost, spent>>

Idle == [phase |-> "idle", items |-> {}]

Spend(what) == spent' = [spent EXCEPT ![what] = @ + 1]
Set(p, change) == poll' = [poll EXCEPT ![p] = change]
-----------------------------------------------------------------------------
(* What a pass handles. *)

\* get_feed() sorts by severity, then by source and id.
Precedes(i, j) ==
    Severity[i] < Severity[j] \/ (Severity[i] = Severity[j] /\ Place[i] < Place[j])

\* The round in which an item has its turn: its place in its own severity.
Round(listed, i) == Cardinality({j \in listed : Severity[j] = Severity[i] /\ Place[j] < Place[i]})

\* Rounds go over the severities in their order.
Sooner(listed, i, j) ==
    \/ Round(listed, i) < Round(listed, j)
    \/ Round(listed, i) = Round(listed, j) /\ Severity[i] < Severity[j]

\* Broken: the first Cap of the sorted feed.
SelectFirst(listed) == {i \in listed : Cardinality({j \in listed : Precedes(j, i)}) < Cap}

\* _select_pass()
Select(listed) == {i \in listed : Cardinality({j \in listed : Sooner(listed, j, i)}) < Cap}
-----------------------------------------------------------------------------
Init ==
    /\ feed = Items
    /\ cursor = {}
    /\ poll = [p \in Polls |-> Idle]
    /\ todo = {}
    /\ shown = {}
    /\ lost = {}
    /\ spent = [polls |-> 0, deaths |-> 0]

\* A condition arises, a cooldown expires, a proposal is settled.
Arise(i) ==
    /\ i \notin feed
    /\ feed' = feed \cup {i}
    /\ UNCHANGED <<cursor, poll, todo, shown, lost, spent>>

\* A condition clears.
Clear(i) ==
    /\ i \in feed
    /\ feed' = feed \ {i}
    /\ UNCHANGED <<cursor, poll, todo, shown, lost, spent>>

\* The surfaces, filtered.  A poll with --all prints them and writes nothing.
Gather(p, filter) ==
    /\ poll[p].phase = "idle"
    /\ spent.polls < MaxPolls
    /\ Set(p, [phase |-> "load", items |-> {i \in feed : Account[i] \in filter}])
    /\ Spend("polls")
    /\ UNCHANGED <<feed, cursor, todo, shown, lost>>

\* load_cursor(); with nothing left the poll prints nothing and saves nothing.
Load(p) ==
    /\ poll[p].phase = "load"
    /\ LET fresh == poll[p].items \ cursor
       IN  Set(p, IF fresh = {} THEN Idle ELSE [phase |-> "save", items |-> fresh])
    /\ UNCHANGED <<feed, cursor, todo, shown, lost, spent>>

\* Broken: the cursor is replaced.
SaveOver(p) ==
    /\ poll[p].phase = "save"
    /\ cursor' = poll[p].items
    /\ Set(p, [phase |-> "print", items |-> poll[p].items])
    /\ UNCHANGED <<feed, todo, shown, lost, spent>>

\* Broken: what the account filter leaves out is taken for delivered.
SaveAll(p) ==
    /\ poll[p].phase = "save"
    /\ cursor' = cursor \cup feed
    /\ Set(p, [phase |-> "print", items |-> poll[p].items])
    /\ UNCHANGED <<feed, todo, shown, lost, spent>>

\* save_cursor(): merged under the lock, before anything is printed.
Save(p) ==
    /\ poll[p].phase = "save"
    /\ cursor' = cursor \cup poll[p].items
    /\ Set(p, [phase |-> "print", items |-> poll[p].items])
    /\ UNCHANGED <<feed, todo, shown, lost, spent>>

Deliver(p) ==
    /\ poll[p].phase = "print"
    /\ shown' = shown \cup poll[p].items
    /\ Set(p, Idle)
    /\ UNCHANGED <<feed, cursor, todo, lost, spent>>

\* Killed, or unable to read or to write a file: get_feed() raises.
Die(p) ==
    /\ poll[p].phase # "idle"
    /\ spent.deaths < MaxDeaths
    /\ lost' = IF poll[p].phase = "print" THEN lost \cup poll[p].items ELSE lost
    /\ Set(p, Idle)
    /\ Spend("deaths")
    /\ UNCHANGED <<feed, cursor, todo, shown>>

\* run_once(): the feed without the cursor, of all accounts.
Begin ==
    /\ todo = {}
    /\ todo' = Select(feed)
    /\ UNCHANGED <<feed, cursor, poll, shown, lost, spent>>

\* _process_item(), in the order of the feed: the item may come to be withheld,
\* by a cooldown or a proposal, or stay as it is.
Handle(i) ==
    /\ i \in todo
    /\ \A j \in todo : j = i \/ Precedes(i, j)
    /\ todo' = todo \ {i}
    /\ feed' \in {feed, feed \ {i}}
    /\ UNCHANGED <<cursor, poll, shown, lost, spent>>

\* The pass is killed, by its timeout or with the machine.
Abort ==
    /\ todo # {}
    /\ spent.deaths < MaxDeaths
    /\ todo' = {}
    /\ Spend("deaths")
    /\ UNCHANGED <<feed, cursor, poll, shown, lost>>

Loop == Begin \/ \E i \in Items : Handle(i)

Next ==
    \/ Loop \/ Abort
    \/ \E i \in Items : Arise(i) \/ Clear(i)
    \/ \E p \in Polls :
          \/ \E filter \in Filters : Gather(p, filter)
          \/ Load(p) \/ Save(p) \/ Deliver(p) \/ Die(p)

Spec == Init /\ [][Next]_vars

\* A timer starts one pass after another, and but for Abort a pass goes through.
FairSpec == Spec /\ WF_vars(Loop)
-----------------------------------------------------------------------------
PollRecords == [phase : {"idle", "load", "save", "print"}, items : SUBSET Items]

\* Every set of identifiers is one of items.
TypeOK ==
    /\ feed \subseteq Items /\ cursor \subseteq Items
    /\ poll \in [Polls -> PollRecords]
    /\ todo \subseteq Items /\ shown \subseteq Items /\ lost \subseteq Items

\* Nothing is delivered twice but by polls that overlap: a poll takes nothing that
\* was printed before it read the cursor, whichever polls saved in between.
NothingTwice ==
    [][\A p \in Polls : poll[p].phase = "load" /\ poll'[p].phase = "save" =>
          poll'[p].items \cap shown = {}]_vars

\* The cursor takes for delivered only what a poll printed, is about to print,
\* or died with: not what an account filter or a cooldown kept back.
CursorIsDelivered == \A i \in cursor :
    \/ i \in shown \cup lost
    \/ \E p \in Polls : poll[p].phase = "print" /\ i \in poll[p].items

Waiting(s) == {i \in feed : Severity[i] = s} # {}
Serves(s) == \E i \in Items : Severity[i] = s /\ Handle(i)

\* A severity that has something to handle from some time on, at every moment,
\* is handled again and again, however many items of the others never go away.
NoSeverityStarves == \A s \in Severities : <>[]Waiting(s) => []<><<Serves(s)>>_vars
=============================================================================
