-------------------------- MODULE CompanionFeedProofs --------------------------
(***************************************************************************)
(* Proofs about CompanionFeed: what the polls that share a cursor may do,  *)
(* for any items, accounts, filters and any number of polls.               *)
(***************************************************************************)
EXTENDS CompanionFeed, TLAPS

\* Whatever was printed is in the cursor: it was saved before, and nothing leaves it.
Recorded == shown \subseteq cursor

\* What is about to be printed is in the cursor.
Committed == \A p \in Polls : poll[p].phase = "print" => poll[p].items \subseteq cursor

Inv == TypeOK /\ Recorded /\ Committed /\ CursorIsDelivered

LEMMA SelectedAreListed == \A listed : Select(listed) \subseteq listed
  BY DEF Select

\* The steps that leave the polls and what they know alone keep the invariant.
LEMMA OthersKeep ==
  ASSUME Inv, feed' \subseteq Items, todo' \subseteq Items,
         UNCHANGED <<cursor, poll, shown, lost>>
  PROVE  Inv'
  BY DEF Inv, TypeOK, Recorded, Committed, CursorIsDelivered

\* The steps of one poll keep it.
LEMMA PollKeeps ==
  ASSUME Inv, NEW p \in Polls,
         (\E filter \in Filters : Gather(p, filter)) \/ Load(p) \/ Save(p) \/ Deliver(p) \/ Die(p)
  PROVE  Inv'
<1> USE DEF Inv, TypeOK, Recorded, Committed, CursorIsDelivered, PollRecords, Set, Idle, Spend
<1>1. ASSUME NEW filter \in Filters, Gather(p, filter) PROVE Inv'
  <2>. DEFINE found == {i \in feed : Account[i] \in filter}
  <2>1. poll' = [poll EXCEPT ![p] = [phase |-> "load", items |-> found]] /\ found \in SUBSET Items
    BY <1>1 DEF Gather
  <2>2. poll' \in [Polls -> PollRecords]
    BY <2>1
  <2>3. \A q \in Polls : poll'[q].phase = "print" <=> poll[q].phase = "print"
    BY <1>1, <2>1 DEF Gather
  <2>4. \A q \in Polls : poll[q].phase = "print" => poll'[q] = poll[q]
    BY <1>1, <2>1 DEF Gather
  <2>. HIDE DEF found
  <2>. QED  BY <1>1, <2>2, <2>3, <2>4 DEF Gather
<1>2. CASE Load(p)
  <2>. DEFINE fresh == poll[p].items \ cursor
  <2>1. poll[p].items \subseteq Items /\ fresh \in SUBSET Items
    BY DEF Load
  <2>2. poll' = [poll EXCEPT ![p] = IF fresh = {} THEN Idle ELSE [phase |-> "save", items |-> fresh]]
    BY <1>2 DEF Load
  <2>3. poll' \in [Polls -> PollRecords]
    BY <2>1, <2>2
  <2>4. \A q \in Polls : poll'[q].phase = "print" <=> poll[q].phase = "print"
    BY <1>2, <2>2 DEF Load
  <2>5. \A q \in Polls : poll[q].phase = "print" => poll'[q] = poll[q]
    BY <1>2, <2>2 DEF Load
  <2>. HIDE DEF fresh
  <2>. QED  BY <1>2, <2>3, <2>4, <2>5 DEF Load
<1>3. CASE Save(p)
  <2>1. poll[p].items \subseteq Items
    OBVIOUS
  <2>2. poll' = [poll EXCEPT ![p] = [phase |-> "print", items |-> poll[p].items]]
    BY <1>3 DEF Save
  <2>. QED  BY <1>3, <2>1, <2>2 DEF Save
<1>4. CASE Deliver(p)
  <2>1. poll[p].items \subseteq Items /\ poll[p].items \subseteq cursor
    BY <1>4 DEF Deliver
  <2>2. poll' = [poll EXCEPT ![p] = Idle]
    BY <1>4 DEF Deliver
  <2>. QED  BY <1>4, <2>1, <2>2 DEF Deliver
<1>5. CASE Die(p)
  <2>1. poll[p].items \subseteq Items
    OBVIOUS
  <2>2. poll' = [poll EXCEPT ![p] = Idle]
    BY <1>5 DEF Die
  <2>. QED  BY <1>5, <2>1, <2>2 DEF Die
<1>. QED  BY <1>1, <1>2, <1>3, <1>4, <1>5

LEMMA FeedInductive == Inv /\ [Next]_vars => Inv'
<1>. SUFFICES ASSUME Inv, [Next]_vars PROVE Inv'
  OBVIOUS
<1>1. CASE Begin
  BY <1>1, OthersKeep, SelectedAreListed DEF Begin, Inv, TypeOK
<1>2. ASSUME NEW i \in Items, Handle(i) PROVE Inv'
  BY <1>2, OthersKeep DEF Handle, Inv, TypeOK
<1>3. CASE Abort
  BY <1>3, OthersKeep DEF Abort, Inv, TypeOK
<1>4. ASSUME NEW i \in Items, Arise(i) \/ Clear(i) PROVE Inv'
  BY <1>4, OthersKeep DEF Arise, Clear, Inv, TypeOK
<1>5. ASSUME NEW p \in Polls,
             (\E filter \in Filters : Gather(p, filter)) \/ Load(p) \/ Save(p) \/ Deliver(p) \/ Die(p)
      PROVE  Inv'
  BY <1>5, PollKeeps
<1>6. CASE UNCHANGED vars
  BY <1>6, OthersKeep DEF vars, Inv, TypeOK
<1>. QED  BY <1>1, <1>2, <1>3, <1>4, <1>5, <1>6 DEF Next, Loop

LEMMA FeedStarts == Init => Inv
  BY DEF Init, Inv, TypeOK, Recorded, Committed, CursorIsDelivered, PollRecords, Idle

LEMMA FeedInvariant == Spec => []Inv
  BY FeedStarts, FeedInductive, PTL DEF Spec

\* The feed, the cursor and what each poll holds are sets of items.
THEOREM FeedTypes == Spec => []TypeOK
  BY FeedInvariant, PTL DEF Inv

\* The cursor (save_cursor) never takes for delivered an item no poll has, or had,
\* in hand to print.
THEOREM CursorHolds == Spec => []CursorIsDelivered
  BY FeedInvariant, PTL DEF Inv

LEMMA LoadSkipsPrinted ==
  ASSUME Inv, [Next]_vars
  PROVE  [\A p \in Polls : poll[p].phase = "load" /\ poll'[p].phase = "save" =>
             poll'[p].items \cap shown = {}]_vars
<1>. SUFFICES ASSUME Next, NEW p \in Polls, poll[p].phase = "load", poll'[p].phase = "save"
              PROVE  poll'[p].items \cap shown = {}
  OBVIOUS
<1>. poll \in [Polls -> PollRecords]
  BY DEF Inv, TypeOK
<1>1. poll' # poll
  OBVIOUS
<1>2. PICK q \in Polls :
        (\E filter \in Filters : Gather(q, filter)) \/ Load(q) \/ Save(q) \/ Deliver(q) \/ Die(q)
  BY <1>1 DEF Next, Loop, Begin, Handle, Abort, Arise, Clear
<1>3. q = p
  BY <1>2 DEF Gather, Load, Save, Deliver, Die, Set
<1>4. Load(p)
  <2>1. \A filter : ~Gather(p, filter)
    BY DEF Gather
  <2>2. ~Save(p) /\ ~Deliver(p)
    BY DEF Save, Deliver
  <2>3. Die(p) => poll'[p] = Idle
    BY DEF Die, Set
  <2>4. ~Die(p)
    BY <2>3 DEF Idle
  <2>. QED  BY <1>2, <1>3, <2>1, <2>2, <2>4
<1>5. poll'[p].items = poll[p].items \ cursor
  BY <1>4 DEF Load, Set, Idle
<1>. QED  BY <1>5 DEF Inv, Recorded

\* A poll of `companion feed` takes nothing that any poll printed before it read
\* the cursor, however polls overlap and wherever they die.
THEOREM NothingComesTwice == Spec => NothingTwice
  BY FeedInvariant, LoadSkipsPrinted, PTL DEF Spec, NothingTwice
=============================================================================
