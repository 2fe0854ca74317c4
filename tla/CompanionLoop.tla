---------------------------- MODULE CompanionLoop ----------------------------
(***************************************************************************)
(* The writers of the outbox: passes of the headless loop                  *)
(* (companion/loop.py run_once, paced by a timer or started by hand, with  *)
(* nothing that keeps two apart) and the dashboard's own proposals         *)
(* (web/actions.py _dispatch).  A pass takes three unlocked readings --    *)
(* cooldowns, outbox, outbox again -- and then handles its items one by    *)
(* one, each after an enrichment command that may take minutes.            *)
(***************************************************************************)
EXTENDS CompanionSuppress

CONSTANTS Loops,        \* loop passes that may overlap
          Dispatchers,  \* dashboard request threads
          Tiers         \* tiers a pass may run at: a subset of the ladder

ASSUME LoopAssumption ==
    /\ Loops \subseteq Procs
    /\ Dispatchers \subseteq Procs
    /\ Tiers \subseteq {"read", "propose", "act"}

VARIABLES pass, \* loop -> its pass
          disp  \* dispatcher -> item it found unproposed, or {}

loopVars == <<pass, disp>>

IdlePass == [pc |-> "idle", tier |-> "read", cooled |-> {}, todo |-> {},
             already |-> {}, acting |-> {}]

Passes == [pc: {"idle", "cooled", "fed", "running"},
           tier: {"read", "propose", "act"},
           cooled: SUBSET Items, todo: SUBSET Items, already: SUBSET Items,
           acting: SUBSET Items]

LoopTypeOK ==
    /\ pass \in [Loops -> Passes]
    /\ disp \in [Dispatchers -> SUBSET Items]

LoopInit ==
    /\ pass = [l \in Loops |-> IdlePass]
    /\ disp = [d \in Dispatchers |-> {}]

\* retired_item_ids() reads the cooldown map first.
ReadCooldowns(l) ==
    /\ pass[l].pc = "idle"
    /\ \E t \in Tiers :
         pass' = [pass EXCEPT ![l] = [IdlePass EXCEPT
                    !.pc = "cooled", !.tier = t, !.cooled = ActiveCooldowns(now)]]
    /\ UNCHANGED <<outboxVars, until, disp>>

\* ... and then the outbox; get_feed() yields what is in neither.
ReadFeed(l) ==
    /\ pass[l].pc = "cooled"
    /\ pass' = [pass EXCEPT ![l].pc = "fed",
                            ![l].todo = Items \ (pass[l].cooled \cup ProposedItems)]
    /\ UNCHANGED <<outboxVars, until, disp>>

\* _PassState(proposal_item_ids(...)): the only reading that guards a write.
Snapshot(l) ==
    /\ pass[l].pc = "fed"
    /\ pass' = [pass EXCEPT ![l].pc = "running", ![l].already = ProposedItems]
    /\ UNCHANGED <<outboxVars, until, disp>>

Handling(l, i) == pass[l].pc = "running" /\ pass[l].acting = {} /\ i \in pass[l].todo
Handled(l, i) == [pass EXCEPT ![l].todo = @ \ {i}]

\* The item has no command, is over the cap, or its condition cleared.
PassOver(l, i) ==
    /\ Handling(l, i)
    /\ pass' = Handled(l, i)
    /\ UNCHANGED <<outboxVars, until, disp>>

\* _finish_read(): journaled either way, on cooldown only after a success.
Triage(l, i) ==
    /\ Handling(l, i)
    /\ pass[l].tier = "read"
    /\ AddCooldown(i, now) \/ UNCHANGED until
    /\ pass' = Handled(l, i)
    /\ UNCHANGED <<outboxVars, disp>>

\* At tier act the candidate is executed once the proposal is on disk.
ThenAct(l, i) ==
    IF pass[l].tier = "act"
    THEN [Handled(l, i) EXCEPT ![l].acting = {i}]
    ELSE Handled(l, i)

\* write_proposal() under one of the basenames the decision may choose; the
\* decision may also have no command.
Propose(l, i) ==
    /\ Handling(l, i)
    /\ pass[l].tier \in {"propose", "act"}
    /\ i \notin pass[l].already
    /\ \E n \in Names :
         /\ ItemOf[n] = i
         /\ \/ /\ PublishEnvelope(n, "approvable")
               /\ pass' = ThenAct(l, i)
            \/ /\ PublishEnvelope(n, "note")
               /\ pass' = Handled(l, i)
    /\ UNCHANGED <<until, disp>>

\* The snapshot had the item: no write, but the pass goes on with it.
SkipProposed(l, i) ==
    /\ Handling(l, i)
    /\ pass[l].tier \in {"propose", "act"}
    /\ i \in pass[l].already
    /\ pass' = ThenAct(l, i)
    /\ UNCHANGED <<outboxVars, until, disp>>

\* _execute_candidate(): run and journaled; it touches no cooldown.
ExecuteCandidate(l, i) ==
    /\ pass[l].pc = "running"
    /\ i \in pass[l].acting
    /\ pass' = [pass EXCEPT ![l].acting = {}]
    /\ UNCHANGED <<outboxVars, until, disp>>

EndPass(l) ==
    /\ pass[l].pc = "running"
    /\ pass[l].todo = {}
    /\ pass[l].acting = {}
    /\ pass' = [pass EXCEPT ![l] = IdlePass]
    /\ UNCHANGED <<outboxVars, until, disp>>

\* The pass dies between two steps, or an exception ends it; a writer killed
\* inside its locked section leaves the old file or the new one.
AbandonPass(l) ==
    /\ pass[l].pc # "idle"
    /\ pass' = [pass EXCEPT ![l] = IdlePass]
    /\ UNCHANGED <<outboxVars, until, disp>>

\* _dispatch() at tier propose: look for the item in a listing ...
DispatchCheck(d, i) ==
    /\ disp[d] = {}
    /\ i \notin ProposedItems
    /\ disp' = [disp EXCEPT ![d] = {i}]
    /\ UNCHANGED <<outboxVars, until, pass>>

\* ... and write the proposal if it was not there.
DispatchWrite(d, n) ==
    /\ ItemOf[n] \in disp[d]
    /\ PublishEnvelope(n, "approvable")
    /\ disp' = [disp EXCEPT ![d] = {}]
    /\ UNCHANGED <<until, pass>>

LoopStep(l) ==
    \/ ReadFeed(l)
    \/ Snapshot(l)
    \/ \E i \in Items :
         \/ PassOver(l, i)
         \/ Triage(l, i)
         \/ Propose(l, i)
         \/ SkipProposed(l, i)
         \/ ExecuteCandidate(l, i)
    \/ EndPass(l)

LoopNext ==
    \/ \E l \in Loops : ReadCooldowns(l) \/ LoopStep(l) \/ AbandonPass(l)
    \/ \E d \in Dispatchers :
         \/ \E i \in Items : DispatchCheck(d, i)
         \/ \E n \in Names : DispatchWrite(d, n)

=============================================================================
