----------------------------- MODULE ProposalLife -----------------------------
(***************************************************************************)
(* What the outbox promises about one recorded payload, with no file, lock *)
(* or process in sight: it is published once; each approval of it runs its *)
(* command at most once; only a run that was reported as failed makes it   *)
(* approvable again; and once it is closed -- approved, expired, replaced, *)
(* deleted, or left with an unknown outcome -- it never comes back.        *)
(***************************************************************************)
EXTENDS Naturals

CONSTANT Props

VARIABLES life, \* payload -> where it is in its life
          runs  \* payload -> times its command was started

lifeVars == <<life, runs>>

Stages == {"unborn", "pending", "claimed", "ran", "closed"}

LifeTypeOK ==
    /\ life \in [Props -> Stages]
    /\ runs \in [Props -> Nat]

\* Some payloads may have been published by an earlier release.
LifeInit ==
    /\ life \in [Props -> {"unborn", "pending"}]
    /\ runs = [p \in Props |-> 0]

Move(p, from, to) ==
    /\ life[p] \in from
    /\ life' = [life EXCEPT ![p] = to]

\* A new payload may take the file name of an older one, and so close it.
Publish(p) ==
    /\ life[p] = "unborn"
    /\ \/ life' = [life EXCEPT ![p] = "pending"]
       \/ \E q \in Props :
            /\ life[q] = "pending"
            /\ life' = [life EXCEPT ![p] = "pending", ![q] = "closed"]
    /\ UNCHANGED runs

Claimed(p) == Move(p, {"pending"}, "claimed") /\ UNCHANGED runs

\* The gate may refuse the command, which then does not run.
Ran(p) ==
    /\ Move(p, {"claimed"}, "ran")
    /\ runs' \in {runs, [runs EXCEPT ![p] = @ + 1]}

Restored(p) == Move(p, {"ran"}, "pending") /\ UNCHANGED runs

Closed(p) == Move(p, {"pending", "claimed", "ran"}, "closed") /\ UNCHANGED runs

LifeNext == \E p \in Props :
    Publish(p) \/ Claimed(p) \/ Ran(p) \/ Restored(p) \/ Closed(p)

LifeSpec == LifeInit /\ [][LifeNext]_lifeVars

=============================================================================
