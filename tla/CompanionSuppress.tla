-------------------------- MODULE CompanionSuppress --------------------------
(***************************************************************************)
(* What the attention feed withholds (companion/suppress.py): the cooldown *)
(* map, written under its lock, and the outbox listing.  A reader takes no *)
(* lock and reads the two one after the other.                             *)
(***************************************************************************)
EXTENDS CompanionOutbox

CONSTANT TTL  \* DEFAULT_COOLDOWN

ASSUME SuppressAssumption == TTL \in Nat \ {0}

VARIABLE until  \* item -> end of its cooldown, 0 when it has none

SuppressTypeOK == until \in [Items -> 0..(MaxTime + TTL)]

SuppressInit == until = [i \in Items |-> 0]

\* active_cooldowns()
ActiveCooldowns(moment) == {i \in Items : until[i] > moment}

\* add_cooldown(): entries over by `moment` go, the item's entry is replaced,
\* even by one that ends sooner.
AddCooldown(item, moment) ==
    until' = [i \in Items |-> IF i = item THEN moment + TTL
                              ELSE IF until[i] > moment THEN until[i] ELSE 0]

\* retired_item_ids(), if it were read in one instant.
Withheld == ActiveCooldowns(now) \cup ProposedItems

=============================================================================
