--------------------------- MODULE PreproductPool ---------------------------
(***************************************************************************)
(* What the preproduct store promises to the MPC operations that use it.   *)
(*                                                                         *)
(* Offline preprocessing produces batches of preproducts: each slot of a   *)
(* batch is one multiplication triple and one shared random number.  An    *)
(* operation that consumes preproducts (the check of a poll against stored *)
(* fragments) is given some slots by the owner of the batches, and every   *)
(* party of the operation then takes exactly those slots from its own copy.*)
(* A slot that served two operations would correlate their openings, so    *)
(* the whole promise is: a slot is allocated once, to one operation, for   *)
(* ever; and a party only takes what was allocated.                        *)
(***************************************************************************)

CONSTANTS Party,      \* the members of the committee
          Op,         \* the operations that consume preproducts
          Slots       \* every slot of every batch that will ever be generated

VARIABLES allocated,  \* the slots allocated to each operation
          taken       \* the slots each party has taken, and for which operation

poolVars == <<allocated, taken>>

PoolInit ==
    /\ allocated = [op \in Op |-> {}]
    /\ taken = [p \in Party |-> {}]

AllAllocated == UNION {allocated[op] : op \in Op}

(* The owner allocates fresh slots, at least one, to an operation that has  *)
(* none yet.                                                                *)
Allocate(op) ==
    /\ allocated[op] = {}
    /\ \E slots \in SUBSET (Slots \ AllAllocated) :
          /\ slots # {}
          /\ allocated' = [allocated EXCEPT ![op] = slots]
    /\ UNCHANGED taken

(* A party takes the slots of an operation, all of them at once.            *)
Take(p, op) ==
    /\ allocated[op] # {}
    /\ taken' = [taken EXCEPT ![p] = @ \cup (allocated[op] \X {op})]
    /\ UNCHANGED allocated

PoolNext == \E op \in Op : Allocate(op) \/ \E p \in Party : Take(p, op)

PoolSpec == PoolInit /\ [][PoolNext]_poolVars

=============================================================================
