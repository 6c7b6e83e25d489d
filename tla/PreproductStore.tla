--------------------------- MODULE PreproductStore ---------------------------
(***************************************************************************)
(* The life of a preproduct batch in a lock-free MPC committee: the leader *)
(* asks a group of parties to generate a batch, certifies it when all of   *)
(* them have answered, claims chunks of certified batches for operations,  *)
(* and every party of an operation fetches the chunk from its own copy.    *)
(* Parties crash and restart from what they saved.                         *)
(*                                                                         *)
(* A slot is one triple and one random number of a batch.  The values are  *)
(* abstracted: what matters is which slots a party still holds and to      *)
(* which operation a slot was given.                                       *)
(***************************************************************************)
EXTENDS Integers, FiniteSets

CONSTANTS
    Party,         \* the committee
    Leader,        \* party 0, the only party that owns batches
    Batch,         \* batch identifiers (random, hence never reused)
    Op,            \* operation identifiers (random, hence never reused)
    BatchSize,     \* mpc_preproduct_batch_size
    MinReserve,    \* batch size * mpc_preproduct_refresh_threshold
    MinGroup,      \* preprocessing_threshold, parties needed for a triple
    MinPeers,      \* sharing.threshold, parties needed for an operation
    MaxClaim,      \* bound on the size of a claim (mpc_lf_find_limit)
    MaxFailures,   \* bound on generations that fail by timeout
    MaxCrashes     \* bound on crashes

ASSUME CommitteeAssumption == Leader \in Party
ASSUME SizeAssumption ==
    /\ BatchSize \in Nat \ {0}
    /\ MinReserve \in Nat \ {0}
    /\ MinGroup \in Nat /\ MinPeers \in Nat
    /\ MaxClaim \in Nat \ {0}
    /\ MaxFailures \in Nat /\ MaxCrashes \in Nat

VARIABLES            \* each party's PreproductStore, in memory ...
    held,            \* the batches it has
    nulled,          \* the slots get_chunk replaced by None
    next,            \* batch.next, moved by the owner (the leader) only
                     \* ... and as last written by save_state("preproduct")
    savedHeld,
    savedNulled,
    savedNext
VARIABLES            \* the generation of each batch
    group,           \* the participants, {} when not started
    gathering,       \* batches whose responses the leader is waiting for
    asked,           \* requests not delivered yet
    started,         \* parties that entered preproduct_op
    running,         \* parties still in preproduct_op
    doomed,          \* batches of which a participant gave up or crashed
    acks,            \* responses on their way to the leader
    replies,         \* responses the leader gathered
    certified        \* the leader's peer.preproduct_batches, saved when changed
VARIABLES            \* the chunk the leader claims for each operation
    stage,           \* "idle", "waiting" in claim_chunk or "claimed"
    peers,           \* the parties of the operation
    size,            \* the number of slots asked for
    batches,         \* PreproductInfo.batches
    slots            \* the slots PreproductInfo covers
VARIABLES
    seen,            \* operations whose find request a transport delivered
    handed,          \* history: times get_chunk handed a chunk to a party
    refused,         \* history: operations for which get_chunk returned None
    failures,        \* generations that timed out (bounded)
    crashes          \* crashes so far (bounded)

memory == <<held, nulled, next>>
disk == <<savedHeld, savedNulled, savedNext>>
job == <<group, gathering, asked, started, running, doomed, acks, replies>>
claim == <<stage, peers, size, batches, slots>>
fetch == <<seen, handed, refused>>

vars == <<memory, disk, job, certified, claim, fetch, failures, crashes>>

Slot == Batch \X (0 .. BatchSize - 1)

TypeOK ==
    /\ held \in [Party -> SUBSET Batch] /\ savedHeld \in [Party -> SUBSET Batch]
    /\ nulled \in [Party -> SUBSET Slot] /\ savedNulled \in [Party -> SUBSET Slot]
    /\ next \in [Batch -> 0 .. BatchSize] /\ savedNext \in [Batch -> 0 .. BatchSize]
    /\ gathering \in SUBSET Batch /\ doomed \in SUBSET Batch
    /\ group \in [Batch -> SUBSET Party] /\ asked \in [Batch -> SUBSET Party]
    /\ started \in [Batch -> SUBSET Party] /\ running \in [Batch -> SUBSET Party]
    /\ acks \in [Batch -> SUBSET Party] /\ replies \in [Batch -> SUBSET Party]
    /\ certified \in [Party -> SUBSET Batch]
    /\ stage \in [Op -> {"idle", "waiting", "claimed"}]
    /\ peers \in [Op -> SUBSET Party] /\ size \in [Op -> 0 .. MaxClaim]
    /\ batches \in [Op -> SUBSET Batch] /\ slots \in [Op -> SUBSET Slot]
    /\ seen \in [Party -> SUBSET Op] /\ refused \in [Party -> SUBSET Op]
    /\ handed \in [Party -> [Op -> Nat]]
    /\ failures \in Nat /\ crashes \in Nat

Init ==
    /\ held = [p \in Party |-> {}] /\ savedHeld = [p \in Party |-> {}]
    /\ nulled = [p \in Party |-> {}] /\ savedNulled = [p \in Party |-> {}]
    /\ next = [b \in Batch |-> 0] /\ savedNext = [b \in Batch |-> 0]
    /\ gathering = {} /\ doomed = {}
    /\ group = [b \in Batch |-> {}] /\ asked = [b \in Batch |-> {}]
    /\ started = [b \in Batch |-> {}] /\ running = [b \in Batch |-> {}]
    /\ acks = [b \in Batch |-> {}] /\ replies = [b \in Batch |-> {}]
    /\ certified = [p \in Party |-> {}]
    /\ stage = [op \in Op |-> "idle"]
    /\ peers = [op \in Op |-> {}] /\ size = [op \in Op |-> 0]
    /\ batches = [op \in Op |-> {}] /\ slots = [op \in Op |-> {}]
    /\ seen = [p \in Party |-> {}] /\ refused = [p \in Party |-> {}]
    /\ handed = [p \in Party |-> [op \in Op |-> 0]]
    /\ failures = 0 /\ crashes = 0

-----------------------------------------------------------------------------
(* The groups the leader generates batches with: it is a member, because it *)
(* will own the batch, and there are enough parties to reduce the degree.   *)
preproduct_groups ==
    {g \in SUBSET Party : Leader \in g /\ Cardinality(g) >= MinGroup}

(* The parties of an operation: the leader and up to MinPeers buddies.      *)
op_peers ==
    {g \in SUBSET Party : /\ Leader \in g
                          /\ Cardinality(g) >= MinPeers
                          /\ Cardinality(g) <= MinPeers + 1}

remaining(b) == BatchSize - next[b]

mut_Uncertified(ps) == {b \in held[Leader] : ps \subseteq group[b]}

(* The leader's batches that can serve a set of parties: all of them took   *)
(* part in the batch and are certified for it.                              *)
serves(ps) ==
    {b \in held[Leader] : ps \subseteq group[b] /\ \A p \in ps : b \in certified[p]}

servesExactly(ps) == {b \in serves(ps) : group[b] = ps}

(* The slots of a set of batches that were not claimed yet; their number is *)
(* the code's total_remaining.                                              *)
unclaimed(bs) == {s \in Slot : s[1] \in bs /\ s[2] >= next[s[1]]}

-----------------------------------------------------------------------------
(* preproduct_group_task and the first half of generate_preproduct_task:    *)
(* the reserve shared with exactly this group is low, and all its members   *)
(* are online (which members are online is left open).  A group generates   *)
(* one batch at a time.                                                     *)
StartBatch(b, g) ==
    /\ group[b] = {}
    /\ Cardinality(unclaimed(servesExactly(g))) < MinReserve
    /\ \A c \in gathering : group[c] # g
    /\ group' = [group EXCEPT ![b] = g]
    /\ gathering' = gathering \cup {b}
    /\ asked' = [asked EXCEPT ![b] = g]
    /\ UNCHANGED <<memory, disk, started, running, doomed, acks, replies,
                   certified, claim, fetch, failures, crashes>>

(* The request reaches a party, whose preproduct_op sends its shares.       *)
StartOp(p, b) ==
    /\ p \in asked[b]
    /\ asked' = [asked EXCEPT ![b] = @ \ {p}]
    /\ started' = [started EXCEPT ![b] = @ \cup {p}]
    /\ running' = [running EXCEPT ![b] = @ \cup {p}]
    /\ UNCHANGED <<memory, disk, group, gathering, doomed, acks, replies,
                   certified, claim, fetch, failures, crashes>>

mut_NotSaved(p) == UNCHANGED disk

(* PreproductStore.save_state: the whole store, as it now is in memory.     *)
save_state(p) ==
    /\ savedHeld' = [savedHeld EXCEPT ![p] = held'[p]]
    /\ savedNulled' = [savedNulled EXCEPT ![p] = nulled'[p]]
    /\ savedNext' = IF p = Leader THEN next' ELSE savedNext

(* PreproductStore.add_batch: a fresh batch, in memory and then on disk.    *)
add_batch(p, b) ==
    /\ held' = [held EXCEPT ![p] = @ \cup {b}]
    /\ nulled' = [nulled EXCEPT ![p] = {s \in @ : s[1] # b}]
    /\ next' = IF p = Leader THEN [next EXCEPT ![b] = 0] ELSE next
    /\ save_state(p)

(* The end of preproduct_op.  Its three rounds need the shares of every     *)
(* participant, so all of them have started; the party keeps the batch,     *)
(* then responds.                                                           *)
FinishOp(p, b) ==
    /\ p \in running[b]
    /\ started[b] = group[b]
    /\ add_batch(p, b)
    /\ running' = [running EXCEPT ![b] = @ \ {p}]
    /\ acks' = [acks EXCEPT ![b] = @ \cup {p}]
    /\ UNCHANGED <<group, gathering, asked, started, doomed, replies,
                   certified, claim, fetch, failures, crashes>>

(* A round of preproduct_op times out: the party keeps nothing and does not *)
(* respond.                                                                 *)
AbortOp(p, b) ==
    /\ failures < MaxFailures
    /\ p \in running[b]
    /\ running' = [running EXCEPT ![b] = @ \ {p}]
    /\ doomed' = doomed \cup {b}
    /\ failures' = failures + 1
    /\ UNCHANGED <<memory, disk, group, gathering, asked, started, acks, replies,
                   certified, claim, fetch, crashes>>

mut_OneMore(b) == Cardinality(replies'[b]) > Cardinality(group[b])

(* send_and_gather expects as many responses as it asked parties.           *)
complete(b) == Cardinality(replies'[b]) >= Cardinality(group[b])

(* gather_responses receives a response.  With the last one expected,       *)
(* generate_preproduct_task certifies the batch for every responder and     *)
(* saves the committee.                                                     *)
GatherReply(p, b) ==
    /\ b \in gathering
    /\ p \in acks[b]
    /\ acks' = [acks EXCEPT ![b] = @ \ {p}]
    /\ replies' = [replies EXCEPT ![b] = @ \cup {p}]
    /\ IF complete(b)
       THEN /\ gathering' = gathering \ {b}
            /\ certified' = [q \in Party |-> IF q \in replies'[b]
                                             THEN certified[q] \cup {b}
                                             ELSE certified[q]]
       ELSE UNCHANGED <<gathering, certified>>
    /\ UNCHANGED <<memory, disk, group, asked, started, running, doomed,
                   claim, fetch, failures, crashes>>

(* The batch timeout of generate_preproduct_task: fewer responses than      *)
(* expected count as none, and the leader drops its own copy, if it has one *)
(* by then, without saving.  A participant that is still running may finish *)
(* later and keep its copy, the leader too.                                 *)
GiveUpBatch(b) ==
    /\ b \in gathering
    /\ \/ b \in doomed /\ UNCHANGED failures
       \/ failures < MaxFailures /\ failures' = failures + 1
    /\ gathering' = gathering \ {b}
    /\ held' = [held EXCEPT ![Leader] = @ \ {b}]
    /\ UNCHANGED <<nulled, next, disk, group, asked, started, running, doomed,
                   acks, replies, certified, claim, fetch, crashes>>

-----------------------------------------------------------------------------
(* check_task enters claim_chunk for an operation on as many slots as it    *)
(* has fragments to check.                                                  *)
RequestChunk(op, ps, n) ==
    /\ stage[op] = "idle"
    /\ stage' = [stage EXCEPT ![op] = "waiting"]
    /\ peers' = [peers EXCEPT ![op] = ps]
    /\ size' = [size EXCEPT ![op] = n]
    /\ UNCHANGED <<memory, disk, job, certified, batches, slots, fetch,
                   failures, crashes>>

mut_OneSlotMore(take) ==
    {s \in Slot : /\ s[1] \in DOMAIN take
                  /\ s[2] >= next[s[1]]
                  /\ s[2] <= next[s[1]] + take[s[1]]}

(* The slots a claim of take[b] slots from each batch b covers: the ones    *)
(* from the batch's next on.                                                *)
slotsOf(take) ==
    {s \in Slot : /\ s[1] \in DOMAIN take
                  /\ s[2] >= next[s[1]]
                  /\ s[2] < next[s[1]] + take[s[1]]}

mut_Overdraw(bs, n) == {take \in [bs -> 0 .. n] : Cardinality(slotsOf(take)) <= n}

(* The greedy choice of claim_chunk: batches in decreasing order of what    *)
(* remains, each drained before the next one, until the size is reached.    *)
(* Batches with the same remainder come in any order.                       *)
greedyTakes(bs, n) ==
    {take \in [bs -> 0 .. BatchSize] :
        /\ \A b \in bs : take[b] <= remaining(b)
        /\ \/ Cardinality(slotsOf(take)) = n
           \/ /\ Cardinality(slotsOf(take)) < n
              /\ \A b \in bs : take[b] = remaining(b)
        /\ \A b, c \in bs :
              (b # c /\ take[c] > 0 /\ take[b] < remaining(b)) =>
                  /\ remaining(b) <= remaining(c)
                  /\ take[b] > 0 => take[c] = remaining(c)}

mut_SavedTooEarly(take) ==
    /\ next' = [b \in Batch |-> IF b \in DOMAIN take THEN next[b] + take[b] ELSE next[b]]
    /\ savedNext' = next
    /\ UNCHANGED <<held, nulled, savedHeld, savedNulled>>

(* next moves in every batch claimed from, and is saved before the claim is *)
(* returned.                                                                *)
advance(take) ==
    /\ next' = [b \in Batch |-> IF b \in DOMAIN take THEN next[b] + take[b] ELSE next[b]]
    /\ UNCHANGED <<held, nulled>>
    /\ save_state(Leader)

(* claim_chunk finds something to claim.  When everything that remains is   *)
(* not enough, the exhausted batches are listed too, with empty chunks.     *)
ClaimChunk(op) ==
    LET bs == serves(peers[op])
    IN  /\ stage[op] = "waiting"
        /\ unclaimed(bs) # {}
        /\ \E take \in greedyTakes(bs, size[op]) :
              /\ advance(take)
              /\ slots' = [slots EXCEPT ![op] = slotsOf(take)]
              /\ batches' = [batches EXCEPT ![op] =
                                IF Cardinality(slotsOf(take)) < size[op]
                                THEN bs ELSE {b \in bs : take[b] > 0}]
        /\ stage' = [stage EXCEPT ![op] = "claimed"]
        /\ UNCHANGED <<job, certified, peers, size, fetch, failures, crashes>>

-----------------------------------------------------------------------------
(* The slots of an operation's chunk that lie in some batches.              *)
slotsIn(op, bs) == {s \in slots[op] : s[1] \in bs}

(* The part of an operation's chunk in batch b cannot be handed out: the    *)
(* party has no such batch, or one of the slots is None already.            *)
missing(p, op, b) == b \notin held[p] \/ slotsIn(op, {b}) \cap nulled[p] # {}

(* The find request of an operation reaches a party that has not seen it.   *)
Deliver(p, op) ==
    /\ stage[op] = "claimed"
    /\ p \in peers[op]
    /\ op \notin seen[p]
    /\ seen' = [seen EXCEPT ![p] = @ \cup {op}]

(* PreproductStore.get_chunk hands the whole chunk out, nulling its slots.  *)
GetChunk(p, op) ==
    /\ Deliver(p, op)
    /\ \A b \in batches[op] : ~missing(p, op, b)
    /\ nulled' = [nulled EXCEPT ![p] = @ \cup slotsIn(op, batches[op])]
    /\ handed' = [handed EXCEPT ![p][op] = @ + 1]
    /\ UNCHANGED <<held, next, disk, job, certified, claim, refused, failures,
                   crashes>>

(* PreproductStore.get_chunk returns None at the first batch it misses,     *)
(* having nulled the slots of the batches before it, and those of the       *)
(* missing one when it has the batch at all.                                *)
GetNothing(p, op) ==
    /\ Deliver(p, op)
    /\ \E b \in batches[op] :
          /\ missing(p, op, b)
          /\ \E before \in SUBSET {c \in batches[op] : ~missing(p, op, c)} :
                nulled' = [nulled EXCEPT ![p] =
                             @ \cup slotsIn(op, before \cup ({b} \cap held[p]))]
    /\ refused' = [refused EXCEPT ![p] = @ \cup {op}]
    /\ UNCHANGED <<held, next, disk, job, certified, claim, handed, failures,
                   crashes>>

-----------------------------------------------------------------------------
(* PreproductStore.load_state, when the role starts again.                  *)
load_state(p) ==
    /\ held' = [held EXCEPT ![p] = savedHeld[p]]
    /\ nulled' = [nulled EXCEPT ![p] = savedNulled[p]]
    /\ next' = IF p = Leader THEN savedNext ELSE next

(* A party stops and starts again from its saved store.  Its preproduct_ops *)
(* are gone.  Its transport forgets which packages it delivered, so another *)
(* copy of a find request (a package is sent on every link between          *)
(* neighbors) is delivered again.  Those of the generation are not: the     *)
(* three rounds would need second copies of the shares of every party.      *)
CrashPeer(p) ==
    /\ p # Leader
    /\ crashes < MaxCrashes
    /\ load_state(p)
    /\ running' = [b \in Batch |-> running[b] \ {p}]
    /\ doomed' = doomed \cup {b \in Batch : p \in running[b]}
    /\ seen' = [seen EXCEPT ![p] = {}]
    /\ crashes' = crashes + 1
    /\ UNCHANGED <<disk, group, gathering, asked, started, acks, replies,
                   certified, claim, handed, refused, failures>>

(* The leader stops and starts again.  Its gathering and its waiting claims *)
(* are gone too, and so are the requests and responses it sent to itself:   *)
(* they never left the process and have no other copy.                      *)
CrashLeader ==
    /\ crashes < MaxCrashes
    /\ load_state(Leader)
    /\ gathering' = {}
    /\ asked' = [b \in Batch |-> asked[b] \ {Leader}]
    /\ running' = [b \in Batch |-> running[b] \ {Leader}]
    /\ acks' = [b \in Batch |-> acks[b] \ {Leader}]
    /\ doomed' = doomed \cup {b \in Batch : Leader \in running[b]}
    /\ stage' = [op \in Op |-> IF stage[op] = "waiting" THEN "idle" ELSE stage[op]]
    /\ peers' = [op \in Op |-> IF stage[op] = "waiting" THEN {} ELSE peers[op]]
    /\ size' = [op \in Op |-> IF stage[op] = "waiting" THEN 0 ELSE size[op]]
    /\ seen' = [seen EXCEPT ![Leader] = {op \in Op : stage[op] = "claimed"}]
    /\ crashes' = crashes + 1
    /\ UNCHANGED <<disk, group, started, replies, certified, batches, slots,
                   handed, refused, failures>>

-----------------------------------------------------------------------------
Next ==
    \/ \E b \in Batch, g \in preproduct_groups : StartBatch(b, g)
    \/ \E p \in Party, b \in Batch :
          StartOp(p, b) \/ FinishOp(p, b) \/ AbortOp(p, b) \/ GatherReply(p, b)
    \/ \E b \in Batch : GiveUpBatch(b)
    \/ \E op \in Op, ps \in op_peers, n \in 1 .. MaxClaim : RequestChunk(op, ps, n)
    \/ \E op \in Op : ClaimChunk(op)
    \/ \E p \in Party, op \in Op : GetChunk(p, op) \/ GetNothing(p, op)
    \/ \E p \in Party : CrashPeer(p)
    \/ CrashLeader

Spec == Init /\ [][Next]_vars

(* Fairness: trio runs every ready task, so a party that was asked computes,*)
(* the leader gathers what arrives, its timeouts fire, its group tasks look *)
(* at the reserve every 0.1 s and a waiting claim every 0.5 s.  Timeouts    *)
(* and crashes are bounded, never forced (a timeout is, once an op aborted).*)
Fairness ==
    /\ \A b \in Batch, g \in preproduct_groups : WF_vars(StartBatch(b, g))
    /\ \A p \in Party, b \in Batch :
          WF_vars(StartOp(p, b)) /\ WF_vars(FinishOp(p, b)) /\ WF_vars(GatherReply(p, b))
    /\ \A b \in Batch : WF_vars(b \in doomed /\ GiveUpBatch(b))
    /\ \A op \in Op : WF_vars(ClaimChunk(op))

FairSpec == Spec /\ Fairness

-----------------------------------------------------------------------------
(* No slot is ever claimed for two operations, whatever crashes and however *)
(* late a generation finishes (PreproductBatch.claim_chunk moves next, and  *)
(* PreproductStore.claim_chunk saves it before it returns).                 *)
SlotClaimedOnce ==
    \A op1, op2 \in Op : op1 # op2 => slots[op1] \cap slots[op2] = {}

(* Every party of an operation holds every batch its chunk comes from, in   *)
(* memory and on disk: generate_preproduct_task only certifies a batch once *)
(* all the parties answered, and they answer after add_batch has saved.     *)
ClaimedIsHeld ==
    \A op \in Op : \A p \in peers[op], b \in batches[op] :
        b \in held[p] /\ b \in savedHeld[p]

(* A party only nulls slots that the leader has claimed, so the unclaimed   *)
(* part of a batch stays usable on every party (get_chunk nulls even when   *)
(* it returns None).                                                        *)
NulledWasClaimed ==
    \A p \in Party : \A s \in nulled[p] \cup savedNulled[p] :
        \E op \in Op : s \in slots[op]

(* get_chunk refuses an operation only when it has handed the very same     *)
(* chunk to it before: the leader's counter and the parties' nulled slots   *)
(* never disagree, although each is saved at different moments.             *)
RefusedOnlyRepeats ==
    \A p \in Party : \A op \in refused[p] : handed[p][op] > 0

(* The slots of a chunk are nulled together on each party: no operation is  *)
(* left with a part of its chunk.                                           *)
ChunkIsWhole ==
    \A p \in Party, op \in Op :
        slots[op] \subseteq nulled[p] \/ slots[op] \cap nulled[p] = {}

(* A restart of the leader never moves the counter of a certified batch     *)
(* back: what was claimed in an earlier run stays claimed.                  *)
CounterNeverRewinds ==
    [][\A b \in certified[Leader] : next'[b] >= next[b]]_vars

(* The docstring of PreproductBatch.get_chunk: the chunk is nulled out "to  *)
(* prevent double-fetching".                                                *)
NoDoubleFetch == \A p \in Party, op \in Op : handed[p][op] <= 1

(* A waiting claim is answered in the end: the reserve of the groups is     *)
(* refilled until a certified batch can serve it (claim_chunk "will wait    *)
(* until some preproducts are available").                                  *)
WaitingIsServed ==
    \A op \in Op : stage[op] = "waiting" ~> stage[op] = "claimed"

(* The store implements the pool: what it claims is allocated, and what     *)
(* get_chunk hands to a party is taken.                                     *)
takenBy(p) == UNION {slots[op] \X {op} : op \in {o \in Op : handed[p][o] > 0}}

Pool == INSTANCE PreproductPool WITH
            Slots <- Slot,
            allocated <- slots,
            taken <- [p \in Party |-> takenBy(p)]

ImplementsPool == Pool!PoolSpec

=============================================================================
