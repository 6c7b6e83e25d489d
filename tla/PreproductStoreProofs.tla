------------------------ MODULE PreproductStoreProofs ------------------------
(***************************************************************************)
(* Theorems about PreproductStore, for every committee, every number of    *)
(* batches and operations, and any number of timeouts and crashes.         *)
(*                                                                         *)
(* The argument: a batch is certified for a party only after the party has *)
(* answered, it answers only after it saved the batch, and it never        *)
(* generates the same batch again; so a certified batch stays on disk with *)
(* its nulled slots.  The leader's counters are the same in memory and on  *)
(* disk at every step, so a restart does not move them, and every claimed  *)
(* slot stays below them.                                                  *)
(***************************************************************************)
EXTENDS PreproductStore, FiniteSetTheorems, TLAPS

(* How far the parties are with a batch.                                    *)
Progress ==
    \A b \in Batch :
        /\ asked[b] \cap started[b] = {}
        /\ running[b] \subseteq started[b]
        /\ acks[b] \cup replies[b] \subseteq started[b] \ running[b]
        /\ started[b] \subseteq group[b]
        /\ asked[b] \subseteq group[b]
        /\ b \in gathering => Leader \in group[b]

(* A party that answered while the leader still gathers has the batch.      *)
AnsweredIsHeld ==
    \A b \in gathering : \A p \in acks[b] \cup replies[b] :
        b \in held[p] /\ b \in savedHeld[p]

(* Certified batches: answered, no longer gathered, kept.                   *)
CertifiedIsHeld ==
    \A p \in Party : \A b \in certified[p] :
        /\ p \in replies[b]
        /\ b \notin gathering
        /\ b \in held[p]
        /\ b \in savedHeld[p]

(* The stages of a claim.                                                   *)
ClaimStages ==
    \A op \in Op :
        /\ stage[op] # "idle" => Leader \in peers[op] /\ size[op] > 0
        /\ stage[op] = "claimed" => slots[op] # {}
        /\ stage[op] # "claimed" =>
              /\ slots[op] = {}
              /\ batches[op] = {}
              /\ \A p \in Party : handed[p][op] = 0

(* The batches of a claim are certified for all its parties, and its slots  *)
(* lie in them.                                                             *)
ClaimedIsCertified ==
    \A op \in Op :
        /\ \A p \in peers[op] : batches[op] \subseteq certified[p]
        /\ \A s \in slots[op] : s[1] \in batches[op]

(* The leader's counters are saved, and past every claimed slot.            *)
CounterIsSaved ==
    /\ savedNext = next
    /\ \A op \in Op : \A s \in slots[op] : s[2] < next[s[1]]

(* What party p may have nulled in a copy N of its store: slots of batches  *)
(* certified for it that belong to a chunk it was handed, all or none of    *)
(* each chunk.                                                              *)
NulledIn(p, N) ==
    /\ \A s \in N : s[1] \in certified[p] /\ \E op \in Op : s \in slots[op]
    /\ \A op \in Op :
          slots[op] \cap N # {} => handed[p][op] > 0 /\ slots[op] \subseteq N

NulledIsHanded == \A p \in Party : NulledIn(p, nulled[p]) /\ NulledIn(p, savedNulled[p])

IInv ==
    /\ TypeOK
    /\ Progress
    /\ AnsweredIsHeld
    /\ CertifiedIsHeld
    /\ ClaimStages
    /\ ClaimedIsCertified
    /\ CounterIsSaved
    /\ SlotClaimedOnce
    /\ NulledIsHanded
    /\ RefusedOnlyRepeats

-----------------------------------------------------------------------------
(* A greedy choice never takes more than remains in a batch.                *)
LEMMA TakeBound ==
    ASSUME TypeOK, NEW bs \in SUBSET Batch, NEW n,
           NEW take \in greedyTakes(bs, n)
    PROVE  /\ take \in [bs -> 0 .. BatchSize]
           /\ \A b \in bs : next[b] + take[b] \in 0 .. BatchSize
  <1>1. take \in [bs -> 0 .. BatchSize] /\ \A b \in bs : take[b] <= BatchSize - next[b]
    BY DEF greedyTakes, remaining
  <1>2. \A b \in bs : next[b] \in 0 .. BatchSize
    BY DEF TypeOK
  <1>3. QED
    BY <1>1, <1>2, SizeAssumption

(* Type correctness is preserved by every step.                             *)
LEMMA TypeStep == TypeOK /\ [Next]_vars => TypeOK'
  <1> SUFFICES ASSUME TypeOK, [Next]_vars PROVE TypeOK'
    OBVIOUS
  <1> USE CommitteeAssumption, SizeAssumption
      DEF TypeOK, memory, disk, job, claim, fetch
  <1>1. ASSUME NEW b \in Batch, NEW g \in preproduct_groups, StartBatch(b, g)
        PROVE  TypeOK'
    BY <1>1 DEF StartBatch, preproduct_groups
  <1>2. ASSUME NEW p \in Party, NEW b \in Batch, StartOp(p, b)
        PROVE  TypeOK'
    BY <1>2 DEF StartOp
  <1>3. ASSUME NEW p \in Party, NEW b \in Batch, FinishOp(p, b)
        PROVE  TypeOK'
    BY <1>3 DEF FinishOp, add_batch, save_state
  <1>4. ASSUME NEW p \in Party, NEW b \in Batch, AbortOp(p, b)
        PROVE  TypeOK'
    BY <1>4 DEF AbortOp
  <1>5. ASSUME NEW p \in Party, NEW b \in Batch, GatherReply(p, b)
        PROVE  TypeOK'
    BY <1>5, SMTT(30) DEF GatherReply
  <1>6. ASSUME NEW b \in Batch, GiveUpBatch(b)
        PROVE  TypeOK'
    BY <1>6 DEF GiveUpBatch
  <1>7. ASSUME NEW op \in Op, NEW ps \in op_peers, NEW n \in 1 .. MaxClaim,
               RequestChunk(op, ps, n)
        PROVE  TypeOK'
    BY <1>7 DEF RequestChunk, op_peers
  <1>8. ASSUME NEW op \in Op, ClaimChunk(op)
        PROVE  TypeOK'
    <2> DEFINE bs == serves(peers[op])
    <2>1. bs \in SUBSET Batch
      BY DEF serves
    <2>2. PICK take \in greedyTakes(bs, size[op]) :
              /\ advance(take)
              /\ slots' = [slots EXCEPT ![op] = slotsOf(take)]
              /\ batches' = [batches EXCEPT ![op] =
                                IF Cardinality(slotsOf(take)) < size[op]
                                THEN bs ELSE {b \in bs : take[b] > 0}]
      BY <1>8 DEF ClaimChunk
    <2>3. next' \in [Batch -> 0 .. BatchSize] /\ savedNext' \in [Batch -> 0 .. BatchSize]
      <3> HIDE DEF bs
      <3>1. next' = [b \in Batch |-> IF b \in DOMAIN take THEN next[b] + take[b] ELSE next[b]]
            /\ savedNext' = next'
        BY <2>2 DEF advance, save_state
      <3>2. DOMAIN take = bs /\ \A b \in bs : next[b] + take[b] \in 0 .. BatchSize
        BY <2>1, TakeBound
      <3>3. QED
        BY <3>1, <3>2
    <2>4. slots' \in [Op -> SUBSET Slot] /\ batches' \in [Op -> SUBSET Batch]
      <3>1. slotsOf(take) \in SUBSET Slot
        BY DEF slotsOf
      <3> HIDE DEF bs
      <3>2. QED
        BY <2>1, <2>2, <3>1
    <2>5. QED
      BY <1>8, <2>2, <2>3, <2>4 DEF ClaimChunk, advance, save_state
  <1>9. ASSUME NEW p \in Party, NEW op \in Op, GetChunk(p, op)
        PROVE  TypeOK'
    BY <1>9 DEF GetChunk, Deliver, slotsIn
  <1>10. ASSUME NEW p \in Party, NEW op \in Op, GetNothing(p, op)
         PROVE  TypeOK'
    BY <1>10 DEF GetNothing, Deliver, slotsIn
  <1>11. ASSUME NEW p \in Party, CrashPeer(p)
         PROVE  TypeOK'
    BY <1>11 DEF CrashPeer, load_state
  <1>12. CASE CrashLeader
    BY <1>12 DEF CrashLeader, load_state
  <1>13. CASE UNCHANGED vars
    BY <1>13 DEF vars
  <1>14. QED
    BY <1>1, <1>2, <1>3, <1>4, <1>5, <1>6, <1>7, <1>8, <1>9, <1>10, <1>11, <1>12, <1>13
       DEF Next

(* Every reachable state is well typed: the counter of a batch stays within *)
(* the batch and a chunk only names slots that exist (claim_chunk and       *)
(* get_chunk would otherwise index past the lists of the batch).            *)
THEOREM TypeCorrect == Spec => []TypeOK
  <1>1. Init => TypeOK
    BY SizeAssumption DEF Init, TypeOK
  <1>2. QED
    BY <1>1, TypeStep, PTL DEF Spec

-----------------------------------------------------------------------------
(* The generation of a batch: every step keeps the order asked, started,    *)
(* answered, certified, and what was answered is kept.                      *)
Generation == Progress /\ AnsweredIsHeld /\ CertifiedIsHeld

(* Every step of Next preserves what is known of a batch's generation.      *)
LEMMA GenerationStep ==
    ASSUME TypeOK, TypeOK', Generation, [Next]_vars
    PROVE  Generation'
  <1> USE CommitteeAssumption
      DEF Generation, TypeOK, memory, disk, job, claim, fetch
  <1>1. ASSUME NEW b \in Batch, NEW g \in preproduct_groups, StartBatch(b, g)
        PROVE  Generation'
    <2>1. /\ group[b] = {} /\ asked[b] = {} /\ started[b] = {}
          /\ acks[b] = {} /\ replies[b] = {} /\ running[b] = {}
      BY <1>1 DEF StartBatch, Progress
    <2>2. Progress'
      BY <1>1, <2>1 DEF StartBatch, Progress, preproduct_groups
    <2>3. AnsweredIsHeld'
      BY <1>1, <2>1 DEF StartBatch, AnsweredIsHeld
    <2>4. CertifiedIsHeld'
      BY <1>1, <2>1 DEF StartBatch, CertifiedIsHeld
    <2>5. QED
      BY <2>2, <2>3, <2>4
  <1>2. ASSUME NEW p \in Party, NEW b \in Batch, StartOp(p, b)
        PROVE  Generation'
    <2>1. Progress'
      BY <1>2 DEF StartOp, Progress
    <2>2. AnsweredIsHeld' /\ CertifiedIsHeld'
      BY <1>2 DEF StartOp, AnsweredIsHeld, CertifiedIsHeld
    <2>3. QED
      BY <2>1, <2>2
  <1>3. ASSUME NEW p \in Party, NEW b \in Batch, FinishOp(p, b)
        PROVE  Generation'
    <2>1. Progress'
      BY <1>3 DEF FinishOp, add_batch, save_state, Progress
    <2>2. AnsweredIsHeld'
      BY <1>3 DEF FinishOp, add_batch, save_state, AnsweredIsHeld
    <2>3. CertifiedIsHeld'
      BY <1>3 DEF FinishOp, add_batch, save_state, CertifiedIsHeld
    <2>4. QED
      BY <2>1, <2>2, <2>3
  <1>4. ASSUME NEW p \in Party, NEW b \in Batch, AbortOp(p, b)
        PROVE  Generation'
    BY <1>4 DEF AbortOp, Progress, AnsweredIsHeld, CertifiedIsHeld
  <1>5. ASSUME NEW p \in Party, NEW b \in Batch, GatherReply(p, b)
        PROVE  Generation'
    <2>1. Progress'
      BY <1>5 DEF GatherReply, Progress
    <2>2. AnsweredIsHeld'
      BY <1>5 DEF GatherReply, AnsweredIsHeld
    <2>3. CertifiedIsHeld'
      BY <1>5 DEF GatherReply, AnsweredIsHeld, CertifiedIsHeld
    <2>4. QED
      BY <2>1, <2>2, <2>3
  <1>6. ASSUME NEW b \in Batch, GiveUpBatch(b)
        PROVE  Generation'
    BY <1>6 DEF GiveUpBatch, Progress, AnsweredIsHeld, CertifiedIsHeld
  <1>7. ASSUME NEW op \in Op, NEW ps \in op_peers, NEW n \in 1 .. MaxClaim,
               RequestChunk(op, ps, n)
        PROVE  Generation'
    BY <1>7 DEF RequestChunk, Progress, AnsweredIsHeld, CertifiedIsHeld
  <1>8. ASSUME NEW op \in Op, ClaimChunk(op)
        PROVE  Generation'
    BY <1>8 DEF ClaimChunk, advance, save_state, Progress, AnsweredIsHeld, CertifiedIsHeld
  <1>9. ASSUME NEW p \in Party, NEW op \in Op, GetChunk(p, op) \/ GetNothing(p, op)
        PROVE  Generation'
    BY <1>9 DEF GetChunk, GetNothing, Progress, AnsweredIsHeld, CertifiedIsHeld
  <1>10. ASSUME NEW p \in Party, CrashPeer(p)
         PROVE  Generation'
    BY <1>10 DEF CrashPeer, load_state, Progress, AnsweredIsHeld, CertifiedIsHeld
  <1>11. CASE CrashLeader
    BY <1>11 DEF CrashLeader, load_state, Progress, AnsweredIsHeld, CertifiedIsHeld
  <1>12. CASE UNCHANGED vars
    BY <1>12 DEF vars, Progress, AnsweredIsHeld, CertifiedIsHeld
  <1>13. QED
    BY <1>1, <1>2, <1>3, <1>4, <1>5, <1>6, <1>7, <1>8, <1>9, <1>10, <1>11, <1>12
       DEF Next

-----------------------------------------------------------------------------
(* What claim_chunk returns: some slots, past the counter and below its new *)
(* value, in batches that are certified for all the parties.                *)
LEMMA ClaimFacts ==
    ASSUME IInv, NEW op \in Op, ClaimChunk(op)
    PROVE  /\ slots'[op] # {}
           /\ batches'[op] \subseteq serves(peers[op])
           /\ \A s \in slots'[op] :
                 /\ s \in Slot
                 /\ s[1] \in batches'[op]
                 /\ next[s[1]] <= s[2]
                 /\ s[2] < next'[s[1]]
           /\ \A b \in Batch : next[b] <= next'[b]
           /\ savedNext' = next'
           /\ \A o \in Op : o # op => slots'[o] = slots[o] /\ batches'[o] = batches[o]
           /\ UNCHANGED <<held, nulled>>
           /\ savedNulled' = [savedNulled EXCEPT ![Leader] = nulled[Leader]]
  <1> USE CommitteeAssumption, SizeAssumption DEF IInv, TypeOK
  <1> DEFINE bs == serves(peers[op])
  <1>1. bs \in SUBSET Batch
    BY DEF serves
  <1>2. PICK take \in greedyTakes(bs, size[op]) :
            /\ advance(take)
            /\ slots' = [slots EXCEPT ![op] = slotsOf(take)]
            /\ batches' = [batches EXCEPT ![op] =
                              IF Cardinality(slotsOf(take)) < size[op]
                              THEN bs ELSE {b \in bs : take[b] > 0}]
    BY DEF ClaimChunk
  <1>3. unclaimed(bs) # {} /\ size[op] > 0
    BY DEF ClaimChunk, ClaimStages
  <1> HIDE DEF bs
  <1>4. DOMAIN take = bs /\ \A b \in bs : take[b] \in Nat
    BY <1>1, TakeBound
  <1>5. next' = [b \in Batch |-> IF b \in bs THEN next[b] + take[b] ELSE next[b]]
        /\ savedNext' = next' /\ UNCHANGED <<held, nulled>>
        /\ savedNulled' = [savedNulled EXCEPT ![Leader] = nulled[Leader]]
    BY <1>2, <1>4 DEF advance, save_state
  <1>6. slots'[op] = slotsOf(take)
    BY <1>2
  <1>7. \A s \in slotsOf(take) : s \in Slot /\ s[1] \in bs /\ s[1] \in Batch
                                 /\ s[2] \in Nat /\ next[s[1]] <= s[2]
                                 /\ s[2] < next[s[1]] + take[s[1]]
    BY <1>4 DEF slotsOf, Slot
  <1>8. slotsOf(take) # {}
    <2>1. CASE Cardinality(slotsOf(take)) = size[op]
      <3> SUFFICES ASSUME slotsOf(take) = {} PROVE FALSE
        OBVIOUS
      <3>1. Cardinality(slotsOf(take)) = Cardinality({})
        OBVIOUS
      <3>2. Cardinality({}) = 0
        BY FS_EmptySet
      <3>3. QED
        BY <2>1, <3>1, <3>2, <1>3
    <2>2. CASE \A b \in bs : take[b] = remaining(b)
      <3>1. PICK s \in Slot : s[1] \in bs /\ s[2] >= next[s[1]]
        BY <1>3 DEF unclaimed
      <3>2. s[2] \in 0 .. BatchSize - 1 /\ s[1] \in Batch
        BY <3>1 DEF Slot
      <3>3. s[2] < next[s[1]] + take[s[1]]
        BY <2>2, <3>1, <3>2 DEF remaining
      <3>4. s \in slotsOf(take)
        BY <1>4, <3>1, <3>3 DEF slotsOf
      <3>5. QED
        BY <3>4
    <2>3. QED
      BY <2>1, <2>2 DEF greedyTakes
  <1>9. \A s \in slotsOf(take) : s[1] \in batches'[op]
    <2> SUFFICES ASSUME NEW s \in slotsOf(take) PROVE s[1] \in batches'[op]
      OBVIOUS
    <2>1. s[1] \in bs /\ take[s[1]] > 0
      <3>1. s[1] \in bs /\ s[1] \in Batch /\ s[2] \in Nat
            /\ next[s[1]] <= s[2] /\ s[2] < next[s[1]] + take[s[1]]
        BY <1>7
      <3>2. next[s[1]] \in Nat /\ take[s[1]] \in Nat
        BY <3>1, <1>4
      <3>3. QED
        BY <3>1, <3>2
    <2>2. QED
      BY <2>1, <1>2
  <1>10. batches'[op] \subseteq bs
    BY <1>2
  <1>11. \A b \in Batch : next[b] <= next'[b]
    BY <1>1, <1>4, <1>5
  <1>12. \A s \in slots'[op] : s \in Slot /\ next[s[1]] <= s[2] /\ s[2] < next'[s[1]]
    BY <1>5, <1>6, <1>7
  <1>13. \A o \in Op : o # op => slots'[o] = slots[o] /\ batches'[o] = batches[o]
    BY <1>2
  <1>14. batches'[op] \subseteq serves(peers[op])
    BY <1>10 DEF bs
  <1>15. QED
    BY <1>5, <1>6, <1>8, <1>9, <1>11, <1>12, <1>13, <1>14

-----------------------------------------------------------------------------
(* The claims: what the leader's counters and certificates say about them.  *)
Claims == ClaimStages /\ ClaimedIsCertified /\ CounterIsSaved /\ SlotClaimedOnce

(* A step that leaves the claims and the counters alone, and certifies more *)
(* if anything, keeps what is known of the claims.                          *)
LEMMA ClaimsUntouched ==
    ASSUME TypeOK, Claims, UNCHANGED <<claim, next, savedNext, handed>>,
           \A p \in Party : certified[p] \subseteq certified'[p]
    PROVE  Claims'
  BY DEF Claims, TypeOK, claim, ClaimStages, ClaimedIsCertified, CounterIsSaved,
         SlotClaimedOnce

(* The claims: every step of Next keeps the batches of a chunk certified for *)
(* its parties and its slots below the counters.                            *)
LEMMA ClaimsStep ==
    ASSUME IInv, TypeOK', [Next]_vars
    PROVE  Claims'
  <1> USE CommitteeAssumption, SizeAssumption
  <1>0. Claims /\ TypeOK /\ Generation
    BY DEF IInv, Claims, Generation
  <1>1. ASSUME NEW b \in Batch, NEW g \in preproduct_groups, StartBatch(b, g)
        PROVE  Claims'
    BY <1>0, <1>1, ClaimsUntouched DEF StartBatch, memory, disk, fetch
  <1>2. ASSUME NEW p \in Party, NEW b \in Batch, StartOp(p, b)
        PROVE  Claims'
    BY <1>0, <1>2, ClaimsUntouched DEF StartOp, memory, disk, fetch
  <1>3. ASSUME NEW p \in Party, NEW b \in Batch, FinishOp(p, b)
        PROVE  Claims'
    <2>1. CASE p # Leader
      BY <1>0, <1>3, <2>1, ClaimsUntouched DEF FinishOp, add_batch, save_state, fetch
    <2>2. CASE p = Leader
      <3>1. b \notin certified[Leader]
        BY <1>0, <1>3, <2>2 DEF Generation, Progress, CertifiedIsHeld, FinishOp, TypeOK
      <3>2. \A op \in Op : \A s \in slots[op] : s[1] # b
        <4> SUFFICES ASSUME NEW op \in Op, NEW s \in slots[op] PROVE s[1] # b
          OBVIOUS
        <4>1. stage[op] = "claimed"
          BY <1>0 DEF Claims, ClaimStages
        <4>2. Leader \in peers[op] /\ s[1] \in batches[op]
          BY <1>0, <4>1 DEF Claims, ClaimStages, ClaimedIsCertified
        <4>3. QED
          BY <1>0, <3>1, <4>2 DEF Claims, ClaimedIsCertified
      <3>3. next' = [next EXCEPT ![b] = 0] /\ savedNext' = next'
        BY <1>3, <2>2 DEF FinishOp, add_batch, save_state
      <3>4. UNCHANGED <<stage, peers, size, batches, slots, handed, certified>>
        BY <1>3 DEF FinishOp, claim, fetch
      <3>5. CounterIsSaved'
        <4>1. \A op \in Op : \A s \in slots[op] : s[1] \in Batch /\ next'[s[1]] = next[s[1]]
          BY <1>0, <3>2, <3>3 DEF TypeOK, Slot
        <4>2. QED
          BY <1>0, <3>3, <3>4, <4>1 DEF Claims, CounterIsSaved
      <3>6. QED
        BY <1>0, <3>4, <3>5
           DEF Claims, ClaimStages, ClaimedIsCertified, SlotClaimedOnce
    <2>3. QED
      BY <2>1, <2>2
  <1>4. ASSUME NEW p \in Party, NEW b \in Batch, AbortOp(p, b)
        PROVE  Claims'
    BY <1>0, <1>4, ClaimsUntouched DEF AbortOp, memory, disk, fetch
  <1>5. ASSUME NEW p \in Party, NEW b \in Batch, GatherReply(p, b)
        PROVE  Claims'
    <2>1. \A q \in Party : certified[q] \subseteq certified'[q]
      BY <1>0, <1>5 DEF GatherReply
    <2>2. QED
      BY <1>0, <1>5, <2>1, ClaimsUntouched DEF GatherReply, memory, disk, fetch
  <1>6. ASSUME NEW b \in Batch, GiveUpBatch(b)
        PROVE  Claims'
    BY <1>0, <1>6, ClaimsUntouched DEF GiveUpBatch, disk, fetch
  <1>7. ASSUME NEW op \in Op, NEW ps \in op_peers, NEW n \in 1 .. MaxClaim,
               RequestChunk(op, ps, n)
        PROVE  Claims'
    <2>1. Leader \in ps /\ n > 0 /\ slots[op] = {} /\ batches[op] = {}
          /\ \A p \in Party : handed[p][op] = 0
      BY <1>0, <1>7 DEF RequestChunk, Claims, ClaimStages, op_peers
    <2>2. UNCHANGED <<batches, slots, handed, certified, next, savedNext>>
      BY <1>7 DEF RequestChunk, memory, disk, fetch
    <2>3. ClaimStages'
      BY <1>0, <1>7, <2>1, <2>2 DEF RequestChunk, Claims, ClaimStages, TypeOK
    <2>4. ClaimedIsCertified'
      BY <1>0, <1>7, <2>1, <2>2 DEF RequestChunk, Claims, ClaimedIsCertified, TypeOK
    <2>5. QED
      BY <1>0, <2>2, <2>3, <2>4 DEF Claims, CounterIsSaved, SlotClaimedOnce
  <1>8. ASSUME NEW op \in Op, ClaimChunk(op)
        PROVE  Claims'
    <2>1. /\ slots'[op] # {}
          /\ batches'[op] \subseteq serves(peers[op])
          /\ \A s \in slots'[op] : /\ s \in Slot
                                   /\ s[1] \in batches'[op]
                                   /\ next[s[1]] <= s[2]
                                   /\ s[2] < next'[s[1]]
          /\ \A b \in Batch : next[b] <= next'[b]
          /\ savedNext' = next'
          /\ \A o \in Op : o # op => slots'[o] = slots[o] /\ batches'[o] = batches[o]
      BY <1>8, ClaimFacts
    <2>2. /\ UNCHANGED <<peers, size, handed, certified>>
          /\ stage[op] = "waiting"
          /\ stage' = [stage EXCEPT ![op] = "claimed"]
      BY <1>8 DEF ClaimChunk, fetch
    <2>3. ClaimStages'
      BY <1>0, <2>1, <2>2 DEF Claims, ClaimStages, TypeOK
    <2>4. ClaimedIsCertified'
      BY <1>0, <2>1, <2>2 DEF Claims, ClaimedIsCertified, serves, TypeOK
    <2>5. CounterIsSaved'
      <3> SUFFICES ASSUME NEW o \in Op, NEW s \in slots'[o] PROVE s[2] < next'[s[1]]
        BY <2>1 DEF CounterIsSaved
      <3>1. CASE o = op
        BY <3>1, <2>1
      <3>2. CASE o # op
        <4>1. s \in slots[o] /\ s \in Slot
          BY <1>0, <2>1, <3>2 DEF TypeOK
        <4>2. s[2] < next[s[1]] /\ s[1] \in Batch /\ s[2] \in Int
          BY <1>0, <4>1 DEF Claims, CounterIsSaved, Slot
        <4>3. next[s[1]] \in Int /\ next'[s[1]] \in Int
          BY <1>0, <4>2 DEF TypeOK
        <4>4. QED
          BY <2>1, <4>2, <4>3
      <3>3. QED
        BY <3>1, <3>2
    <2>6. \A o \in Op : o # op => slots'[op] \cap slots[o] = {}
      <3> SUFFICES ASSUME NEW o \in Op, NEW s \in slots[o], s \in slots'[op]
                   PROVE  FALSE
        OBVIOUS
      <3>1. s[1] \in Batch /\ s[2] \in Int /\ next[s[1]] \in Int
        BY <1>0, <2>1 DEF TypeOK, Slot
      <3>2. s[2] < next[s[1]] /\ next[s[1]] <= s[2]
        BY <1>0, <2>1 DEF Claims, CounterIsSaved
      <3>3. QED
        BY <3>1, <3>2
    <2>7. SlotClaimedOnce'
      BY <1>0, <2>1, <2>6 DEF Claims, SlotClaimedOnce
    <2>8. QED
      BY <2>3, <2>4, <2>5, <2>7 DEF Claims
  <1>9. ASSUME NEW p \in Party, NEW op \in Op, GetChunk(p, op)
        PROVE  Claims'
    <2>1. UNCHANGED <<stage, peers, size, batches, slots, certified, next, savedNext>>
      BY <1>9 DEF GetChunk, claim, disk
    <2>2. ClaimStages'
      BY <1>0, <1>9, <2>1 DEF GetChunk, Deliver, Claims, ClaimStages, TypeOK
    <2>3. QED
      BY <1>0, <2>1, <2>2 DEF Claims, ClaimedIsCertified, CounterIsSaved, SlotClaimedOnce
  <1>10. ASSUME NEW p \in Party, NEW op \in Op, GetNothing(p, op)
         PROVE  Claims'
    BY <1>0, <1>10, ClaimsUntouched DEF GetNothing, disk
  <1>11. ASSUME NEW p \in Party, CrashPeer(p)
         PROVE  Claims'
    BY <1>0, <1>11, ClaimsUntouched DEF CrashPeer, load_state, disk
  <1>12. CASE CrashLeader
    <2>1. next' = next /\ savedNext' = next
      BY <1>0, <1>12 DEF CrashLeader, load_state, disk, Claims, CounterIsSaved
    <2>2. UNCHANGED <<batches, slots, certified, handed>>
      BY <1>12 DEF CrashLeader
    <2>3. ClaimStages'
      BY <1>0, <1>12, <2>2 DEF CrashLeader, Claims, ClaimStages, TypeOK
    <2>4. ClaimedIsCertified'
      BY <1>0, <1>12, <2>2 DEF CrashLeader, Claims, ClaimedIsCertified, TypeOK
    <2>5. QED
      BY <1>0, <2>1, <2>2, <2>3, <2>4 DEF Claims, CounterIsSaved, SlotClaimedOnce
  <1>13. CASE UNCHANGED vars
    BY <1>0, <1>13, ClaimsUntouched DEF vars, memory, disk, fetch
  <1>14. QED
    BY <1>1, <1>2, <1>3, <1>4, <1>5, <1>6, <1>7, <1>8, <1>9, <1>10, <1>11, <1>12, <1>13
       DEF Next

-----------------------------------------------------------------------------
(* The nulled slots: a step that moves them between memory and disk only,   *)
(* hands nothing out and certifies more if anything, keeps what is known.   *)
LEMMA NulledMoved ==
    ASSUME TypeOK, NulledIsHanded, RefusedOnlyRepeats,
           UNCHANGED <<slots, handed, refused>>,
           \A p \in Party : /\ certified[p] \subseteq certified'[p]
                            /\ nulled'[p] \in {nulled[p], savedNulled[p]}
                            /\ savedNulled'[p] \in {nulled[p], savedNulled[p]}
    PROVE  NulledIsHanded' /\ RefusedOnlyRepeats'
  <1>1. RefusedOnlyRepeats'
    BY DEF RefusedOnlyRepeats
  <1>2. ASSUME NEW p \in Party
        PROVE  NulledIn(p, nulled[p])' /\ NulledIn(p, savedNulled[p])'
    <2>1. NulledIn(p, nulled[p]) /\ NulledIn(p, savedNulled[p])
      BY DEF NulledIsHanded
    <2>2. QED
      BY <2>1 DEF NulledIn
  <1>3. QED
    BY <1>1, <1>2 DEF NulledIsHanded

(* The nulled slots: every step of Next nulls what was claimed only, and the *)
(* whole part of a chunk at once.                                           *)
LEMMA NulledStep ==
    ASSUME IInv, TypeOK', [Next]_vars
    PROVE  NulledIsHanded' /\ RefusedOnlyRepeats'
  <1> USE CommitteeAssumption
  <1>0. TypeOK /\ NulledIsHanded /\ RefusedOnlyRepeats /\ Claims /\ Generation
    BY DEF IInv, Claims, Generation
  <1>1. ASSUME NEW b \in Batch, NEW g \in preproduct_groups, StartBatch(b, g)
        PROVE  NulledIsHanded' /\ RefusedOnlyRepeats'
    BY <1>0, <1>1, NulledMoved DEF StartBatch, memory, disk, claim, fetch
  <1>2. ASSUME NEW p \in Party, NEW b \in Batch, StartOp(p, b)
        PROVE  NulledIsHanded' /\ RefusedOnlyRepeats'
    BY <1>0, <1>2, NulledMoved DEF StartOp, memory, disk, claim, fetch
  <1>3. ASSUME NEW p \in Party, NEW b \in Batch, FinishOp(p, b)
        PROVE  NulledIsHanded' /\ RefusedOnlyRepeats'
    <2>1. b \notin certified[p]
      BY <1>0, <1>3 DEF Generation, Progress, CertifiedIsHeld, FinishOp, TypeOK
    <2>2. {s \in nulled[p] : s[1] # b} = nulled[p]
      BY <1>0, <2>1 DEF NulledIsHanded, NulledIn
    <2>3. nulled' = nulled /\ savedNulled' = [savedNulled EXCEPT ![p] = nulled[p]]
      <3>1. nulled' = [nulled EXCEPT ![p] = nulled[p]]
        BY <1>3, <2>2 DEF FinishOp, add_batch
      <3>2. nulled' = nulled
        BY <1>0, <3>1 DEF TypeOK
      <3>3. QED
        BY <1>3, <3>2 DEF FinishOp, add_batch, save_state
    <2>4. UNCHANGED <<slots, handed, refused, certified>>
      BY <1>3 DEF FinishOp, claim, fetch
    <2>5. \A q \in Party : savedNulled'[q] \in {nulled[q], savedNulled[q]}
      BY <1>0, <2>3 DEF TypeOK
    <2>6. QED
      BY <1>0, <2>3, <2>4, <2>5, NulledMoved
  <1>4. ASSUME NEW p \in Party, NEW b \in Batch, AbortOp(p, b)
        PROVE  NulledIsHanded' /\ RefusedOnlyRepeats'
    BY <1>0, <1>4, NulledMoved DEF AbortOp, memory, disk, claim, fetch
  <1>5. ASSUME NEW p \in Party, NEW b \in Batch, GatherReply(p, b)
        PROVE  NulledIsHanded' /\ RefusedOnlyRepeats'
    <2>1. \A q \in Party : certified[q] \subseteq certified'[q]
      BY <1>0, <1>5 DEF GatherReply
    <2>2. QED
      BY <1>0, <1>5, <2>1, NulledMoved DEF GatherReply, memory, disk, claim, fetch
  <1>6. ASSUME NEW b \in Batch, GiveUpBatch(b)
        PROVE  NulledIsHanded' /\ RefusedOnlyRepeats'
    BY <1>0, <1>6, NulledMoved DEF GiveUpBatch, disk, claim, fetch
  <1>7. ASSUME NEW op \in Op, NEW ps \in op_peers, NEW n \in 1 .. MaxClaim,
               RequestChunk(op, ps, n)
        PROVE  NulledIsHanded' /\ RefusedOnlyRepeats'
    BY <1>0, <1>7, NulledMoved DEF RequestChunk, memory, disk, fetch
  <1>8. ASSUME NEW op \in Op, ClaimChunk(op)
        PROVE  NulledIsHanded' /\ RefusedOnlyRepeats'
    <2>1. /\ \A s \in slots'[op] : s \in Slot /\ next[s[1]] <= s[2]
          /\ \A o \in Op : o # op => slots'[o] = slots[o]
          /\ nulled' = nulled
          /\ savedNulled' = [savedNulled EXCEPT ![Leader] = nulled[Leader]]
      BY <1>8, ClaimFacts
    <2>2. UNCHANGED <<handed, refused, certified>> /\ stage[op] = "waiting"
      BY <1>8 DEF ClaimChunk, fetch
    <2>3. slots[op] = {}
      BY <1>0, <2>2 DEF Claims, ClaimStages
    <2>4. \A o \in Op : slots'[op] \cap slots[o] = {}
      <3> SUFFICES ASSUME NEW o \in Op, NEW s \in slots[o], s \in slots'[op]
                   PROVE  FALSE
        OBVIOUS
      <3>1. s[1] \in Batch /\ s[2] \in Int /\ next[s[1]] \in Int
        BY <1>0, <2>1 DEF TypeOK, Slot
      <3>2. s[2] < next[s[1]] /\ next[s[1]] <= s[2]
        BY <1>0, <2>1 DEF Claims, CounterIsSaved
      <3>3. QED
        BY <3>1, <3>2
    <2>5. \A q \in Party : /\ NulledIn(q, nulled[q]) /\ NulledIn(q, savedNulled[q])
                           /\ savedNulled'[q] \in {nulled[q], savedNulled[q]}
      BY <1>0, <2>1 DEF NulledIsHanded, TypeOK
    <2> DEFINE Kept(q, N) ==
            /\ \A s \in N : s[1] \in certified[q] /\ \E o \in Op : s \in slots'[o]
            /\ \A o \in Op :
                  slots'[o] \cap N # {} => handed[q][o] > 0 /\ slots'[o] \subseteq N
    <2>6. ASSUME NEW q \in Party, NEW N, NulledIn(q, N)
          PROVE  Kept(q, N)
      <3>1. \A s \in N : s[1] \in certified[q] /\ \E o \in Op : s \in slots[o]
        BY <2>6 DEF NulledIn
      <3>2. \A s \in N : s[1] \in certified[q] /\ \E o \in Op : s \in slots'[o]
        BY <3>1, <2>1, <2>3
      <3>3. slots'[op] \cap N = {}
        BY <3>1, <2>4
      <3>4. \A o \in Op : slots'[o] \cap N # {} => o # op /\ slots'[o] = slots[o]
        BY <2>1, <3>3
      <3>5. \A o \in Op : slots[o] \cap N # {} => handed[q][o] > 0 /\ slots[o] \subseteq N
        BY <2>6 DEF NulledIn
      <3>6. \A o \in Op : slots'[o] \cap N # {} =>
                handed[q][o] > 0 /\ slots'[o] \subseteq N
        <4> SUFFICES ASSUME NEW o \in Op, slots'[o] \cap N # {}
                     PROVE  handed[q][o] > 0 /\ slots'[o] \subseteq N
          OBVIOUS
        <4>1. slots'[o] = slots[o]
          BY <3>4
        <4>2. slots[o] \cap N # {}
          BY <4>1
        <4>3. QED
          BY <3>5, <4>1, <4>2
      <3>7. QED
        BY <3>2, <3>6
    <2>7. \A q \in Party : NulledIn(q, nulled[q])' /\ NulledIn(q, savedNulled[q])'
      <3> SUFFICES ASSUME NEW q \in Party
                   PROVE  NulledIn(q, nulled[q])' /\ NulledIn(q, savedNulled[q])'
        OBVIOUS
      <3> HIDE DEF Kept
      <3>1. Kept(q, nulled[q]) /\ Kept(q, savedNulled[q])
        BY <2>5, <2>6
      <3>2. Kept(q, nulled'[q]) /\ Kept(q, savedNulled'[q])
        BY <2>1, <2>5, <3>1
      <3>3. QED
        BY <2>2, <3>2 DEF NulledIn, Kept
    <2>8. QED
      BY <1>0, <2>2, <2>7 DEF NulledIsHanded, RefusedOnlyRepeats
  <1>9. ASSUME NEW p \in Party, NEW op \in Op, GetChunk(p, op)
        PROVE  NulledIsHanded' /\ RefusedOnlyRepeats'
    <2>1. UNCHANGED <<slots, certified, refused, savedNulled>> /\ p \in peers[op]
      BY <1>9 DEF GetChunk, Deliver, claim, disk
    <2>2. slotsIn(op, batches[op]) = slots[op]
      BY <1>0 DEF slotsIn, Claims, ClaimedIsCertified
    <2>3. nulled' = [nulled EXCEPT ![p] = @ \cup slots[op]]
      BY <1>9, <2>2 DEF GetChunk
    <2>4. handed' = [handed EXCEPT ![p][op] = @ + 1]
      BY <1>9 DEF GetChunk
    <2>5. \A q \in Party, o \in Op : handed[q][o] > 0 => handed'[q][o] > 0
      BY <1>0, <2>4 DEF TypeOK
    <2>6. handed'[p][op] > 0
      BY <1>0, <2>4 DEF TypeOK
    <2>7. \A s \in slots[op] : s[1] \in certified[p]
      BY <1>0, <2>1 DEF Claims, ClaimedIsCertified
    <2>8. \A o \in Op : o # op => slots[o] \cap slots[op] = {}
      BY <1>0 DEF Claims, SlotClaimedOnce
    <2>9. NulledIn(p, nulled[p])'
      <3>1. nulled'[p] = nulled[p] \cup slots[op] /\ NulledIn(p, nulled[p])
        BY <1>0, <2>3 DEF TypeOK, NulledIsHanded
      <3>2. \A s \in nulled'[p] : s[1] \in certified'[p] /\ \E o \in Op : s \in slots'[o]
        BY <2>1, <2>7, <3>1 DEF NulledIn
      <3>3. \A o \in Op : slots'[o] \cap nulled'[p] # {} =>
                handed'[p][o] > 0 /\ slots'[o] \subseteq nulled'[p]
        BY <2>1, <2>5, <2>6, <2>8, <3>1 DEF NulledIn
      <3>4. QED
        BY <3>2, <3>3 DEF NulledIn
    <2>10. \A q \in Party : q # p => NulledIn(q, nulled[q])'
      <3> SUFFICES ASSUME NEW q \in Party, q # p PROVE NulledIn(q, nulled[q])'
        OBVIOUS
      <3>1. nulled'[q] = nulled[q] /\ NulledIn(q, nulled[q])
        BY <1>0, <2>3 DEF TypeOK, NulledIsHanded
      <3>2. QED
        BY <2>1, <2>5, <3>1 DEF NulledIn
    <2>11. \A q \in Party : NulledIn(q, savedNulled[q])'
      BY <1>0, <2>1, <2>5 DEF NulledIsHanded, NulledIn
    <2>12. QED
      BY <1>0, <2>1, <2>5, <2>9, <2>10, <2>11 DEF NulledIsHanded, RefusedOnlyRepeats, TypeOK
  <1>10. ASSUME NEW p \in Party, NEW op \in Op, GetNothing(p, op)
         PROVE  NulledIsHanded' /\ RefusedOnlyRepeats'
    <2>1. /\ UNCHANGED <<slots, certified, handed, savedNulled>> /\ p \in peers[op]
          /\ refused' = [refused EXCEPT ![p] = @ \cup {op}]
      BY <1>10 DEF GetNothing, Deliver, claim, disk
    <2>2. PICK b \in batches[op] :
              /\ missing(p, op, b)
              /\ \E before \in SUBSET {c \in batches[op] : ~missing(p, op, c)} :
                    nulled' = [nulled EXCEPT ![p] =
                                 @ \cup slotsIn(op, before \cup ({b} \cap held[p]))]
      BY <1>10 DEF GetNothing
    <2>3. b \in held[p]
      BY <1>0, <2>1 DEF Claims, ClaimedIsCertified, Generation, CertifiedIsHeld
    <2>4. slots[op] \cap nulled[p] # {}
      BY <2>2, <2>3 DEF missing, slotsIn
    <2>5. handed[p][op] > 0 /\ slots[op] \subseteq nulled[p]
      BY <1>0, <2>4 DEF NulledIsHanded, NulledIn
    <2>6. nulled' = nulled
      BY <1>0, <2>2, <2>5 DEF slotsIn, TypeOK
    <2>7. NulledIsHanded'
      BY <1>0, <2>1, <2>6 DEF NulledIsHanded, NulledIn
    <2>8. RefusedOnlyRepeats'
      BY <1>0, <2>1, <2>5 DEF RefusedOnlyRepeats, TypeOK
    <2>9. QED
      BY <2>7, <2>8
  <1>11. ASSUME NEW p \in Party, CrashPeer(p)
         PROVE  NulledIsHanded' /\ RefusedOnlyRepeats'
    <2>1. nulled' = [nulled EXCEPT ![p] = savedNulled[p]] /\ savedNulled' = savedNulled
      BY <1>11 DEF CrashPeer, load_state, disk
    <2>2. QED
      BY <1>0, <1>11, <2>1, NulledMoved DEF CrashPeer, claim, TypeOK
  <1>12. CASE CrashLeader
    <2>1. nulled' = [nulled EXCEPT ![Leader] = savedNulled[Leader]]
          /\ savedNulled' = savedNulled
      BY <1>12 DEF CrashLeader, load_state, disk
    <2>2. QED
      BY <1>0, <1>12, <2>1, NulledMoved DEF CrashLeader, TypeOK
  <1>13. CASE UNCHANGED vars
    BY <1>0, <1>13, NulledMoved DEF vars, memory, disk, claim, fetch
  <1>14. QED
    BY <1>1, <1>2, <1>3, <1>4, <1>5, <1>6, <1>7, <1>8, <1>9, <1>10, <1>11, <1>12, <1>13
       DEF Next

-----------------------------------------------------------------------------
(* The inductive invariant holds in the empty store of __init__.            *)
LEMMA IInvInit == Init => IInv
  <1> SUFFICES ASSUME Init PROVE IInv
    OBVIOUS
  <1>1. TypeOK
    BY SizeAssumption DEF Init, TypeOK
  <1>2. Progress /\ AnsweredIsHeld /\ CertifiedIsHeld
    BY DEF Init, Progress, AnsweredIsHeld, CertifiedIsHeld
  <1>3. ClaimStages /\ ClaimedIsCertified /\ CounterIsSaved /\ SlotClaimedOnce
    BY DEF Init, ClaimStages, ClaimedIsCertified, CounterIsSaved, SlotClaimedOnce
  <1>4. NulledIsHanded /\ RefusedOnlyRepeats
    BY DEF Init, NulledIsHanded, NulledIn, RefusedOnlyRepeats
  <1>5. QED
    BY <1>1, <1>2, <1>3, <1>4 DEF IInv

(* ... and every step, crashes and restarts among them, preserves it.       *)
LEMMA IInvStep == IInv /\ [Next]_vars => IInv'
  <1> SUFFICES ASSUME IInv, [Next]_vars PROVE IInv'
    OBVIOUS
  <1>1. TypeOK'
    BY TypeStep DEF IInv
  <1>2. Generation'
    BY <1>1, GenerationStep DEF IInv, Generation
  <1>3. Claims'
    BY <1>1, ClaimsStep
  <1>4. NulledIsHanded' /\ RefusedOnlyRepeats'
    BY <1>1, NulledStep
  <1>5. QED
    BY <1>1, <1>2, <1>3, <1>4 DEF IInv, Generation, Claims

(* So every reachable state of the store satisfies it.                      *)
THEOREM Inductive == Spec => []IInv
  BY IInvInit, IInvStep, PTL DEF Spec

(* PreproductStore.claim_chunk never gives a slot to two operations, over   *)
(* any number of restarts and late generations.                             *)
THEOREM ClaimsAreDisjoint == Spec => []SlotClaimedOnce
  <1>1. IInv => SlotClaimedOnce
    BY DEF IInv
  <1>2. QED
    BY <1>1, Inductive, PTL

(* Every party of an operation has the batches of its chunk, in memory and  *)
(* on disk, when and after the chunk was claimed.                           *)
THEOREM ClaimsAreHeld == Spec => []ClaimedIsHeld
  <1>1. IInv => ClaimedIsHeld
    BY DEF IInv, ClaimedIsHeld, ClaimedIsCertified, CertifiedIsHeld, TypeOK
  <1>2. QED
    BY <1>1, Inductive, PTL

(* A party nulls no slot that the leader may still claim.                   *)
THEOREM NulledWereClaimed == Spec => []NulledWasClaimed
  <1>1. IInv => NulledWasClaimed
    BY DEF IInv, NulledWasClaimed, NulledIsHanded, NulledIn
  <1>2. QED
    BY <1>1, Inductive, PTL

(* get_chunk only refuses a chunk it has handed out before.                 *)
THEOREM OnlyRepeatsAreRefused == Spec => []RefusedOnlyRepeats
  <1>1. IInv => RefusedOnlyRepeats
    BY DEF IInv
  <1>2. QED
    BY <1>1, Inductive, PTL

(* A party's chunk is nulled as a whole, over restarts too.                 *)
THEOREM ChunksStayWhole == Spec => []ChunkIsWhole
  <1>1. IInv => ChunkIsWhole
    BY DEF IInv, ChunkIsWhole, NulledIsHanded, NulledIn
  <1>2. QED
    BY <1>1, Inductive, PTL

(* The counter of a certified batch never moves back: batch.next is saved   *)
(* by every claim, and a certified batch is not generated again.            *)
THEOREM CounterIsMonotone == Spec => CounterNeverRewinds
  <1>1. IInv /\ [Next]_vars => [\A b \in certified[Leader] : next'[b] >= next[b]]_vars
    <2> SUFFICES ASSUME IInv, Next, NEW b \in certified[Leader]
                 PROVE  next'[b] >= next[b]
      BY DEF vars
    <2> USE CommitteeAssumption
    <2>0. /\ TypeOK /\ Progress /\ CertifiedIsHeld /\ savedNext = next
          /\ b \in Batch /\ next[b] \in Int
      BY DEF IInv, CounterIsSaved, TypeOK
    <2>1. ASSUME NEW p \in Party, NEW c \in Batch, FinishOp(p, c)
          PROVE  next'[b] >= next[b]
      <3>1. CASE p = Leader
        <4>1. c # b
          BY <2>0, <2>1, <3>1 DEF Progress, CertifiedIsHeld, FinishOp, TypeOK
        <4>2. next' = [next EXCEPT ![c] = 0]
          BY <2>1, <3>1 DEF FinishOp, add_batch
        <4>3. next'[b] = next[b]
          BY <2>0, <4>1, <4>2 DEF TypeOK
        <4>4. QED
          BY <2>0, <4>3
      <3>2. CASE p # Leader
        BY <2>0, <2>1, <3>2 DEF FinishOp, add_batch
      <3>3. QED
        BY <3>1, <3>2
    <2>2. ASSUME NEW op \in Op, ClaimChunk(op)
          PROVE  next'[b] >= next[b]
      <3>1. next[b] <= next'[b]
        BY <2>0, <2>2, ClaimFacts
      <3>2. TypeOK'
        BY <2>0, TypeStep
      <3>3. QED
        BY <2>0, <3>1, <3>2 DEF TypeOK
    <2>3. CASE UNCHANGED next
      BY <2>0, <2>3
    <2>4. ASSUME ~ \E p \in Party, c \in Batch : FinishOp(p, c),
                 ~ \E op \in Op : ClaimChunk(op)
          PROVE  UNCHANGED next
      BY <2>0, <2>4 DEF Next, StartBatch, StartOp, AbortOp, GatherReply, GiveUpBatch,
                        RequestChunk, GetChunk, GetNothing, CrashPeer, CrashLeader,
                        load_state, memory
    <2>5. QED
      BY <2>1, <2>2, <2>3, <2>4
  <1>2. QED
    BY <1>1, Inductive, PTL DEF Spec, CounterNeverRewinds

-----------------------------------------------------------------------------
(* The refinement: claiming allocates, handing out takes, and every other   *)
(* step, restarts among them, leaves the pool as it is.                     *)
LEMMA PoolInitMaps == Init => Pool!PoolInit
  <1> SUFFICES ASSUME Init PROVE Pool!PoolInit
    OBVIOUS
  <1>1. slots = [op \in Op |-> {}]
    BY DEF Init
  <1>2. \A p \in Party : takenBy(p) = {}
    BY <1>1 DEF Init, takenBy
  <1>3. QED
    BY <1>1, <1>2 DEF Pool!PoolInit

(* claim_chunk allocates fresh slots, at least one, to an operation that has *)
(* none, which is what the pool calls Allocate.                             *)
LEMMA ClaimMaps ==
    ASSUME IInv, NEW op \in Op, ClaimChunk(op)
    PROVE  Pool!Allocate(op)
  <1> USE CommitteeAssumption
  <1>1. /\ slots'[op] # {}
        /\ \A s \in slots'[op] : s \in Slot /\ next[s[1]] <= s[2]
        /\ \A o \in Op : o # op => slots'[o] = slots[o]
    BY ClaimFacts
  <1>2. UNCHANGED handed /\ stage[op] = "waiting" /\ \E x : slots' = [slots EXCEPT ![op] = x]
    BY DEF ClaimChunk, fetch
  <1>3. slots[op] = {} /\ \A p \in Party : handed[p][op] = 0
    BY <1>2 DEF IInv, ClaimStages
  <1>4. slots' = [slots EXCEPT ![op] = slots'[op]]
    BY <1>2 DEF IInv, TypeOK
  <1>5. slots'[op] \in SUBSET (Slot \ Pool!AllAllocated)
    <2> SUFFICES ASSUME NEW s \in slots'[op], NEW o \in Op, s \in slots[o]
                 PROVE  FALSE
      BY <1>1 DEF Pool!AllAllocated
    <2>1. s[1] \in Batch /\ s[2] \in Int /\ next[s[1]] \in Int
      BY <1>1 DEF IInv, TypeOK, Slot
    <2>2. s[2] < next[s[1]] /\ next[s[1]] <= s[2]
      BY <1>1 DEF IInv, CounterIsSaved
    <2>3. QED
      BY <2>1, <2>2
  <1>6. \A p \in Party : takenBy(p)' = takenBy(p)
    <2> SUFFICES ASSUME NEW p \in Party PROVE takenBy(p)' = takenBy(p)
      OBVIOUS
    <2>1. {o \in Op : handed'[p][o] > 0} = {o \in Op : handed[p][o] > 0}
      BY <1>2
    <2>2. \A o \in {o \in Op : handed[p][o] > 0} : slots'[o] = slots[o]
      BY <1>1, <1>3
    <2>3. QED
      BY <2>1, <2>2 DEF takenBy
  <1>7. [p \in Party |-> takenBy(p)]' = [p \in Party |-> takenBy(p)]
    BY <1>6
  <1>8. QED
    BY <1>1, <1>3, <1>4, <1>5, <1>7 DEF Pool!Allocate

(* A get_chunk that hands a chunk out is a Take of the pool.                *)
LEMMA FetchMaps ==
    ASSUME IInv, NEW p \in Party, NEW op \in Op, GetChunk(p, op)
    PROVE  Pool!Take(p, op)
  <1>1. slots' = slots /\ stage[op] = "claimed" /\ handed' = [handed EXCEPT ![p][op] = @ + 1]
    BY DEF GetChunk, Deliver, claim
  <1>2. slots[op] # {}
    BY <1>1 DEF IInv, ClaimStages
  <1>3. \A o \in Op : handed'[p][o] > 0 <=> (handed[p][o] > 0 \/ o = op)
    BY <1>1 DEF IInv, TypeOK
  <1>4. takenBy(p)' = takenBy(p) \cup (slots[op] \X {op})
    <2>1. {o \in Op : handed'[p][o] > 0} = {o \in Op : handed[p][o] > 0} \cup {op}
      BY <1>3
    <2>2. QED
      BY <1>1, <2>1 DEF takenBy
  <1>5. \A q \in Party : q # p => takenBy(q)' = takenBy(q)
    <2> SUFFICES ASSUME NEW q \in Party, q # p PROVE takenBy(q)' = takenBy(q)
      OBVIOUS
    <2>1. handed'[q] = handed[q]
      BY <1>1 DEF IInv, TypeOK
    <2>2. QED
      BY <1>1, <2>1 DEF takenBy
  <1>6. [q \in Party |-> takenBy(q)]' =
           [[q \in Party |-> takenBy(q)] EXCEPT ![p] = @ \cup (slots[op] \X {op})]
    BY <1>4, <1>5
  <1>7. QED
    BY <1>1, <1>2, <1>6 DEF Pool!Take

(* Every step of the store is a step of the pool or leaves it as it is.     *)
LEMMA PoolStepMaps == IInv /\ [Next]_vars => [Pool!PoolNext]_Pool!poolVars
  <1> SUFFICES ASSUME IInv, [Next]_vars PROVE [Pool!PoolNext]_Pool!poolVars
    OBVIOUS
  <1>1. ASSUME NEW op \in Op, ClaimChunk(op)
        PROVE  Pool!PoolNext
    BY <1>1, ClaimMaps DEF Pool!PoolNext
  <1>2. ASSUME NEW p \in Party, NEW op \in Op, GetChunk(p, op)
        PROVE  Pool!PoolNext
    BY <1>2, FetchMaps DEF Pool!PoolNext
  <1>3. ASSUME UNCHANGED <<slots, handed>>
        PROVE  UNCHANGED Pool!poolVars
    BY <1>3 DEF Pool!poolVars, takenBy
  <1>4. ASSUME ~ \E op \in Op : ClaimChunk(op),
               ~ \E p \in Party, op \in Op : GetChunk(p, op)
        PROVE  UNCHANGED <<slots, handed>>
    BY <1>4 DEF Next, StartBatch, StartOp, FinishOp, AbortOp, GatherReply, GiveUpBatch,
                RequestChunk, GetNothing, CrashPeer, CrashLeader, vars, claim, fetch
  <1>5. QED
    BY <1>1, <1>2, <1>3, <1>4

(* The store implements the pool: over any crashes and timeouts, a slot is  *)
(* allocated to one operation and taken for that operation only.            *)
THEOREM StoreImplementsPool == Spec => ImplementsPool
  <1>1. Spec => Pool!PoolInit /\ [][Pool!PoolNext]_Pool!poolVars
    BY PoolInitMaps, PoolStepMaps, Inductive, PTL DEF Spec
  <1>2. QED
    BY <1>1 DEF ImplementsPool, Pool!PoolSpec

=============================================================================
