----------------------- MODULE LockFreeDropboxProofs -----------------------
(***************************************************************************)
(* Theorems about LockFreeDropbox, for any committee, threshold, messages, *)
(* polls, tasks, attempts, timeouts and restarts.                          *)
(*                                                                         *)
(* The argument: a message is handed in before anything else happens to    *)
(* it, and a retrieve task works for one poll, with messages addressed to  *)
(* it; so what is sent was asked for.  A delete request follows a reply,   *)
(* so that before the first reply with a message no party deletes its      *)
(* fragment, and what the leader takes a party to have (by its record, the *)
(* saved one, or a response that is on its way) differs from what it has   *)
(* by one party per restart at most.  The saved record then names enough   *)
(* parties for each stored message.                                        *)
(***************************************************************************)
EXTENDS LockFreeDropbox, FiniteSetTheorems, TLAPS

(* A reply with the message was sent.                                       *)
Answered(m) == \E q \in Poll : m \in replied[q]

Accepted == {m \in Message : storing[m] # "new"}

(* What is requested, held, known or computed with was handed in.           *)
OnlyAccepted ==
    \A m \in Message : storing[m] = "new" =>
        /\ \A p \in Party : /\ requests[m][p] = 0
                            /\ m \notin has[p]
                            /\ \A q \in Poll : <<p, m>> \notin real[q]
        /\ \A t \in Task : m \notin found[t] /\ <<t, m>> \notin replying

(* A retrieve task works for one poll, with messages addressed to it, and   *)
(* is free when it has nothing to retrieve or to send.                      *)
OneClient ==
    \A t \in Task :
        /\ \A q, r \in owner[t] : q = r
        /\ t \in fetching => found[t] # {}
        /\ \A m \in Message : m \in found[t] \/ <<t, m>> \in replying =>
               owner[t] # {} /\ owner[t] \X {m} \subseteq Addressed
        /\ \A m \in Message : <<t, m>> \in replying => found[t] = {}

(* A fragment is deleted after a reply only.                                *)
DeletesAnswered == \A p \in Party, m \in Message : <<p, m>> \in deletes => Answered(m)

(* The parties that the leader takes to have the message, or will.          *)
claimed(m) == {p \in Party : \/ m \in known[p] \/ m \in savedKnown[p]
                             \/ p \in gotFrom[m] \/ acks[m][p] > 0}

(* Each of them has it, but for one that each restart may have cost.        *)
ClaimedIsHeld ==
    \A m \in Message : ~Answered(m) => Cardinality(claimed(m) \ copies(m)) <= crashes

savers(m) == {p \in Party : m \in savedKnown[p]}

(* What the saved committee knows is known, also after a restart; and of a  *)
(* stored message it knows enough parties.                                  *)
StoredIsSaved ==
    \A m \in Message : ~Answered(m) =>
        /\ \A p \in Party : m \in savedKnown[p] => m \in known[p]
        /\ storing[m] = "stored" => Cardinality(savers(m)) >= Threshold

-----------------------------------------------------------------------------
(***************************************************************************)
(* The steps, one case each.                                               *)
(***************************************************************************)

LEMMA Steps ==
    ASSUME [Next]_vars
    PROVE  \/ \E m \in Message : StartStore(m) \/ AttemptStore(m) \/ EndAttempt(m) \/ WakeStore(m)
           \/ \E p \in Party, m \in Message : StoreOp(p, m) \/ GatherAck(p, m) \/ DeleteOp(p, m)
           \/ \E q \in Poll : StartPoll(q) \/ ChooseFragments(q) \/ StartCheck(q)
                               \/ EndCheck(q) \/ EndPoll(q)
           \/ \E p \in Party, q \in Poll : FindOp(p, q)
           \/ \E p \in Party, t \in Task : RetrieveOp(p, t)
           \/ \E t \in Task : StartRetrieve(t) \/ EndRetrieve(t)
           \/ \E t \in Task, m \in Message : Reply(t, m) \/ ReplyFails(t, m)
           \/ \E p \in Party : CrashPeer(p)
           \/ SaveCommittee \/ CrashLeader
           \/ UNCHANGED vars
  BY DEF Next

LEMMA PartySets ==
    ASSUME NEW S \in SUBSET Party
    PROVE  IsFiniteSet(S) /\ Cardinality(S) \in Nat
  BY PartyAssumption, FS_Subset, FS_CardinalityType

LEMMA OnlineType == \A O \in online_peers : O \subseteq Party
  BY DEF online_peers

-----------------------------------------------------------------------------
(***************************************************************************)
(* Type correctness.                                                       *)
(***************************************************************************)

LEMMA TypeInit == Init => TypeOK
  BY DEF Init, TypeOK

(* The end of a reply changes the replies and the owners only.              *)
LEMMA EndReplyType ==
    ASSUME TypeOK, NEW t \in Task, NEW m \in Message, endReply(t, m)
    PROVE  replying' \in SUBSET (Task \X Message) /\ owner' \in [Task -> SUBSET Poll]
  BY DEF TypeOK, endReply

LEMMA TypeStores ==
    ASSUME TypeOK, NEW m \in Message,
           StartStore(m) \/ AttemptStore(m) \/ EndAttempt(m) \/ WakeStore(m)
    PROVE  TypeOK'
  <1> USE DEF fragments, stores, check, polls, retrieval
  <1>1. CASE StartStore(m)
    BY <1>1 DEF StartStore, TypeOK
  <1>2. CASE AttemptStore(m)
    <2>1. PICK O \in online_peers :
             LET ps == O \ knowing(m, O)
             IN  /\ requests' = [requests EXCEPT ![m] =
                                    [p \in Party |-> IF p \in ps THEN @[p] + 1 ELSE @[p]]]
                 /\ wanted' = [wanted EXCEPT ![m] = Cardinality(ps)]
      BY <1>2 DEF AttemptStore
    <2>2. Cardinality(O \ knowing(m, O)) \in Nat
      BY OnlineType, PartySets
    <2>3. requests' \in [Message -> [Party -> Nat]] /\ wanted' \in [Message -> Nat]
      BY <2>1, <2>2 DEF TypeOK
    <2>4. attempts' \in [Message -> Nat] /\ got' \in [Message -> Nat]
      BY <1>2 DEF AttemptStore, TypeOK
    <2> QED BY <1>2, <2>3, <2>4 DEF AttemptStore, TypeOK
  <1>3. CASE EndAttempt(m)
    <2>1. known' \in [Party -> SUBSET Message] /\ savedKnown' \in [Party -> SUBSET Message]
      BY <1>3 DEF EndAttempt, endAttempt, TypeOK
    <2>2. storing' \in [Message -> {"new", "queued", "attempt", "sleep", "stored", "lost"}]
      BY <1>3 DEF EndAttempt, endAttempt, TypeOK
    <2>3. timeouts' \in Nat
      BY <1>3 DEF EndAttempt, TimeOut, TypeOK
    <2> QED BY <1>3, <2>1, <2>2, <2>3 DEF EndAttempt, TypeOK
  <1>4. CASE WakeStore(m)
    BY <1>4 DEF WakeStore, TypeOK
  <1> QED BY <1>1, <1>2, <1>3, <1>4

LEMMA TypeMessages ==
    ASSUME TypeOK, NEW p \in Party, NEW m \in Message,
           StoreOp(p, m) \/ GatherAck(p, m) \/ DeleteOp(p, m)
    PROVE  TypeOK'
  <1> USE DEF fragments, stores, check, polls, retrieval
  <1>1. CASE StoreOp(p, m)
    <2>0. requests[m][p] \in Nat /\ acks[m][p] \in Nat
      BY DEF TypeOK
    <2>1. requests[m][p] - 1 \in Nat /\ acks[m][p] + 1 \in Nat
      BY <1>1, <2>0 DEF StoreOp
    <2>2. requests' \in [Message -> [Party -> Nat]] /\ acks' \in [Message -> [Party -> Nat]]
      BY <1>1, <2>1 DEF StoreOp, TypeOK
    <2>3. has' \in [Party -> SUBSET Message]
      BY <1>1 DEF StoreOp, TypeOK
    <2>4. known' \in [Party -> SUBSET Message] /\ savedKnown' \in [Party -> SUBSET Message]
      <3>1. CASE p = Leader
        <4>1. known' = [known EXCEPT ![Leader] = @ \cup {m}] /\ savedKnown' = known'
          BY <1>1, <3>1 DEF StoreOp
        <4>2. known \in [Party -> SUBSET Message] /\ Leader \in Party
          BY PartyAssumption DEF TypeOK
        <4> QED BY <4>1, <4>2
      <3>2. CASE p # Leader
        BY <1>1, <3>2 DEF StoreOp, TypeOK
      <3> QED BY <3>1, <3>2
    <2> QED BY <1>1, <2>2, <2>3, <2>4 DEF StoreOp, TypeOK
  <1>2. CASE GatherAck(p, m)
    <2>0. acks[m][p] \in Nat /\ got[m] \in Nat
      BY DEF TypeOK
    <2>1. acks[m][p] - 1 \in Nat /\ got[m] + 1 \in Nat
      BY <1>2, <2>0 DEF GatherAck, arrived
    <2>2. /\ acks' \in [Message -> [Party -> Nat]] /\ got' \in [Message -> Nat]
          /\ gotFrom' \in [Message -> SUBSET Party]
      BY <1>2, <2>1 DEF GatherAck, TypeOK
    <2> QED BY <1>2, <2>2 DEF GatherAck, TypeOK
  <1>3. CASE DeleteOp(p, m)
    BY <1>3 DEF DeleteOp, TypeOK
  <1> QED BY <1>1, <1>2, <1>3

LEMMA TypePolls ==
    ASSUME TypeOK, NEW q \in Poll,
           StartPoll(q) \/ ChooseFragments(q) \/ StartCheck(q) \/ EndCheck(q) \/ EndPoll(q)
    PROVE  TypeOK'
  <1> USE DEF fragments, stores, check, polls, retrieval
  <1>1. CASE StartPoll(q)
    BY <1>1 DEF StartPoll, TypeOK
  <1>2. CASE ChooseFragments(q)
    <2>1. \A O \in online_peers : \A F \in fragments_to_check(q, O) : F \subseteq Message
      BY DEF fragments_to_check
    <2>2. targets' \in [Poll -> SUBSET Message]
      BY <1>2, <2>1 DEF ChooseFragments, TypeOK
    <2> QED BY <1>2, <2>2 DEF ChooseFragments, TypeOK
  <1>3. CASE StartCheck(q)
    <2>1. \A O \in online_peers : \A ps \in peers_for_fragments(targets[q], O) : ps \subseteq Party
      BY OnlineType, PartyAssumption DEF peers_for_fragments
    <2>2. workers' \in [Poll -> SUBSET Party]
      BY <1>3, <2>1 DEF StartCheck, TypeOK
    <2>3. targets' \in [Poll -> SUBSET Message] /\ repeated' \in SUBSET Poll
      <3>1. PICK T \in SUBSET targets[q] :
               /\ targets' \in {[targets EXCEPT ![q] = T], [targets EXCEPT ![q] = {}]}
               /\ repeated' \in {repeated, repeated \cup {q}}
        BY <1>3 DEF StartCheck
      <3>2. T \subseteq Message /\ targets \in [Poll -> SUBSET Message] /\ repeated \subseteq Poll
        BY DEF TypeOK
      <3> QED BY <3>1, <3>2
    <2>4. polling' \in [Poll -> {"new", "loop", "chosen", "check", "done"}]
      BY <1>3 DEF StartCheck, TypeOK
    <2> QED BY <1>3, <2>2, <2>3, <2>4 DEF StartCheck, TypeOK
  <1>4. CASE EndCheck(q)
    <2>1. PICK R \in openings(q, handled[q] = workers[q]) :
             /\ markChecked(q, R)
             /\ IF matches(q, R) = {}
                THEN UNCHANGED <<owner, found>>
                ELSE \E t \in Task : /\ owner[t] = {}
                                     /\ owner' = [owner EXCEPT ![t] = {q}]
                                     /\ found' = [found EXCEPT ![t] = matches(q, R)]
      BY <1>4 DEF EndCheck
    <2>2. R \subseteq Message /\ matches(q, R) \subseteq Message
      BY DEF openings, matches, TypeOK
    <2>3. checked' \in [Poll -> SUBSET Message]
      BY <2>1, <2>2 DEF markChecked, TypeOK
    <2>4. owner' \in [Task -> SUBSET Poll] /\ found' \in [Task -> SUBSET Message]
      <3>1. owner \in [Task -> SUBSET Poll] /\ found \in [Task -> SUBSET Message]
        BY DEF TypeOK
      <3>2. CASE matches(q, R) = {}
        BY <2>1, <3>1, <3>2
      <3>3. CASE matches(q, R) # {}
        BY <2>1, <2>2, <3>1, <3>3
      <3> QED BY <3>2, <3>3
    <2>5. timeouts' \in Nat
      BY <1>4 DEF EndCheck, TimeOut, TypeOK
    <2> QED BY <1>4, <2>3, <2>4, <2>5 DEF EndCheck, TypeOK
  <1>5. CASE EndPoll(q)
    BY <1>5 DEF EndPoll, TypeOK
  <1> QED BY <1>1, <1>2, <1>3, <1>4, <1>5

LEMMA TypeRetrieve ==
    ASSUME TypeOK, NEW t \in Task,
           \/ StartRetrieve(t) \/ EndRetrieve(t)
           \/ \E p \in Party : RetrieveOp(p, t)
           \/ \E m \in Message : Reply(t, m) \/ ReplyFails(t, m)
    PROVE  TypeOK'
  <1> USE DEF fragments, stores, check, polls, retrieval
  <1>1. CASE StartRetrieve(t)
    BY <1>1, OnlineType DEF StartRetrieve, TypeOK
  <1>2. CASE EndRetrieve(t)
    <2>1. complete(t) \subseteq Message
      BY DEF complete, TypeOK
    <2>2. replying' \in SUBSET (Task \X Message)
      BY <1>2, <2>1 DEF EndRetrieve, TypeOK
    <2>3. timeouts' \in Nat
      BY <1>2 DEF EndRetrieve, TimeOut, TypeOK
    <2> QED BY <1>2, <2>2, <2>3 DEF EndRetrieve, TypeOK
  <1>3. ASSUME NEW p \in Party, RetrieveOp(p, t)
        PROVE  TypeOK'
    BY <1>3 DEF RetrieveOp, TypeOK
  <1>4. ASSUME NEW m \in Message, Reply(t, m)
        PROVE  TypeOK'
    <2>1. known' \in [Party -> SUBSET Message] /\ deletes' \in SUBSET (Party \X Message)
      BY <1>4, OnlineType DEF Reply, delete_task, knowing, TypeOK
    <2>2. replied' \in [Poll -> SUBSET Message]
      BY <1>4 DEF Reply, sent, TypeOK
    <2>3. replying' \in SUBSET (Task \X Message) /\ owner' \in [Task -> SUBSET Poll]
      BY <1>4, EndReplyType DEF Reply
    <2> QED BY <1>4, <2>1, <2>2, <2>3 DEF Reply, endReply, delete_task, TypeOK
  <1>5. ASSUME NEW m \in Message, ReplyFails(t, m)
        PROVE  TypeOK'
    <2>1. replying' \in SUBSET (Task \X Message) /\ owner' \in [Task -> SUBSET Poll]
      BY <1>5, EndReplyType DEF ReplyFails, retry, TypeOK
    <2>2. replied' \in [Poll -> SUBSET Message]
      <3>1. replied \in [Poll -> SUBSET Message]
        BY DEF TypeOK
      <3>2. sent(t, m) \/ UNCHANGED replied
        BY <1>5 DEF ReplyFails
      <3> QED BY <3>1, <3>2 DEF sent
    <2>3. timeouts' \in Nat
      BY <1>5 DEF ReplyFails, TimeOut, TypeOK
    <2>4. UNCHANGED <<found, fetching, asked, given, fragments, deletes>>
      BY <1>5 DEF ReplyFails, retry, endReply
    <2> QED BY <1>5, <2>1, <2>2, <2>3, <2>4 DEF ReplyFails, TypeOK
  <1> QED BY <1>1, <1>2, <1>3, <1>4, <1>5

LEMMA TypeCrashes ==
    ASSUME TypeOK, SaveCommittee \/ CrashLeader \/ \E p \in Party : CrashPeer(p)
    PROVE  TypeOK'
  <1> USE DEF fragments, stores, check, polls, retrieval
  <1>0. crashes \in Nat /\ crashes + 1 \in Nat
    BY DEF TypeOK
  <1>1. CASE SaveCommittee
    BY <1>1 DEF SaveCommittee, TypeOK
  <1>2. CASE CrashLeader
    <2>1. /\ has' \in [Party -> SUBSET Message]
          /\ storing' \in [Message -> {"new", "queued", "attempt", "sleep", "stored", "lost"}]
          /\ requests' \in [Message -> [Party -> Nat]] /\ acks' \in [Message -> [Party -> Nat]]
      BY <1>2 DEF CrashLeader, TypeOK
    <2>2. /\ polling' \in [Poll -> {"new", "loop", "chosen", "check", "done"}]
          /\ deletes' \in SUBSET (Party \X Message)
      BY <1>2 DEF CrashLeader, TypeOK
    <2> QED BY <1>0, <1>2, <2>1, <2>2 DEF CrashLeader, TypeOK
  <1>3. ASSUME NEW p \in Party, CrashPeer(p)
        PROVE  TypeOK'
    <2>1. has' \in [Party -> SUBSET Message]
      BY <1>3 DEF CrashPeer, TypeOK
    <2>2. handled' \in [Poll -> SUBSET Party] /\ real' \in [Poll -> SUBSET (Party \X Message)]
      BY <1>3 DEF CrashPeer, TypeOK
    <2> QED BY <1>0, <1>3, <2>1, <2>2 DEF CrashPeer, TypeOK
  <1> QED BY <1>1, <1>2, <1>3

LEMMA TypeStep == TypeOK /\ [Next]_vars => TypeOK'
  <1> SUFFICES ASSUME TypeOK, [Next]_vars PROVE TypeOK'
    OBVIOUS
  <1>1. CASE UNCHANGED vars
    BY <1>1 DEF vars, fragments, stores, check, polls, retrieval, TypeOK
  <1>2. ASSUME NEW p \in Party, NEW q \in Poll, FindOp(p, q)
        PROVE  TypeOK'
    BY <1>2 DEF FindOp, TypeOK, fragments, stores, retrieval
  <1> QED BY <1>1, <1>2, Steps, TypeStores, TypeMessages, TypePolls, TypeRetrieve, TypeCrashes

-----------------------------------------------------------------------------
(***************************************************************************)
(* What the steps leave alone.                                             *)
(***************************************************************************)

(* Only a reply changes the history of replies, and only by its message.    *)
LEMMA RepliedStep ==
    ASSUME TypeOK, [Next]_vars
    PROVE  /\ \/ replied' = replied
              \/ \E t \in Task, m \in Message :
                     (Reply(t, m) \/ ReplyFails(t, m)) /\ <<t, m>> \in replying /\ sent(t, m)
           /\ \A m \in Message : Answered(m) => Answered(m)'
  <1>1. \/ replied' = replied
        \/ \E t \in Task, m \in Message :
               (Reply(t, m) \/ ReplyFails(t, m)) /\ <<t, m>> \in replying /\ sent(t, m)
    <2>1. ASSUME NEW m \in Message, StartStore(m) \/ AttemptStore(m) \/ EndAttempt(m) \/ WakeStore(m)
          PROVE  replied' = replied
      BY <2>1 DEF StartStore, AttemptStore, EndAttempt, WakeStore
    <2>2. ASSUME NEW p \in Party, NEW m \in Message, StoreOp(p, m) \/ GatherAck(p, m) \/ DeleteOp(p, m)
          PROVE  replied' = replied
      BY <2>2 DEF StoreOp, GatherAck, DeleteOp
    <2>3. ASSUME NEW q \in Poll,
                 \/ StartPoll(q) \/ ChooseFragments(q) \/ StartCheck(q) \/ EndCheck(q) \/ EndPoll(q)
                 \/ \E p \in Party : FindOp(p, q)
          PROVE  replied' = replied
      BY <2>3 DEF StartPoll, ChooseFragments, StartCheck, EndCheck, EndPoll, FindOp
    <2>4. ASSUME NEW t \in Task, StartRetrieve(t) \/ EndRetrieve(t) \/ \E p \in Party : RetrieveOp(p, t)
          PROVE  replied' = replied
      BY <2>4 DEF StartRetrieve, EndRetrieve, RetrieveOp
    <2>5. ASSUME NEW t \in Task, NEW m \in Message, Reply(t, m) \/ ReplyFails(t, m)
          PROVE  replied' = replied \/ (<<t, m>> \in replying /\ sent(t, m))
      BY <2>5 DEF Reply, ReplyFails
    <2>6. CASE SaveCommittee \/ CrashLeader \/ \E p \in Party : CrashPeer(p)
      BY <2>6 DEF SaveCommittee, CrashLeader, CrashPeer
    <2>7. CASE UNCHANGED vars
      BY <2>7 DEF vars
    <2> QED BY <2>1, <2>2, <2>3, <2>4, <2>5, <2>6, <2>7, Steps
  <1>2. ASSUME NEW m \in Message, NEW q \in Poll, m \in replied[q]
        PROVE  m \in replied'[q]
    <2>1. CASE replied' = replied
      BY <1>2, <2>1
    <2>2. ASSUME NEW t \in Task, NEW n \in Message, sent(t, n)
          PROVE  m \in replied'[q]
      BY <1>2, <2>2 DEF sent
    <2> QED BY <1>1, <2>1, <2>2
  <1> QED BY <1>1, <1>2 DEF Answered

(* A message that was handed in stays so.                                   *)
LEMMA StoringStep ==
    ASSUME TypeOK, [Next]_vars
    PROVE  /\ \/ storing' = storing
              \/ CrashLeader
              \/ \E m \in Message : StartStore(m) \/ AttemptStore(m) \/ EndAttempt(m) \/ WakeStore(m)
           /\ \A m \in Message : storing'[m] = "new" => storing[m] = "new"
  <1> USE DEF stores
  <1>1. ASSUME NEW p \in Party, NEW m \in Message, StoreOp(p, m) \/ GatherAck(p, m) \/ DeleteOp(p, m)
        PROVE  storing' = storing
    BY <1>1 DEF StoreOp, GatherAck, DeleteOp
  <1>2. ASSUME NEW q \in Poll,
               \/ StartPoll(q) \/ ChooseFragments(q) \/ StartCheck(q) \/ EndCheck(q) \/ EndPoll(q)
               \/ \E p \in Party : FindOp(p, q)
        PROVE  storing' = storing
    BY <1>2 DEF StartPoll, ChooseFragments, StartCheck, EndCheck, EndPoll, FindOp
  <1>3. ASSUME NEW t \in Task,
               \/ StartRetrieve(t) \/ EndRetrieve(t) \/ \E p \in Party : RetrieveOp(p, t)
               \/ \E m \in Message : Reply(t, m) \/ ReplyFails(t, m)
        PROVE  storing' = storing
    BY <1>3 DEF StartRetrieve, EndRetrieve, RetrieveOp, Reply, ReplyFails
  <1>4. CASE SaveCommittee \/ \E p \in Party : CrashPeer(p)
    BY <1>4 DEF SaveCommittee, CrashPeer
  <1>5. CASE UNCHANGED vars
    BY <1>5 DEF vars
  <1>6. CASE CrashLeader
    BY <1>6 DEF CrashLeader, TypeOK
  <1>7. ASSUME NEW m \in Message, StartStore(m) \/ AttemptStore(m) \/ EndAttempt(m) \/ WakeStore(m)
        PROVE  \A n \in Message : storing'[n] = "new" => storing[n] = "new"
    BY <1>7 DEF StartStore, AttemptStore, EndAttempt, endAttempt, WakeStore, TypeOK
  <1> QED BY <1>1, <1>2, <1>3, <1>4, <1>5, <1>6, <1>7, Steps

(* The steps that store, save, forget or lose fragments.                    *)
LEMMA HoldingStep ==
    ASSUME TypeOK, [Next]_vars
    PROVE  \/ \E m \in Message : AttemptStore(m) \/ EndAttempt(m)
           \/ \E p \in Party, m \in Message : StoreOp(p, m) \/ GatherAck(p, m) \/ DeleteOp(p, m)
           \/ \E t \in Task, m \in Message : Reply(t, m)
           \/ SaveCommittee \/ CrashLeader \/ \E p \in Party : CrashPeer(p)
           \/ UNCHANGED <<has, known, savedKnown, gotFrom, acks, requests, deletes, crashes>>
  <1> USE DEF fragments, stores
  <1>1. ASSUME NEW m \in Message, StartStore(m) \/ WakeStore(m)
        PROVE  UNCHANGED <<has, known, savedKnown, gotFrom, acks, requests, deletes, crashes>>
    BY <1>1 DEF StartStore, WakeStore
  <1>2. ASSUME NEW q \in Poll,
               \/ StartPoll(q) \/ ChooseFragments(q) \/ StartCheck(q) \/ EndCheck(q) \/ EndPoll(q)
               \/ \E p \in Party : FindOp(p, q)
        PROVE  UNCHANGED <<has, known, savedKnown, gotFrom, acks, requests, deletes, crashes>>
    BY <1>2 DEF StartPoll, ChooseFragments, StartCheck, EndCheck, EndPoll, FindOp
  <1>3. ASSUME NEW t \in Task,
               \/ StartRetrieve(t) \/ EndRetrieve(t) \/ \E p \in Party : RetrieveOp(p, t)
               \/ \E m \in Message : ReplyFails(t, m)
        PROVE  UNCHANGED <<has, known, savedKnown, gotFrom, acks, requests, deletes, crashes>>
    BY <1>3 DEF StartRetrieve, EndRetrieve, RetrieveOp, ReplyFails, retry
  <1>4. CASE UNCHANGED vars
    BY <1>4 DEF vars
  <1> QED BY <1>1, <1>2, <1>3, <1>4, Steps

(* The steps that begin, advance or end a retrieval.                        *)
LEMMA RetrievalStep ==
    ASSUME TypeOK, [Next]_vars
    PROVE  \/ \E q \in Poll : EndCheck(q)
           \/ \E t \in Task : StartRetrieve(t) \/ EndRetrieve(t)
           \/ \E t \in Task, m \in Message : <<t, m>> \in replying /\ endReply(t, m)
           \/ CrashLeader
           \/ UNCHANGED <<owner, found, fetching, replying>>
  <1> USE DEF retrieval
  <1>1. ASSUME NEW m \in Message, StartStore(m) \/ AttemptStore(m) \/ EndAttempt(m) \/ WakeStore(m)
        PROVE  UNCHANGED <<owner, found, fetching, replying>>
    BY <1>1 DEF StartStore, AttemptStore, EndAttempt, WakeStore
  <1>2. ASSUME NEW p \in Party, NEW m \in Message, StoreOp(p, m) \/ GatherAck(p, m) \/ DeleteOp(p, m)
        PROVE  UNCHANGED <<owner, found, fetching, replying>>
    BY <1>2 DEF StoreOp, GatherAck, DeleteOp
  <1>3. ASSUME NEW q \in Poll,
               \/ StartPoll(q) \/ ChooseFragments(q) \/ StartCheck(q) \/ EndPoll(q)
               \/ \E p \in Party : FindOp(p, q)
        PROVE  UNCHANGED <<owner, found, fetching, replying>>
    BY <1>3 DEF StartPoll, ChooseFragments, StartCheck, EndPoll, FindOp
  <1>4. ASSUME NEW t \in Task, NEW p \in Party, RetrieveOp(p, t)
        PROVE  UNCHANGED <<owner, found, fetching, replying>>
    BY <1>4 DEF RetrieveOp
  <1>5. ASSUME NEW t \in Task, NEW m \in Message, Reply(t, m) \/ ReplyFails(t, m)
        PROVE  \/ <<t, m>> \in replying /\ endReply(t, m)
               \/ UNCHANGED <<owner, found, fetching, replying>>
    BY <1>5 DEF Reply, ReplyFails, retry
  <1>6. CASE SaveCommittee \/ \E p \in Party : CrashPeer(p)
    BY <1>6 DEF SaveCommittee, CrashPeer
  <1>7. CASE UNCHANGED vars
    BY <1>7 DEF vars
  <1> QED BY <1>1, <1>2, <1>3, <1>4, <1>5, <1>6, <1>7, Steps

-----------------------------------------------------------------------------
(***************************************************************************)
(* Retrieval and deletion.                                                 *)
(***************************************************************************)

(* What a check opens was computed with a party's real fragment.            *)
LEMMA OpeningsReal ==
    ASSUME NEW q \in Poll, NEW answered, NEW R \in openings(q, answered), NEW f \in R
    PROVE  \E p \in Party : <<p, f>> \in real[q]
  <1>1. Cardinality(holders(real[q], f)) >= Threshold
    BY DEF openings
  <1>2. holders(real[q], f) # {}
    BY <1>1, FS_EmptySet, NumberAssumption
  <1> QED BY <1>2 DEF holders

LEMMA AcceptedStep ==
    TypeOK /\ OnlyAccepted /\ [Next]_vars => OnlyAccepted'
  <1> SUFFICES ASSUME TypeOK, OnlyAccepted, [Next]_vars,
                      NEW m \in Message, storing'[m] = "new"
               PROVE  /\ \A p \in Party : /\ requests'[m][p] = 0
                                          /\ m \notin has'[p]
                                          /\ \A q \in Poll : <<p, m>> \notin real'[q]
                      /\ \A t \in Task : m \notin found'[t] /\ <<t, m>> \notin replying'
    BY DEF OnlyAccepted
  <1>0. /\ \A p \in Party : /\ requests[m][p] = 0
                            /\ m \notin has[p]
                            /\ \A q \in Poll : <<p, m>> \notin real[q]
        /\ \A t \in Task : m \notin found[t] /\ <<t, m>> \notin replying
        /\ storing[m] = "new"
    BY StoringStep DEF OnlyAccepted
  <1>1. \A p \in Party : requests'[m][p] = 0
    <2>1. ASSUME NEW n \in Message, AttemptStore(n)
          PROVE  \A p \in Party : requests'[m][p] = 0
      BY <1>0, <2>1 DEF AttemptStore, TypeOK
    <2>2. ASSUME NEW p \in Party, NEW n \in Message, StoreOp(p, n)
          PROVE  \A r \in Party : requests'[m][r] = 0
      <3>1. requests[n][p] > 0 /\ ~(0 > 0)
        BY <2>2 DEF StoreOp
      <3>2. n # m
        BY <1>0, <3>1
      <3> QED BY <1>0, <2>2, <3>2 DEF StoreOp, TypeOK
    <2>3. CASE CrashLeader
      BY <1>0, <2>3 DEF CrashLeader, TypeOK
    <2>4. ASSUME NEW n \in Message, NEW p \in Party,
                 EndAttempt(n) \/ GatherAck(p, n) \/ DeleteOp(p, n)
          PROVE  requests' = requests
      BY <2>4 DEF EndAttempt, GatherAck, DeleteOp, stores
    <2>5. ASSUME NEW t \in Task, NEW n \in Message, Reply(t, n)
          PROVE  requests' = requests
      BY <2>5 DEF Reply, stores
    <2>6. ASSUME NEW p \in Party, SaveCommittee \/ CrashPeer(p)
          PROVE  requests' = requests
      BY <2>6 DEF SaveCommittee, CrashPeer, stores
    <2> QED BY <1>0, <2>1, <2>2, <2>3, <2>4, <2>5, <2>6, PartyAssumption, HoldingStep
  <1>2. \A p \in Party : m \notin has'[p]
    <2>1. ASSUME NEW p \in Party, NEW n \in Message, StoreOp(p, n)
          PROVE  \A r \in Party : m \notin has'[r]
      <3>1. requests[n][p] > 0 /\ ~(0 > 0)
        BY <2>1 DEF StoreOp
      <3>2. n # m
        BY <1>0, <3>1
      <3> QED BY <1>0, <2>1, <3>2 DEF StoreOp, TypeOK
    <2>2. ASSUME NEW p \in Party, NEW n \in Message, DeleteOp(p, n)
          PROVE  \A r \in Party : m \notin has'[r]
      BY <1>0, <2>2 DEF DeleteOp, TypeOK
    <2>3. ASSUME NEW p \in Party, CrashLeader \/ CrashPeer(p)
          PROVE  \A r \in Party : m \notin has'[r]
      BY <1>0, <2>3, ZenonT(60) DEF CrashLeader, CrashPeer, TypeOK
    <2>4. ASSUME NEW n \in Message, NEW p \in Party,
                 AttemptStore(n) \/ EndAttempt(n) \/ GatherAck(p, n) \/ SaveCommittee
          PROVE  has' = has
      BY <2>4 DEF AttemptStore, EndAttempt, GatherAck, SaveCommittee, fragments
    <2>5. ASSUME NEW t \in Task, NEW n \in Message, Reply(t, n)
          PROVE  has' = has
      BY <2>5 DEF Reply, delete_task
    <2> QED BY <1>0, <2>1, <2>2, <2>3, <2>4, <2>5, PartyAssumption, HoldingStep
  <1>3. \A p \in Party, q \in Poll : <<p, m>> \notin real'[q]
    <2>1. ASSUME NEW p \in Party, NEW q \in Poll, FindOp(p, q)
          PROVE  \A r \in Party, k \in Poll : <<r, m>> \notin real'[k]
      BY <1>0, <2>1 DEF FindOp, TypeOK
    <2>2. ASSUME NEW q \in Poll, EndCheck(q)
          PROVE  \A r \in Party, k \in Poll : <<r, m>> \notin real'[k]
      BY <1>0, <2>2 DEF EndCheck, TypeOK
    <2>3. CASE CrashLeader
      BY <2>3 DEF CrashLeader
    <2>4. ASSUME NEW p \in Party, CrashPeer(p)
          PROVE  \A r \in Party, k \in Poll : <<r, m>> \notin real'[k]
      <3>1. real' = real \/ real' = [q \in Poll |-> {s \in real[q] : s[1] # p}]
        BY <2>4 DEF CrashPeer
      <3> QED BY <1>0, <3>1
    <2>5. ASSUME NEW n \in Message, StartStore(n) \/ AttemptStore(n) \/ EndAttempt(n) \/ WakeStore(n)
          PROVE  real' = real
      BY <2>5 DEF StartStore, AttemptStore, EndAttempt, WakeStore, polls, check
    <2>6. ASSUME NEW p \in Party, NEW n \in Message, StoreOp(p, n) \/ GatherAck(p, n) \/ DeleteOp(p, n)
          PROVE  real' = real
      BY <2>6 DEF StoreOp, GatherAck, DeleteOp, polls, check
    <2>7. ASSUME NEW q \in Poll, StartPoll(q) \/ ChooseFragments(q) \/ StartCheck(q) \/ EndPoll(q)
          PROVE  real' = real
      BY <2>7 DEF StartPoll, ChooseFragments, StartCheck, EndPoll, check
    <2>8. ASSUME NEW t \in Task,
                 \/ StartRetrieve(t) \/ EndRetrieve(t) \/ \E p \in Party : RetrieveOp(p, t)
                 \/ \E n \in Message : Reply(t, n) \/ ReplyFails(t, n)
          PROVE  real' = real
      BY <2>8 DEF StartRetrieve, EndRetrieve, RetrieveOp, Reply, ReplyFails, polls, check
    <2>9. CASE SaveCommittee
      BY <1>0, <2>9 DEF SaveCommittee, polls, check
    <2>10. CASE UNCHANGED vars
      BY <1>0, <2>10 DEF vars, polls, check
    <2> QED BY <1>0, <2>1, <2>2, <2>3, <2>4, <2>5, <2>6, <2>7, <2>8, <2>9, <2>10, Steps
  <1>4. \A t \in Task : m \notin found'[t] /\ <<t, m>> \notin replying'
    <2>1. ASSUME NEW q \in Poll, EndCheck(q)
          PROVE  \A t \in Task : m \notin found'[t] /\ <<t, m>> \notin replying'
      <3>1. PICK R \in openings(q, handled[q] = workers[q]) :
               IF matches(q, R) = {}
               THEN UNCHANGED <<owner, found>>
               ELSE \E t \in Task : found' = [found EXCEPT ![t] = matches(q, R)]
        BY <2>1 DEF EndCheck
      <3>2. m \notin matches(q, R)
        BY <1>0, OpeningsReal DEF matches
      <3>3. \A t \in Task : m \notin found'[t]
        BY <1>0, <3>1, <3>2 DEF TypeOK
      <3> QED BY <1>0, <2>1, <3>3 DEF EndCheck
    <2>2. ASSUME NEW t \in Task, EndRetrieve(t)
          PROVE  \A u \in Task : m \notin found'[u] /\ <<u, m>> \notin replying'
      BY <1>0, <2>2 DEF EndRetrieve, complete, TypeOK
    <2>3. ASSUME NEW t \in Task, StartRetrieve(t)
          PROVE  UNCHANGED <<found, replying>>
      BY <2>3 DEF StartRetrieve
    <2>4. ASSUME NEW t \in Task, NEW n \in Message, endReply(t, n)
          PROVE  \A u \in Task : m \notin found'[u] /\ <<u, m>> \notin replying'
      BY <1>0, <2>4 DEF endReply
    <2>5. CASE CrashLeader
      BY <2>5 DEF CrashLeader
    <2> QED BY <1>0, <2>1, <2>2, <2>3, <2>4, <2>5, RetrievalStep
  <1> QED BY <1>1, <1>2, <1>3, <1>4

(* A task that has something to do, for the one poll it works for.          *)
Serves(t) ==
    /\ \A q, r \in owner[t] : q = r
    /\ t \in fetching => found[t] # {}
    /\ \A m \in Message : m \in found[t] \/ <<t, m>> \in replying =>
           owner[t] # {} /\ owner[t] \X {m} \subseteq Addressed
    /\ \A m \in Message : <<t, m>> \in replying => found[t] = {}

LEMMA ClientStep ==
    TypeOK /\ OneClient /\ [Next]_vars => OneClient'
  <1> SUFFICES ASSUME TypeOK, OneClient, [Next]_vars, NEW u \in Task
               PROVE  Serves(u)'
    BY DEF OneClient, Serves
  <1>0. Serves(u)
    BY DEF OneClient, Serves
  <1>1. ASSUME NEW q \in Poll, EndCheck(q)
        PROVE  Serves(u)'
    <2>1. PICK R \in openings(q, handled[q] = workers[q]) :
             IF matches(q, R) = {}
             THEN UNCHANGED <<owner, found>>
             ELSE \E t \in Task : /\ owner[t] = {}
                                  /\ owner' = [owner EXCEPT ![t] = {q}]
                                  /\ found' = [found EXCEPT ![t] = matches(q, R)]
      BY <1>1 DEF EndCheck
    <2>2. UNCHANGED <<fetching, replying>>
      BY <1>1 DEF EndCheck
    <2>3. CASE UNCHANGED <<owner, found>>
      BY <1>0, <2>2, <2>3 DEF Serves
    <2>4. ASSUME matches(q, R) # {}, NEW t \in Task, owner[t] = {},
                 owner' = [owner EXCEPT ![t] = {q}],
                 found' = [found EXCEPT ![t] = matches(q, R)]
          PROVE  Serves(u)'
      <3>1. CASE u = t
        <4>1. owner'[u] = {q} /\ found'[u] = matches(q, R)
          BY <2>4, <3>1 DEF TypeOK
        <4>2. \A m \in Message : <<u, m>> \notin replying
          BY <1>0, <2>4, <3>1 DEF Serves
        <4>3. \A m \in matches(q, R) : {q} \X {m} \subseteq Addressed
          BY DEF matches
        <4> QED BY <2>2, <2>4, <4>1, <4>2, <4>3 DEF Serves
      <3>2. CASE u # t
        <4>1. owner'[u] = owner[u] /\ found'[u] = found[u]
          BY <2>4, <3>2 DEF TypeOK
        <4> QED BY <1>0, <2>2, <4>1 DEF Serves
      <3> QED BY <3>1, <3>2
    <2> QED BY <2>1, <2>3, <2>4
  <1>2. ASSUME NEW t \in Task, StartRetrieve(t)
        PROVE  Serves(u)'
    BY <1>0, <1>2 DEF StartRetrieve, Serves
  <1>3. ASSUME NEW t \in Task, EndRetrieve(t)
        PROVE  Serves(u)'
    <2>1. CASE u = t
      <3>1. found[u] # {} /\ \A m \in Message : <<u, m>> \notin replying
        BY <1>0, <1>3, <2>1 DEF EndRetrieve, Serves
      <3>2. found'[u] = {} /\ u \notin fetching'
        BY <1>3, <2>1 DEF EndRetrieve, TypeOK
      <3>3. owner'[u] = IF complete(u) = {} THEN {} ELSE owner[u]
        BY <1>3, <2>1 DEF EndRetrieve, TypeOK
      <3>4. \A m \in Message : <<u, m>> \in replying' => m \in complete(u)
        BY <1>3, <2>1, <3>1 DEF EndRetrieve
      <3>5. complete(u) \subseteq found[u]
        BY DEF complete
      <3> QED BY <1>0, <3>2, <3>3, <3>4, <3>5 DEF Serves
    <2>2. CASE u # t
      <3>1. /\ owner'[u] = owner[u] /\ found'[u] = found[u]
            /\ (u \in fetching' <=> u \in fetching)
            /\ \A m \in Message : <<u, m>> \in replying' <=> <<u, m>> \in replying
        BY <1>3, <2>2 DEF EndRetrieve, TypeOK
      <3> QED BY <1>0, <3>1 DEF Serves
    <2> QED BY <2>1, <2>2
  <1>4. ASSUME NEW t \in Task, NEW m \in Message, <<t, m>> \in replying, endReply(t, m)
        PROVE  Serves(u)'
    <2>1. UNCHANGED <<found, fetching>> /\ replying' = replying \ {<<t, m>>}
      BY <1>4 DEF endReply
    <2>2. CASE u = t
      <3>1. found[u] = {} /\ u \notin fetching
        BY <1>0, <1>4, <2>2 DEF Serves
      <3>2. owner'[u] = IF \E f \in Message \ {m} : <<t, f>> \in replying THEN owner[u] ELSE {}
        BY <1>4, <2>2 DEF endReply, TypeOK
      <3>3. \A n \in Message : <<u, n>> \in replying' => <<u, n>> \in replying /\ owner'[u] = owner[u]
        BY <2>1, <2>2, <3>2
      <3> QED BY <1>0, <2>1, <3>1, <3>2, <3>3 DEF Serves
    <2>3. CASE u # t
      <3>1. owner'[u] = owner[u]
        BY <1>4, <2>3 DEF endReply, TypeOK
      <3> QED BY <1>0, <2>1, <3>1 DEF Serves
    <2> QED BY <2>2, <2>3
  <1>5. CASE CrashLeader
    BY <1>5 DEF CrashLeader, Serves
  <1>6. CASE UNCHANGED <<owner, found, fetching, replying>>
    BY <1>0, <1>6 DEF Serves
  <1> QED BY <1>1, <1>2, <1>3, <1>4, <1>5, <1>6, RetrievalStep

(* A message is sent to one poll, which it is addressed to.                 *)
LEMMA SentToOne ==
    ASSUME TypeOK, OneClient, NEW t \in Task, NEW m \in Message,
           <<t, m>> \in replying, sent(t, m)
    PROVE  \E q \in Poll : /\ <<q, m>> \in Addressed
                           /\ replied' = [replied EXCEPT ![q] = @ \cup {m}]
  <1>1. PICK q \in owner[t] : \A r \in owner[t] : r = q
    BY DEF OneClient
  <1>2. q \in Poll /\ <<q, m>> \in Addressed
    BY DEF OneClient, TypeOK
  <1>3. replied \in [Poll -> SUBSET Message] /\ owner[t] = {q}
    BY <1>1 DEF TypeOK
  <1>4. replied' = [r \in Poll |-> IF r \in {q} THEN replied[r] \cup {m} ELSE replied[r]]
    BY <1>3 DEF sent
  <1> QED BY <1>2, <1>3, <1>4

LEMMA DeletesStep ==
    TypeOK /\ OneClient /\ DeletesAnswered /\ [Next]_vars => DeletesAnswered'
  <1> SUFFICES ASSUME TypeOK, OneClient, DeletesAnswered, [Next]_vars,
                      NEW p \in Party, NEW m \in Message, <<p, m>> \in deletes'
               PROVE  Answered(m)'
    BY DEF DeletesAnswered
  <1>1. CASE <<p, m>> \in deletes
    BY <1>1, RepliedStep DEF DeletesAnswered
  <1>2. CASE <<p, m>> \notin deletes
    <2>1. ASSUME NEW n \in Message, NEW r \in Party,
                 \/ AttemptStore(n) \/ EndAttempt(n) \/ StoreOp(r, n) \/ GatherAck(r, n)
                 \/ DeleteOp(r, n) \/ CrashPeer(r) \/ SaveCommittee \/ CrashLeader
          PROVE  FALSE
      BY <1>2, <2>1 DEF AttemptStore, EndAttempt, StoreOp, GatherAck, DeleteOp, CrashPeer,
                        SaveCommittee, CrashLeader
    <2>2. PICK t \in Task, n \in Message : Reply(t, n)
      BY <1>2, <2>1, HoldingStep
    <2>3. n = m
      BY <1>2, <2>2 DEF Reply, delete_task
    <2>4. <<t, m>> \in replying /\ sent(t, m)
      BY <2>2, <2>3 DEF Reply
    <2>5. PICK q \in Poll : replied' = [replied EXCEPT ![q] = @ \cup {m}]
      BY <2>4, SentToOne
    <2>6. m \in replied'[q]
      BY <2>5 DEF TypeOK
    <2> QED BY <2>6 DEF Answered
  <1> QED BY <1>1, <1>2

-----------------------------------------------------------------------------
(***************************************************************************)
(* What was stored.                                                        *)
(***************************************************************************)

(* The parties whose copy a restart has cost.                               *)
lost(m) == claimed(m) \ copies(m)

LEMMA LostType ==
    ASSUME TypeOK, NEW m \in Message
    PROVE  /\ IsFiniteSet(lost(m)) /\ Cardinality(lost(m)) \in Nat
           /\ lost(m) \in SUBSET Party /\ savers(m) \in SUBSET Party
           /\ copies(m) \in SUBSET Party
  BY PartySets DEF lost, claimed, savers, copies

(* A step makes a party lose a message only by a restart.                   *)
LEMMA LostStep ==
    ASSUME TypeOK, OneClient, DeletesAnswered, [Next]_vars,
           NEW m \in Message, ~Answered(m)'
    PROVE  \/ lost(m)' \subseteq lost(m) /\ crashes' = crashes
           \/ \E p \in Party : lost(m)' \subseteq lost(m) \cup {p} /\ crashes' = crashes + 1
  <1> USE DEF lost, claimed, copies
  <1>0. ~Answered(m)
    BY RepliedStep
  <1>1. ASSUME NEW n \in Message, AttemptStore(n)
        PROVE  lost(m)' \subseteq lost(m) /\ crashes' = crashes
    <2>1. gotFrom'[m] \subseteq gotFrom[m]
      BY <1>1 DEF AttemptStore, TypeOK
    <2> QED BY <1>1, <2>1 DEF AttemptStore, fragments
  <1>2. ASSUME NEW n \in Message, EndAttempt(n)
        PROVE  lost(m)' \subseteq lost(m) /\ crashes' = crashes
    <2>1. \A p \in Party : m \in known'[p] => m \in known[p] \/ p \in gotFrom[m]
      BY <1>2 DEF EndAttempt, endAttempt
    <2>2. savedKnown' = known' /\ UNCHANGED <<has, gotFrom, acks, crashes>>
      BY <1>2 DEF EndAttempt, endAttempt
    <2> QED BY <2>1, <2>2
  <1>3. ASSUME NEW p \in Party, NEW n \in Message, StoreOp(p, n)
        PROVE  lost(m)' \subseteq lost(m) /\ crashes' = crashes
    <2>1. UNCHANGED <<gotFrom, crashes>> /\ has' = [has EXCEPT ![p] = @ \cup {n}]
      BY <1>3 DEF StoreOp
    <2>2. CASE n = m
      <3>1. \A r \in Party : r # p =>
               /\ known'[r] = known[r] /\ savedKnown'[r] \subseteq known[r] \cup savedKnown[r]
               /\ acks'[m][r] = acks[m][r] /\ has'[r] = has[r]
        BY <1>3, <2>2 DEF StoreOp, TypeOK
      <3>2. m \in has'[p]
        BY <2>1, <2>2 DEF TypeOK
      <3> QED BY <2>1, <3>1, <3>2
    <2>3. CASE n # m
      <3>1. /\ known' = [known EXCEPT ![Leader] = @ \cup {n}] \/ known' = known
            /\ savedKnown' \in {known', savedKnown}
        BY <1>3 DEF StoreOp
      <3>2. \A r \in Party : m \in known'[r] => m \in known[r]
        <4>1. known \in [Party -> SUBSET Message] /\ Leader \in Party
          BY PartyAssumption DEF TypeOK
        <4>2. CASE known' = [known EXCEPT ![Leader] = @ \cup {n}]
          BY <2>3, <4>1, <4>2
        <4> QED BY <3>1, <4>2
      <3>3. \A r \in Party :
               /\ m \in known'[r] => m \in known[r]
               /\ m \in savedKnown'[r] => m \in known[r] \cup savedKnown[r]
        BY <3>1, <3>2
      <3>4. acks'[m] = acks[m] /\ \A r \in Party : m \in has'[r] <=> m \in has[r]
        BY <1>3, <2>3 DEF StoreOp, TypeOK
      <3> QED BY <2>1, <3>3, <3>4
    <2> QED BY <2>2, <2>3
  <1>4. ASSUME NEW p \in Party, NEW n \in Message, GatherAck(p, n)
        PROVE  lost(m)' \subseteq lost(m) /\ crashes' = crashes
    <2>1. \A r \in Party : r \in gotFrom'[m] => r \in gotFrom[m] \/ acks[m][r] > 0
      BY <1>4 DEF GatherAck, arrived, TypeOK
    <2>2. \A r \in Party : acks'[m][r] > 0 => acks[m][r] > 0
      BY <1>4 DEF GatherAck, arrived, TypeOK
    <2> QED BY <1>4, <2>1, <2>2 DEF GatherAck, fragments
  <1>5. ASSUME NEW p \in Party, NEW n \in Message, DeleteOp(p, n)
        PROVE  lost(m)' \subseteq lost(m) /\ crashes' = crashes
    <2>1. n # m
      BY <1>0, <1>5 DEF DeleteOp, DeletesAnswered
    <2>2. \A r \in Party : m \in has'[r] <=> m \in has[r]
      BY <1>5, <2>1 DEF DeleteOp, TypeOK
    <2> QED BY <1>5, <2>2 DEF DeleteOp, stores
  <1>6. ASSUME NEW t \in Task, NEW n \in Message, Reply(t, n)
        PROVE  lost(m)' \subseteq lost(m) /\ crashes' = crashes
    <2>1. \A r \in Party : m \in known'[r] => m \in known[r]
      BY <1>6 DEF Reply, delete_task
    <2>2. UNCHANGED <<has, savedKnown, gotFrom, acks, crashes>>
      BY <1>6 DEF Reply, delete_task, stores
    <2> QED BY <2>1, <2>2
  <1>7. CASE SaveCommittee
    BY <1>7 DEF SaveCommittee, stores
  <1>8. CASE CrashLeader
    <2>1. \A r \in Party : r # Leader => has'[r] = has[r]
      BY <1>8 DEF CrashLeader, TypeOK
    <2>2. /\ known' = savedKnown /\ UNCHANGED <<savedKnown, gotFrom>>
          /\ crashes' = crashes + 1 /\ \A r \in Party : ~(acks'[m][r] > 0)
      BY <1>8 DEF CrashLeader
    <2>3. lost(m)' \subseteq lost(m) \cup {Leader}
      BY <2>1, <2>2
    <2> QED BY <2>2, <2>3, PartyAssumption
  <1>9. ASSUME NEW p \in Party, CrashPeer(p)
        PROVE  lost(m)' \subseteq lost(m) \cup {p} /\ crashes' = crashes + 1
    <2>1. \A r \in Party : r # p => has'[r] = has[r]
      BY <1>9 DEF CrashPeer, TypeOK
    <2> QED BY <1>9, <2>1 DEF CrashPeer, stores
  <1>10. CASE UNCHANGED <<has, known, savedKnown, gotFrom, acks, requests, deletes, crashes>>
    BY <1>10
  <1> QED BY <1>1, <1>2, <1>3, <1>4, <1>5, <1>6, <1>7, <1>8, <1>9, <1>10, HoldingStep

LEMMA ClaimedStep ==
    TypeOK /\ OneClient /\ DeletesAnswered /\ ClaimedIsHeld /\ [Next]_vars => ClaimedIsHeld'
  <1> SUFFICES ASSUME TypeOK, OneClient, DeletesAnswered, ClaimedIsHeld, [Next]_vars,
                      NEW m \in Message, ~Answered(m)'
               PROVE  Cardinality(lost(m)') <= crashes'
    BY DEF ClaimedIsHeld, lost
  <1>1. Cardinality(lost(m)) <= crashes /\ Cardinality(lost(m)) \in Nat /\ crashes \in Nat
    BY RepliedStep, LostType DEF ClaimedIsHeld, lost, TypeOK
  <1>2. CASE lost(m)' \subseteq lost(m) /\ crashes' = crashes
    <2>1. Cardinality(lost(m)') <= Cardinality(lost(m)) /\ Cardinality(lost(m)') \in Nat
      BY <1>2, LostType, FS_Subset, FS_CardinalityType
    <2> QED BY <1>1, <1>2, <2>1
  <1>3. ASSUME NEW p \in Party, lost(m)' \subseteq lost(m) \cup {p}, crashes' = crashes + 1
        PROVE  Cardinality(lost(m)') <= crashes'
    <2>0. /\ IsFiniteSet(lost(m) \cup {p})
          /\ Cardinality(lost(m) \cup {p}) \in {Cardinality(lost(m)), Cardinality(lost(m)) + 1}
      BY LostType, FS_AddElement
    <2>1. IsFiniteSet(lost(m) \cup {p}) /\ Cardinality(lost(m) \cup {p}) <= Cardinality(lost(m)) + 1
      BY <1>1, <2>0
    <2>2. Cardinality(lost(m)') <= Cardinality(lost(m) \cup {p})
      BY <1>3, <2>1, FS_Subset
    <2>3. Cardinality(lost(m)') \in Nat /\ Cardinality(lost(m) \cup {p}) \in Nat
      BY <1>3, <2>1, FS_Subset, FS_CardinalityType
    <2> QED BY <1>1, <1>3, <2>1, <2>2, <2>3
  <1> QED BY <1>2, <1>3, LostStep

LEMMA SavedStep ==
    TypeOK /\ OneClient /\ StoredIsSaved /\ [Next]_vars => StoredIsSaved'
  <1> SUFFICES ASSUME TypeOK, OneClient, StoredIsSaved, [Next]_vars,
                      NEW m \in Message, ~Answered(m)'
               PROVE  /\ \A p \in Party : m \in savedKnown'[p] => m \in known'[p]
                      /\ storing'[m] = "stored" => Cardinality(savers(m)') >= Threshold
    BY DEF StoredIsSaved
  <1>0. /\ \A p \in Party : m \in savedKnown[p] => m \in known[p]
        /\ storing[m] = "stored" => Cardinality(savers(m)) >= Threshold
    BY RepliedStep DEF StoredIsSaved
  (* A step by which savers only grow, and which stores nothing.            *)
  <1>1. ASSUME savers(m) \subseteq savers(m)', storing'[m] = "stored" => storing[m] = "stored"
        PROVE  storing'[m] = "stored" => Cardinality(savers(m)') >= Threshold
    <2>1. savers(m)' \in SUBSET Party
      BY DEF savers
    <2>2. Cardinality(savers(m)) <= Cardinality(savers(m)')
      BY <1>1, <2>1, PartySets, FS_Subset
    <2>3. Cardinality(savers(m)) \in Nat /\ Cardinality(savers(m)') \in Nat /\ Threshold \in Nat
      BY <2>1, LostType, PartySets, NumberAssumption
    <2> QED BY <1>0, <1>1, <2>2, <2>3
  <1>2. ASSUME UNCHANGED <<known, savedKnown>>, storing'[m] = "stored" => storing[m] = "stored"
        PROVE  /\ \A p \in Party : m \in savedKnown'[p] => m \in known'[p]
               /\ savers(m) \subseteq savers(m)'
    BY <1>0, <1>2 DEF savers
  <1>3. ASSUME NEW n \in Message, EndAttempt(n)
        PROVE  /\ \A p \in Party : m \in savedKnown'[p] => m \in known'[p]
               /\ storing'[m] = "stored" => Cardinality(savers(m)') >= Threshold
    <2>1. savedKnown' = known' /\ \A p \in Party : m \in known[p] => m \in known'[p]
      BY <1>3 DEF EndAttempt, endAttempt
    <2>2. savers(m) \subseteq savers(m)'
      BY <1>0, <2>1 DEF savers
    <2>3. CASE n # m
      <3>1. storing'[m] = storing[m]
        BY <1>3, <2>3 DEF EndAttempt, endAttempt, TypeOK
      <3> QED BY <1>1, <2>1, <2>2, <3>1
    <2>4. CASE n = m
      <3>1. PICK O \in online_peers :
               storing' = [storing EXCEPT ![m] = IF enough(m, O) THEN "stored" ELSE "sleep"]
        BY <1>3, <2>4 DEF EndAttempt, endAttempt
      <3>2. storing'[m] = "stored" => enough(m, O)
        BY <3>1 DEF TypeOK
      <3>3. {p \in O : m \in known'[p]} \subseteq savers(m)' /\ savers(m)' \in SUBSET Party
        BY <2>1, OnlineType DEF savers
      <3>4. Cardinality({p \in O : m \in known'[p]}) <= Cardinality(savers(m)')
        BY <3>3, PartySets, FS_Subset
      <3>5. /\ Cardinality({p \in O : m \in known'[p]}) \in Nat /\ Cardinality(savers(m)') \in Nat
            /\ Threshold \in Nat
        BY <3>3, PartySets, OnlineType, NumberAssumption
      <3> QED BY <2>1, <3>2, <3>4, <3>5 DEF enough
    <2> QED BY <2>3, <2>4
  <1>4. ASSUME NEW p \in Party, NEW n \in Message, StoreOp(p, n)
        PROVE  /\ \A r \in Party : m \in savedKnown'[r] => m \in known'[r]
               /\ savers(m) \subseteq savers(m)' /\ storing' = storing
    <2>1. CASE p = Leader
      <3>1. known' = [known EXCEPT ![Leader] = @ \cup {n}] /\ savedKnown' = known' /\ storing' = storing
        BY <1>4, <2>1 DEF StoreOp
      <3>2. \A r \in Party : m \in known[r] => m \in known'[r]
        BY <3>1 DEF TypeOK
      <3> QED BY <1>0, <3>1, <3>2 DEF savers
    <2>2. CASE p # Leader
      BY <1>0, <1>4, <2>2 DEF StoreOp, savers
    <2> QED BY <2>1, <2>2
  <1>5. ASSUME NEW t \in Task, NEW n \in Message, Reply(t, n)
        PROVE  /\ \A r \in Party : m \in savedKnown'[r] => m \in known'[r]
               /\ savers(m) \subseteq savers(m)' /\ storing' = storing
    <2>1. n # m
      <3>1. <<t, n>> \in replying /\ sent(t, n)
        BY <1>5 DEF Reply
      <3>2. PICK q \in Poll : replied' = [replied EXCEPT ![q] = @ \cup {n}]
        BY <3>1, SentToOne
      <3>3. n \in replied'[q]
        BY <3>2 DEF TypeOK
      <3> QED BY <3>3 DEF Answered
    <2>2. \A r \in Party : m \in known[r] => m \in known'[r]
      BY <1>5, <2>1 DEF Reply, delete_task
    <2>3. savedKnown' = savedKnown /\ storing' = storing
      BY <1>5 DEF Reply, delete_task, stores
    <2> QED BY <1>0, <2>2, <2>3 DEF savers
  <1>6. CASE SaveCommittee
    <2>1. savedKnown' = known /\ known' = known /\ storing' = storing
      BY <1>6 DEF SaveCommittee, stores
    <2>2. savers(m) \subseteq savers(m)'
      BY <1>0, <2>1 DEF savers
    <2> QED BY <1>1, <2>1, <2>2
  <1>7. CASE CrashLeader
    <2>1. known' = savedKnown /\ savedKnown' = savedKnown
      BY <1>7 DEF CrashLeader
    <2>2. storing'[m] = "stored" => storing[m] = "stored"
      BY <1>7 DEF CrashLeader
    <2>3. savers(m) \subseteq savers(m)'
      BY <2>1 DEF savers
    <2> QED BY <1>1, <2>1, <2>2, <2>3
  <1>8. ASSUME NEW n \in Message, StartStore(n) \/ AttemptStore(n) \/ WakeStore(n)
        PROVE  UNCHANGED <<known, savedKnown>> /\ (storing'[m] = "stored" => storing[m] = "stored")
    BY <1>8 DEF StartStore, AttemptStore, WakeStore, fragments, TypeOK
  <1>9. ASSUME NEW p \in Party, NEW n \in Message, GatherAck(p, n) \/ DeleteOp(p, n) \/ CrashPeer(p)
        PROVE  UNCHANGED <<known, savedKnown>> /\ (storing'[m] = "stored" => storing[m] = "stored")
    BY <1>9 DEF GatherAck, DeleteOp, CrashPeer, fragments, stores
  <1>10. CASE UNCHANGED <<has, known, savedKnown, gotFrom, acks, requests, deletes, crashes>> /\ storing' = storing
    BY <1>1, <1>2, <1>10
  <1> QED BY <1>1, <1>2, <1>3, <1>4, <1>5, <1>6, <1>7, <1>8, <1>9, <1>10, HoldingStep, StoringStep

-----------------------------------------------------------------------------
(***************************************************************************)
(* The committee as a mailbox.                                             *)
(***************************************************************************)

LEMMA BoxStart == Init => Box!BoxInit
  <1> SUFFICES ASSUME Init PROVE Box!BoxInit
    OBVIOUS
  <1>1. \A m \in Message : copies(m) = {}
    BY DEF Init, copies
  <1>2. inBox = {}
    BY <1>1, FS_EmptySet, NumberAssumption DEF inBox
  <1> QED BY <1>2 DEF Init, Box!BoxInit

(* With more copies a message that is kept stays kept.                      *)
LEMMA FewerCopies ==
    ASSUME NEW S \in SUBSET Party, NEW T \in SUBSET S, Cardinality(T) >= Threshold
    PROVE  Cardinality(S) >= Threshold
  <1>1. Cardinality(T) <= Cardinality(S)
    BY PartySets, FS_Subset
  <1>2. Cardinality(S) \in Nat /\ Cardinality(T) \in Nat /\ Threshold \in Nat
    BY PartySets, NumberAssumption
  <1> QED BY <1>1, <1>2

LEMMA BoxStep ==
    ASSUME TypeOK, OnlyAccepted, OneClient, DeletesAnswered, [Next]_vars
    PROVE  [Box!BoxNext]_(Box!boxVars)
  <1> DEFINE accepted == {m \in Message : storing[m] # "new"}
  <1> USE DEF Box!boxVars
  (* A step that changes no store task from or to "new".                    *)
  <1>1. (\A m \in Message : storing'[m] = "new" <=> storing[m] = "new") => accepted' = accepted
    OBVIOUS
  <1>2. has' = has => inBox' = inBox
    BY DEF inBox, copies
  <1>3. ASSUME NEW m \in Message, StartStore(m)
        PROVE  Box!Accept(m)
    <2>1. UNCHANGED <<has, replied, crashes>> /\ accepted' = accepted \cup {m}
      BY <1>3 DEF StartStore, fragments, TypeOK
    <2> QED BY <1>2, <2>1 DEF Box!Accept
  <1>4. ASSUME NEW m \in Message, AttemptStore(m) \/ EndAttempt(m) \/ WakeStore(m)
        PROVE  UNCHANGED Box!boxVars
    <2>1. UNCHANGED <<has, replied, crashes>>
      BY <1>4 DEF AttemptStore, EndAttempt, WakeStore, fragments
    <2>2. \A n \in Message : storing'[n] = "new" <=> storing[n] = "new"
      BY <1>4 DEF AttemptStore, EndAttempt, endAttempt, WakeStore, TypeOK
    <2> QED BY <1>1, <1>2, <2>1, <2>2
  <1>5. ASSUME NEW p \in Party, NEW m \in Message, StoreOp(p, m)
        PROVE  Box!Keep(m) \/ UNCHANGED Box!boxVars
    <2>1. UNCHANGED <<storing, replied, crashes>> /\ has' = [has EXCEPT ![p] = @ \cup {m}]
      BY <1>5 DEF StoreOp
    <2>2. storing[m] # "new"
      <3>1. requests[m][p] > 0 /\ ~(0 > 0)
        BY <1>5 DEF StoreOp
      <3> QED BY <3>1 DEF OnlyAccepted
    <2>3. \A n \in Message : n # m => copies(n)' = copies(n)
      BY <2>1 DEF copies, TypeOK
    <2>4. copies(m) \subseteq copies(m)' /\ copies(m)' \in SUBSET Party
      BY <2>1 DEF copies, TypeOK
    <2>5. m \in inBox => m \in inBox'
      BY <2>4, FewerCopies DEF inBox
    <2>6. inBox' = inBox \/ inBox' = inBox \cup {m}
      BY <2>3, <2>5 DEF inBox
    <2> QED BY <2>1, <2>2, <2>6 DEF Box!Keep
  <1>6. ASSUME NEW p \in Party, NEW m \in Message, DeleteOp(p, m)
        PROVE  Box!Forget(m) \/ UNCHANGED Box!boxVars
    <2>1. UNCHANGED <<storing, replied, crashes>> /\ has' = [has EXCEPT ![p] = @ \ {m}]
      BY <1>6 DEF DeleteOp, stores
    <2>2. Answered(m)
      BY <1>6 DEF DeleteOp, DeletesAnswered
    <2>3. \A n \in Message : n # m => copies(n)' = copies(n)
      BY <2>1 DEF copies, TypeOK
    <2>4. copies(m)' \subseteq copies(m) /\ copies(m) \in SUBSET Party
      BY <2>1 DEF copies, TypeOK
    <2>5. m \in inBox' => m \in inBox
      BY <2>4, FewerCopies DEF inBox
    <2>6. inBox' = inBox \/ inBox' = inBox \ {m}
      BY <2>3, <2>5 DEF inBox
    <2> QED BY <2>1, <2>2, <2>6 DEF Box!Forget, Answered
  <1>7. ASSUME NEW t \in Task, NEW m \in Message, Reply(t, m) \/ ReplyFails(t, m)
        PROVE  (\E q \in Poll : Box!ReplyTo(q, m)) \/ UNCHANGED Box!boxVars
    <2>1. UNCHANGED <<storing, has, crashes>> /\ <<t, m>> \in replying
      BY <1>7 DEF Reply, ReplyFails, retry, delete_task, stores, fragments
    <2>2. sent(t, m) \/ replied' = replied
      BY <1>7 DEF Reply, ReplyFails
    <2>3. CASE sent(t, m)
      <3>1. PICK q \in Poll : /\ <<q, m>> \in Addressed
                              /\ replied' = [replied EXCEPT ![q] = @ \cup {m}]
        BY <2>1, <2>3, SentToOne
      <3>2. m \in accepted
        BY <2>1 DEF OnlyAccepted
      <3> QED BY <1>2, <2>1, <3>1, <3>2 DEF Box!ReplyTo
    <2>4. CASE replied' = replied
      BY <1>2, <2>1, <2>4
    <2> QED BY <2>2, <2>3, <2>4
  <1>8. ASSUME NEW p \in Party, CrashPeer(p) \/ CrashLeader
        PROVE  Box!Restart
    <2>1. crashes' = crashes + 1 /\ replied' = replied
      BY <1>8 DEF CrashPeer, CrashLeader
    <2>2. \A n \in Message : storing'[n] = "new" <=> storing[n] = "new"
      BY <1>8 DEF CrashPeer, CrashLeader, stores
    <2>3. \A n \in Message : copies(n)' \subseteq copies(n) /\ copies(n) \in SUBSET Party
      BY <1>8 DEF CrashPeer, CrashLeader, copies, TypeOK
    <2>4. inBox' \subseteq inBox
      BY <2>3, FewerCopies DEF inBox
    <2> QED BY <1>1, <2>1, <2>2, <2>4 DEF Box!Restart
  <1>9. ASSUME NEW q \in Poll,
               \/ StartPoll(q) \/ ChooseFragments(q) \/ StartCheck(q) \/ EndCheck(q) \/ EndPoll(q)
               \/ \E p \in Party : FindOp(p, q)
        PROVE  UNCHANGED <<storing, has, replied, crashes>>
    BY <1>9 DEF StartPoll, ChooseFragments, StartCheck, EndCheck, EndPoll, FindOp, stores, fragments
  <1>10. ASSUME NEW t \in Task, StartRetrieve(t) \/ EndRetrieve(t) \/ \E p \in Party : RetrieveOp(p, t)
         PROVE  UNCHANGED <<storing, has, replied, crashes>>
    BY <1>10 DEF StartRetrieve, EndRetrieve, RetrieveOp, stores, fragments
  <1>11. ASSUME NEW p \in Party, NEW m \in Message, GatherAck(p, m)
         PROVE  UNCHANGED <<storing, has, replied, crashes>>
    BY <1>11 DEF GatherAck, fragments
  <1>12. CASE SaveCommittee
    BY <1>1, <1>2, <1>12 DEF SaveCommittee, stores
  <1>13. CASE UNCHANGED vars
    BY <1>1, <1>2, <1>13 DEF vars, fragments, stores
  <1>14. UNCHANGED <<storing, has, replied, crashes>> => UNCHANGED Box!boxVars
    BY <1>1, <1>2
  <1> QED BY <1>3, <1>4, <1>5, <1>6, <1>7, <1>8, <1>9, <1>10, <1>11, <1>12, <1>13, <1>14,
             Steps, PartyAssumption DEF Box!BoxNext

-----------------------------------------------------------------------------
(***************************************************************************)
(* The inductive invariant, and the theorems.                              *)
(***************************************************************************)
IInv == /\ TypeOK /\ OnlyAccepted /\ OneClient /\ DeletesAnswered
        /\ ClaimedIsHeld /\ StoredIsSaved

LEMMA InvInit == Init => IInv
  <1> SUFFICES ASSUME Init PROVE IInv
    OBVIOUS
  <1>1. OnlyAccepted /\ OneClient /\ DeletesAnswered /\ StoredIsSaved
    BY DEF Init, OnlyAccepted, OneClient, DeletesAnswered, StoredIsSaved
  <1>2. ASSUME NEW m \in Message
        PROVE  Cardinality(claimed(m) \ copies(m)) <= crashes
    <2>1. \A p \in Party : known[p] = {} /\ savedKnown[p] = {} /\ acks[m][p] = 0 /\ gotFrom[m] = {}
      BY DEF Init
    <2>2. ~(0 > 0)
      OBVIOUS
    <2>3. claimed(m) \ copies(m) = {}
      BY <2>1, <2>2 DEF claimed
    <2>4. crashes = 0 /\ Cardinality(claimed(m) \ copies(m)) = 0
      BY <2>3, FS_EmptySet DEF Init
    <2> QED BY <2>4
  <1> QED BY <1>1, <1>2, TypeInit DEF IInv, ClaimedIsHeld

LEMMA InvStep == IInv /\ [Next]_vars => IInv'
  BY TypeStep, AcceptedStep, ClientStep, DeletesStep, ClaimedStep, SavedStep DEF IInv

(* The named parts hold together in every state of the committee.           *)
THEOREM Invariant == Spec => []IInv
  BY InvInit, InvStep, PTL DEF Spec

(* No interleaving of the committee's tasks and messages, no timeout and no *)
(* restart leaves its state malformed.                                      *)
THEOREM TypeCorrect == Spec => []TypeOK
  <1>1. IInv => TypeOK
    BY DEF IInv
  <1> QED BY <1>1, Invariant, PTL

(* A message that store_task has reported as stored, and that nobody got,   *)
(* is on enough parties, but for one that each restart may cost, and the    *)
(* leader finds it after a restart.                                         *)
THEOREM StoredStaysHeld == Spec => []StoredIsHeld
  <1>1. ASSUME IInv, NEW m \in Message, storing[m] = "stored", ~Answered(m)
        PROVE  /\ Cardinality(copies(m)) + crashes >= Threshold
               /\ Cardinality(savers(m)) >= Threshold
    <2>1. Cardinality(savers(m)) >= Threshold /\ Cardinality(lost(m)) <= crashes
      BY <1>1 DEF IInv, StoredIsSaved, ClaimedIsHeld, lost
    <2>2. savers(m) \subseteq copies(m) \cup lost(m)
      BY DEF savers, claimed, lost, copies
    <2>3. /\ IsFiniteSet(copies(m)) /\ IsFiniteSet(lost(m)) /\ copies(m) \cup lost(m) \in SUBSET Party
          /\ Cardinality(copies(m)) \in Nat /\ Cardinality(lost(m)) \in Nat
      BY <1>1, LostType, PartySets DEF IInv
    <2>4. copies(m) \cap lost(m) = {}
      BY DEF lost
    <2>5. Cardinality(copies(m) \cup lost(m)) = Cardinality(copies(m)) + Cardinality(lost(m)) - 0
      <3>1. Cardinality(copies(m) \cup lost(m))
                = Cardinality(copies(m)) + Cardinality(lost(m)) - Cardinality(copies(m) \cap lost(m))
        BY <2>3, FS_Union
      <3>2. Cardinality(copies(m) \cap lost(m)) = 0
        BY <2>4, FS_EmptySet
      <3> QED BY <3>1, <3>2
    <2>6. Cardinality(copies(m) \cup lost(m)) >= Threshold
      BY <2>1, <2>2, <2>3, FewerCopies
    <2>7. crashes \in Nat /\ Threshold \in Nat
      BY <1>1, NumberAssumption DEF IInv, TypeOK
    <2> QED BY <2>1, <2>3, <2>5, <2>6, <2>7
  <1>2. IInv => StoredIsHeld
    BY <1>1 DEF StoredIsHeld, Answered, savers
  <1> QED BY <1>2, Invariant, PTL

(* The committee keeps the promise of a mailbox: nothing that enough        *)
(* parties hold goes before a reply with it was sent to a poll that it is   *)
(* addressed to, whatever is late, fails or is tried again; only a restart  *)
(* may lose it.                                                             *)
THEOREM CommitteeIsMailbox == Spec => ImplementsMailbox
  <1>1. IInv /\ [Next]_vars => [Box!BoxNext]_(Box!boxVars)
    BY BoxStep DEF IInv
  <1> QED BY <1>1, BoxStart, Invariant, PTL DEF Spec, ImplementsMailbox, Box!BoxSpec

=============================================================================
