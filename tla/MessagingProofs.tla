--------------------------- MODULE MessagingProofs ---------------------------
(***************************************************************************)
(* Theorems about Messaging, for any number of messages, emixes, dropboxes *)
(* and layers, any redundancy and any number of faults.                    *)
(*                                                                         *)
(* The argument: a copy leaves a place only for the next one, the hands of *)
(* the recipient, or with a server that died or a loss that is counted; a  *)
(* target of an attempt is a dropbox that no route of the entry leads to,  *)
(* so as many routes as the redundancy are as many dropboxes; and what is  *)
(* lost without a counted loss has a dead server on its route, because no  *)
(* server comes back.                                                      *)
(***************************************************************************)
EXTENDS Messaging, FiniteSetTheorems, SequenceTheorems, TLAPS

(* The routes of an entry are those of its own copies, one to a dropbox.   *)
RoutesAreOwn ==
    \A m \in Message : \A n \in routes_sent[m] :
        /\ posted[n].message = m
        /\ \A k \in routes_sent[m] : posted[n].target = posted[k].target => n = k

(* No target of the attempt is at the end of a route of the entry.         *)
TargetsAreNew ==
    \A n \in Posted : \A m \in Message :
        attempt.message = m /\ n \in routes_sent[m] => posted[n].target \notin attempt.targets

(* Complete entries have enough routes.                                    *)
CompleteHasRoutes ==
    \A m \in complete : Cardinality(routes_sent[m]) >= Redundancy

(* What is gone was lost by the network, or passed a server that died.     *)
LossHasCause ==
    \A n \in lost : losses > 0 \/ ~(Hops(n) \subseteq alive)

SendInv == RoutesAreOwn /\ TargetsAreNew /\ CompleteHasRoutes

-----------------------------------------------------------------------------
(***************************************************************************)
(* Type correctness.                                                       *)
(***************************************************************************)

(* The copies so far, and their servers.                                   *)
LEMMA PostedType ==
    ASSUME TypeOK
    PROVE  /\ Len(posted) \in Nat
           /\ Posted \subseteq Nat
           /\ \A n \in Posted :
                /\ posted[n] \in [message : Message, route : Route, target : Dropbox]
                /\ Hops(n) \subseteq Server
  <1> DEFINE R == [message : Message, route : Route, target : Dropbox]
  <1>1. posted \in Seq(R)
    BY DEF TypeOK
  <1>2. /\ Len(posted) \in Nat
        /\ \A n \in 1..Len(posted) : posted[n] \in R
    <2> HIDE DEF R
    <2> QED BY <1>1, ElementOfSeq, LenProperties
  <1>3. ASSUME NEW n \in Posted PROVE Hops(n) \subseteq Server
    <2>1. /\ posted[n].route \in [1..Layers -> Emix]
          /\ posted[n].target \in Dropbox
      BY <1>2 DEF Posted, Route
    <2> QED BY <2>1 DEF Hops, Server
  <1> QED BY <1>2, <1>3 DEF Posted

(* After a post there is one copy more, and the others are as they were.   *)
LEMMA PostAppends ==
    ASSUME TypeOK, NEW d \in attempt.targets, Post(d),
           attempt.message \in Message
    PROVE  LET n == Len(posted) + 1
           IN  /\ posted' \in Seq([message : Message, route : Route, target : Dropbox])
               /\ Posted' = Posted \cup {n}
               /\ n \in Nat /\ n \notin Posted
               /\ posted'[n].message = attempt.message /\ posted'[n].target = d
               /\ \A k \in Posted : posted'[k] = posted[k]
  <1>1. posted \in Seq([message : Message, route : Route, target : Dropbox]) /\ d \in Dropbox
    BY DEF TypeOK
  <1>2. PICK r \in Route :
            posted' = Append(posted, [message |-> attempt.message,
                                      route |-> r, target |-> d])
    BY DEF Post, find_route
  <1>3. [message |-> attempt.message, route |-> r, target |-> d]
            \in [message : Message, route : Route, target : Dropbox]
    BY <1>1
  <1> QED BY <1>1, <1>2, <1>3 DEF Posted

(* A target is taken from the attempt.                                     *)
LEMMA AttemptShrinks ==
    ASSUME TypeOK, NEW d \in attempt.targets, attempt.message \in Message
    PROVE  [attempt EXCEPT !.targets = @ \ {d}]
               \in [message : Message, targets : SUBSET Dropbox]
  <1>1. attempt \in [message : Message, targets : SUBSET Dropbox]
    BY DEF TypeOK
  <1> QED BY <1>1

LEMMA TypeInit == Init => TypeOK
  <1> SUFFICES ASSUME Init PROVE TypeOK
    OBVIOUS
  <1> USE MessagingAssumption
  <1>1. Posted = {}
    BY DEF Init, Posted
  <1> QED BY <1>1 DEF Init, TypeOK

(* The bound on faults bounds the false reports.                           *)
LEMMA FaultsAreCounted ==
    ASSUME TypeOK, Faults < MaxFaults
    PROVE  alarms + 1 \in 0..MaxFaults
  <1>1. IsFiniteSet(Server \ alive)
    <2>1. IsFiniteSet(Server)
      BY MessagingAssumption, FS_Union DEF Server
    <2> QED BY <2>1, FS_Subset
  <1>2. Cardinality(Server \ alive) \in Nat
    BY <1>1, FS_CardinalityType
  <1> QED BY <1>2, MessagingAssumption DEF Faults, TypeOK

LEMMA TypeStep == TypeOK /\ [Next]_vars => TypeOK'
  <1> SUFFICES ASSUME TypeOK, [Next]_vars PROVE TypeOK'
    OBVIOUS
  <1> USE MessagingAssumption
  <1>0. attempt.targets # {} => attempt.message \in Message
    BY DEF TypeOK
  <1>1. ASSUME NEW m \in Message, process_clear_text(m) PROVE TypeOK'
    BY <1>1 DEF TypeOK, process_clear_text, Posted, recipient
  <1>2. ASSUME NEW old \in SUBSET complete, BeginAttempt(old) PROVE TypeOK'
    <2>1. PICK m \in backlog \cup returning :
              /\ backlog' = (backlog \cup returning) \ {m}
              /\ routes_sent' = [k \in Message |->
                     IF k = m \/ k \in complete THEN valid_routes(k)
                     ELSE routes_sent[k]]
              /\ \E ds \in SUBSET targets(valid_routes(m)) :
                     attempt' = [message |-> m, targets |-> ds]
      BY <1>2 DEF BeginAttempt
    <2>2. /\ returning \subseteq Message /\ m \in Message
          /\ \A k \in Message : valid_routes(k) \subseteq routes_sent[k]
          /\ targets(valid_routes(m)) \subseteq Dropbox
      BY DEF returning, TypeOK, valid_routes, targets
    <2>3. attempt' \in [message : Message, targets : SUBSET Dropbox]
      BY <2>1, <2>2
    <2>4. routes_sent' \in [Message -> SUBSET Posted]
      BY <2>1, <2>2 DEF TypeOK
    <2> QED BY <1>2, <2>1, <2>2, <2>3, <2>4 DEF TypeOK, BeginAttempt, Posted, recipient
  <1>3. ASSUME NEW old \in SUBSET complete, CleanupOnly(old) PROVE TypeOK'
    <2>1. \A k \in Message : valid_routes(k) \subseteq routes_sent[k]
      BY DEF valid_routes
    <2>2. routes_sent' \in [Message -> SUBSET Posted]
      BY <1>3, <2>1 DEF TypeOK, CleanupOnly
    <2> QED BY <1>3, <2>2 DEF TypeOK, CleanupOnly, Posted, recipient
  <1>4. ASSUME NEW d \in attempt.targets, SkipTarget(d) PROVE TypeOK'
    <2>1. attempt' \in [message : Message, targets : SUBSET Dropbox]
      BY <1>4, <1>0, AttemptShrinks DEF SkipTarget
    <2>2. UNCHANGED <<alive, status, backlog, complete, safe, routes_sent, posted,
                      travelling, message_store, reading, received,
                      message_received, lost, alarms, losses>>
      BY <1>4 DEF SkipTarget, recipient
    <2> QED BY <2>1, <2>2 DEF TypeOK, Posted
  <1>5. ASSUME NEW d \in attempt.targets, Post(d), attempt.message \in Message
        PROVE  TypeOK'
    <2>1. /\ posted' \in Seq([message : Message, route : Route, target : Dropbox])
          /\ Posted' = Posted \cup {Len(posted) + 1}
      BY <1>5, PostAppends
    <2>2. routes_sent' \in [Message -> SUBSET Posted']
      BY <1>5, <2>1 DEF TypeOK, Post
    <2>3. travelling' \subseteq Posted' \X (1..(Layers + 1))
      BY <1>5, <2>1 DEF TypeOK, Post
    <2>4. attempt' \in [message : Message, targets : SUBSET Dropbox]
      BY <1>5, AttemptShrinks DEF Post
    <2> QED BY <1>5, <2>1, <2>2, <2>3, <2>4 DEF TypeOK, Post, recipient
  <1>6. ASSUME EndAttempt PROVE TypeOK'
    BY <1>6 DEF TypeOK, EndAttempt, Posted, recipient
  <1>7. ASSUME NEW s \in Server, process_nark(s) \/ process_ark(s) \/ Expire(s)
        PROVE  TypeOK'
    BY <1>7, FaultsAreCounted
       DEF TypeOK, process_nark, process_ark, Expire, log, Posted, recipient
  <1>8. ASSUME NEW n \in Posted, NEW i \in 1..(Layers + 1), mix_message(n, i)
        PROVE  TypeOK'
    <2>1. i + 1 \in 1..(Layers + 1)
      BY <1>8 DEF mix_message
    <2>2. travelling' \subseteq Posted \X (1..(Layers + 1))
      BY <1>8, <2>1 DEF TypeOK, mix_message
    <2> QED BY <1>8, <2>2 DEF TypeOK, mix_message, log, Posted, recipient
  <1>9. ASSUME NEW n \in Posted, write(n) PROVE TypeOK'
    BY <1>9 DEF TypeOK, write, log, Posted, recipient
  <1>10. ASSUME NEW n \in Posted, Reply(n) \/ ReplyTimesOut(n) PROVE TypeOK'
    <2>1. posted[n].message \in Message
      BY PostedType
    <2>2. process_message(n) \/ UNCHANGED recipient
      BY <1>10 DEF Reply, ReplyTimesOut
    <2>3. received' \subseteq Posted /\ message_received' \in [Message -> Nat]
      <3>1. CASE UNCHANGED recipient
        BY <3>1 DEF TypeOK, recipient
      <3>2. CASE process_message(n)
        <4>1. message_received[posted[n].message] + 1 \in Nat
          BY <2>1 DEF TypeOK
        <4> QED BY <2>1, <3>2, <4>1 DEF TypeOK, process_message
      <3> QED BY <2>2, <3>1, <3>2
    <2> QED BY <1>10, <2>3, SMTT(30) DEF TypeOK, Reply, ReplyTimesOut, log, Posted
  <1>11. ASSUME NEW d \in Dropbox, read_task(d) PROVE TypeOK'
    BY <1>11 DEF TypeOK, read_task, StoredAt, log, Posted, recipient
  <1>12. ASSUME NEW s \in Server, Die(s) PROVE TypeOK'
    BY <1>12 DEF TypeOK, Die, log, Posted, recipient
  <1>13. ASSUME NEW n \in Posted, LoseReply(n) PROVE TypeOK'
    BY <1>13 DEF TypeOK, LoseReply, log, Posted, recipient
  <1>14. ASSUME NEW n \in Posted, NEW i \in 1..(Layers + 1), Lose(n, i)
         PROVE  TypeOK'
    BY <1>14 DEF TypeOK, Lose, log, Posted, recipient
  <1>15. ASSUME UNCHANGED vars PROVE TypeOK'
    BY <1>15 DEF TypeOK, vars, log, recipient, Posted
  <1> QED BY <1>1, <1>2, <1>3, <1>4, <1>5, <1>6, <1>7, <1>8, <1>9, <1>10, <1>11,
             <1>12, <1>13, <1>14, <1>15, <1>0 DEF Next, Sender, Servers, Failures

-----------------------------------------------------------------------------
(***************************************************************************)
(* Copies.                                                                 *)
(***************************************************************************)

(* What moves no copy keeps them where they are.                           *)
LEMMA UntouchedCopies ==
    ASSUME CopyIsSomewhere,
           UNCHANGED <<posted, travelling, message_store, reading, received, lost>>
    PROVE  CopyIsSomewhere'
  BY DEF CopyIsSomewhere, Underway, Posted

LEMMA CopyStep == TypeOK /\ CopyIsSomewhere /\ [Next]_vars => CopyIsSomewhere'
  <1> SUFFICES ASSUME TypeOK, CopyIsSomewhere, [Next]_vars PROVE CopyIsSomewhere'
    OBVIOUS
  <1> USE MessagingAssumption
  <1>1. ASSUME NEW d \in attempt.targets, Post(d) PROVE CopyIsSomewhere'
    <2>0. PICK k : k = Len(posted) + 1
      OBVIOUS
    <2>1. Posted' = Posted \cup {k}
      BY <1>1, <2>0, PostAppends DEF TypeOK
    <2>2. <<k, 1>> \in travelling'
      BY <1>1, <2>0 DEF Post
    <2>3. Underway(k)'
      BY <2>2 DEF Underway
    <2>4. /\ travelling \subseteq travelling'
          /\ UNCHANGED <<message_store, reading, received, lost>>
      BY <1>1 DEF Post, recipient
    <2>5. \A n \in Posted : Underway(n)' \/ n \in received' \/ n \in lost'
      BY <2>4 DEF CopyIsSomewhere, Underway
    <2> QED BY <2>1, <2>3, <2>5 DEF CopyIsSomewhere
  <1>2. ASSUME NEW n \in Posted, NEW i \in 1..(Layers + 1), mix_message(n, i)
        PROVE  CopyIsSomewhere'
    <2>1. <<n, i + 1>> \in travelling' /\ i + 1 \in 1..(Layers + 1)
      BY <1>2 DEF mix_message
    <2>2. \A k \in Posted, j \in 1..(Layers + 1) :
              <<k, j>> \in travelling => <<k, j>> \in travelling' \/ k = n
      BY <1>2 DEF mix_message
    <2>3. UNCHANGED <<posted, message_store, reading, received, lost>>
      BY <1>2 DEF mix_message, log, recipient
    <2> QED BY <2>1, <2>2, <2>3 DEF CopyIsSomewhere, Underway, Posted
  <1>3. ASSUME NEW n \in Posted, write(n) PROVE CopyIsSomewhere'
    BY <1>3 DEF CopyIsSomewhere, Underway, Posted, write, log, recipient
  <1>4. ASSUME NEW n \in Posted, Reply(n) PROVE CopyIsSomewhere'
    BY <1>4 DEF CopyIsSomewhere, Underway, Posted, Reply, process_message, log
  <1>5. ASSUME NEW n \in Posted, ReplyTimesOut(n) PROVE CopyIsSomewhere'
    <2>1. received \subseteq received'
      BY <1>5 DEF ReplyTimesOut, process_message, recipient
    <2> QED BY <1>5, <2>1 DEF CopyIsSomewhere, Underway, Posted, ReplyTimesOut, log
  <1>6. ASSUME NEW d \in Dropbox, read_task(d) PROVE CopyIsSomewhere'
    BY <1>6 DEF CopyIsSomewhere, Underway, Posted, read_task, log, recipient
  <1>7. ASSUME NEW s \in Server, Die(s) PROVE CopyIsSomewhere'
    BY <1>7 DEF CopyIsSomewhere, Underway, Posted, Die, log, recipient
  <1>8. ASSUME NEW n \in Posted, LoseReply(n) PROVE CopyIsSomewhere'
    BY <1>8 DEF CopyIsSomewhere, Underway, Posted, LoseReply, log, recipient
  <1>9. ASSUME NEW n \in Posted, NEW i \in 1..(Layers + 1), Lose(n, i)
        PROVE  CopyIsSomewhere'
    <2>1. \A k \in Posted, j \in 1..(Layers + 1) :
              <<k, j>> \in travelling => <<k, j>> \in travelling' \/ k = n
      BY <1>9 DEF Lose
    <2>2. /\ n \in lost' /\ lost \subseteq lost'
          /\ UNCHANGED <<posted, message_store, reading, received>>
      BY <1>9 DEF Lose, log, recipient
    <2> QED BY <2>1, <2>2 DEF CopyIsSomewhere, Underway, Posted
  <1>10. ASSUME \/ \E m \in Message : process_clear_text(m)
                \/ \E old \in SUBSET complete : BeginAttempt(old) \/ CleanupOnly(old)
                \/ \E d \in attempt.targets : SkipTarget(d)
                \/ EndAttempt
                \/ \E s \in Server : process_nark(s) \/ process_ark(s) \/ Expire(s)
                \/ UNCHANGED vars
         PROVE  CopyIsSomewhere'
    BY <1>10, UntouchedCopies
       DEF process_clear_text, BeginAttempt, CleanupOnly, SkipTarget, EndAttempt,
           process_nark, process_ark, Expire, vars, log, recipient
  <1> QED BY <1>1, <1>2, <1>3, <1>4, <1>5, <1>6, <1>7, <1>8, <1>9, <1>10
          DEF Next, Sender, Servers, Failures

(* No server comes back, and no loss is forgotten.                         *)
LEMMA FaultsLast ==
    ASSUME TypeOK, [Next]_vars
    PROVE  alive' \subseteq alive /\ losses' >= losses
  <1>1. losses \in Nat
    BY MessagingAssumption DEF TypeOK
  <1>2. ASSUME NEW s \in Server, Die(s) PROVE alive' \subseteq alive /\ losses' = losses
    BY <1>2 DEF Die
  <1>3. ASSUME NEW n \in Posted,
               LoseReply(n) \/ \E i \in 1..(Layers + 1) : Lose(n, i)
        PROVE  alive' = alive /\ losses' \in {losses, losses + 1}
    BY <1>3 DEF LoseReply, Lose
  <1>4. ASSUME Sender \/ Servers \/ UNCHANGED vars
        PROVE  alive' = alive /\ losses' = losses
    BY <1>4 DEF Sender, Servers, process_clear_text, BeginAttempt, CleanupOnly,
           SkipTarget, Post, EndAttempt, process_nark, process_ark, Expire,
           mix_message, write, Reply, ReplyTimesOut, read_task, vars
  <1> QED BY <1>1, <1>2, <1>3, <1>4 DEF Next, Failures

(* A copy that goes missing was lost by the network, or with a server.     *)
LEMMA LostNow ==
    ASSUME TypeOK, [Next]_vars, NEW n \in lost', n \notin lost
    PROVE  n \in Posted /\ (losses' > 0 \/ ~(Hops(n) \subseteq alive'))
  <1> USE MessagingAssumption
  <1>1. ASSUME NEW s \in Server, Die(s)
        PROVE  n \in Posted /\ ~(Hops(n) \subseteq alive')
    BY <1>1 DEF Die, Hops, TypeOK
  <1>2. ASSUME NEW k \in Posted, LoseReply(k)
        PROVE  n \in Posted /\ losses' > 0
    BY <1>2 DEF LoseReply, TypeOK
  <1>3. ASSUME NEW k \in Posted, NEW i \in 1..(Layers + 1), Lose(k, i)
        PROVE  n \in Posted /\ (losses' > 0 \/ ~(Hops(n) \subseteq alive'))
    <2>1. n = k /\ alive' = alive
      BY <1>3 DEF Lose
    <2>2. CASE {Hop(k, j) : j \in {i - 1, i} \ {0}} \subseteq alive
      BY <1>3, <2>1, <2>2 DEF Lose, TypeOK
    <2>3. CASE ~({Hop(k, j) : j \in {i - 1, i} \ {0}} \subseteq alive)
      <3>1. PICK j \in {i - 1, i} \ {0} : Hop(k, j) \notin alive
        BY <2>3
      <3>2. Hop(k, j) \in Hops(k)
        BY DEF Hop, Hops
      <3> QED BY <2>1, <3>1, <3>2
    <2> QED BY <2>2, <2>3
  <1>4. ASSUME Sender \/ Servers \/ UNCHANGED vars PROVE lost' = lost
    BY <1>4 DEF Sender, Servers, process_clear_text, BeginAttempt, CleanupOnly,
           SkipTarget, Post, EndAttempt, process_nark, process_ark, Expire,
           mix_message, write, Reply, ReplyTimesOut, read_task, vars
  <1> QED BY <1>1, <1>2, <1>3, <1>4 DEF Next, Failures

(* The routes of the copies stay as they are.                              *)
LEMMA RoutesStay ==
    ASSUME TypeOK, [Next]_vars, NEW n \in Posted
    PROVE  n \in Posted' /\ posted'[n] = posted[n] /\ Hops(n)' = Hops(n)
  <1>1. CASE UNCHANGED posted
    BY <1>1 DEF Posted, Hops
  <1>2. ASSUME NEW d \in attempt.targets, Post(d)
        PROVE  n \in Posted' /\ posted'[n] = posted[n]
    BY <1>2, PostAppends DEF TypeOK
  <1>3. UNCHANGED posted \/ \E d \in attempt.targets : Post(d)
    BY DEF Next, Sender, Servers, Failures, process_clear_text, BeginAttempt,
           CleanupOnly, SkipTarget, EndAttempt, process_nark, process_ark, Expire,
           mix_message, write, Reply, ReplyTimesOut, read_task, Die, LoseReply,
           Lose, vars, log
  <1> QED BY <1>1, <1>2, <1>3 DEF Hops

LEMMA LossStep == TypeOK /\ LossHasCause /\ [Next]_vars => LossHasCause'
  <1> SUFFICES ASSUME TypeOK, LossHasCause, [Next]_vars, NEW n \in lost'
               PROVE  (losses > 0 \/ ~(Hops(n) \subseteq alive))'
    BY DEF LossHasCause
  <1>1. alive' \subseteq alive /\ losses' >= losses /\ losses \in Nat /\ losses' \in Nat
    BY FaultsLast, TypeStep, MessagingAssumption, SMTT(30) DEF TypeOK
  <1>2. n \in Posted /\ (losses' > 0 \/ ~(Hops(n) \subseteq alive'))
    <2>1. CASE n \in lost
      BY <1>1, <2>1 DEF LossHasCause, TypeOK
    <2>2. CASE n \notin lost
      BY <2>2, LostNow
    <2> QED BY <2>1, <2>2
  <1>3. Hops(n)' = Hops(n)
    BY <1>2, RoutesStay
  <1> QED BY <1>2, <1>3

-----------------------------------------------------------------------------
(***************************************************************************)
(* The send log.                                                           *)
(***************************************************************************)

(* Routes are finitely many, also those of them that are left.             *)
LEMMA RoutesAreFinite ==
    ASSUME TypeOK, NEW m \in Message
    PROVE  /\ routes_sent[m] \subseteq Posted
           /\ valid_routes(m) \subseteq routes_sent[m]
           /\ IsFiniteSet(routes_sent[m])
           /\ Cardinality(routes_sent[m]) \in Nat
           /\ Cardinality(valid_routes(m)) \in Nat
  <1>1. routes_sent[m] \subseteq Posted /\ valid_routes(m) \subseteq routes_sent[m]
    BY DEF TypeOK, valid_routes
  <1>2. IsFiniteSet(Posted)
    BY PostedType, FS_Interval DEF Posted
  <1>3. IsFiniteSet(routes_sent[m]) /\ IsFiniteSet(valid_routes(m))
    BY <1>1, <1>2, FS_Subset
  <1> QED BY <1>1, <1>3, FS_CardinalityType

LEMMA SendInit == Init => SendInv
  BY MessagingAssumption
     DEF Init, SendInv, RoutesAreOwn, TargetsAreNew, CompleteHasRoutes, Posted

LEMMA BeginKeeps ==
    ASSUME TypeOK, SendInv, NEW old \in SUBSET complete, BeginAttempt(old)
    PROVE  SendInv'
  <1> USE MessagingAssumption
  <1>1. PICK m \in backlog \cup returning :
            /\ routes_sent' = [k \in Message |->
                   IF k = m \/ k \in complete THEN valid_routes(k)
                   ELSE routes_sent[k]]
            /\ \E ds \in SUBSET targets(valid_routes(m)) :
                   attempt' = [message |-> m, targets |-> ds]
    BY DEF BeginAttempt
  <1>2. m \in Message
    BY DEF returning, TypeOK
  <1>3. /\ \A k \in Message : routes_sent'[k] \subseteq routes_sent[k]
        /\ routes_sent'[m] = valid_routes(m)
    BY <1>1, <1>2, RoutesAreFinite
  <1>4. UNCHANGED posted
    BY DEF BeginAttempt
  <1>5. RoutesAreOwn'
    BY <1>3, <1>4 DEF SendInv, RoutesAreOwn
  <1>6. TargetsAreNew'
    BY <1>1, <1>3, <1>4 DEF TargetsAreNew, targets, sent_to, Posted
  <1>7. CompleteHasRoutes'
    <2> SUFFICES ASSUME NEW k \in complete'
                 PROVE  Cardinality(routes_sent'[k]) >= Redundancy
      BY DEF CompleteHasRoutes
    <2>1. k \in complete /\ k \notin returning /\ k \in Message
      BY DEF BeginAttempt, TypeOK
    <2>2. routes_sent'[k] = valid_routes(k)
      BY <1>1, <2>1
    <2>3. Cardinality(valid_routes(k)) \in Nat
      BY <2>1, RoutesAreFinite
    <2>4. ~(Cardinality(valid_routes(k)) < Redundancy)
      BY <2>1 DEF returning
    <2> QED BY <2>2, <2>3, <2>4
  <1> QED BY <1>5, <1>6, <1>7 DEF SendInv

LEMMA CleanupKeeps ==
    ASSUME TypeOK, SendInv, NEW old \in SUBSET complete, CleanupOnly(old)
    PROVE  SendInv'
  <1> USE MessagingAssumption
  <1>1. \A k \in Message :
            /\ routes_sent'[k] \subseteq routes_sent[k]
            /\ k \in complete => routes_sent'[k] = valid_routes(k)
    BY RoutesAreFinite DEF CleanupOnly
  <1>2. UNCHANGED <<posted, attempt>> /\ attempt.message = None
    BY DEF CleanupOnly
  <1>3. RoutesAreOwn'
    BY <1>1, <1>2 DEF SendInv, RoutesAreOwn
  <1>4. TargetsAreNew'
    BY <1>2 DEF TargetsAreNew
  <1>5. CompleteHasRoutes'
    <2> SUFFICES ASSUME NEW k \in complete'
                 PROVE  Cardinality(routes_sent'[k]) >= Redundancy
      BY DEF CompleteHasRoutes
    <2>1. k \in complete /\ k \notin returning /\ k \in Message
      BY DEF CleanupOnly, TypeOK
    <2>2. Cardinality(valid_routes(k)) \in Nat
      BY <2>1, RoutesAreFinite
    <2>3. ~(Cardinality(valid_routes(k)) < Redundancy)
      BY <2>1 DEF returning
    <2> QED BY <1>1, <2>1, <2>2, <2>3
  <1> QED BY <1>3, <1>4, <1>5 DEF SendInv

LEMMA PostKeeps ==
    ASSUME TypeOK, SendInv, NEW d \in attempt.targets, Post(d)
    PROVE  SendInv'
  <1> USE MessagingAssumption
  <1>1. PICK c : c = Len(posted) + 1
    OBVIOUS
  <1>2. attempt.message \in Message
    BY DEF TypeOK
  <1>3. /\ Posted' = Posted \cup {c} /\ c \notin Posted
        /\ posted'[c].message = attempt.message /\ posted'[c].target = d
        /\ \A k \in Posted : posted'[k] = posted[k]
    BY <1>1, <1>2, PostAppends
  <1>4. /\ \A k \in Message \ {attempt.message} : routes_sent'[k] = routes_sent[k]
        /\ routes_sent'[attempt.message] = routes_sent[attempt.message] \cup {c}
    BY <1>1, <1>2 DEF Post, TypeOK
  <1>5. /\ attempt'.message = attempt.message
        /\ attempt'.targets = attempt.targets \ {d}
        /\ complete' = complete
    BY DEF Post, TypeOK
  <1>6. \A k \in Message : routes_sent[k] \subseteq Posted
    BY RoutesAreFinite
  <1>7. \A n \in routes_sent[attempt.message] : posted[n].target # d
    BY <1>2, <1>6 DEF SendInv, TargetsAreNew
  <1>8. RoutesAreOwn'
    <2> SUFFICES ASSUME NEW m \in Message, NEW n \in routes_sent'[m]
                 PROVE  /\ posted'[n].message = m
                        /\ \A k \in routes_sent'[m] :
                               posted'[n].target = posted'[k].target => n = k
      BY DEF RoutesAreOwn
    <2>1. CASE m # attempt.message
      BY <1>3, <1>4, <1>6, <2>1 DEF SendInv, RoutesAreOwn
    <2>2. CASE m = attempt.message
      <3>1. CASE n = c
        BY <1>3, <1>4, <1>6, <1>7, <2>2, <3>1
      <3>2. CASE n # c
        BY <1>3, <1>4, <1>6, <1>7, <2>2, <3>2 DEF SendInv, RoutesAreOwn
      <3> QED BY <3>1, <3>2
    <2> QED BY <2>1, <2>2
  <1>9. TargetsAreNew'
    BY <1>3, <1>4, <1>5, <1>6 DEF SendInv, TargetsAreNew
  <1>10. CompleteHasRoutes'
    <2> SUFFICES ASSUME NEW m \in complete
                 PROVE  Cardinality(routes_sent'[m]) >= Redundancy
      BY <1>5 DEF CompleteHasRoutes
    <2>1. /\ m \in Message
          /\ Cardinality(routes_sent[m]) >= Redundancy
      BY DEF TypeOK, SendInv, CompleteHasRoutes
    <2>2. CASE m = attempt.message
      <3>1. /\ IsFiniteSet(routes_sent[m]) /\ Cardinality(routes_sent[m]) \in Nat
            /\ c \notin routes_sent[m]
        BY <1>3, <2>1, RoutesAreFinite
      <3>2. Cardinality(routes_sent'[m]) = Cardinality(routes_sent[m]) + 1
        BY <1>4, <2>2, <3>1, FS_AddElement
      <3> QED BY <2>1, <3>1, <3>2
    <2> QED BY <1>4, <2>1, <2>2
  <1> QED BY <1>8, <1>9, <1>10 DEF SendInv

LEMMA SendStep == TypeOK /\ SendInv /\ [Next]_vars => SendInv'
  <1> SUFFICES ASSUME TypeOK, SendInv, [Next]_vars PROVE SendInv'
    OBVIOUS
  <1> USE MessagingAssumption
  <1>1. ASSUME NEW d \in attempt.targets, SkipTarget(d) PROVE SendInv'
    <2>1. /\ attempt'.message = attempt.message
          /\ attempt'.targets = attempt.targets \ {d}
      BY <1>1 DEF SkipTarget, TypeOK
    <2> QED BY <1>1, <2>1
            DEF SkipTarget, SendInv, RoutesAreOwn, TargetsAreNew, CompleteHasRoutes, Posted
  <1>2. ASSUME EndAttempt PROVE SendInv'
    <2>1. /\ attempt'.message = None
          /\ UNCHANGED <<routes_sent, posted>>
          /\ \A m \in complete' :
                 m \in complete \/ Cardinality(routes_sent[m]) >= Redundancy
      BY <1>2 DEF EndAttempt
    <2> QED BY <2>1 DEF SendInv, RoutesAreOwn, TargetsAreNew, CompleteHasRoutes
  <1>3. ASSUME UNCHANGED <<posted, complete, attempt, routes_sent>> PROVE SendInv'
    BY <1>3 DEF SendInv, RoutesAreOwn, TargetsAreNew, CompleteHasRoutes, Posted
  <1>4. ASSUME \/ \E m \in Message : process_clear_text(m)
               \/ \E s \in Server : process_nark(s) \/ process_ark(s) \/ Expire(s)
               \/ Servers \/ Failures \/ UNCHANGED vars
        PROVE  UNCHANGED <<posted, complete, attempt, routes_sent>>
    BY <1>4 DEF process_clear_text, process_nark, process_ark, Expire, Servers, Failures,
           mix_message, write, Reply, ReplyTimesOut, read_task, Die, LoseReply,
           Lose, vars, log
  <1> QED BY <1>1, <1>2, <1>3, <1>4, BeginKeeps, CleanupKeeps, PostKeeps
          DEF Next, Sender

-----------------------------------------------------------------------------
(***************************************************************************)
(* The theorems.                                                           *)
(***************************************************************************)

(* As many routes as dropboxes at their ends.                              *)
LEMMA OneDropboxEach ==
    ASSUME TypeOK, SendInv, NEW m \in Message
    PROVE  Cardinality(sent_to(routes_sent[m])) = Cardinality(routes_sent[m])
  <1> DEFINE f == [n \in routes_sent[m] |-> posted[n].target]
             D == sent_to(routes_sent[m])
  <1>1. f \in Bijection(routes_sent[m], D)
    BY DEF SendInv, RoutesAreOwn, sent_to, Bijection, Injection, Surjection, IsInjective
  <1>2. ExistsBijection(routes_sent[m], D)
    BY <1>1 DEF ExistsBijection
  <1> QED BY <1>2, RoutesAreFinite, FS_Bijection

LEMMA SpreadFollows ==
    TypeOK /\ CopyIsSomewhere /\ LossHasCause /\ SendInv => CompleteIsSpread
  <1> SUFFICES ASSUME TypeOK, CopyIsSomewhere, LossHasCause, SendInv,
                      NEW m \in complete, losses = 0
               PROVE  Redundancy <= Cardinality(sent_to({n \in routes_sent[m] :
                          /\ posted[n].message = m
                          /\ Underway(n) \/ n \in received \/ ~(Hops(n) \subseteq alive)}))
    BY DEF CompleteIsSpread
  <1>1. m \in Message
    BY DEF TypeOK
  <1>2. \A n \in routes_sent[m] :
            /\ posted[n].message = m
            /\ Underway(n) \/ n \in received \/ ~(Hops(n) \subseteq alive)
    BY <1>1, RoutesAreFinite
       DEF CopyIsSomewhere, LossHasCause, SendInv, RoutesAreOwn
  <1>3. {n \in routes_sent[m] :
            /\ posted[n].message = m
            /\ Underway(n) \/ n \in received \/ ~(Hops(n) \subseteq alive)}
        = routes_sent[m]
    BY <1>2
  <1>4. Cardinality(routes_sent[m]) >= Redundancy
    BY DEF SendInv, CompleteHasRoutes
  <1>5. Cardinality(routes_sent[m]) \in Nat
    BY <1>1, RoutesAreFinite
  <1> QED BY <1>1, <1>3, <1>4, <1>5, OneDropboxEach, MessagingAssumption

(* Every reachable state is well typed (the variables of Messaging).       *)
THEOREM TypeCorrect == Spec => []TypeOK
  <1> QED BY TypeInit, TypeStep, PTL DEF Spec

(* read_task and its replies mislay no copy: each that was posted reached  *)
(* the recipient, is underway, or was lost with a server or by the network.*)
THEOREM CopiesAreSomewhere == Spec => []CopyIsSomewhere
  <1>1. Init => CopyIsSomewhere
    BY DEF Init, CopyIsSomewhere, Posted
  <1> QED BY <1>1, CopyStep, TypeCorrect, PTL DEF Spec

(* A complete entry of the send log has as many copies as the redundancy   *)
(* asks for, in different dropboxes, but for what faults took.             *)
THEOREM CompleteMeansSpread == Spec => []CompleteIsSpread
  <1>1. Init => LossHasCause
    BY DEF Init, LossHasCause
  <1> QED BY <1>1, SendInit, LossStep, SendStep, SpreadFollows, TypeCorrect,
             CopiesAreSomewhere, PTL DEF Spec

(* The user sees a message once, whatever copies and late replies come     *)
(* (process_encrypted_user_message).                                       *)
THEOREM ShownOnce == Spec => []ReceivedOnce
  <1>1. Init => ReceivedOnce
    BY DEF Init, ReceivedOnce
  <1>2. TypeOK /\ ReceivedOnce /\ [Next]_vars => ReceivedOnce'
    <2> SUFFICES ASSUME TypeOK, ReceivedOnce, [Next]_vars PROVE ReceivedOnce'
      OBVIOUS
    <2>1. ASSUME NEW n \in Posted, process_message(n) PROVE ReceivedOnce'
      BY <2>1 DEF process_message, ReceivedOnce, is_msg_new, TypeOK
    <2>2. CASE UNCHANGED message_received
      BY <2>2 DEF ReceivedOnce
    <2>3. \/ UNCHANGED message_received
          \/ \E n \in Posted : process_message(n)
      BY DEF Next, Sender, Servers, Failures, process_clear_text, BeginAttempt,
             CleanupOnly, SkipTarget, Post, EndAttempt, process_nark, process_ark,
             Expire, mix_message, write, Reply, ReplyTimesOut, read_task, Die,
             LoseReply, Lose, vars, recipient
    <2> QED BY <2>1, <2>2, <2>3
  <1> QED BY <1>1, <1>2, TypeCorrect, PTL DEF Spec

=============================================================================
