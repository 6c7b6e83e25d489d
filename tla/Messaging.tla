------------------------------ MODULE Messaging ------------------------------
(***************************************************************************)
(* A user message from a sending client to its recipient: the send log,    *)
(* which posts copies over routes of emixes to several dropboxes and posts *)
(* again when it learns that a server on a route is dead; the emixes; the  *)
(* simple dropbox, whose polls take all messages out of the store and put  *)
(* back what they could not send; and the recipient, which drops repeats.  *)
(* client/send_log.py, client.py, routing.py, server_db.py, roles/emix.py, *)
(* roles/dropbox.py.                                                       *)
(*                                                                         *)
(* A copy is known by its number: every post encrypts the message anew.    *)
(* The recipient's polls, the network between servers and the reports of   *)
(* servers that died are environment.  Channels are left out: there is one *)
(* that everybody can use.                                                 *)
(***************************************************************************)
EXTENDS Naturals, Sequences, FiniteSets

CONSTANTS
    Message,        \* messages from the sender to the recipient
    Emix,
    Dropbox,        \* the dropboxes of the recipient
    Layers,         \* onion_layers
    Redundancy,     \* dropbox_send_redundancy
    Retains,        \* TRUE when client_retain_message_sec never pass
    MaxPosts,       \* bound on posts
    MaxFaults,      \* bound on servers that stop and reports that one that
                    \* lives is dead
    MaxLosses,      \* bound on copies that the network loses
    None            \* no message

Server == Emix \cup Dropbox
Copy == 1..MaxPosts
Route == {r \in [1..Layers -> Emix] : \A i, j \in 1..Layers : r[i] = r[j] => i = j}

ASSUME MessagingAssumption ==
    /\ Emix \cap Dropbox = {}
    /\ IsFiniteSet(Emix) /\ IsFiniteSet(Dropbox)
    /\ Layers \in Nat \ {0} /\ Redundancy \in Nat \ {0} /\ MaxPosts \in Nat
    /\ Retains \in BOOLEAN
    /\ MaxFaults \in Nat /\ MaxLosses \in Nat
    /\ None \notin Message

VARIABLES
    alive,              \* servers that run
    status,             \* what the sender's server_db says of them
    backlog, complete,  \* the send log
    attempt,            \* the entry being sent and the targets left to try
    routes_sent,        \* copies of an entry on routes not known as dead
    safe,               \* messages whose entry was dropped
    posted,             \* the copies, in the order of their posts
    travelling,         \* <<n, i>>: copy n is on its way to hop i of its route
    message_store,      \* copies in the store of their dropbox
    reading,            \* copies a read_task has taken and not yet answered
    received,           \* copies that reached the recipient
    message_received,   \* how often a message was shown to the user
    lost,               \* copies that are gone: their dropbox or a hop died,
                        \* or the network lost them
    alarms, losses      \* counters for the bounds

log == <<backlog, complete, attempt, routes_sent, safe>>
recipient == <<received, message_received>>
vars == <<alive, status, log, posted, travelling, message_store, reading,
          recipient, lost, alarms, losses>>

Posted == 1..Len(posted)
Hops(n) == {posted[n].route[i] : i \in 1..Layers} \cup {posted[n].target}
\* The next server of copy n on its way to hop i: the dropbox is the last.
Hop(n, i) == IF i \in 1..Layers THEN posted[n].route[i] ELSE posted[n].target

----------------------------------------------------------------------------

Init ==
    /\ alive = Server
    /\ status = [s \in Server |-> "alive"]
    /\ backlog = {} /\ complete = {} /\ safe = {}
    /\ attempt = [message |-> None, targets |-> {}]
    /\ routes_sent = [m \in Message |-> {}]
    /\ posted = <<>>
    /\ travelling = {} /\ message_store = {} /\ reading = {}
    /\ received = {} /\ message_received = [m \in Message |-> 0]
    /\ lost = {}
    /\ alarms = 0 /\ losses = 0

Accepted(m) == m \in backlog \cup complete \cup safe \/ attempt.message = m

\* The user sends a message.
process_clear_text(m) ==
    /\ ~Accepted(m)
    /\ backlog' = backlog \cup {m}
    /\ UNCHANGED <<alive, status, complete, attempt, routes_sent, safe, posted,
                   travelling, message_store, reading, recipient, lost, alarms,
                   losses>>

----------------------------------------------------------------------------
(***************************************************************************)
(* The sender: send_task.                                                  *)
(***************************************************************************)

can_reach(s) == status[s] = "alive"

is_dead(n) == \E s \in Hops(n) : ~can_reach(s)

\* The routes of an entry after invalidate_routes.
valid_routes(m) == {n \in routes_sent[m] : ~is_dead(n)}

sent_to(ns) == {posted[n].target : n \in ns}

\* Mutant: dropboxes that have the message are candidates again.
mut_AnyDropbox(ns) == {d \in Dropbox : status[d] # "expired"}

\* The dropboxes for the recipient that no route of the entry leads to.
targets(ns) == {d \in Dropbox : status[d] # "expired"} \ sent_to(ns)

\* Mutant: the entries that are complete are not looked at again.
mut_NoCleanup == {}

\* Complete entries that a dead server has made incomplete.
returning == {m \in complete : Cardinality(valid_routes(m)) < Redundancy}

\* SendLog.attempt up to its yield, and the choice of targets: the entries
\* that are complete are looked at again, some of them are old enough to be
\* dropped, and the next entry of the backlog is taken up.
BeginAttempt(old) ==
    /\ attempt.message = None
    /\ old \subseteq complete \ returning
    /\ old # {} => ~Retains
    /\ safe' = safe \cup old
    /\ complete' = complete \ (returning \cup old)
    /\ \E m \in backlog \cup returning :
           /\ backlog' = (backlog \cup returning) \ {m}
           /\ routes_sent' = [k \in Message |->
                  IF k = m \/ k \in complete THEN valid_routes(k)
                  ELSE routes_sent[k]]
           /\ \E ds \in SUBSET targets(valid_routes(m)) :
                  /\ \/ ds = targets(valid_routes(m))
                     \/ Cardinality(ds) = Redundancy - Cardinality(valid_routes(m))
                  /\ Cardinality(ds) <= Redundancy - Cardinality(valid_routes(m))
                  /\ attempt' = [message |-> m, targets |-> ds]
    /\ UNCHANGED <<alive, status, posted, travelling, message_store, reading,
                   recipient, lost, alarms, losses>>

\* The entries in complete are old enough while the backlog is empty.
CleanupOnly(old) ==
    /\ attempt.message = None /\ backlog = {} /\ returning = {}
    /\ old # {} /\ old \subseteq complete /\ ~Retains
    /\ safe' = safe \cup old
    /\ complete' = complete \ old
    /\ routes_sent' = [k \in Message |->
           IF k \in complete THEN valid_routes(k) ELSE routes_sent[k]]
    /\ UNCHANGED <<alive, status, backlog, attempt, posted, travelling,
                   message_store, reading, recipient, lost, alarms, losses>>

\* Where a route may start: an emix that no route of the entry starts at, if
\* there is one.
find_start ==
    LET pool == {e \in Emix : can_reach(e)}
        used == {posted[n].route[1] : n \in routes_sent[attempt.message]}
    IN  IF pool \subseteq used THEN pool ELSE pool \ used

find_route(d) ==
    {r \in Route : /\ can_reach(d)
                   /\ r[1] \in find_start
                   /\ \A i \in 1..Layers : can_reach(r[i])}

\* A target to which no route is found, or the post over the route fails.
SkipTarget(d) ==
    /\ d \in attempt.targets
    /\ attempt' = [attempt EXCEPT !.targets = @ \ {d}]
    /\ UNCHANGED <<alive, status, backlog, complete, routes_sent, safe, posted,
                   travelling, message_store, reading, recipient, lost, alarms,
                   losses>>

\* post_message: the copy leaves, and the entry remembers the route.
Post(d) ==
    /\ d \in attempt.targets /\ Len(posted) < MaxPosts
    /\ \E r \in find_route(d) :
           posted' = Append(posted, [message |-> attempt.message,
                                     route |-> r, target |-> d])
    /\ travelling' = travelling \cup {<<Len(posted) + 1, 1>>}
    /\ routes_sent' = [routes_sent EXCEPT ![attempt.message] = @ \cup {Len(posted) + 1}]
    /\ attempt' = [attempt EXCEPT !.targets = @ \ {d}]
    /\ UNCHANGED <<alive, status, backlog, complete, safe, message_store,
                   reading, recipient, lost, alarms, losses>>

EndAttempt ==
    /\ attempt.message # None /\ attempt.targets = {}
    /\ IF Cardinality(routes_sent[attempt.message]) >= Redundancy
       THEN complete' = complete \cup {attempt.message} /\ UNCHANGED backlog
       ELSE backlog' = backlog \cup {attempt.message} /\ UNCHANGED complete
    /\ attempt' = [message |-> None, targets |-> {}]
    /\ UNCHANGED <<alive, status, routes_sent, safe, posted, travelling,
                   message_store, reading, recipient, lost, alarms, losses>>

----------------------------------------------------------------------------
(***************************************************************************)
(* What the sender hears of the servers: process_nark, process_ark, and    *)
(* ARKs that run out.                                                      *)
(***************************************************************************)

Faults == Cardinality(Server \ alive) + alarms

process_nark(s) ==
    /\ status[s] = "alive"
    /\ s \in alive => Faults < MaxFaults
    /\ alarms' = IF s \in alive THEN alarms + 1 ELSE alarms
    /\ status' = [status EXCEPT ![s] = "dead"]
    /\ UNCHANGED <<alive, log, posted, travelling, message_store, reading,
                   recipient, lost, losses>>

process_ark(s) ==
    /\ status[s] = "dead" /\ s \in alive
    /\ status' = [status EXCEPT ![s] = "alive"]
    /\ UNCHANGED <<alive, log, posted, travelling, message_store, reading,
                   recipient, lost, alarms, losses>>

Expire(s) ==
    /\ status[s] # "expired" /\ s \notin alive
    /\ status' = [status EXCEPT ![s] = "expired"]
    /\ UNCHANGED <<alive, log, posted, travelling, message_store, reading,
                   recipient, lost, alarms, losses>>

----------------------------------------------------------------------------
(***************************************************************************)
(* The emixes and the dropboxes.                                           *)
(***************************************************************************)

\* Mutant: what has come to its dropbox is sent on, too.
mut_NoLastHop(n, i) ==
    /\ <<n, i>> \in travelling /\ Hop(n, i) \in alive
    /\ travelling' = (travelling \ {<<n, i>>}) \cup {<<n, i + 1>>}
    /\ UNCHANGED <<alive, status, log, posted, message_store, reading,
                   recipient, lost, alarms, losses>>

\* mix_message: router.send queues the copy for the next hop and returns; the
\* routers try until it is over.
mix_message(n, i) ==
    /\ <<n, i>> \in travelling /\ i <= Layers /\ Hop(n, i) \in alive
    /\ travelling' = (travelling \ {<<n, i>>}) \cup {<<n, i + 1>>}
    /\ UNCHANGED <<alive, status, log, posted, message_store, reading,
                   recipient, lost, alarms, losses>>

write(n) ==
    /\ <<n, Layers + 1>> \in travelling /\ Hop(n, Layers + 1) \in alive
    /\ travelling' = travelling \ {<<n, Layers + 1>>}
    /\ message_store' = message_store \cup {n}
    /\ UNCHANGED <<alive, status, log, posted, reading, recipient, lost, alarms,
                   losses>>

StoredAt(d) == {n \in message_store : posted[n].target = d}

\* A poll of the recipient takes all its messages out of the store.
read_task(d) ==
    /\ d \in alive /\ StoredAt(d) # {}
    /\ message_store' = message_store \ StoredAt(d)
    /\ reading' = reading \cup StoredAt(d)
    /\ UNCHANGED <<alive, status, log, posted, travelling, recipient, lost,
                   alarms, losses>>

\* Mutant: every copy is shown.
mut_ShowAll(m) == TRUE

\* outgoing_dedupe: the nonce of the message has not been seen.
is_msg_new(m) == message_received[m] = 0

\* The recipient gets the copy: process_message drops what it has had already,
\* process_encrypted_user_message repeats of a message.
process_message(n) ==
    LET m == posted[n].message
    IN  /\ received' = received \cup {n}
        /\ message_received' =
               IF n \notin received /\ is_msg_new(m)
               THEN [message_received EXCEPT ![m] = @ + 1] ELSE message_received

\* reply_to_client has sent the message.
Reply(n) ==
    /\ n \in reading
    /\ reading' = reading \ {n}
    /\ process_message(n)
    /\ UNCHANGED <<alive, status, log, posted, travelling, message_store, lost,
                   alarms, losses>>

\* Mutant: what could not be sent is not stored again.
mut_NotRestored(n) ==
    /\ n \in reading
    /\ reading' = reading \ {n}
    /\ process_message(n) \/ UNCHANGED recipient
    /\ UNCHANGED <<alive, status, log, posted, travelling, message_store, lost,
                   alarms, losses>>

\* The reply has not been sent when db_reply_timeout is over.  The router
\* keeps the envelope and may send it all the same.
ReplyTimesOut(n) ==
    /\ n \in reading
    /\ reading' = reading \ {n}
    /\ message_store' = message_store \cup {n}
    /\ process_message(n) \/ UNCHANGED recipient
    /\ UNCHANGED <<alive, status, log, posted, travelling, lost, alarms,
                   losses>>

----------------------------------------------------------------------------
(***************************************************************************)
(* Faults.                                                                 *)
(***************************************************************************)

\* A server stops; a dropbox loses what it holds, which is only in memory.
Die(s) ==
    LET held == {n \in message_store \cup reading : posted[n].target = s}
    IN  /\ s \in alive /\ Faults < MaxFaults
        /\ alive' = alive \ {s}
        /\ message_store' = message_store \ held
        /\ reading' = reading \ held
        /\ lost' = lost \cup held
        /\ UNCHANGED <<status, log, posted, travelling, recipient, alarms, losses>>

\* A copy is lost with the server that it is at or comes to, or by the network.
Lose(n, i) ==
    LET safely == {Hop(n, j) : j \in {i - 1, i} \ {0}} \subseteq alive
    IN  /\ <<n, i>> \in travelling
        /\ safely => losses < MaxLosses
        /\ losses' = IF safely THEN losses + 1 ELSE losses
        /\ travelling' = travelling \ {<<n, i>>}
        /\ lost' = lost \cup {n}
        /\ UNCHANGED <<alive, status, log, posted, message_store, reading,
                       recipient, alarms>>

\* A reply is lost, or was never sent: send_broadcast_task takes a message
\* for sent whatever link.send returns.
LoseReply(n) ==
    /\ n \in reading /\ losses < MaxLosses
    /\ reading' = reading \ {n}
    /\ lost' = lost \cup {n}
    /\ losses' = losses + 1
    /\ UNCHANGED <<alive, status, log, posted, travelling, message_store,
                   recipient, alarms>>

----------------------------------------------------------------------------

Sender ==
    \/ \E m \in Message : process_clear_text(m)
    \/ \E old \in SUBSET complete : BeginAttempt(old) \/ CleanupOnly(old)
    \/ \E d \in attempt.targets : SkipTarget(d) \/ Post(d)
    \/ EndAttempt
    \/ \E s \in Server : process_nark(s) \/ process_ark(s) \/ Expire(s)

Servers ==
    \/ \E n \in Posted : \E i \in 1..(Layers + 1) : mix_message(n, i)
    \/ \E n \in Posted : write(n) \/ Reply(n) \/ ReplyTimesOut(n)
    \/ \E d \in Dropbox : read_task(d)

Failures ==
    \/ \E s \in Server : Die(s)
    \/ \E n \in Posted : LoseReply(n) \/ \E i \in 1..(Layers + 1) : Lose(n, i)

Next == Sender \/ Servers \/ Failures

Spec == Init /\ [][Next]_vars

\* Tasks go on.  The backlog is a queue, so each entry has its turn; targets
\* and routes are chosen at random, and posts and replies do not fail for ever;
\* polls come again; the client learns of dead servers, by NARK or because the
\* ARK runs out, and of living ones.
Fairness ==
    /\ \A m \in Message : SF_vars((\E old \in SUBSET complete : BeginAttempt(old))
                                   /\ attempt'.message = m)
    /\ SF_vars(\E d \in attempt.targets : Post(d))
    /\ WF_vars(EndAttempt \/ \E d \in attempt.targets : SkipTarget(d))
    /\ WF_vars(\E s \in Server : process_ark(s) \/ Expire(s))
    /\ WF_vars(\E n \in Posted : write(n) \/ \E i \in 1..Layers : mix_message(n, i))
    /\ SF_vars(\E d \in Dropbox : read_task(d))
    /\ SF_vars(\E n \in Posted : Reply(n))

FairSpec == Spec /\ Fairness

----------------------------------------------------------------------------
(***************************************************************************)
(* Properties.                                                             *)
(***************************************************************************)

\* The types of the variables.
TypeOK ==
    /\ alive \subseteq Server
    /\ status \in [Server -> {"alive", "dead", "expired"}]
    /\ backlog \subseteq Message /\ complete \subseteq Message /\ safe \subseteq Message
    /\ attempt \in [message : Message, targets : SUBSET Dropbox]
                      \cup {[message |-> None, targets |-> {}]}
    /\ routes_sent \in [Message -> SUBSET Posted]
    /\ posted \in Seq([message : Message, route : Route, target : Dropbox])
    /\ travelling \subseteq Posted \X (1..(Layers + 1))
    /\ \A held \in {message_store, reading, received, lost} :
           held \subseteq Posted
    /\ message_received \in [Message -> Nat]
    /\ alarms \in 0..MaxFaults /\ losses \in 0..MaxLosses

Underway(n) ==
    \/ \E i \in 1..(Layers + 1) : <<n, i>> \in travelling
    \/ n \in message_store \cup reading

\* A copy that was posted is with the recipient, on its way, in a store or in
\* the hands of the task that reads it, unless a server died or the network
\* lost it: polls that run at once, fail and put back mislay nothing.
CopyIsSomewhere ==
    \A n \in Posted : Underway(n) \/ n \in received \/ n \in lost

\* A complete entry has copies for as many dropboxes as it should that arrived
\* or are underway, but for those with a dead server on their route, of which
\* the sender will hear, and those that the network lost.
CompleteIsSpread ==
    \A m \in complete : losses = 0 =>
        Redundancy <= Cardinality(sent_to({n \in routes_sent[m] :
            /\ posted[n].message = m
            /\ Underway(n) \/ n \in received \/ ~(Hops(n) \subseteq alive)}))

\* A message comes to the user once, over however many dropboxes, polls,
\* late replies and new posts its copies reach the client.
ReceivedOnce == \A m \in Message : message_received[m] <= 1

\* The dropboxes from which copies of m came to the recipient.
came_from(m) == sent_to({n \in received : posted[n].message = m})

\* What the new posts cannot make up for.
Stranded(m) ==
    \/ Cardinality(Emix \cap alive) < Layers
    \/ m \in safe /\ alive # Server
    \/ losses > 0

\* A message the client took comes to the recipient from as many dropboxes as
\* it should, or from all that live, whichever servers die and whatever the
\* sender hears of others, unless too few emixes live, the network lost a copy,
\* or a server died after the sender dropped the entry as safe.
Arrives ==
    \A m \in Message :
        Accepted(m) ~> \/ Cardinality(came_from(m)) >= Redundancy
                       \/ Dropbox \cap alive \subseteq came_from(m)
                       \/ Stranded(m)

=============================================================================
