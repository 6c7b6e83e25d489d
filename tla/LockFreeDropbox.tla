-------------------------- MODULE LockFreeDropbox --------------------------
(***************************************************************************)
(* A lock-free dropbox committee.  The leader shares each message out to   *)
(* the parties of the committee (store_task), compares the fragments that  *)
(* enough parties hold with the pseudonym of each poll (poll_task), and    *)
(* has the matching ones retrieved, sent to the poll's client and deleted. *)
(*                                                                         *)
(* A message is its fragment identifier: its party p's fragment is held or *)
(* not.  The comparison is abstracted to its outcome: with shares of at    *)
(* least Threshold parties it tells whether the message is addressed to    *)
(* the poll, with fewer the result is None.                                *)
(***************************************************************************)
EXTENDS Integers, FiniteSets

CONSTANTS
    Party,
    Leader,         \* the party the clients talk to
    Threshold,      \* sharing.threshold
    Message,        \* fragment identifiers (random, one per message)
    Poll,           \* poll requests
    Addressed,      \* the pairs <<poll, message>> with the same pseudonym
    Expiring,       \* the polls with an expiration date
    Flaky,          \* parties that are sometimes not online
    Task,           \* retrieve tasks (bound on their number)
    FindLimit,      \* mpc_lf_find_limit
    StoreTokens,    \* mpc_lf_concurrent_store_limit
    FindTokens,     \* mpc_lf_concurrent_find_limit
    MaxAttempts,    \* bound on the attempts to store a message
    MaxTimeouts,    \* bound on timeouts and failed replies
    MaxCrashes      \* bound on crashes

ASSUME PartyAssumption ==
    IsFiniteSet(Party) /\ Leader \in Party /\ Flaky \subseteq Party \ {Leader}
ASSUME PollAssumption == Addressed \subseteq Poll \X Message /\ Expiring \subseteq Poll
ASSUME NumberAssumption ==
    /\ Threshold \in Nat \ {0}
    /\ FindLimit \in Nat \ {0}
    /\ StoreTokens \in Nat \ {0} /\ FindTokens \in Nat \ {0}
    /\ MaxAttempts \in Nat /\ MaxTimeouts \in Nat /\ MaxCrashes \in Nat

VARIABLES
    has,            \* each party's stored_fragments, in memory only
    known,          \* the leader's peer.stored_fragments, for each peer
    savedKnown      \* ... as last written by save_committee
VARIABLES           \* the store task of each message
    storing,        \* "new", "queued", "attempt", "sleep", "stored" or "lost"
    attempts,       \* attempts so far (bounded)
    requests,       \* ACTION_STORE_FRAGMENT requests on their way
    acks,           \* responses on their way or in the leader's message pool
    wanted,         \* responses the attempt waits for
    got,            \* responses it received ...
    gotFrom         \* ... and their senders
VARIABLES           \* the poll task of each poll
    polling,        \* "new", "loop", "chosen", "check" or "done"
    checked,        \* poll.checked_fragments
    targets,        \* the fragments chosen, or those of the check in progress
    workers,        \* its op_peers
    handled,        \* those that handled the find request
    real            \* the pairs of a party and a target it really held then
VARIABLES           \* the retrieve tasks
    owner,          \* the poll of each task, {} when the task is not in use
    found,          \* the fragments it retrieves
    fetching,       \* the tasks that sent their requests
    asked,          \* the parties that have not answered yet
    given,          \* the pairs of a party and a fragment it returned
    replying,       \* reply_and_delete_task: fragments being sent to the client
    deletes         \* ACTION_DELETE requests on their way
VARIABLES
    replied,        \* history: the messages of which a reply was sent to a poll's client
    repeated,       \* history: polls that checked a fragment they had checked
    timeouts,
    crashes

fragments == <<has, known, savedKnown>>
stores == <<storing, attempts, requests, acks, wanted, got, gotFrom>>
check == <<targets, workers, handled, real>>
polls == <<polling, checked, check, repeated>>
retrieval == <<owner, found, fetching, asked, given>>
vars == <<fragments, stores, polls, retrieval, replying, deletes, replied,
          timeouts, crashes>>

TypeOK ==
    /\ has \in [Party -> SUBSET Message]
    /\ known \in [Party -> SUBSET Message] /\ savedKnown \in [Party -> SUBSET Message]
    /\ storing \in [Message -> {"new", "queued", "attempt", "sleep", "stored", "lost"}]
    /\ attempts \in [Message -> Nat]
    /\ requests \in [Message -> [Party -> Nat]] /\ acks \in [Message -> [Party -> Nat]]
    /\ wanted \in [Message -> Nat] /\ got \in [Message -> Nat]
    /\ gotFrom \in [Message -> SUBSET Party]
    /\ polling \in [Poll -> {"new", "loop", "chosen", "check", "done"}]
    /\ checked \in [Poll -> SUBSET Message] /\ targets \in [Poll -> SUBSET Message]
    /\ workers \in [Poll -> SUBSET Party] /\ handled \in [Poll -> SUBSET Party]
    /\ real \in [Poll -> SUBSET (Party \X Message)]
    /\ owner \in [Task -> SUBSET Poll] /\ fetching \in SUBSET Task
    /\ found \in [Task -> SUBSET Message] /\ asked \in [Task -> SUBSET Party]
    /\ given \in [Task -> SUBSET (Party \X Message)]
    /\ replying \in SUBSET (Task \X Message) /\ deletes \in SUBSET (Party \X Message)
    /\ replied \in [Poll -> SUBSET Message] /\ repeated \in SUBSET Poll
    /\ timeouts \in Nat /\ crashes \in Nat

Init ==
    /\ has = [p \in Party |-> {}]
    /\ known = [p \in Party |-> {}] /\ savedKnown = [p \in Party |-> {}]
    /\ storing = [m \in Message |-> "new"] /\ attempts = [m \in Message |-> 0]
    /\ requests = [m \in Message |-> [p \in Party |-> 0]]
    /\ acks = [m \in Message |-> [p \in Party |-> 0]]
    /\ wanted = [m \in Message |-> 0] /\ got = [m \in Message |-> 0]
    /\ gotFrom = [m \in Message |-> {}]
    /\ polling = [q \in Poll |-> "new"]
    /\ checked = [q \in Poll |-> {}] /\ targets = [q \in Poll |-> {}]
    /\ workers = [q \in Poll |-> {}] /\ handled = [q \in Poll |-> {}]
    /\ real = [q \in Poll |-> {}]
    /\ owner = [t \in Task |-> {}] /\ fetching = {}
    /\ found = [t \in Task |-> {}] /\ asked = [t \in Task |-> {}]
    /\ given = [t \in Task |-> {}]
    /\ replying = {} /\ deletes = {}
    /\ replied = [q \in Poll |-> {}] /\ repeated = {}
    /\ timeouts = 0 /\ crashes = 0

(* The sets of parties that may be online at some moment.                   *)
online_peers == {O \in SUBSET Party : Party \ Flaky \subseteq O}

knowing(m, O) == {p \in O : m \in known[p]}

TimeOut == timeouts < MaxTimeouts /\ timeouts' = timeouts + 1

-----------------------------------------------------------------------------
(* dropbox_task: the client's message arrives.                              *)
StartStore(m) ==
    /\ storing[m] = "new"
    /\ storing' = [storing EXCEPT ![m] = "queued"]
    /\ UNCHANGED <<fragments, attempts, requests, acks, wanted, got, gotFrom, polls,
                   retrieval, replying, deletes, replied, timeouts, crashes>>

(* The store tasks that hold a token of store_limiter: a failed attempt     *)
(* sleeps with it.                                                          *)
holding == {m \in Message : storing[m] \in {"attempt", "sleep"}}

(* attempt_store_task: ask the peers that are online and not known to have  *)
(* the fragment.                                                            *)
AttemptStore(m) ==
    /\ storing[m] = "queued"
    /\ attempts[m] < MaxAttempts
    /\ Cardinality(holding) < StoreTokens
    /\ \E O \in online_peers :
          LET ps == O \ knowing(m, O)
          IN  /\ requests' = [requests EXCEPT ![m] =
                                 [p \in Party |-> IF p \in ps THEN @[p] + 1 ELSE @[p]]]
              /\ wanted' = [wanted EXCEPT ![m] = Cardinality(ps)]
    /\ got' = [got EXCEPT ![m] = 0]
    /\ gotFrom' = [gotFrom EXCEPT ![m] = {}]
    /\ attempts' = [attempts EXCEPT ![m] = @ + 1]
    /\ storing' = [storing EXCEPT ![m] = "attempt"]
    /\ UNCHANGED <<fragments, acks, polls, retrieval, replying, deletes, replied,
                   timeouts, crashes>>

(* handle_store_op: keep the fragment, note it in one's own record of the   *)
(* committee (which matters on the leader only), then respond.              *)
StoreOp(p, m) ==
    /\ requests[m][p] > 0
    /\ requests' = [requests EXCEPT ![m][p] = @ - 1]
    /\ has' = [has EXCEPT ![p] = @ \cup {m}]
    /\ IF p = Leader
       THEN /\ known' = [known EXCEPT ![Leader] = @ \cup {m}]
            /\ savedKnown' = known'
       ELSE UNCHANGED <<known, savedKnown>>
    /\ acks' = [acks EXCEPT ![m][p] = @ + 1]
    /\ UNCHANGED <<storing, attempts, wanted, got, gotFrom, polls, retrieval, replying,
                   deletes, replied, timeouts, crashes>>

mut_CountsRequests(m, O) == Cardinality(O) >= Threshold

(* The attempt succeeded: enough of the online peers are known to have the  *)
(* fragment.                                                                *)
enough(m, O) == Cardinality({p \in O : m \in known'[p]}) >= Threshold

mut_GivesUp(m, from) ==
    /\ known' = [p \in Party |-> IF p \in from THEN known[p] \cup {m} ELSE known[p]]
    /\ savedKnown' = known'
    /\ \E O \in online_peers :
          storing' = [storing EXCEPT ![m] = IF enough(m, O) THEN "stored" ELSE "lost"]

(* The end of attempt_store_task with the responses of some parties; a      *)
(* failed attempt is repeated after 10 s.                                   *)
endAttempt(m, from) ==
    /\ known' = [p \in Party |-> IF p \in from THEN known[p] \cup {m} ELSE known[p]]
    /\ savedKnown' = known'
    /\ \E O \in online_peers :
          storing' = [storing EXCEPT ![m] = IF enough(m, O) THEN "stored" ELSE "sleep"]

mut_Unsent(p, m) == acks[m][p] >= 0

(* A response of the party is there.                                        *)
arrived(p, m) == acks[m][p] > 0

(* gather_responses takes a response to this or to an earlier attempt: they *)
(* have the same identifier and action.  It counts messages, not parties.   *)
GatherAck(p, m) ==
    /\ storing[m] = "attempt"
    /\ got[m] < wanted[m]
    /\ arrived(p, m)
    /\ acks' = [acks EXCEPT ![m][p] = @ - 1]
    /\ got' = [got EXCEPT ![m] = @ + 1]
    /\ gotFrom' = [gotFrom EXCEPT ![m] = @ \cup {p}]
    /\ UNCHANGED <<fragments, storing, attempts, requests, wanted, polls, retrieval,
                   replying, deletes, replied, timeouts, crashes>>

(* The attempt ends with all the responses it waits for, or at its timeout. *)
EndAttempt(m) ==
    /\ storing[m] = "attempt"
    /\ IF got[m] >= wanted[m] THEN UNCHANGED timeouts ELSE TimeOut
    /\ endAttempt(m, gotFrom[m])
    /\ UNCHANGED <<has, attempts, requests, acks, wanted, got, gotFrom, polls, retrieval,
                   replying, deletes, replied, crashes>>

WakeStore(m) ==
    /\ storing[m] = "sleep"
    /\ storing' = [storing EXCEPT ![m] = "queued"]
    /\ UNCHANGED <<fragments, attempts, requests, acks, wanted, got, gotFrom, polls,
                   retrieval, replying, deletes, replied, timeouts, crashes>>

-----------------------------------------------------------------------------
StartPoll(q) ==
    /\ polling[q] = "new"
    /\ polling' = [polling EXCEPT ![q] = "loop"]
    /\ UNCHANGED <<fragments, stores, checked, check, repeated, retrieval, replying,
                   deletes, replied, timeouts, crashes>>

mut_MoreThanEnough(q, O) ==
    {m \in Message : m \notin checked[q] /\ Cardinality(knowing(m, O)) > Threshold}

(* The first two steps of fragments_to_check: fragments the poll has not    *)
(* checked and that enough peers are known to have.                         *)
pivots(q, O) ==
    {m \in Message : m \notin checked[q] /\ Cardinality(knowing(m, O)) >= Threshold}

(* The third: up to FindLimit of the fragments known to be on all the       *)
(* peers that have the pivot, whether the poll checked them or not.         *)
fragments_to_check(q, O) ==
    UNION {LET common == {f \in Message : knowing(m, O) \subseteq knowing(f, O)}
               count == IF Cardinality(common) < FindLimit
                        THEN Cardinality(common) ELSE FindLimit
           IN  {F \in SUBSET common : Cardinality(F) = count} : m \in pivots(q, O)}

(* peers_for_fragments: the leader and up to Threshold online peers known   *)
(* to have all the fragments.                                               *)
peers_for_fragments(F, O) ==
    LET buddies == {p \in O \ {Leader} : F \subseteq known[p]}
        count == IF Cardinality(buddies) < Threshold THEN Cardinality(buddies)
                 ELSE Threshold
    IN  {{Leader} \cup B : B \in {C \in SUBSET buddies : Cardinality(C) = count}}

(* poll_task chooses fragments, then waits for a token of find_limiter.     *)
ChooseFragments(q) ==
    /\ polling[q] = "loop"
    /\ \E O \in online_peers : \E F \in fragments_to_check(q, O) :
          targets' = [targets EXCEPT ![q] = F]
    /\ polling' = [polling EXCEPT ![q] = "chosen"]
    /\ UNCHANGED <<fragments, stores, checked, workers, handled, real, repeated,
                   retrieval, replying, deletes, replied, timeouts, crashes>>

(* check_task, with what was chosen before, up to the find requests.  The   *)
(* chunk of preproducts may be too short for all the fragments.             *)
StartCheck(q) ==
    /\ polling[q] = "chosen"
    /\ Cardinality({r \in Poll : polling[r] = "check"}) < FindTokens
    /\ \E O \in online_peers : \E ps \in peers_for_fragments(targets[q], O) :
       \E T \in SUBSET targets[q] :
          IF Cardinality(ps) >= Threshold
          THEN /\ T # {}
               /\ polling' = [polling EXCEPT ![q] = "check"]
               /\ workers' = [workers EXCEPT ![q] = ps]
               /\ targets' = [targets EXCEPT ![q] = T]
               /\ repeated' = IF T \cap checked[q] = {} THEN repeated
                              ELSE repeated \cup {q}
          ELSE /\ polling' = [polling EXCEPT ![q] = "loop"]
               /\ targets' = [targets EXCEPT ![q] = {}]
               /\ UNCHANGED <<workers, repeated>>
    /\ UNCHANGED <<fragments, stores, checked, handled, real, retrieval, replying,
                   deletes, replied, timeouts, crashes>>

(* A choice with, or a comparison of, a fragment the poll has not checked.  *)
fresh(q, A) == A /\ ~(targets'[q] \subseteq checked[q])

(* handle_find_op: a party uses its fragments, and dummies for those it     *)
(* does not have.                                                           *)
FindOp(p, q) ==
    /\ polling[q] = "check"
    /\ p \in workers[q] \ handled[q]
    /\ handled' = [handled EXCEPT ![q] = @ \cup {p}]
    /\ real' = [real EXCEPT ![q] = @ \cup ({p} \X (targets[q] \cap has[p]))]
    /\ UNCHANGED <<fragments, stores, polling, checked, targets, workers, repeated,
                   retrieval, replying, deletes, replied, timeouts, crashes>>

holders(S, f) == {p \in Party : <<p, f>> \in S}

(* What can be opened: the targets with shares of Threshold parties.  With  *)
(* a dummy among the shares the result may still be None (mulm opens the    *)
(* first Threshold replies), and after a timeout any result may.            *)
openings(q, answered) ==
    {R \in SUBSET targets[q] :
        /\ \A f \in R : Cardinality(holders(real[q], f)) >= Threshold
        /\ answered => \A f \in targets[q] : holders(real[q], f) = workers[q] => f \in R}

mut_MatchIsChecked(q, R) ==
    checked' = [checked EXCEPT ![q] = @ \cup {f \in R : <<q, f>> \in Addressed}]

(* Only the fragments with a result count as checked.                       *)
markChecked(q, R) == checked' = [checked EXCEPT ![q] = @ \cup R]

matches(q, R) == {f \in R : <<q, f>> \in Addressed}

(* The rest of check_task and attempt_poll_task: the matching fragments are *)
(* given to a new retrieve_and_delete_task.                                 *)
EndCheck(q) ==
    /\ polling[q] = "check"
    /\ IF handled[q] = workers[q] THEN UNCHANGED timeouts ELSE TimeOut
    /\ \E R \in openings(q, handled[q] = workers[q]) :
          /\ markChecked(q, R)
          /\ IF matches(q, R) = {}
             THEN UNCHANGED <<owner, found>>
             ELSE \E t \in Task : /\ owner[t] = {}
                                  /\ owner' = [owner EXCEPT ![t] = {q}]
                                  /\ found' = [found EXCEPT ![t] = matches(q, R)]
    /\ polling' = [polling EXCEPT ![q] = "loop"]
    /\ targets' = [targets EXCEPT ![q] = {}]
    /\ workers' = [workers EXCEPT ![q] = {}]
    /\ handled' = [handled EXCEPT ![q] = {}]
    /\ real' = [real EXCEPT ![q] = {}]
    /\ UNCHANGED <<fragments, stores, repeated, fetching, asked, given, replying,
                   deletes, replied, crashes>>

(* A poll without expiration date ends when it has nothing left to check, a *)
(* poll with one when it has expired.                                       *)
EndPoll(q) ==
    /\ polling[q] = "loop"
    /\ q \in Expiring \/ \E O \in online_peers : fragments_to_check(q, O) = {}
    /\ polling' = [polling EXCEPT ![q] = "done"]
    /\ UNCHANGED <<fragments, stores, checked, check, repeated, retrieval, replying,
                   deletes, replied, timeouts, crashes>>

-----------------------------------------------------------------------------
(* retrieve_task asks the online peers known to have any of the fragments.  *)
StartRetrieve(t) ==
    /\ found[t] # {} /\ t \notin fetching
    /\ \E O \in online_peers :
          asked' = [asked EXCEPT ![t] = {p \in O : known[p] \cap found[t] # {}}]
    /\ fetching' = fetching \cup {t}
    /\ UNCHANGED <<fragments, stores, polls, owner, found, given, replying, deletes,
                   replied, timeouts, crashes>>

(* handle_retrieve_op: a party returns those of the fragments it has.       *)
RetrieveOp(p, t) ==
    /\ p \in asked[t]
    /\ asked' = [asked EXCEPT ![t] = @ \ {p}]
    /\ given' = [given EXCEPT ![t] = @ \cup ({p} \X (found[t] \cap has[p]))]
    /\ UNCHANGED <<fragments, stores, polls, owner, found, fetching, replying, deletes,
                   replied, timeouts, crashes>>

(* The messages that can be put together from what was returned.            *)
complete(t) == {f \in found[t] : Cardinality(holders(given[t], f)) >= Threshold}

(* The end of retrieve_task: the complete messages are sent to the client.  *)
EndRetrieve(t) ==
    /\ t \in fetching
    /\ fetching' = fetching \ {t}
    /\ IF asked[t] = {} THEN UNCHANGED timeouts ELSE TimeOut
    /\ replying' = replying \cup ({t} \X complete(t))
    /\ found' = [found EXCEPT ![t] = {}]
    /\ asked' = [asked EXCEPT ![t] = {}]
    /\ given' = [given EXCEPT ![t] = {}]
    /\ owner' = [owner EXCEPT ![t] = IF complete(t) = {} THEN {} ELSE @]
    /\ UNCHANGED <<fragments, stores, polls, deletes, replied, crashes>>

(* reply_to_client sends the message.                                       *)
sent(t, m) == replied' = [q \in Poll |-> IF q \in owner[t]
                                             THEN replied[q] \cup {m} ELSE replied[q]]

(* The reply is over; the task with its last one.                           *)
endReply(t, m) ==
    /\ replying' = replying \ {<<t, m>>}
    /\ owner' = [owner EXCEPT ![t] = IF \E f \in Message \ {m} : <<t, f>> \in replying
                                     THEN @ ELSE {}]
    /\ UNCHANGED <<found, fetching, asked, given>>

(* delete_task: the online peers known to have the fragment are asked to    *)
(* delete it, and no longer known to have it.                               *)
delete_task(m) ==
    \E O \in online_peers :
        /\ known' = [p \in Party |-> IF p \in O THEN known[p] \ {m} ELSE known[p]]
        /\ deletes' = deletes \cup (knowing(m, O) \X {m})
        /\ UNCHANGED <<has, savedKnown>>

Reply(t, m) ==
    /\ <<t, m>> \in replying
    /\ sent(t, m)
    /\ endReply(t, m)
    /\ delete_task(m)
    /\ UNCHANGED <<stores, polls, timeouts, crashes>>

mut_DeletesAnyway(t, m) == endReply(t, m) /\ delete_task(m)

(* What follows a failed reply: another try, or none after                  *)
(* db_reply_max_retries; the fragment stays.                                *)
retry(t, m) ==
    /\ endReply(t, m) \/ UNCHANGED <<replying, retrieval>>
    /\ UNCHANGED <<fragments, deletes>>

(* reply_to_client reports a failure; the reply may be sent anyway.         *)
ReplyFails(t, m) ==
    /\ <<t, m>> \in replying
    /\ TimeOut
    /\ sent(t, m) \/ UNCHANGED replied
    /\ retry(t, m)
    /\ UNCHANGED <<stores, polls, crashes>>

(* handle_delete_op, any time after the request.                            *)
DeleteOp(p, m) ==
    /\ <<p, m>> \in deletes
    /\ deletes' = deletes \ {<<p, m>>}
    /\ has' = [has EXCEPT ![p] = @ \ {m}]
    /\ UNCHANGED <<known, savedKnown, stores, polls, retrieval, replying, replied,
                   timeouts, crashes>>

-----------------------------------------------------------------------------
(* save_committee is also called when a batch is certified and when a peer  *)
(* says hello or ready.                                                     *)
SaveCommittee ==
    /\ MaxCrashes > 0
    /\ savedKnown' = known
    /\ UNCHANGED <<has, known, stores, polls, retrieval, replying, deletes, replied,
                   timeouts, crashes>>

(* A party stops and starts again: main calls load_committee, but nothing   *)
(* calls load_fragments.  What it computed for a find request is lost when  *)
(* it had not responded yet; another copy of the request may then arrive.   *)
CrashPeer(p) ==
    /\ p # Leader
    /\ crashes < MaxCrashes
    /\ has' = [has EXCEPT ![p] = {}]
    /\ \/ UNCHANGED <<handled, real>>
       \/ /\ handled' = [q \in Poll |-> handled[q] \ {p}]
          /\ real' = [q \in Poll |-> {s \in real[q] : s[1] # p}]
    /\ crashes' = crashes + 1
    /\ UNCHANGED <<known, savedKnown, stores, polling, checked, targets, workers,
                   repeated, retrieval, replying, deletes, replied, timeouts>>

(* The leader does; its tasks, its message pool and its requests to itself  *)
(* are gone.                                                                *)
CrashLeader ==
    /\ crashes < MaxCrashes
    /\ has' = [has EXCEPT ![Leader] = {}]
    /\ known' = savedKnown
    /\ storing' = [m \in Message |-> IF storing[m] \in {"new", "stored"}
                                     THEN storing[m] ELSE "lost"]
    /\ requests' = [m \in Message |-> [requests[m] EXCEPT ![Leader] = 0]]
    /\ acks' = [m \in Message |-> [p \in Party |-> 0]]
    /\ polling' = [q \in Poll |-> IF polling[q] = "new" THEN "new" ELSE "done"]
    /\ targets' = [q \in Poll |-> {}] /\ workers' = [q \in Poll |-> {}]
    /\ handled' = [q \in Poll |-> {}] /\ real' = [q \in Poll |-> {}]
    /\ owner' = [t \in Task |-> {}] /\ found' = [t \in Task |-> {}]
    /\ asked' = [t \in Task |-> {}] /\ given' = [t \in Task |-> {}]
    /\ fetching' = {}
    /\ replying' = {}
    /\ deletes' = {d \in deletes : d[1] # Leader}
    /\ crashes' = crashes + 1
    /\ UNCHANGED <<savedKnown, attempts, wanted, got, gotFrom, checked, repeated,
                   replied, timeouts>>

-----------------------------------------------------------------------------
Next ==
    \/ \E m \in Message : StartStore(m) \/ AttemptStore(m) \/ EndAttempt(m) \/ WakeStore(m)
    \/ \E p \in Party, m \in Message : StoreOp(p, m) \/ GatherAck(p, m) \/ DeleteOp(p, m)
    \/ \E q \in Poll : StartPoll(q) \/ ChooseFragments(q) \/ StartCheck(q) \/ EndCheck(q)
                        \/ EndPoll(q)
    \/ \E p \in Party, q \in Poll : FindOp(p, q)
    \/ \E p \in Party, t \in Task : RetrieveOp(p, t)
    \/ \E t \in Task : StartRetrieve(t) \/ EndRetrieve(t)
    \/ \E t \in Task, m \in Message : Reply(t, m) \/ ReplyFails(t, m)
    \/ \E p \in Party : CrashPeer(p)
    \/ SaveCommittee \/ CrashLeader

Spec == Init /\ [][Next]_vars

(* Fairness: trio runs the tasks that are ready, requests to peers that are *)
(* online arrive and are answered, a capacity limiter serves its waiters in *)
(* order, and clients are not forced to send anything.  random.sample,      *)
(* which picks among the fragments a poll may check, does not leave out     *)
(* those it has not checked for ever.                                       *)
Fairness ==
    /\ \A m \in Message : SF_vars(AttemptStore(m))
    /\ WF_vars(\E m \in Message : EndAttempt(m) \/ WakeStore(m))
    /\ WF_vars(\E p \in Party, m \in Message : StoreOp(p, m) \/ DeleteOp(p, m))
    /\ WF_vars(\E p \in Party, m \in Message : GatherAck(p, m))
    /\ \A q \in Poll : SF_vars(fresh(q, ChooseFragments(q)))
                       /\ SF_vars(fresh(q, StartCheck(q)))
                       /\ WF_vars(EndCheck(q)) /\ WF_vars(q \notin Expiring /\ EndPoll(q))
    /\ WF_vars(\E q \in Poll : StartCheck(q))
    /\ WF_vars(\E p \in Party, q \in Poll : FindOp(p, q))
    /\ WF_vars(\E p \in Party, t \in Task : RetrieveOp(p, t))
    /\ WF_vars(\E t \in Task : StartRetrieve(t) \/ EndRetrieve(t))
    /\ WF_vars(\E t \in Task, m \in Message : Reply(t, m))

FairSpec == Spec /\ Fairness

-----------------------------------------------------------------------------
copies(m) == {p \in Party : m \in has[p]}

inBox == {m \in Message : Cardinality(copies(m)) >= Threshold}

(* The committee implements the mailbox: what Threshold parties hold stays  *)
(* until a reply was sent for it or a party restarts, however late store    *)
(* and delete requests arrive and whichever replies fail.                   *)
Box == INSTANCE Mailbox WITH
           accepted <- {m \in Message : storing[m] # "new"},
           kept <- inBox,
           restarts <- crashes

ImplementsMailbox == Box!BoxSpec

(* When store_task is done with a message and no reply was sent for it yet, *)
(* enough parties hold it, but for one copy that each restart may cost, and *)
(* the saved committee says that enough did: a leader that restarts still   *)
(* finds the message, although it never asks its peers what they have.      *)
StoredIsHeld ==
    \A m \in Message :
        storing[m] = "stored" /\ (\A q \in Poll : m \notin replied[q]) =>
            /\ Cardinality(copies(m)) + crashes >= Threshold
            /\ Cardinality({p \in Party : m \in savedKnown[p]}) >= Threshold

(* The docstring of poll_task: "check fragments that the poll request has   *)
(* not already checked".                                                    *)
NeverRechecks == repeated = {}

(* store_task "will retry until success": with all parties online, every    *)
(* message is stored in the end, although failed attempts keep their token, *)
(* unless a poll gets it while its store task still waits for responses.    *)
StoreSucceeds ==
    \A m \in Message :
        storing[m] = "queued" ~> storing[m] = "stored" \/ \E q \in Poll : m \in replied[q]

(* A poll without expiration date runs out of fragments to check.           *)
PollsEnd == \A q \in Poll \ Expiring : polling[q] = "loop" ~> polling[q] = "done"

(* A poll gets every stored message addressed to it that it has not checked *)
(* before the last timeout, or another poll does.                           *)
StoredIsReturned ==
    \A q \in Poll \ Expiring, m \in Message :
        (/\ <<q, m>> \in Addressed
         /\ polling[q] = "loop" /\ m \notin checked[q]
         /\ storing[m] = "stored"
         /\ timeouts = MaxTimeouts) ~> \E r \in Poll : m \in replied[r]

=============================================================================
