------------------------- MODULE MCLockFreeDropbox -------------------------
(* Instances of LockFreeDropbox for TLC.                                    *)
EXTENDS LockFreeDropbox, TLC

CONSTANTS l, p1, p2, m1, m2, q1, q2, q3

(* q1 asks for both messages, q2 for the first one.                         *)
BothPoll == {<<q1, m1>>, <<q1, m2>>, <<q2, m1>>} \cap (Poll \X Message)

(* q1 and q2 ask for the first message, q3 for neither.                     *)
FirstOnly == {<<q1, m1>>, <<q2, m1>>} \cap (Poll \X Message)

(* The tasks are interchangeable.                                           *)
Symmetry == Permutations(Task)

unsent(S) == \A m \in S : storing[m] = "new"
unasked(S) == \A q \in S \cap Poll : polling[q] = "new"

(* The product of everything that can happen is too large: either two polls *)
(* for one message, with a timeout; or one poll and one message, stored     *)
(* again after a timeout, and a restart; or two messages and a poll for     *)
(* both.                                                                    *)
once == \A m \in Message : attempts[m] <= 1
TwoPolls == crashes = 0 /\ unsent({m2}) /\ once
Restarts == unsent({m2}) /\ unasked({q2})
TwoMessages == crashes = 0 /\ timeouts = 0 /\ unasked({q2}) /\ once

Scope == TwoPolls \/ Restarts \/ TwoMessages
ScopedSpec == Init /\ [][Next /\ Scope']_vars

(* For the liveness properties, either one message with two polls for it,   *)
(* or two messages with a poll for neither.  What the scope leaves out are  *)
(* messages and polls of clients, to which no fairness applies.             *)
LiveScope == (unsent({m2}) /\ unasked({q3})) \/ unasked({q1, q2})
LiveSpec == Init /\ [][Next /\ LiveScope']_vars /\ Fairness

=============================================================================
