------------------------------ MODULE Mailbox ------------------------------
(***************************************************************************)
(* What a dropbox committee promises to its clients.                       *)
(*                                                                         *)
(* A message that is kept stays until a reply with it was sent to a poll it *)
(* is addressed to, and only such polls get one; a restart of a party may  *)
(* lose it.  The promise is weak on purpose: several polls can get the     *)
(* same message, or one poll twice, and a late retry can have a message    *)
(* kept again; the clients discard what they have already received.        *)
(***************************************************************************)
EXTENDS Naturals

CONSTANTS Message,
          Poll,
          Addressed     \* the pairs of a poll and a message whose pseudonym it asks for

VARIABLES accepted,     \* the messages that clients handed in
          kept,         \* the messages that can be retrieved now
          replied,      \* the messages sent to each poll's client
          restarts

boxVars == <<accepted, kept, replied, restarts>>

BoxInit ==
    /\ accepted = {} /\ kept = {}
    /\ replied = [q \in Poll |-> {}]
    /\ restarts = 0

Accept(m) ==
    /\ accepted' = accepted \cup {m}
    /\ UNCHANGED <<kept, replied, restarts>>

Keep(m) ==
    /\ m \in accepted
    /\ kept' = kept \cup {m}
    /\ UNCHANGED <<accepted, replied, restarts>>

(* A message retrieved before another poll had it deleted can still be sent. *)
ReplyTo(q, m) ==
    /\ m \in accepted
    /\ <<q, m>> \in Addressed
    /\ replied' = [replied EXCEPT ![q] = @ \cup {m}]
    /\ UNCHANGED <<accepted, kept, restarts>>

Forget(m) ==
    /\ \E q \in Poll : m \in replied[q]
    /\ kept' = kept \ {m}
    /\ UNCHANGED <<accepted, replied, restarts>>

Restart ==
    /\ kept' \in SUBSET kept
    /\ restarts' = restarts + 1
    /\ UNCHANGED <<accepted, replied>>

BoxNext ==
    \/ \E m \in Message : Accept(m) \/ Keep(m) \/ Forget(m) \/ \E q \in Poll : ReplyTo(q, m)
    \/ Restart

BoxSpec == BoxInit /\ [][BoxNext]_boxVars

=============================================================================
