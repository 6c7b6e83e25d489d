------------------------------ MODULE FindCheck ------------------------------
(***************************************************************************)
(* One check of a poll: the leader asks parties to compare the pseudonym of *)
(* a stored fragment with that of the poll (check_task, handle_find_op and *)
(* mulm), on shares.  LockFreeDropbox takes from here that the comparison  *)
(* tells which fragments match; what is compared, and when, is there.      *)
(* The fragments of one request do not influence each other: one is enough. *)
(***************************************************************************)
EXTENDS SecretSharing

CONSTANTS
    Worker,         \* op_peers of the leader, the participants of the request
    Identity,       \* the pseudonyms of clients
    Slope           \* the coefficients after the secret of the pseudonyms' polynomials

ASSUME CheckAssumption ==
    /\ Worker \subseteq Parties /\ Cardinality(Worker) >= Threshold
    /\ Identity \subseteq Field /\ Slope \in [1 .. Threshold - 1 -> NonZero]

VARIABLES
    stored,         \* the pseudonym of the fragment
    polled,         \* the pseudonym of the poll
    holders,        \* the parties that hold the fragment when they handle the request
    pad,            \* each party's random number and triple for the fragment
    phase,          \* "idle", "asked", "opening", "answered", "late" or "silent"
    sent,           \* <<from, to>>: epsilon and delta shares sent
    answers,        \* the share each party responded with
    result          \* what the leader opened: a set with at most one element

inputs == <<stored, polled, holders, pad>>
checkVars == <<inputs, phase, sent, answers, result>>

CheckTypeOK ==
    /\ stored \in Identity \cup {None} /\ polled \in Identity \cup {None}
    /\ holders \subseteq Worker
    /\ phase \in [Worker -> {"idle", "asked", "opening", "answered", "late", "silent"}]
    /\ sent \subseteq Worker \X Worker
    /\ \A p \in Worker : answers[p] \in {Share(v, p) : v \in Field} \cup {dummy, None}
    /\ result \subseteq Field \cup {None}

CheckInit ==
    /\ stored = None /\ polled = None /\ holders = {} /\ pad = None
    /\ phase = [p \in Worker |-> "idle"]
    /\ sent = {} /\ answers = [p \in Worker |-> None] /\ result = {}

-----------------------------------------------------------------------------
(* check_task sends the requests, with the preproducts the parties hold.    *)
CheckTask(preproducts) ==
    /\ \A p \in Worker : phase[p] = "idle"
    /\ phase' = [p \in Worker |-> "asked"]
    /\ stored' \in Identity /\ polled' \in Identity /\ holders' \in SUBSET Worker
    /\ pad' = preproducts
    /\ UNCHANGED <<sent, answers, result>>

(* Party p's share of the pseudonym of the fragment, a dummy if it does not *)
(* hold it, less its share of the poll's.                                   *)
mut_ZeroShare(p) == IF p \in holders THEN share(<<stored>> \o Slope)[p] ELSE Share(0, p)
pseudonymShare(p) == IF p \in holders THEN share(<<stored>> \o Slope)[p] ELSE dummy

diff(p) == sub(pseudonymShare(p), share(<<polled>> \o Slope)[p])

epsilonShare(p) == sub(diff(p), pad[p].a)
deltaShare(p) == sub(pad[p].random, pad[p].b)

(* The request arrives; p sends to the participants it sees online.         *)
HandleFind(p) ==
    /\ phase[p] = "asked"
    /\ phase' = [phase EXCEPT ![p] = "opening"]
    /\ \E online \in SUBSET Worker :
           p \in online /\ sent' = sent \cup ({p} \X online)
    /\ UNCHANGED <<inputs, answers, result>>

(* No preproducts, or the poll does not decrypt: no response.               *)
Refuse(p) ==
    /\ phase[p] = "asked"
    /\ phase' = [phase EXCEPT ![p] = "silent"]
    /\ UNCHANGED <<inputs, sent, answers, result>>

(* mulm with the messages of the parties in Q.                              *)
multiplied(p, Q) ==
    mul_ed(open([q \in Q |-> epsilonShare(q)], Threshold),
           open([q \in Q |-> deltaShare(q)], Threshold),
           pad[p])

arrived(p) == {q \in Worker : <<q, p>> \in sent}

(* p has the first Threshold messages, from whomever, dummies included.     *)
Multiply(p) ==
    /\ phase[p] = "opening"
    /\ phase' = [phase EXCEPT ![p] = "answered"]
    /\ \E Q \in kSubset(Threshold, arrived(p)) :
           answers' = [answers EXCEPT ![p] = multiplied(p, Q)]
    /\ UNCHANGED <<inputs, sent, result>>

(* The wait for messages ends with fewer: p answers all the same, with a    *)
(* dummy, unless it has none.                                               *)
MultiplyTimesOut(p) ==
    /\ phase[p] = "opening"
    /\ \E Q \in SUBSET arrived(p) :
           /\ Cardinality(Q) < Threshold
           /\ IF Q = {} THEN /\ phase' = [phase EXCEPT ![p] = "silent"]
                             /\ UNCHANGED answers
              ELSE /\ phase' = [phase EXCEPT ![p] = "late"]
                   /\ answers' = [answers EXCEPT ![p] = multiplied(p, Q)]
    /\ UNCHANGED <<inputs, sent, result>>

answered == {p \in Worker : phase[p] \in {"answered", "late"}}

(* The leader has the answers of all, or timed out with those of Q.         *)
enough(Q) == Cardinality(Q) >= Threshold

OpenResult ==
    /\ result = {}
    /\ \E Q \in SUBSET answered :
           /\ enough(Q)
           /\ result' = {open(Restrict(answers, Q), Threshold)}
    /\ UNCHANGED <<inputs, phase, sent, answers>>

CheckNext ==
    \/ \E p \in Worker : HandleFind(p) \/ Refuse(p) \/ Multiply(p) \/ MultiplyTimesOut(p)
    \/ OpenResult

-----------------------------------------------------------------------------
(* What the leader opens is zero for a fragment addressed to the poll's     *)
(* client and only for such, or nothing: never a wrong answer, although     *)
(* every party opened its differences from other messages (handle_find_op,  *)
(* mulm).  It opens nothing only if a participant lacks the fragment or ran *)
(* out of time: what all hold is decided, whichever answers are missing.    *)
MatchIsRight ==
    /\ \A r \in result \ {None} : r = 0 <=> stored = polled
    /\ None \in result => holders # Worker \/ \E p \in Worker : phase[p] = "late"

=============================================================================
