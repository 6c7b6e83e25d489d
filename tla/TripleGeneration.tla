-------------------------- MODULE TripleGeneration --------------------------
(***************************************************************************)
(* preproduct_op of the lock-free dropbox's parties: the three rounds in   *)
(* which a group makes a triple c = a * b and a random number nobody knows *)
(* (a batch of size 1).  Every round is all or nothing: a party that does  *)
(* not get the message of every group member in time gives up, silently.   *)
(* PreproductStore models what becomes of the batches, SharedCheck what     *)
(* they are used for.                                                       *)
(***************************************************************************)
EXTENDS SecretSharing

CONSTANTS
    Group,          \* the participants of the batch
    Draws,          \* what random draws can give a party in the first round ...
    RandDraws       \* ... and in the second

highThreshold == 2 * (Threshold - 1) + 1

ASSUME GroupAssumption ==
    /\ Group \subseteq Parties /\ Cardinality(Group) >= 2 * Threshold - 1
    /\ LET low == Polynomials(NonZero, Threshold)
           high == Polynomials(NonZero, 2 * Threshold - 1)
       IN  /\ Draws \subseteq [a : low, b : low, random : low]
           /\ RandDraws \subseteq {d \in [low : low, high : high] : d.low[1] = d.high[1]}

VARIABLES
    round,          \* where each party's preproduct_op is
    drawn,          \* the polynomials of its ACTION_GENERATE_SHARES messages
    rand,           \* those of its ACTION_MULM_BGW_RAND messages
    z_high,         \* its ACTION_MULM_BGW_OPEN share
    batch           \* the triple and random number it added to its store

generationVars == <<round, drawn, rand, z_high, batch>>

GenerationTypeOK ==
    /\ round \in [Group -> {"idle", "shares", "rand", "open", "added", "zero", "failed"}]
    /\ drawn \in [Group -> Draws \cup {None}] /\ rand \in [Group -> RandDraws \cup {None}]
    /\ z_high \in [Group -> {Share(v, p) : v \in Field, p \in Group} \cup {None}]
    /\ DOMAIN batch = Group

GenerationInit ==
    /\ round = [p \in Group |-> "idle"]
    /\ drawn = [p \in Group |-> None] /\ rand = [p \in Group |-> None]
    /\ z_high = [p \in Group |-> None] /\ batch = [p \in Group |-> None]

-----------------------------------------------------------------------------
(* distribute_shares: the sum of the shares each member dealt for party p.  *)
dealt(p, polys) == sum_shares(p, [q \in Group |-> share(polys[q])[p]])

aShare(p) == dealt(p, [q \in Group |-> drawn[q].a])
bShare(p) == dealt(p, [q \in Group |-> drawn[q].b])
randomNumber(p) == dealt(p, [q \in Group |-> drawn[q].random])
r_low(p) == dealt(p, [q \in Group |-> rand[q].low])
r_high(p) == dealt(p, [q \in Group |-> rand[q].high])

all(messages) == \A q \in Group : messages[q] # None

(* The request arrives: generate_shares deals the random numbers.           *)
PreproductOp(p) ==
    /\ round[p] = "idle"
    /\ round' = [round EXCEPT ![p] = "shares"]
    /\ \E d \in Draws : drawn' = [drawn EXCEPT ![p] = d]
    /\ UNCHANGED <<rand, z_high, batch>>

(* Round 1 complete: mulm_etf deals one number with both degrees.           *)
GatherShares(p) ==
    /\ round[p] = "shares" /\ all(drawn)
    /\ round' = [round EXCEPT ![p] = "rand"]
    /\ \E d \in RandDraws : rand' = [rand EXCEPT ![p] = d]
    /\ UNCHANGED <<drawn, z_high, batch>>

(* Round 2 complete: the product, of high degree, hidden by the number.     *)
GatherRand(p) ==
    /\ round[p] = "rand" /\ all(rand)
    /\ round' = [round EXCEPT ![p] = "open"]
    /\ z_high' = [z_high EXCEPT ![p] = sub(r_high(p), mul(aShare(p), bShare(p)))]
    /\ UNCHANGED <<drawn, rand, batch>>

(* Round 3 complete.  An opened 0 is taken for a failure (not all(zs)), and *)
(* so is what could not be opened.                                          *)
rejected(p, z) == z \in {None, 0}

mut_AddsZ(p, z) == addc(r_low(p), z)
lowProduct(p, z) == subc(r_low(p), z)

GatherOpen(p) ==
    /\ round[p] = "open" /\ all(z_high)
    /\ LET z == open(z_high, highThreshold)
       IN  IF rejected(p, z)
           THEN /\ round' = [round EXCEPT ![p] = "zero"]
                /\ UNCHANGED batch
           ELSE /\ round' = [round EXCEPT ![p] = "added"]
                /\ batch' = [batch EXCEPT ![p] =
                       [a |-> aShare(p), b |-> bShare(p), c |-> lowProduct(p, z),
                        random |-> randomNumber(p)]]
    /\ UNCHANGED <<drawn, rand, z_high>>

(* A round times out: what the party sent stays with the others.            *)
TimeOut(p) ==
    /\ round[p] \in {"shares", "rand", "open"}
    /\ round' = [round EXCEPT ![p] = "failed"]
    /\ UNCHANGED <<drawn, rand, z_high, batch>>

GenerationNext ==
    \E p \in Group : \/ PreproductOp(p) \/ GatherShares(p) \/ GatherRand(p)
                     \/ GatherOpen(p) \/ TimeOut(p)

-----------------------------------------------------------------------------
added == {p \in Group : batch[p] # None}

(* What a set of parties opens a component of their batches to.             *)
opened(Q, part(_)) == open([p \in Q |-> part(batch[p])], Threshold)

(* However the group's parties drew, and whoever gave up meanwhile, any     *)
(* Threshold of the parties that added the batch hold shares of a triple:   *)
(* c opens to a * b, although each mixed its own round's messages; and of   *)
(* one random number, the same for any of them.                             *)
TripleMultiplies ==
    \A Q \in SUBSET added :
        Cardinality(Q) >= Threshold =>
            /\ opened(Q, LAMBDA t : t.c) =
                   (opened(Q, LAMBDA t : t.a) * opened(Q, LAMBDA t : t.b)) % Modulus
            /\ \A R \in SUBSET Q : Cardinality(R) >= Threshold =>
                   opened(R, LAMBDA t : t.random) = opened(Q, LAMBDA t : t.random)

=============================================================================
