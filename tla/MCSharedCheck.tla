--------------------------- MODULE MCSharedCheck ---------------------------
(* An instance of SharedCheck for TLC, and the operators of SecretSharing   *)
(* against all polynomials over the same small field.                       *)
EXTENDS SharedCheck, SequencesExt

Group013 == {0, 1, 3}
SlopeOne == <<1>>

TwoDraws == {[a |-> <<1, 2>>, b |-> <<3, 1>>, random |-> <<2, 4>>],
             [a |-> <<4, 4>>, b |-> <<2, 3>>, random |-> <<3, 1>>]}

TwoRandDraws == {[low |-> <<2, 1>>, high |-> <<2, 3, 4>>],
                 [low |-> <<1, 3>>, high |-> <<1, 1, 2>>]}

(* Checks use batches for which all parties drew the same numbers.          *)
sameDraws == Cardinality({drawn[p] : p \in Group}) = 1 /\ Cardinality({rand[p] : p \in Group}) = 1
ScopedSpec == Init /\ [][Next /\ (pad' # pad => sameDraws)]_vars

Polys == Polynomials(Field, Threshold)

(* The orders in which the shares of a set of parties can be listed.        *)
listings(f, Q) == {[i \in DOMAIN qs |-> f[qs[i]]] : qs \in SetToSeqs(Q)}

(* Every list of enough shares opens to the secret (ShamirSS.share and      *)
(* reconstruct), whichever dummies are among them, fewer to None.           *)
ASSUME OpensToSecret ==
    \A poly \in Polys : \A Q \in SUBSET Parties, D \in SUBSET Parties :
        \A ss \in listings([p \in Parties |-> IF p \in D THEN dummy ELSE share(poly)[p]], Q) :
            open(ss, Threshold) =
                IF Cardinality(Q \ D) >= Threshold THEN poly[1] ELSE None

=============================================================================
