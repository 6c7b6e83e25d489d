--------------------------- MODULE SecretSharing ---------------------------
(***************************************************************************)
(* The share arithmetic of the lock-free dropbox: ShamirSS, modmath and    *)
(* the Sharing wrapper with its dummy shares.  Operators only; the modules *)
(* TripleGeneration and FindCheck run the protocols that use them.         *)
(***************************************************************************)
EXTENDS Integers, Sequences, FiniteSets, FiniteSetsExt, Functions

CONSTANTS
    NParties,       \* the parties have the ids 0 .. NParties - 1
    Threshold,      \* sharing.threshold
    Modulus,        \* sharing.modulus, a prime
    None            \* Python's None

ASSUME SharingAssumption ==
    /\ NParties \in Nat \ {0} /\ Threshold \in 1 .. NParties
    /\ Modulus \in Nat /\ Modulus > NParties
    /\ \A d \in 2 .. Modulus - 1 : Modulus % d # 0
    /\ None \notin Int

Parties == 0 .. NParties - 1
Field == 0 .. Modulus - 1
NonZero == 1 .. Modulus - 1

ProductFunction(f) == FoldFunction(LAMBDA x, y : x * y, 1, f)

power(x, n) == ProductFunction([i \in 1 .. n |-> x])

(* A polynomial is the sequence of its coefficients, the secret first.      *)
P(coeffs, x) ==
    SumFunction([i \in DOMAIN coeffs |-> coeffs[i] * power(x, i - 1)]) % Modulus

Share(v, x) == [share |-> v, x |-> x]

dummy == Share(0, -1)
is_dummy(s) == s.x = -1

(* Party i gets the value at i + 1 with the index i.                        *)
share(coeffs) == [i \in Parties |-> Share(P(coeffs, i + 1), i)]

(* The secrets, and the coefficients randrange draws for them, that share   *)
(* can be called with for a threshold.                                      *)
Polynomials(secrets, threshold) ==
    {<<s>> \o cs : s \in secrets, cs \in [1 .. threshold - 1 -> NonZero]}

(* Euclid's algorithm from a and b, at most the modulus: the divisor, and   *)
(* what to multiply the first a by to get it.                               *)
xgcd[b \in 0 .. Modulus] ==
    [r \in [a : Int, prevx : Int, x : Int] |->
        IF b = 0 THEN <<r.a, r.prevx>>
        ELSE xgcd[r.a % b][[a |-> b, prevx |-> r.x, x |-> r.prevx - (r.a \div b) * r.x]]]

(* The inverse; what is not coprime raises NoModularInverseError.           *)
modinv(a) ==
    LET gx == xgcd[Modulus][[a |-> a, prevx |-> 1, x |-> 0]]
    IN  IF gx[1] = 1 THEN gx[2] % Modulus ELSE None

(* The Lagrange coefficients at 0; equal points are skipped, not refused.   *)
recoverCoefficients(xs) ==
    [i \in DOMAIN xs |->
        ProductFunction([j \in DOMAIN xs |->
            IF xs[j] = xs[i] THEN 1 ELSE (0 - xs[j]) * modinv(xs[i] - xs[j])]) % Modulus]

x_points(shares) == [i \in DOMAIN shares |-> shares[i].x + 1]

reconstruct(shares) ==
    LET coeff == recoverCoefficients(x_points(shares))
    IN  SumFunction([i \in DOMAIN shares |-> coeff[i] * shares[i].share]) % Modulus

(* What shares, a list or the shares of some parties, open to: dummies are  *)
(* dropped, and too few others give None.                                   *)
real_shares(shares) == {i \in DOMAIN shares : ~is_dummy(shares[i])}

open(shares, threshold) ==
    IF Cardinality(real_shares(shares)) < threshold THEN None
    ELSE reconstruct(Restrict(shares, real_shares(shares)))

-----------------------------------------------------------------------------
(* Operations on the shares of one party.  dummy_handler makes the result a *)
(* dummy when an argument is one, or is None.                               *)
missing(arg) == arg = None
dummyOr(args, result) == IF \E s \in args : is_dummy(s) THEN dummy ELSE result

add(a, b) == dummyOr({a, b}, Share((a.share + b.share) % Modulus, a.x))
mut_Signed(a, b) == dummyOr({a, b}, Share(a.share - b.share, a.x))
sub(a, b) == dummyOr({a, b}, Share((a.share - b.share) % Modulus, a.x))
mul(a, b) == dummyOr({a, b}, Share((a.share * b.share) % Modulus, a.x))
addc(a, c) == dummyOr({a}, Share((a.share + c) % Modulus, a.x))
subc(a, c) == dummyOr({a}, Share((a.share - c) % Modulus, a.x))
mulc(a, c) == dummyOr({a}, Share((a.share * c) % Modulus, a.x))

(* The share of a product from the opened differences and a triple.         *)
mul_ed(epsilon, delta, triple) ==
    IF missing(epsilon) \/ missing(delta) THEN dummy
    ELSE addc(add(add(triple.c, mulc(triple.b, epsilon)), mulc(triple.a, delta)),
              epsilon * delta)

(* The sum of one share of each party, all evaluated at this party's point. *)
sum_shares(p, shares) ==
    Share(SumFunction([q \in DOMAIN shares |-> shares[q].share]) % Modulus, p)

=============================================================================
