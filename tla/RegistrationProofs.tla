------------------------- MODULE RegistrationProofs -------------------------
(***************************************************************************)
(* Theorems about BonehFranklin and Registration, for every committee, set *)
(* of clients, level and set of messages.                                  *)
(*                                                                         *)
(* Encryption and decryption invert each other when key and parameters     *)
(* match, and with any other key the output is cleared.  Matching is what  *)
(* shards have from the start and what export and summing preserve; the    *)
(* folds of the generated system and of the client give the sum of all     *)
(* shards and of all fragments, by induction over the subsets summed.  The *)
(* client's key is therefore whole as soon as it is there.                 *)
(***************************************************************************)
EXTENDS Registration, FiniteSetTheorems, SequenceTheorems, WellFoundedInduction,
        TLAPS

\* The table that encryption pairs with belongs to P_pub.
TableIsRight(params) == params.precomp = params.P_pub

\* The key is the one that the shards summed up in params make for id.
Matches(params, key, id) ==
    /\ key.curve = params.curve
    /\ key.sum = [p \in Pairs |-> IF p[1] = id THEN params.precomp[p[2]] ELSE 0]

ByteString(x, len) == x = [i \in 1..len |-> x[i]]

----------------------------------------------------------------------------

\* Xor takes itself back, on bytes and on byte strings.
LEMMA XorTwice ==
    ASSUME NEW a, NEW b
    PROVE  /\ Xor(a, Xor(a, b)) = b
           /\ Xor(Xor(a, b), a) = b
  BY DEF Xor

LEMMA XorBytesTwice ==
    ASSUME NEW len \in Nat, NEW x, NEW y, ByteString(x, len), ByteString(y, len)
    PROVE  XorBytes(x, XorBytes(x, y)) = y
<1>1. DOMAIN x = 1..len
  BY DEF ByteString
<1>2. XorBytes(x, y) = [i \in 1..len |-> Xor(x[i], y[i])]
  BY <1>1 DEF XorBytes
<1>3. XorBytes(x, XorBytes(x, y)) = [i \in 1..len |-> Xor(x[i], Xor(x[i], y[i]))]
  BY <1>1, <1>2 DEF XorBytes
<1>4. \A i \in 1..len : Xor(x[i], Xor(x[i], y[i])) = y[i]
  BY XorTwice
<1>5. XorBytes(x, XorBytes(x, y)) = [i \in 1..len |-> y[i]]
  BY <1>3, <1>4
<1>. QED
  BY <1>5 DEF ByteString

\* What hash_to_bytes writes is a byte string of the length asked for.
LEMMA StreamIsByteString ==
    ASSUME NEW hlen, NEW seed, NEW outlen \in Nat, NEW result
    PROVE  ByteString(hash_to_bytes(hlen, seed, outlen, result), outlen)
  BY DEF hash_to_bytes, ByteString

\* Up to one digest, every byte comes from the seed, whatever the buffer held.
LEMMA OneDigestFillsAll ==
    ASSUME NEW hlen \in Nat \ {0}, NEW seed, NEW outlen \in Nat,
           outlen <= hlen, NEW result1, NEW result2
    PROVE  hash_to_bytes(hlen, seed, outlen, result1)
               = hash_to_bytes(hlen, seed, outlen, result2)
<1>1. CASE outlen = 0
  <2>. 1..outlen = {}
    BY <1>1
  <2>. QED
    BY DEF hash_to_bytes
<1>2. CASE outlen # 0
  <2>1. (outlen - 1) \div hlen = 0
    BY <1>2, SMT
  <2>2. FullBlocks(hlen, outlen) = 0
    BY <2>1 DEF FullBlocks
  <2>3. outlen - 0 * hlen = outlen
    OBVIOUS
  <2>4. \A i \in 1..outlen : i <= outlen - FullBlocks(hlen, outlen) * hlen
    BY <2>2, <2>3
  <2>. QED
    BY <2>4 DEF hash_to_bytes
<1>. QED
  BY <1>1, <1>2

\* The pairings of the two sides agree when key and parameters match.
LEMMA PairingsAgree ==
    ASSUME NEW params, NEW key, NEW id, Matches(params, key, id), NEW l
    PROVE  pairing_pp_apply(params, id, l)
               = element_pairing([curve |-> params.curve, l |-> l], key)
  BY DEF Matches, pairing_pp_apply, element_pairing

\* Decryption into a buffer gives the plaintext if the stream over that buffer
\* is the one that encryption used.
LEMMA DecryptsOver ==
    ASSUME NEW params, NEW key, NEW id, Matches(params, key, id),
           NEW len \in Nat, NEW m, ByteString(m, len), NEW rho, NEW buffer,
           hash_to_bytes(hashlen[params.level], rho, len, buffer)
               = hash_to_bytes(hashlen[params.level], rho, len, Zeros(len))
    PROVE  bf_decrypt(params, key, bf_encrypt(params, id, m, len, rho), buffer) = m
<1>. DEFINE hlen == hashlen[params.level]
            l == hash_to_range(rho, m)
            U == [curve |-> params.curve, l |-> l]
            theta == pairing_pp_apply(params, id, l)
            stream == hash_to_bytes(hlen, rho, len, Zeros(len))
            msg == bf_encrypt(params, id, m, len, rho)
<1>1. /\ msg.length = len
      /\ msg.U = U
      /\ msg.V = Xor(Digest("theta", theta), rho)
      /\ msg.W = XorBytes(stream, m)
  BY DEF bf_encrypt
<1>. HIDE DEF msg
<1>. DEFINE w == Xor(msg.V, Digest("theta", element_pairing(msg.U, key)))
            output == XorBytes(hash_to_bytes(hlen, w, msg.length, buffer), msg.W)
<1>2. element_pairing(msg.U, key) = theta
  BY <1>1, PairingsAgree
<1>3. w = rho
  BY <1>1, <1>2, XorTwice
<1>4. hash_to_bytes(hlen, w, msg.length, buffer) = stream
  BY <1>1, <1>3
<1>5. output = XorBytes(stream, XorBytes(stream, m))
  BY <1>1, <1>4
<1>6. output = m
  <2>1. ByteString(stream, len)
    BY StreamIsByteString
  <2>. HIDE DEF stream
  <2>. QED
    BY <1>5, <2>1, XorBytesTwice
<1>7. msg.U = [curve |-> params.curve, l |-> hash_to_range(w, output)]
  BY <1>1, <1>3, <1>6
<1>8. bf_decrypt(params, key, msg, buffer) =
          IF msg.U = [curve |-> params.curve, l |-> hash_to_range(w, output)]
          THEN output ELSE Zeros(msg.length)
  BY DEF bf_decrypt
<1>. QED
  BY <1>6, <1>7, <1>8 DEF msg

LEMMA XorWithSomething ==
    ASSUME NEW a, NEW b, NEW r, a # b
    PROVE  Xor(Xor({a}, r), {b}) # r
<1>1. a \in Xor(Xor({a}, r), {b}) <=> a \notin r
  BY DEF Xor
<1>. QED
  BY <1>1

----------------------------------------------------------------------------

\* What the ctypes binding encrypts for an identity, it decrypts with a key
\* that matches the parameters, at every level and for every length: what
\* bf_decrypt undoes is bf_encrypt, also where the key stream is incomplete.
THEOREM RoundTrip ==
    ASSUME NEW params, NEW key, NEW id, Matches(params, key, id),
           NEW len \in Nat, NEW m, ByteString(m, len), NEW rho
    PROVE  decrypt_ibe(params, key, encrypt_ibe(params, id, m, len, rho)) = m
<1>. DEFINE msg == bf_encrypt(params, id, m, len, rho)
<1>1. msg.length = len
  BY DEF bf_encrypt
<1>2. bf_decrypt(params, key, msg, Zeros(len)) = m
  BY DecryptsOver
<1>. HIDE DEF msg
<1>3. decrypt_ibe(params, key, [level |-> params.level, msg |-> msg])
          = bf_decrypt(params, key, msg, Zeros(len))
  BY <1>1 DEF decrypt_ibe
<1>. QED
  BY <1>2, <1>3 DEF msg, encrypt_ibe, bf_message_to_bytes

\* The Android binding does so, whatever its array held, as long as a digest
\* is as long as the message: 32-byte session keys need level 3 or more.
THEOREM AndroidRoundTrip ==
    ASSUME NEW params, NEW key, NEW id, Matches(params, key, id),
           NEW len \in Nat, NEW m, ByteString(m, len), NEW rho, NEW stack,
           params.level \in Levels, len <= hashlen[params.level]
    PROVE  decryptIBE(params, key, encrypt_ibe(params, id, m, len, rho), stack) = m
<1>. DEFINE msg == bf_encrypt(params, id, m, len, rho)
<1>1. params.level \in 1..5
  BY DEF Levels
<1>2. hashlen[params.level] \in Nat \ {0}
  BY <1>1 DEF hashlen
<1>3. hash_to_bytes(hashlen[params.level], rho, len, stack)
          = hash_to_bytes(hashlen[params.level], rho, len, Zeros(len))
  BY <1>2, OneDigestFillsAll
<1>4. bf_decrypt(params, key, msg, stack) = m
  BY <1>3, DecryptsOver
<1>. HIDE DEF msg
<1>5. decryptIBE(params, key, [level |-> params.level, msg |-> msg], stack)
          = bf_decrypt(params, key, msg, stack)
  BY DEF decryptIBE
<1>. QED
  BY <1>4, <1>5 DEF msg, encrypt_ibe, bf_message_to_bytes

\* A key whose pairing differs opens nothing: bf_decrypt clears the output.
LEMMA WrongKeyClears ==
    ASSUME NEW params, NEW key, NEW id, NEW len \in Nat, NEW m, NEW rho, NEW buffer,
           key.sum # [p \in Pairs |-> IF p[1] = id THEN params.precomp[p[2]] ELSE 0]
    PROVE  bf_decrypt(params, key, bf_encrypt(params, id, m, len, rho), buffer) = Zeros(len)
<1>. DEFINE l == hash_to_range(rho, m)
            U == [curve |-> params.curve, l |-> l]
            theta == pairing_pp_apply(params, id, l)
            msg == bf_encrypt(params, id, m, len, rho)
            other == element_pairing(msg.U, key)
<1>1. /\ msg.length = len
      /\ msg.U = U
      /\ msg.V = Xor(Digest("theta", theta), rho)
  BY DEF bf_encrypt
<1>2. theta.sum # other.sum
  BY <1>1 DEF pairing_pp_apply, element_pairing
<1>. HIDE DEF msg, theta, other
<1>. DEFINE w == Xor(msg.V, Digest("theta", other))
            output == XorBytes(hash_to_bytes(hashlen[params.level], w, msg.length,
                                             buffer), msg.W)
<1>3. w # rho
  <2>1. <<"theta", theta>> # <<"theta", other>>
    BY <1>2
  <2>. QED
    BY <1>1, <2>1, XorWithSomething DEF Digest
<1>. HIDE DEF w, output
<1>4. msg.U # [curve |-> params.curve, l |-> hash_to_range(w, output)]
  <2>1. hash_to_range(w, output).rho # hash_to_range(rho, m).rho
    BY <1>3 DEF hash_to_range
  <2>2. l # hash_to_range(w, output)
    BY <2>1
  <2>. QED
    BY <1>1, <2>2
<1>5. bf_decrypt(params, key, msg, buffer) =
          IF msg.U = [curve |-> params.curve, l |-> hash_to_range(w, output)]
          THEN output ELSE Zeros(msg.length)
  BY DEF bf_decrypt, w, output, other
<1>. QED
  BY <1>1, <1>4, <1>5 DEF msg

\* With a key whose pairing differs, for example a sum that misses a fragment
\* or one for another identity, both bindings give zeros, whatever the array of
\* the Android binding held.
THEOREM OtherKeysClear ==
    ASSUME NEW params, NEW key, NEW id, NEW len \in Nat, NEW m, NEW rho, NEW stack,
           key.sum # [p \in Pairs |-> IF p[1] = id THEN params.precomp[p[2]] ELSE 0]
    PROVE  LET bytes == encrypt_ibe(params, id, m, len, rho)
           IN  /\ decrypt_ibe(params, key, bytes) = Zeros(len)
               /\ decryptIBE(params, key, bytes, stack) = Zeros(len)
<1>. DEFINE msg == bf_encrypt(params, id, m, len, rho)
<1>1. msg.length = len
  BY DEF bf_encrypt
<1>2. \A buffer : bf_decrypt(params, key, msg, buffer) = Zeros(len)
  BY WrongKeyClears
<1>. HIDE DEF msg
<1>3. /\ decrypt_ibe(params, key, [level |-> params.level, msg |-> msg])
           = bf_decrypt(params, key, msg, Zeros(len))
      /\ decryptIBE(params, key, [level |-> params.level, msg |-> msg], stack)
           = bf_decrypt(params, key, msg, stack)
  BY <1>1 DEF decrypt_ibe, decryptIBE
<1>. QED
  BY <1>2, <1>3 DEF msg, encrypt_ibe, bf_message_to_bytes

LEMMA CopyIs ==
    ASSUME NEW p
    PROVE  copy_params(p) = [level |-> p.level, curve |-> p.curve,
                             P_pub |-> p.P_pub, precomp |-> p.P_pub]
  BY DEF copy_params, bf_params_from_string, bf_params_to_string, WithPublic

\* Formatting and parsing parameters, which every call between the bindings
\* and copy_params do, gives the same parameters.
THEOREM ExportImport ==
    ASSUME NEW params \in Params, TableIsRight(params)
    PROVE  copy_params(params) = params
  BY CopyIs DEF Params, TableIsRight

\* The fragment that the holder of a shard makes matches the parameters of the
\* shard (generate_shard, bf_generate_private_key).
THEOREM FragmentMatches ==
    ASSUME NEW base \in Params, NEW s \in Shard, NEW id \in Id
    PROVE  LET shard == generate_shard(base, s)
           IN  /\ TableIsRight(shard) /\ shard \in Params
               /\ Matches(shard, bf_generate_private_key(shard, s, id), id)
<1>. DEFINE shard == generate_shard(base, s)
<1>1. shard = [level |-> base.level, curve |-> base.curve,
               P_pub |-> Multiple(s), precomp |-> Multiple(s)]
  BY CopyIs DEF generate_shard, bf_generate_shard, WithPublic
<1>2. Multiple(s) \in [Shard -> Nat]
  BY DEF Multiple
<1>3. TableIsRight(shard) /\ shard \in Params
  BY <1>1, <1>2 DEF TableIsRight, Params
<1>4. \A p \in Pairs : (IF p = <<id, s>> THEN 1 ELSE 0)
                         = (IF p[1] = id THEN Multiple(s)[p[2]] ELSE 0)
  BY DEF Pairs, Multiple
<1>5. Matches(shard, bf_generate_private_key(shard, s, id), id)
  BY <1>1, <1>4 DEF Matches, bf_generate_private_key
<1>. QED
  BY <1>3, <1>5

\* Summing parameters and summing keys keep them matching, and the table of
\* the sum right: with FragmentMatches, a key summed up from fragments of every
\* shard matches the sum of the shards, in whatever order it is formed.
THEOREM SumMatches ==
    ASSUME NEW p1 \in Params, NEW p2 \in Params,
           p1.level = p2.level, p1.curve = p2.curve,
           NEW k1 \in PrivateKeys, NEW k2 \in PrivateKeys, NEW id \in Id,
           TableIsRight(p1), TableIsRight(p2),
           Matches(p1, k1, id), Matches(p2, k2, id)
    PROVE  /\ add_public(p1, p2) \in Params
           /\ TableIsRight(add_public(p1, p2))
           /\ Matches(add_public(p1, p2), add_secret(k1, k2), id)
<1>. DEFINE sum == [s \in Shard |-> p1.P_pub[s] + p2.P_pub[s]]
            both == add_public(p1, p2)
<1>1. both = [level |-> p1.level, curve |-> p1.curve,
              P_pub |-> sum, precomp |-> sum]
  BY CopyIs DEF add_public, WithPublic
<1>2. sum \in [Shard -> Nat]
  BY DEF Params
<1>3. both \in Params /\ TableIsRight(both)
  BY <1>1, <1>2 DEF Params, TableIsRight
<1>4. \A p \in Pairs : k1.sum[p] + k2.sum[p]
                         = (IF p[1] = id THEN sum[p[2]] ELSE 0)
  <2>. SUFFICES ASSUME NEW p \in Pairs
                PROVE  k1.sum[p] + k2.sum[p] = (IF p[1] = id THEN sum[p[2]] ELSE 0)
    OBVIOUS
  <2>1. p[2] \in Shard
    BY DEF Pairs
  <2>2. /\ k1.sum[p] = IF p[1] = id THEN p1.P_pub[p[2]] ELSE 0
        /\ k2.sum[p] = IF p[1] = id THEN p2.P_pub[p[2]] ELSE 0
    BY DEF Matches, TableIsRight
  <2>. QED
    BY <2>1, <2>2
<1>5. Matches(both, add_secret(k1, k2), id)
  BY <1>1, <1>4 DEF Matches, add_secret
<1>. QED
  BY <1>3, <1>5

----------------------------------------------------------------------------
(***************************************************************************)
(* Induction over the subsets of a finite set.                             *)
(***************************************************************************)

\* Every set of numbers has a least one.
LEMMA Least ==
    ASSUME NEW T, T \subseteq Nat, T # {}
    PROVE  \E x \in T : \A y \in T : x <= y
<1>1. IsWellFoundedOn({p \in Nat \X Nat : p[1] < p[2]}, Nat)
  BY NatLessThanWellFounded DEF OpToRel
<1>2. PICK x \in T : \A y \in T : ~(<<y, x>> \in {p \in Nat \X Nat : p[1] < p[2]})
  BY <1>1, WFMin
<1>3. ASSUME NEW y \in T PROVE x <= y
  <2>1. x \in Nat /\ y \in Nat /\ <<y, x>> \in Nat \X Nat
    OBVIOUS
  <2>2. ~(<<y, x>>[1] < <<y, x>>[2])
    BY <1>2, <2>1
  <2>. QED
    BY <2>1, <2>2
<1>. QED
  BY <1>3

\* What holds of the empty set, and of a set as soon as it holds without any
\* one of its elements, holds of every subset.
LEMMA SubsetInduction ==
    ASSUME NEW S, IsFiniteSet(S), NEW Good, {} \in Good,
           \A T \in SUBSET S : T # {} /\ (\A x \in T : T \ {x} \in Good) => T \in Good
    PROVE  SUBSET S \subseteq Good
<1>. DEFINE Bad == (SUBSET S) \ Good
<1>. SUFFICES ASSUME Bad # {} PROVE FALSE
  OBVIOUS
<1>. DEFINE Sizes == {Cardinality(T) : T \in Bad}
<1>1. \A T \in Bad : IsFiniteSet(T) /\ Cardinality(T) \in Nat
  BY FS_Subset, FS_CardinalityType
<1>2. Sizes \subseteq Nat /\ Sizes # {}
  BY <1>1
<1>3. PICK n \in Sizes : \A k \in Sizes : n <= k
  <2>. HIDE DEF Sizes
  <2>. QED
    BY <1>2, Least
<1>4. PICK T \in Bad : Cardinality(T) = n
  OBVIOUS
<1>5. PICK x \in T : T \ {x} \notin Good
  OBVIOUS
<1>6. T \ {x} \in Bad
  BY <1>5
<1>7. Cardinality(T \ {x}) = Cardinality(T) - 1
  BY <1>1, FS_RemoveElement
<1>8. Cardinality(T) <= Cardinality(T \ {x})
  BY <1>3, <1>4, <1>6
<1>. QED
  BY <1>1, <1>7, <1>8

----------------------------------------------------------------------------
(***************************************************************************)
(* What the folds of the generated system give.                            *)
(***************************************************************************)

LEMMA AnyOfIsIn ==
    ASSUME NEW T, T # {}
    PROVE  AnyOf(T) \in T
  BY DEF AnyOf

\* The parameters that the shards of T sum up to.
Summed(T) ==
    LET ones == [t \in Shard |-> IF t \in T THEN 1 ELSE 0]
    IN  [level |-> Level, curve |-> SystemCurve, P_pub |-> ones, precomp |-> ones]

LEMMA ShardIs ==
    ASSUME NEW s \in Server
    PROVE  ibe_shard(s) = Summed({s})
<1>1. ibe_shard(s) = [level |-> Level, curve |-> SystemCurve,
                      P_pub |-> Multiple(s), precomp |-> Multiple(s)]
  BY CopyIs DEF ibe_shard, base_ibe, generate_shard, bf_generate_shard, bf_setup, WithPublic
<1>2. Multiple(s) = [t \in Shard |-> IF t \in {s} THEN 1 ELSE 0]
  BY DEF Multiple
<1>. QED
  BY <1>1, <1>2 DEF Summed

LEMMA AddShard ==
    ASSUME NEW s \in Server, NEW T, s \notin T
    PROVE  add_public(ibe_shard(s), Summed(T)) = Summed(T \cup {s})
<1>1. \A U : Summed(U).level = Level /\ Summed(U).curve = SystemCurve
             /\ Summed(U).P_pub = [t \in Shard |-> IF t \in U THEN 1 ELSE 0]
  BY DEF Summed
<1>2. [t \in Shard |-> Summed({s}).P_pub[t] + Summed(T).P_pub[t]]
        = [t \in Shard |-> IF t \in T \cup {s} THEN 1 ELSE 0]
  <2>1. \A t \in Shard : Summed({s}).P_pub[t] + Summed(T).P_pub[t]
                           = IF t \in T \cup {s} THEN 1 ELSE 0
    <3>. SUFFICES ASSUME NEW t \in Shard
                  PROVE  Summed({s}).P_pub[t] + Summed(T).P_pub[t]
                           = IF t \in T \cup {s} THEN 1 ELSE 0
      OBVIOUS
    <3>1. /\ Summed({s}).P_pub[t] = IF t = s THEN 1 ELSE 0
          /\ Summed(T).P_pub[t] = IF t \in T THEN 1 ELSE 0
      <4>1. /\ Summed({s}).P_pub = [u \in Shard |-> IF u \in {s} THEN 1 ELSE 0]
            /\ Summed(T).P_pub = [u \in Shard |-> IF u \in T THEN 1 ELSE 0]
        BY <1>1
      <4>. QED
        BY <4>1
    <3>2. CASE t = s
      BY <3>1, <3>2
    <3>3. CASE t # s
      BY <3>1, <3>3
    <3>. QED
      BY <3>2, <3>3
  <2>. QED
    BY <2>1
<1>3. copy_params(Summed({s})).level = Level /\ copy_params(Summed({s})).curve = SystemCurve
  BY CopyIs, <1>1
<1>. QED
  BY <1>1, <1>2, <1>3, ShardIs DEF add_public, WithPublic, Summed

\* The public parameters are the sum of all shards.
LEMMA PublicIs == public_params = Summed(Server)
<1>. DEFINE first == AnyOf(Server)
            rest == Server \ {first}
            Iter(iter) == iter = [s \in SUBSET rest |->
                IF s = {} THEN ibe_shard(first)
                ELSE add_public(ibe_shard(AnyOf(s)), iter[s \ {AnyOf(s)}])]
            sums == [s \in SUBSET rest |-> Summed(s \cup {first})]
            iter == CHOOSE iter : Iter(iter)
<1>1. first \in Server /\ IsFiniteSet(rest)
  BY RegistrationAssumption, AnyOfIsIn, FS_RemoveElement
<1>2. public_params = iter[rest]
  BY DEF public_params, MapThenFoldSet
<1>3. ASSUME NEW T \in SUBSET rest, T # {}
      PROVE  /\ AnyOf(T) \in T /\ T \ {AnyOf(T)} \in SUBSET rest
             /\ add_public(ibe_shard(AnyOf(T)), Summed((T \ {AnyOf(T)}) \cup {first}))
                  = Summed(T \cup {first})
  <2>1. AnyOf(T) \in T /\ AnyOf(T) \in Server /\ AnyOf(T) \notin (T \ {AnyOf(T)}) \cup {first}
    BY <1>3, AnyOfIsIn
  <2>2. (T \ {AnyOf(T)}) \cup {first} \cup {AnyOf(T)} = T \cup {first}
    BY <2>1
  <2>3. add_public(ibe_shard(AnyOf(T)), Summed((T \ {AnyOf(T)}) \cup {first}))
          = Summed((T \ {AnyOf(T)}) \cup {first} \cup {AnyOf(T)})
    BY <2>1, AddShard
  <2>. QED
    BY <2>1, <2>2, <2>3
<1>4. ibe_shard(first) = Summed({} \cup {first})
  BY <1>1, ShardIs
<1>. HIDE DEF first, rest
<1>5. Iter(sums)
  <2>1. \A T \in SUBSET rest :
          sums[T] = IF T = {} THEN ibe_shard(first)
                    ELSE add_public(ibe_shard(AnyOf(T)), sums[T \ {AnyOf(T)}])
    BY <1>3, <1>4
  <2>2. sums = [s \in SUBSET rest |-> sums[s]]
    OBVIOUS
  <2>. HIDE DEF sums
  <2>. QED
    BY <2>1, <2>2
<1>6. Iter(iter)
  BY <1>5
<1>. HIDE DEF iter
<1>. DEFINE Good == {T \in SUBSET rest : iter[T] = Summed(T \cup {first})}
<1>7. {} \in Good
  BY <1>4, <1>6
<1>8. \A T \in SUBSET rest : T # {} /\ T \ {AnyOf(T)} \in Good => T \in Good
  BY <1>3, <1>6
<1>9. \A T \in SUBSET rest : T # {} /\ (\A x \in T : T \ {x} \in Good) => T \in Good
  <2>. HIDE DEF Good
  <2>. QED
    BY <1>3, <1>8
<1>10. SUBSET rest \subseteq Good
  <2>. HIDE DEF Good
  <2>. QED
    BY <1>1, <1>7, <1>9, SubsetInduction
<1>. QED
  BY <1>1, <1>2, <1>10 DEF first, rest

\* The key that the fragments of the members T sum up to for client c.
KeyOf(T, c) ==
    [curve |-> SystemCurve,
     sum |-> [p \in Pairs |-> IF p[1] = c /\ p[2] \in T THEN 1 ELSE 0]]

LEMMA FragmentIs ==
    ASSUME NEW s \in Server, NEW c
    PROVE  fragment(s, c) = KeyOf({s}, c)
<1>1. ibe_shard(s).curve = SystemCurve
  BY ShardIs DEF Summed
<1>2. \A p \in Pairs : (p = <<c, s>>) <=> (p[1] = c /\ p[2] \in {s})
  BY DEF Pairs
<1>. QED
  BY <1>1, <1>2 DEF fragment, bf_generate_private_key, KeyOf

LEMMA AddFragment ==
    ASSUME NEW s \in Server, NEW c, NEW T, s \notin T
    PROVE  add_secret(fragment(s, c), KeyOf(T, c)) = KeyOf(T \cup {s}, c)
<1>1. /\ KeyOf({s}, c).curve = SystemCurve
      /\ KeyOf({s}, c).sum = [p \in Pairs |-> IF p[1] = c /\ p[2] \in {s} THEN 1 ELSE 0]
      /\ KeyOf(T, c).sum = [p \in Pairs |-> IF p[1] = c /\ p[2] \in T THEN 1 ELSE 0]
  BY DEF KeyOf
<1>2. \A p \in Pairs : KeyOf({s}, c).sum[p] + KeyOf(T, c).sum[p]
                         = IF p[1] = c /\ p[2] \in T \cup {s} THEN 1 ELSE 0
  <2>. SUFFICES ASSUME NEW p \in Pairs
                PROVE  KeyOf({s}, c).sum[p] + KeyOf(T, c).sum[p]
                         = IF p[1] = c /\ p[2] \in T \cup {s} THEN 1 ELSE 0
    OBVIOUS
  <2>1. /\ KeyOf({s}, c).sum[p] = IF p[1] = c /\ p[2] \in {s} THEN 1 ELSE 0
        /\ KeyOf(T, c).sum[p] = IF p[1] = c /\ p[2] \in T THEN 1 ELSE 0
    BY <1>1
  <2>2. CASE p[2] = s
    BY <2>1, <2>2
  <2>3. CASE p[2] # s
    BY <2>1, <2>3
  <2>. QED
    BY <2>2, <2>3
<1>3. add_secret(KeyOf({s}, c), KeyOf(T, c)) = KeyOf(T \cup {s}, c)
  <2>1. [p \in Pairs |-> KeyOf({s}, c).sum[p] + KeyOf(T, c).sum[p]]
          = [p \in Pairs |-> IF p[1] = c /\ p[2] \in T \cup {s} THEN 1 ELSE 0]
    BY <1>2
  <2>2. add_secret(KeyOf({s}, c), KeyOf(T, c)) =
          [curve |-> SystemCurve, sum |-> [p \in Pairs |-> KeyOf({s}, c).sum[p] + KeyOf(T, c).sum[p]]]
    BY <1>1 DEF add_secret
  <2>. QED
    BY <2>1, <2>2 DEF KeyOf
<1>. QED
  BY <1>3, FragmentIs

\* A sum of fragments for one client is what it is, in whatever order reduce
\* takes them.
LEMMA SumIs ==
    ASSUME NEW c, NEW some \in SUBSET Server, some # {},
           NEW keys, keys = [s \in some |-> fragment(s, c)]
    PROVE  sum_secrets(keys) = KeyOf(some, c)
<1>. DEFINE first == AnyOf(some)
            rest == some \ {first}
            Iter(iter) == iter = [s \in SUBSET rest |->
                IF s = {} THEN keys[first]
                ELSE add_secret(keys[AnyOf(s)], iter[s \ {AnyOf(s)}])]
            sums == [s \in SUBSET rest |-> KeyOf(s \cup {first}, c)]
            iter == CHOOSE iter : Iter(iter)
<1>0. DOMAIN keys = some
  OBVIOUS
<1>1. first \in some /\ IsFiniteSet(rest)
  <2>1. IsFiniteSet(some)
    BY RegistrationAssumption, FS_Subset
  <2>. QED
    BY <2>1, AnyOfIsIn, FS_RemoveElement
<1>2. sum_secrets(keys) = iter[rest]
  BY <1>0 DEF sum_secrets, MapThenFoldSet
<1>3. ASSUME NEW T \in SUBSET rest, T # {}
      PROVE  /\ AnyOf(T) \in T /\ T \ {AnyOf(T)} \in SUBSET rest
             /\ add_secret(keys[AnyOf(T)], KeyOf((T \ {AnyOf(T)}) \cup {first}, c))
                  = KeyOf(T \cup {first}, c)
  <2>1. AnyOf(T) \in T /\ AnyOf(T) \in some /\ AnyOf(T) \notin (T \ {AnyOf(T)}) \cup {first}
    BY <1>3, AnyOfIsIn
  <2>2. (T \ {AnyOf(T)}) \cup {first} \cup {AnyOf(T)} = T \cup {first}
    BY <2>1
  <2>3. add_secret(keys[AnyOf(T)], KeyOf((T \ {AnyOf(T)}) \cup {first}, c))
          = KeyOf((T \ {AnyOf(T)}) \cup {first} \cup {AnyOf(T)}, c)
    BY <2>1, AddFragment
  <2>. QED
    BY <2>1, <2>2, <2>3
<1>4. keys[first] = KeyOf({} \cup {first}, c)
  BY <1>1, FragmentIs
<1>. HIDE DEF first, rest
<1>5. Iter(sums)
  <2>1. \A T \in SUBSET rest :
          sums[T] = IF T = {} THEN keys[first]
                    ELSE add_secret(keys[AnyOf(T)], sums[T \ {AnyOf(T)}])
    BY <1>3, <1>4
  <2>2. sums = [s \in SUBSET rest |-> sums[s]]
    OBVIOUS
  <2>. HIDE DEF sums
  <2>. QED
    BY <2>1, <2>2
<1>6. Iter(iter)
  BY <1>5
<1>. HIDE DEF iter
<1>. DEFINE Good == {T \in SUBSET rest : iter[T] = KeyOf(T \cup {first}, c)}
<1>7. {} \in Good
  BY <1>4, <1>6
<1>8. \A T \in SUBSET rest : T # {} /\ T \ {AnyOf(T)} \in Good => T \in Good
  BY <1>3, <1>6
<1>9. \A T \in SUBSET rest : T # {} /\ (\A x \in T : T \ {x} \in Good) => T \in Good
  <2>. HIDE DEF Good
  <2>. QED
    BY <1>3, <1>8
<1>10. SUBSET rest \subseteq Good
  <2>. HIDE DEF Good
  <2>. QED
    BY <1>1, <1>7, <1>9, SubsetInduction
<1>11. iter[rest] = KeyOf(rest \cup {first}, c)
  BY <1>10
<1>12. rest \cup {first} = some
  BY <1>1 DEF rest
<1>. QED
  BY <1>2, <1>11, <1>12

----------------------------------------------------------------------------
(***************************************************************************)
(* The number of restarts is the sum of everybody's.                       *)
(***************************************************************************)

Summand(T) == CHOOSE x \in T : TRUE

IsSum(iter, f, S, n) ==
    iter = [T \in {T \in SUBSET S : Cardinality(T) <= n} |->
                IF T = {} THEN 0 ELSE f[Summand(T)] + iter[T \ {Summand(T)}]]

\* Sums exist, and every summand is at most the sum.
LEMMA SumExists ==
    ASSUME NEW S, IsFiniteSet(S), NEW f, NEW n \in Nat
    PROVE  \E iter : IsSum(iter, f, S, n)
<1>. DEFINE N == {k \in Nat : \E iter : IsSum(iter, f, S, k)}
            Upto(k) == {T \in SUBSET S : Cardinality(T) <= k}
<1>0. \A T \in SUBSET S : /\ Cardinality(T) \in Nat /\ IsFiniteSet(T)
                          /\ (Cardinality(T) = 0 <=> T = {})
                          /\ T # {} => /\ Summand(T) \in T
                                       /\ Cardinality(T \ {Summand(T)}) = Cardinality(T) - 1
  <2>. SUFFICES ASSUME NEW T \in SUBSET S
                PROVE  /\ Cardinality(T) \in Nat /\ IsFiniteSet(T)
                       /\ (Cardinality(T) = 0 <=> T = {})
                       /\ T # {} => /\ Summand(T) \in T
                                    /\ Cardinality(T \ {Summand(T)}) = Cardinality(T) - 1
    OBVIOUS
  <2>1. IsFiniteSet(T) /\ Cardinality(T) \in Nat
    BY FS_Subset, FS_CardinalityType
  <2>2. Cardinality(T) = 0 <=> T = {}
    BY <2>1, FS_EmptySet
  <2>3. T # {} => Summand(T) \in T
    BY DEF Summand
  <2>. QED
    BY <2>1, <2>2, <2>3, FS_RemoveElement
<1>1. 0 \in N
  <2>. DEFINE iter == [T \in Upto(0) |-> 0]
  <2>1. ASSUME NEW T \in Upto(0) PROVE T = {}
    <3>1. T \in SUBSET S /\ Cardinality(T) <= 0
      OBVIOUS
    <3>2. Cardinality(T) \in Nat /\ (Cardinality(T) = 0 <=> T = {})
      BY <1>0, <3>1
    <3>3. Cardinality(T) = 0
      BY <3>1, <3>2
    <3>. QED
      BY <3>2, <3>3
  <2>2. IsSum(iter, f, S, 0)
    BY <2>1 DEF IsSum
  <2>. QED
    BY <2>2
<1>2. ASSUME NEW k \in Nat, k \in N PROVE k + 1 \in N
  <2>1. PICK iter : IsSum(iter, f, S, k)
    BY <1>2
  <2>. DEFINE value(T) == IF T = {} THEN 0 ELSE f[Summand(T)] + iter[T \ {Summand(T)}]
              more == [T \in Upto(k + 1) |-> value(T)]
  <2>2. ASSUME NEW T \in Upto(k)
        PROVE  iter[T] = value(T) /\ T \in Upto(k + 1)
    <3>1. T \in SUBSET S /\ Cardinality(T) <= k /\ Cardinality(T) \in Nat
      BY <1>0
    <3>2. iter[T] = value(T)
      BY <2>1 DEF IsSum
    <3>3. Cardinality(T) <= k + 1
      BY <3>1
    <3>. QED
      BY <3>1, <3>2, <3>3
  <2>3. \A T \in Upto(k + 1) : T # {} => T \ {Summand(T)} \in Upto(k)
    BY <1>0
  <2>4. \A T \in Upto(k) : more[T] = iter[T]
    BY <2>2
  <2>5. \A T \in Upto(k + 1) :
          more[T] = IF T = {} THEN 0 ELSE f[Summand(T)] + more[T \ {Summand(T)}]
    BY <2>3, <2>4
  <2>6. more = [T \in Upto(k + 1) |-> more[T]]
    OBVIOUS
  <2>. HIDE DEF more
  <2>7. IsSum(more, f, S, k + 1)
    BY <2>5, <2>6 DEF IsSum
  <2>. QED
    BY <2>7
<1>3. Nat \subseteq N
  <2>. HIDE DEF N
  <2>1. ASSUME Nat \ N # {} PROVE FALSE
    <3>1. PICK x \in Nat \ N : \A y \in Nat \ N : x <= y
      BY <2>1, Least
    <3>2. x - 1 \in Nat /\ x - 1 \in N
      BY <1>1, <3>1
    <3>. QED
      BY <1>2, <3>1, <3>2
  <2>. QED
    BY <2>1
<1>. QED
  BY <1>3

LEMMA SummandAtMost ==
    ASSUME NEW S, IsFiniteSet(S), NEW f \in [S -> Nat]
    PROVE  /\ FoldFunction(+, 0, f) \in Nat
           /\ \A x \in S : f[x] <= FoldFunction(+, 0, f)
<1>. DEFINE Iter(iter) == iter = [T \in SUBSET S |->
                IF T = {} THEN 0 ELSE f[Summand(T)] + iter[T \ {Summand(T)}]]
            iter == CHOOSE iter : Iter(iter)
<1>0. DOMAIN f = S
  OBVIOUS
<1>1. FoldFunction(+, 0, f) = iter[S]
  BY <1>0 DEF FoldFunction, FoldFunctionOnSet, MapThenFoldSet, Summand
<1>2. Iter(iter)
  <2>1. \A T \in SUBSET S : Cardinality(T) <= Cardinality(S)
    BY FS_Subset
  <2>2. {T \in SUBSET S : Cardinality(T) <= Cardinality(S)} = SUBSET S
    BY <2>1
  <2>3. PICK sum : IsSum(sum, f, S, Cardinality(S))
    BY SumExists, FS_CardinalityType
  <2>4. Iter(sum)
    BY <2>2, <2>3 DEF IsSum
  <2>. QED
    BY <2>4
<1>. HIDE DEF iter
<1>. DEFINE Good == {T \in SUBSET S : iter[T] \in Nat /\ \A x \in T : f[x] <= iter[T]}
<1>3. {} \in Good
  BY <1>2
<1>4. \A T \in SUBSET S : T # {} => Summand(T) \in T
  BY DEF Summand
<1>5. ASSUME NEW T \in SUBSET S, T # {}, T \ {Summand(T)} \in Good
      PROVE  T \in Good
  <2>1. iter[T] = f[Summand(T)] + iter[T \ {Summand(T)}]
    BY <1>2, <1>5
  <2>2. Summand(T) \in T /\ f[Summand(T)] \in Nat
    BY <1>4, <1>5
  <2>3. \A x \in T : x = Summand(T) \/ x \in T \ {Summand(T)}
    OBVIOUS
  <2>4. iter[T \ {Summand(T)}] \in Nat /\ \A x \in T \ {Summand(T)} : f[x] \in Nat /\ f[x] <= iter[T \ {Summand(T)}]
    BY <1>5
  <2>. QED
    BY <2>1, <2>2, <2>3, <2>4
<1>6. \A T \in SUBSET S : T # {} /\ (\A x \in T : T \ {x} \in Good) => T \in Good
  <2>. HIDE DEF Good
  <2>. QED
    BY <1>4, <1>5
<1>7. SUBSET S \subseteq Good
  <2>. HIDE DEF Good
  <2>. QED
    BY <1>3, <1>6, SubsetInduction
<1>. QED
  BY <1>1, <1>7

----------------------------------------------------------------------------
(***************************************************************************)
(* The whole key, and what it opens.                                       *)
(***************************************************************************)

\* A session key is no longer than a digest wherever bfibejni.c decrypts.
DigestsFill == Android # {} => KeyBytes <= hashlen[Level]

WholeKey(c) == KeyOf(Server, c)

LEMMA WholeKeyIs ==
    ASSUME NEW c
    PROVE  /\ sum_secrets([s \in Server |-> fragment(s, c)]) = WholeKey(c)
           /\ ConfiguredKey(c) \in {WholeKey(c), NULL}
           /\ c \in Client => WholeKey(c) \in Keys
<1>1. sum_secrets([s \in Server |-> fragment(s, c)]) = WholeKey(c)
  BY RegistrationAssumption, SumIs DEF WholeKey
<1>2. c \in Client => WholeKey(c) \in Keys
  <2>1. Server \in (SUBSET Server) \ {{}}
    BY RegistrationAssumption
  <2>. QED
    BY <1>1, <2>1 DEF Keys
<1>. QED
  BY <1>1, <1>2 DEF ConfiguredKey

\* The whole key of a client opens the messages to the client, and no others.
LEMMA WholeKeyOpens ==
    ASSUME DigestsFill, NEW c \in Client, NEW m \in Sent
    PROVE  Opens(c, WholeKey(c), m) <=> m.to = c
<1>. DEFINE key == WholeKey(c)
            plain == SessionKey(m)
            rho == {<<"rho", m.rho>>}
            bytes == encrypt_ibe(public_params, m.to, plain, KeyBytes, rho)
<1>1. Opens(c, key, m) <=> decrypt_user_message(c, key, m) = plain
  <2>1. key \in Keys
    BY WholeKeyIs
  <2>. HIDE DEF key
  <2>. QED
    BY <2>1 DEF Opens, Reading
<1>2. decrypt_user_message(c, key, m) \in
          {decryptIBE(public_params, key, bytes, Stack), decrypt_ibe(public_params, key, bytes)}
  BY DEF decrypt_user_message, encrypt_user_message
<1>3. /\ public_params.level \in Levels /\ public_params.level = Level
      /\ \A id : [p \in Pairs |-> IF p[1] = id THEN public_params.precomp[p[2]] ELSE 0]
                   = KeyOf(Server, id).sum
      /\ public_params.curve = SystemCurve
  <2>2. public_params.level \in Levels /\ public_params.level = Level /\ public_params.curve = SystemCurve
    <3>1. Level \in Levels
      BY RegistrationAssumption
    <3>. QED
      BY <3>1, PublicIs DEF Summed
  <2>3. public_params.precomp = [t \in Shard |-> 1]
    BY PublicIs DEF Summed, Server
  <2>4. \A p \in Pairs : p[2] \in Shard
    BY DEF Pairs
  <2>5. ASSUME NEW id
        PROVE  [p \in Pairs |-> IF p[1] = id THEN public_params.precomp[p[2]] ELSE 0]
                 = KeyOf(Server, id).sum
    BY <2>3, <2>4 DEF KeyOf, Server
  <2>. QED
    BY <2>2, <2>5
<1>4. /\ plain = [i \in 1..KeyBytes |-> plain[i]] /\ KeyBytes \in Nat
      /\ plain # Zeros(KeyBytes)
  <2>1. plain[1] = {<<"key", m.nonce, m.rho, 1>>} /\ Zeros(KeyBytes)[1] = {}
    BY DEF SessionKey, KeyBytes, Zeros, ZeroByte
  <2>. QED
    BY <2>1 DEF SessionKey, KeyBytes
<1>. HIDE DEF plain
<1>5. CASE m.to = c
  <2>1. Matches(public_params, key, c)
    BY <1>3 DEF Matches, WholeKey, KeyOf
  <2>2. decrypt_ibe(public_params, key, bytes) = plain
    BY <1>4, <1>5, <2>1, RoundTrip DEF ByteString
  <2>3. ASSUME c \in Android
        PROVE  decryptIBE(public_params, key, bytes, Stack) = plain
    <3>1. KeyBytes <= hashlen[public_params.level]
      BY <1>3, <2>3 DEF DigestsFill
    <3>. QED
      BY <1>3, <1>4, <1>5, <2>1, <3>1, AndroidRoundTrip DEF ByteString
  <2>. QED
    BY <1>1, <1>5, <2>2, <2>3 DEF decrypt_user_message, encrypt_user_message, plain
<1>6. CASE m.to # c
  <2>1. key.sum # KeyOf(Server, m.to).sum
    <3>1. PICK s \in Server : TRUE
      BY RegistrationAssumption
    <3>2. <<c, s>> \in Pairs
      BY RegistrationAssumption DEF Pairs, Server
    <3>3. key.sum[<<c, s>>] = 1 /\ KeyOf(Server, m.to).sum[<<c, s>>] = 0
      BY <1>6, <3>2 DEF WholeKey, KeyOf
    <3>. QED
      BY <3>3
  <2>2. decrypt_ibe(public_params, key, bytes) = Zeros(KeyBytes)
        /\ decryptIBE(public_params, key, bytes, Stack) = Zeros(KeyBytes)
    <3>1. key.sum # [p \in Pairs |-> IF p[1] = m.to THEN public_params.precomp[p[2]] ELSE 0]
      BY <1>3, <2>1
    <3>2. KeyBytes \in Nat
      BY DEF KeyBytes
    <3>. HIDE DEF key, rho
    <3>. QED
      BY <3>1, <3>2, OtherKeysClear
  <2>. QED
    BY <1>1, <1>2, <1>4, <1>6, <2>2
<1>. QED
  BY <1>5, <1>6

----------------------------------------------------------------------------
(***************************************************************************)
(* The inductive invariant.  A response carries the nonce of a request,    *)
(* and a request the number of a session, which a restart of the client    *)
(* increases; fragments are those of the client they are kept for; a key   *)
(* is whole or missing.                                                    *)
(***************************************************************************)

Nonces == {m.nonce : m \in Sent}

ClientsTyped ==
    /\ alive \in [Client -> BOOLEAN]
    /\ session \in [Client -> Nat]
    /\ encrypted_message_queue \in [Client -> SUBSET Sent]
    /\ incoming_dedupe \in [Client -> SUBSET Sent]
    /\ message_store \in [Client -> Seq(Nonces)]

NetworkTyped ==
    /\ mail \subseteq Requests \cup Responses \cup UserMail
    /\ restarts \in [Client \cup Server -> 0..MaxRestarts]
    /\ lost \in 0..MaxLost

KeysTyped ==
    /\ private_key = [c \in Client |-> private_key[c]]
    /\ \A c \in Client : private_key[c] \in {WholeKey(c), NULL}
    /\ registration_keys = [c \in Client |-> registration_keys[c]]
    /\ \A c \in Client :
         /\ registration_keys[c] = [s \in Server |-> registration_keys[c][s]]
         /\ \A s \in Server : registration_keys[c][s] \in {NULL, fragment(s, c)}

\* Every bootstrap but the first follows a restart, and who never bootstraps
\* has the key.
SessionsCounted ==
    \A c \in Client : /\ session[c] <= restarts[c] + 1
                      /\ session[c] = 0 => private_key[c] = WholeKey(c)

IInv == ClientsTyped /\ NetworkTyped /\ KeysTyped /\ SessionsCounted

LEMMA Bounds ==
    MaxRestarts \in Nat /\ MaxLost \in Nat /\ \A i \in 0..MaxRestarts : i \in Nat
  BY RegistrationAssumption

LEMMA KeyIsNotNull ==
    ASSUME NEW c
    PROVE  WholeKey(c) # NULL
<1>1. SystemCurve \in Curve
  BY RegistrationAssumption, AnyOfIsIn DEF SystemCurve
<1>2. WholeKey(c) \in PrivateKeys
  BY <1>1 DEF WholeKey, KeyOf, PrivateKeys
<1>. QED
  BY <1>2, RegistrationAssumption

LEMMA InvInit == Init => IInv
<1>. SUFFICES ASSUME Init PROVE IInv
  OBVIOUS
<1>1. ClientsTyped
  <2>1. \A c \in Client : <<>> \in Seq(Nonces)
    BY EmptySeq
  <2>. QED
    BY <2>1 DEF Init, ClientsTyped
<1>2. NetworkTyped
  BY Bounds DEF Init, NetworkTyped
<1>3. KeysTyped
  BY WholeKeyIs DEF Init, KeysTyped, NoKeys
<1>4. SessionsCounted
  BY WholeKeyIs DEF Init, SessionsCounted, ConfiguredKey
<1>. QED
  BY <1>1, <1>2, <1>3, <1>4 DEF IInv

LEMMA Between == \A i, j, k \in Nat : i <= j /\ j < k => i < k
  OBVIOUS

\* Who restarts has not done so MaxRestarts times.
LEMMA RestartBound ==
    ASSUME IInv, FoldFunction(+, 0, restarts) < MaxRestarts, NEW x \in Client \cup Server
    PROVE  restarts[x] < MaxRestarts
<1>1. restarts \in [Client \cup Server -> Nat]
  <2>1. restarts \in [Client \cup Server -> 0..MaxRestarts]
    BY Zenon DEF IInv, NetworkTyped
  <2>. QED
    BY <2>1, Bounds, Zenon
<1>2. IsFiniteSet(Client \cup Server)
  BY RegistrationAssumption, FS_Union, Zenon
<1>3. restarts[x] <= FoldFunction(+, 0, restarts) /\ FoldFunction(+, 0, restarts) \in Nat
  BY <1>1, <1>2, SummandAtMost, Zenon
<1>4. restarts[x] \in Nat /\ MaxRestarts \in Nat
  BY <1>1, Bounds, Zenon
<1>. QED
  BY <1>3, <1>4, Between, Zenon

LEMMA RestartCounted ==
    ASSUME IInv, NEW x \in Client \cup Server, restarts[x] < MaxRestarts,
           restarts' = [restarts EXCEPT ![x] = @ + 1]
    PROVE  /\ restarts' \in [Client \cup Server -> 0..MaxRestarts]
           /\ \A y \in Client \cup Server : restarts[y] <= restarts'[y]
           /\ restarts'[x] = restarts[x] + 1
<1>1. restarts \in [Client \cup Server -> 0..MaxRestarts]
  BY DEF IInv, NetworkTyped
<1>2. restarts[x] + 1 \in 0..MaxRestarts
  BY <1>1, Bounds
<1>3. \A y \in Client \cup Server : restarts[y] <= restarts'[y]
  <2>. SUFFICES ASSUME NEW y \in Client \cup Server PROVE restarts[y] <= restarts'[y]
    OBVIOUS
  <2>1. restarts'[y] = IF y = x THEN restarts[x] + 1 ELSE restarts[y]
    BY <1>1
  <2>2. restarts[y] \in Nat /\ restarts[x] \in Nat
    BY <1>1, Bounds
  <2>. QED
    BY <2>1, <2>2
<1>. QED
  BY <1>1, <1>2, <1>3

\* What a read message does to the store.
LEMMA StoreGrows ==
    ASSUME IInv, NEW c \in Client, NEW m \in Sent,
           message_store' = process_encrypted_user_message(c, m)
    PROVE  /\ message_store' \in [Client -> Seq(Nonces)]
           /\ \A d \in Client : Range(message_store[d]) \subseteq Range(message_store'[d])
           /\ Opens(c, private_key[c], m) => m.nonce \in Range(message_store'[c])
<1>1. message_store \in [Client -> Seq(Nonces)] /\ m.nonce \in Nonces
  BY DEF IInv, ClientsTyped, Nonces
<1>2. CASE Opens(c, private_key[c], m) /\ m.nonce \notin Range(message_store[c])
  <2>1. message_store' = [message_store EXCEPT ![c] = Append(@, m.nonce)]
    BY <1>2 DEF process_encrypted_user_message
  <2>2. /\ Append(message_store[c], m.nonce) \in Seq(Nonces)
        /\ Range(Append(message_store[c], m.nonce)) = Range(message_store[c]) \cup {m.nonce}
    <3>1. message_store[c] \in Seq(Nonces)
      BY <1>1
    <3>2. /\ Append(message_store[c], m.nonce) \in Seq(Nonces)
          /\ Len(Append(message_store[c], m.nonce)) = Len(message_store[c]) + 1
          /\ \A i \in 1..Len(message_store[c]) :
               Append(message_store[c], m.nonce)[i] = message_store[c][i]
          /\ Append(message_store[c], m.nonce)[Len(message_store[c]) + 1] = m.nonce
      BY <1>1, <3>1, AppendProperties
    <3>3. Len(message_store[c]) \in Nat /\ DOMAIN message_store[c] = 1..Len(message_store[c])
          /\ DOMAIN Append(message_store[c], m.nonce) = 1..Len(message_store[c]) + 1
      BY <3>1, <3>2, LenProperties
    <3>4. 1..Len(message_store[c]) + 1 = (1..Len(message_store[c])) \cup {Len(message_store[c]) + 1}
      BY <3>3
    <3>. QED
      BY <3>2, <3>3, <3>4 DEF Range
  <2>3. \A d \in Client : message_store'[d] = IF d = c THEN Append(message_store[c], m.nonce)
                                              ELSE message_store[d]
    BY <1>1, <2>1
  <2>. QED
    BY <1>1, <2>1, <2>2, <2>3
<1>3. CASE ~(Opens(c, private_key[c], m) /\ m.nonce \notin Range(message_store[c]))
  BY <1>1, <1>3 DEF process_encrypted_user_message
<1>. QED
  BY <1>2, <1>3

\* A request of a session is one of Requests.
LEMMA RequestStep ==
    ASSUME IInv, NEW c \in Client, NEW s \in Server, send_bootstrap_request(c, s)
    PROVE  IInv'
<1>. DEFINE request == [type |-> "request", name |-> c, server |-> s, nonce |-> session[c]]
<1>1. mail' = mail \cup {request} /\ UNCHANGED <<client, distributed_keys, restarts, lost>>
  BY DEF send_bootstrap_request
<1>2. request \in Requests
  <2>1. session[c] \in Nat /\ restarts[c] \in 0..MaxRestarts /\ session[c] <= restarts[c] + 1
    BY DEF IInv, ClientsTyped, NetworkTyped, SessionsCounted
  <2>2. session[c] \in 1..(MaxRestarts + 1)
    <3>1. session[c] # 0
      BY KeyIsNotNull DEF IInv, SessionsCounted, send_bootstrap_request, can_decrypt
    <3>. QED
      BY <2>1, <3>1, Bounds
  <2>. QED
    BY <2>2 DEF Requests
<1>. HIDE DEF request
<1>3. NetworkTyped'
  BY <1>1, <1>2 DEF IInv, NetworkTyped
<1>. QED
  BY <1>1, <1>3 DEF IInv, ClientsTyped, KeysTyped, SessionsCounted, client

LEMMA ServeStep ==
    ASSUME IInv, NEW s \in Server, NEW m \in mail, message_received(s, m)
    PROVE  IInv'
<1>1. /\ m \in Requests /\ mail' = mail \cup {[m EXCEPT !.type = "response"]}
      /\ UNCHANGED <<client, restarts, lost>>
  BY DEF message_received
<1>2. [m EXCEPT !.type = "response"] \in Responses
  BY <1>1 DEF Requests, Responses
<1>3. NetworkTyped'
  BY <1>1, <1>2 DEF IInv, NetworkTyped
<1>. QED
  BY <1>1, <1>3 DEF IInv, ClientsTyped, KeysTyped, SessionsCounted, client

\* A response adds the client's own fragment, and the last one makes the key.
LEMMA ResponseStep ==
    ASSUME IInv, NEW c \in Client, NEW m, process_encrypted_registration_message(c, m)
    PROVE  IInv' /\ private_key'[c] \in {private_key[c], WholeKey(c)}
<1>. DEFINE keys == [registration_keys[c] EXCEPT ![m.server] = messagetext(m)]
            whole == \A s \in Server : keys[s] # NULL
<1>1. /\ m \in Responses /\ m.name = c /\ session[c] > 0
      /\ registration_keys' = [registration_keys EXCEPT ![c] = keys]
      /\ private_key' = IF whole THEN [private_key EXCEPT ![c] = sum_secrets(keys)]
                        ELSE private_key
      /\ UNCHANGED <<alive, session, encrypted_message_queue, incoming_dedupe,
                     message_store, mail, restarts, lost>>
  BY DEF process_encrypted_registration_message, IsMine
<1>2. m.server \in Server /\ messagetext(m) = fragment(m.server, c)
  BY <1>1 DEF Responses, messagetext
<1>3. /\ keys = [s \in Server |-> keys[s]]
      /\ \A s \in Server : keys[s] \in {NULL, fragment(s, c)}
  <2>1. /\ registration_keys[c] = [s \in Server |-> registration_keys[c][s]]
        /\ \A s \in Server : registration_keys[c][s] \in {NULL, fragment(s, c)}
    BY DEF IInv, KeysTyped
  <2>. QED
    BY <1>2, <2>1
<1>4. whole => sum_secrets(keys) = WholeKey(c)
  <2>1. whole => keys = [s \in Server |-> fragment(s, c)]
    BY <1>3
  <2>. HIDE DEF keys
  <2>. QED
    BY <2>1, WholeKeyIs
<1>. HIDE DEF keys
<1>5. /\ private_key' = [d \in Client |-> private_key'[d]]
      /\ private_key'[c] \in {private_key[c], WholeKey(c)}
      /\ \A d \in Client : d # c => private_key'[d] = private_key[d]
  <2>1. private_key = [d \in Client |-> private_key[d]]
    BY DEF IInv, KeysTyped
  <2>2. CASE whole
    BY <1>1, <1>4, <2>1, <2>2
  <2>3. CASE ~whole
    BY <1>1, <2>1, <2>3
  <2>. QED
    BY <2>2, <2>3
<1>6. KeysTyped'
  <2>1. /\ private_key' = [d \in Client |-> private_key'[d]]
        /\ \A d \in Client : private_key'[d] \in {WholeKey(d), NULL}
    BY <1>5 DEF IInv, KeysTyped
  <2>2. /\ registration_keys = [d \in Client |-> registration_keys[d]]
        /\ \A d \in Client :
             /\ registration_keys[d] = [s \in Server |-> registration_keys[d][s]]
             /\ \A s \in Server : registration_keys[d][s] \in {NULL, fragment(s, d)}
    BY DEF IInv, KeysTyped
  <2>3. \A d \in Client : registration_keys'[d] = IF d = c THEN keys ELSE registration_keys[d]
    BY <1>1, <2>2
  <2>4. \A d \in Client :
             /\ registration_keys'[d] = [s \in Server |-> registration_keys'[d][s]]
             /\ \A s \in Server : registration_keys'[d][s] \in {NULL, fragment(s, d)}
    BY <1>3, <2>2, <2>3
  <2>5. registration_keys' = [d \in Client |-> registration_keys'[d]]
    BY <1>1, <2>2
  <2>. QED
    BY <2>1, <2>4, <2>5 DEF KeysTyped
<1>7. SessionsCounted'
  BY <1>1, <1>5 DEF IInv, SessionsCounted
<1>8. ClientsTyped' /\ NetworkTyped'
  BY <1>1 DEF IInv, ClientsTyped, NetworkTyped
<1>. QED
  BY <1>5, <1>6, <1>7, <1>8 DEF IInv

LEMMA RefuseStep ==
    ASSUME IInv, NEW c \in Client, NEW m, refuse_registration_message(c, m)
    PROVE  IInv'
  BY DEF refuse_registration_message, IInv, ClientsTyped, NetworkTyped, KeysTyped, SessionsCounted

LEMMA MessageStep ==
    ASSUME IInv, NEW c \in Client, NEW m \in Sent, process_message(c, m) \/ drain_queue(c, m)
    PROVE  IInv'
<1>1. /\ incoming_dedupe' \in [Client -> SUBSET Sent]
      /\ encrypted_message_queue' \in [Client -> SUBSET Sent]
      /\ message_store' \in [Client -> Seq(Nonces)]
      /\ UNCHANGED <<alive, session, private_key, registration_keys, mail, restarts, lost>>
  <2>1. CASE process_message(c, m)
    <3>1. /\ incoming_dedupe' = [incoming_dedupe EXCEPT ![c] = @ \cup {m}]
          /\ encrypted_message_queue' \in
               {encrypted_message_queue, [encrypted_message_queue EXCEPT ![c] = @ \cup {m}]}
          /\ \/ message_store' = message_store
             \/ message_store' = process_encrypted_user_message(c, m)
          /\ UNCHANGED <<alive, session, private_key, registration_keys, mail, restarts, lost>>
      BY <2>1 DEF process_message
    <3>. QED
      BY <3>1, StoreGrows DEF IInv, ClientsTyped
  <2>2. CASE drain_queue(c, m)
    <3>1. /\ UNCHANGED <<incoming_dedupe, alive, session, private_key, registration_keys,
                         mail, restarts, lost>>
          /\ encrypted_message_queue' = [encrypted_message_queue EXCEPT ![c] = @ \ {m}]
          /\ message_store' = process_encrypted_user_message(c, m)
      BY <2>2 DEF drain_queue
    <3>. QED
      BY <3>1, StoreGrows DEF IInv, ClientsTyped
  <2>. QED
    BY <2>1, <2>2
<1>. QED
  BY <1>1 DEF IInv, ClientsTyped, NetworkTyped, KeysTyped, SessionsCounted

LEMMA RestartClientStep ==
    ASSUME IInv, NEW c \in Client, RestartClient(c)
    PROVE  IInv'
<1>0. restarts[c] < MaxRestarts
  BY RestartBound, Zenon DEF RestartClient
<1>1. /\ restarts' = [restarts EXCEPT ![c] = @ + 1]
      /\ alive' = [alive EXCEPT ![c] = TRUE]
      /\ session' = [session EXCEPT ![c] = IF c \in Provisioned THEN 0 ELSE @ + 1]
      /\ private_key' = [private_key EXCEPT ![c] = ConfiguredKey(c)]
      /\ registration_keys' = [registration_keys EXCEPT ![c] = NoKeys]
      /\ encrypted_message_queue' = [encrypted_message_queue EXCEPT ![c] = {}]
      /\ incoming_dedupe' = [incoming_dedupe EXCEPT ![c] = {}]
      /\ message_store' = [message_store EXCEPT ![c] = <<>>]
      /\ UNCHANGED <<mail, lost>>
  BY Zenon DEF RestartClient
<1>. HIDE DEF RestartClient
<1>2. /\ restarts' \in [Client \cup Server -> 0..MaxRestarts]
      /\ \A y \in Client \cup Server : restarts[y] <= restarts'[y]
      /\ restarts'[c] = restarts[c] + 1
  BY <1>0, <1>1, RestartCounted
<1>3. ClientsTyped'
  <2>1. <<>> \in Seq(Nonces)
    BY EmptySeq
  <2>. QED
    BY <1>1, <2>1 DEF IInv, ClientsTyped
<1>4. NetworkTyped'
  BY <1>1, <1>2 DEF IInv, NetworkTyped
<1>5. KeysTyped'
  <2>1. /\ private_key' = [d \in Client |-> private_key'[d]]
        /\ \A d \in Client : private_key'[d] = IF d = c THEN ConfiguredKey(c) ELSE private_key[d]
    BY <1>1 DEF IInv, KeysTyped
  <2>2. /\ registration_keys' = [d \in Client |-> registration_keys'[d]]
        /\ \A d \in Client : registration_keys'[d] = IF d = c THEN NoKeys ELSE registration_keys[d]
    BY <1>1 DEF IInv, KeysTyped
  <2>3. \A d \in Client : private_key'[d] \in {WholeKey(d), NULL}
    BY <2>1, WholeKeyIs DEF IInv, KeysTyped
  <2>4. \A d \in Client :
          /\ registration_keys'[d] = [s \in Server |-> registration_keys'[d][s]]
          /\ \A s \in Server : registration_keys'[d][s] \in {NULL, fragment(s, d)}
    BY <2>2 DEF IInv, KeysTyped, NoKeys
  <2>. QED
    BY <2>1, <2>2, <2>3, <2>4 DEF KeysTyped
<1>6. SessionsCounted'
  <2>. SUFFICES ASSUME NEW d \in Client
                PROVE  /\ session'[d] <= restarts'[d] + 1
                       /\ session'[d] = 0 => private_key'[d] = WholeKey(d)
    BY DEF SessionsCounted
  <2>1. /\ session[d] \in Nat /\ session[d] <= restarts[d] + 1 /\ restarts[d] \in Nat
        /\ session[d] = 0 => private_key[d] = WholeKey(d)
        /\ restarts'[d] \in Nat /\ restarts[d] <= restarts'[d]
    BY <1>2, Bounds DEF IInv, ClientsTyped, NetworkTyped, SessionsCounted
  <2>2. CASE d # c
    <3>1. session'[d] = session[d] /\ private_key'[d] = private_key[d]
      BY <1>1, <2>2 DEF IInv, ClientsTyped, KeysTyped
    <3>. QED
      BY <2>1, <3>1
  <2>3. CASE d = c /\ c \in Provisioned
    <3>1. session'[d] = 0 /\ private_key'[d] = WholeKey(d)
      BY <1>1, <2>3, WholeKeyIs DEF IInv, ClientsTyped, KeysTyped, ConfiguredKey
    <3>. QED
      BY <2>1, <3>1
  <2>4. CASE d = c /\ c \notin Provisioned
    <3>1. session'[d] = session[d] + 1
      BY <1>1, <2>4 DEF IInv, ClientsTyped
    <3>. QED
      BY <1>2, <2>1, <2>4, <3>1
  <2>. QED
    BY <2>2, <2>3, <2>4
<1>. QED
  BY <1>3, <1>4, <1>5, <1>6 DEF IInv

LEMMA RestartServerStep ==
    ASSUME IInv, NEW s \in Server, RestartServer(s)
    PROVE  IInv'
<1>0. restarts[s] < MaxRestarts
  BY RestartBound, Zenon DEF RestartServer
<1>1. restarts' = [restarts EXCEPT ![s] = @ + 1] /\ UNCHANGED <<client, mail, lost>>
  BY Zenon DEF RestartServer
<1>. HIDE DEF RestartServer
<1>2. /\ restarts' \in [Client \cup Server -> 0..MaxRestarts]
      /\ \A y \in Client \cup Server : restarts[y] <= restarts'[y]
  BY <1>0, <1>1, RestartCounted
<1>3. SessionsCounted'
  <2>. SUFFICES ASSUME NEW d \in Client PROVE session[d] <= restarts'[d] + 1
    BY <1>1 DEF SessionsCounted, IInv, client
  <2>1. /\ session[d] \in Nat /\ session[d] <= restarts[d] + 1 /\ restarts[d] \in Nat
        /\ restarts'[d] \in Nat /\ restarts[d] <= restarts'[d]
    BY <1>2, Bounds DEF IInv, ClientsTyped, NetworkTyped, SessionsCounted
  <2>. QED
    BY <2>1
<1>4. ClientsTyped' /\ KeysTyped' /\ NetworkTyped'
  BY <1>1, <1>2 DEF IInv, ClientsTyped, KeysTyped, NetworkTyped, client
<1>. QED
  BY <1>3, <1>4 DEF IInv

LEMMA MailStep ==
    ASSUME IInv, NEW m, Lose(m) \/ (m \in Sent /\ Post(m))
    PROVE  IInv'
<1>1. UNCHANGED <<client, restarts>> /\ NetworkTyped'
  <2>1. CASE Lose(m)
    <3>1. lost' \in 0..MaxLost
      BY <2>1, Bounds DEF Lose, IInv, NetworkTyped
    <3>. QED
      BY <2>1, <3>1 DEF Lose, IInv, NetworkTyped
  <2>2. CASE m \in Sent /\ Post(m)
    <3>1. [type |-> "user", body |-> m] \in UserMail
      BY <2>2 DEF UserMail
    <3>. QED
      BY <2>2, <3>1 DEF Post, IInv, NetworkTyped
  <2>. QED
    BY <2>1, <2>2
<1>. QED
  BY <1>1 DEF IInv, ClientsTyped, KeysTyped, SessionsCounted, client

LEMMA InvStep == IInv /\ [Next]_vars => IInv'
<1>. SUFFICES ASSUME IInv, [Next]_vars PROVE IInv'
  OBVIOUS
<1>1. CASE UNCHANGED vars
  BY <1>1 DEF vars, client, IInv, ClientsTyped, NetworkTyped, KeysTyped, SessionsCounted
<1>2. CASE Next
  BY <1>2, RequestStep, ServeStep, ResponseStep, RefuseStep, MessageStep, RestartClientStep,
     RestartServerStep, MailStep DEF Next
<1>. QED
  BY <1>1, <1>2

\* The named parts hold together in every state of the clients and the committee.
THEOREM Invariant == Spec => []IInv
  BY InvInit, InvStep, PTL DEF Spec

\* For every committee and every set of clients and messages: clients hold
\* fragments and keys that the committee makes for them, and every response
\* answers a request of a session that has begun (the count of sessions is
\* bounded by that of restarts, of which FoldFunction takes the sum).
THEOREM TypeCorrect == Spec => []TypeOK
<1>1. ASSUME IInv PROVE TypeOK
  <2>1. session \in [Client -> 0..(MaxRestarts + 1)]
    <3>1. ASSUME NEW c \in Client PROVE session[c] \in 0..(MaxRestarts + 1)
      <4>1. session[c] \in Nat /\ session[c] <= restarts[c] + 1 /\ restarts[c] \in 0..MaxRestarts
        BY <1>1 DEF IInv, ClientsTyped, NetworkTyped, SessionsCounted
      <4>. QED
        BY <4>1, Bounds
    <3>. QED
      BY <1>1, <3>1 DEF IInv, ClientsTyped
  <2>2. \A c \in Client : private_key[c] \in Keys \cup {NULL}
    BY <1>1, WholeKeyIs DEF IInv, KeysTyped
  <2>3. \A c \in Client, s \in Server : registration_keys[c][s] \in {NULL, fragment(s, c)}
    BY <1>1 DEF IInv, KeysTyped
  <2>. QED
    BY <1>1, <2>1, <2>2, <2>3 DEF TypeOK, IInv, ClientsTyped, NetworkTyped
<1>. QED
  BY <1>1, Invariant, PTL

\* For every committee, whatever the order, the repetition and the loss of
\* fragments and whatever restarts come between: a key that a client uses opens
\* the messages to the client and no others, at every security level; where
\* bfibejni.c decrypts, at those whose digests are as long as a session key.
THEOREM KeysAreWhole == DigestsFill /\ Spec => []KeyIsWhole
<1>1. DigestsFill /\ IInv => KeyIsWhole
  BY WholeKeyOpens DEF KeyIsWhole, can_decrypt, IInv, KeysTyped
<1>2. DigestsFill => DigestsFill'
  BY DEF DigestsFill
<1>. QED
  BY <1>1, <1>2, Invariant, PTL

\* In the same systems: a message to a client that the client will never look at
\* again was received, or is kept for when the key is whole (process_message).
THEOREM NothingIsMislaid == DigestsFill /\ Spec => []NothingMislaid
<1>1. Init => NothingMislaid
  BY DEF Init, NothingMislaid
<1>2. ASSUME DigestsFill, IInv, NothingMislaid, [Next]_vars PROVE NothingMislaid'
  <2>. SUFFICES ASSUME NEW c \in Client, NEW n \in incoming_dedupe'[c], n.to = c
                PROVE  n \in encrypted_message_queue'[c] \/ n.nonce \in Range(message_store'[c])
    BY DEF NothingMislaid
  <2>0. n \in incoming_dedupe[c] =>
          n \in encrypted_message_queue[c] \/ n.nonce \in Range(message_store[c])
    BY <1>2 DEF NothingMislaid
  <2>1. CASE UNCHANGED <<incoming_dedupe, encrypted_message_queue, message_store>>
    BY <2>0, <2>1
  <2>2. ASSUME NEW d \in Client, NEW m \in Sent, process_message(d, m) \/ drain_queue(d, m)
        PROVE  n \in encrypted_message_queue'[c] \/ n.nonce \in Range(message_store'[c])
    <3>0. /\ incoming_dedupe \in [Client -> SUBSET Sent]
          /\ encrypted_message_queue \in [Client -> SUBSET Sent]
      BY <1>2 DEF IInv, ClientsTyped
    <3>1. can_decrypt(d) /\ m.to = d => Opens(d, private_key[d], m)
      BY <1>2, WholeKeyOpens DEF can_decrypt, IInv, KeysTyped
    <3>2. CASE process_message(d, m) /\ ~can_decrypt(d)
      <4>1. /\ incoming_dedupe' = [incoming_dedupe EXCEPT ![d] = @ \cup {m}]
            /\ encrypted_message_queue' = [encrypted_message_queue EXCEPT ![d] = @ \cup {m}]
            /\ message_store' = message_store
        BY <3>2 DEF process_message
      <4>. QED
        BY <2>0, <3>0, <4>1
    <3>3. CASE process_message(d, m) /\ can_decrypt(d)
      <4>1. /\ incoming_dedupe' = [incoming_dedupe EXCEPT ![d] = @ \cup {m}]
            /\ encrypted_message_queue' = encrypted_message_queue
            /\ message_store' = process_encrypted_user_message(d, m)
        BY <3>3 DEF process_message
      <4>2. /\ Range(message_store[c]) \subseteq Range(message_store'[c])
            /\ Opens(d, private_key[d], m) => m.nonce \in Range(message_store'[d])
        BY <1>2, <4>1, StoreGrows
      <4>3. n \in incoming_dedupe[c] \/ (n = m /\ c = d)
        BY <3>0, <4>1
      <4>. QED
        BY <2>0, <3>1, <3>3, <4>1, <4>2, <4>3
    <3>4. CASE drain_queue(d, m)
      <4>1. /\ incoming_dedupe' = incoming_dedupe /\ can_decrypt(d)
            /\ encrypted_message_queue' = [encrypted_message_queue EXCEPT ![d] = @ \ {m}]
            /\ message_store' = process_encrypted_user_message(d, m)
        BY <3>4 DEF drain_queue
      <4>2. /\ Range(message_store[c]) \subseteq Range(message_store'[c])
            /\ Opens(d, private_key[d], m) => m.nonce \in Range(message_store'[d])
        BY <1>2, <4>1, StoreGrows
      <4>3. n \in encrypted_message_queue[c]
              => n \in encrypted_message_queue'[c] \/ (n = m /\ c = d)
        BY <3>0, <4>1
      <4>. QED
        BY <2>0, <3>1, <4>1, <4>2, <4>3
    <3>. QED
      BY <2>2, <3>2, <3>3, <3>4
  <2>3. ASSUME NEW d \in Client, RestartClient(d)
        PROVE  n \in encrypted_message_queue'[c] \/ n.nonce \in Range(message_store'[c])
    <3>1. /\ encrypted_message_queue' = [encrypted_message_queue EXCEPT ![d] = {}]
          /\ incoming_dedupe' = [incoming_dedupe EXCEPT ![d] = {}]
          /\ message_store' = [message_store EXCEPT ![d] = <<>>]
      BY <2>3, Zenon DEF RestartClient
    <3>2. /\ incoming_dedupe \in [Client -> SUBSET Sent]
          /\ encrypted_message_queue \in [Client -> SUBSET Sent]
          /\ message_store \in [Client -> Seq(Nonces)]
      BY <1>2, Zenon DEF IInv, ClientsTyped
    <3>3. c # d /\ incoming_dedupe'[c] = incoming_dedupe[c]
          /\ encrypted_message_queue'[c] = encrypted_message_queue[c]
          /\ message_store'[c] = message_store[c]
      BY <3>1, <3>2, Zenon
    <3>. QED
      BY <2>0, <3>3, Zenon
  <2>4. ASSUME NEW s, NEW m, message_received(s, m) PROVE UNCHANGED client
    BY <2>4 DEF message_received
  <2>5. ASSUME NEW d, NEW s, send_bootstrap_request(d, s) PROVE UNCHANGED client
    BY <2>5 DEF send_bootstrap_request
  <2>6. ASSUME NEW d, NEW m,
               process_encrypted_registration_message(d, m) \/ refuse_registration_message(d, m)
        PROVE  UNCHANGED <<incoming_dedupe, encrypted_message_queue, message_store>>
    BY <2>6 DEF process_encrypted_registration_message, refuse_registration_message
  <2>7. ASSUME NEW s, RestartServer(s) PROVE UNCHANGED client
    BY <2>7, Zenon DEF RestartServer
  <2>8. ASSUME NEW m, Post(m) \/ Lose(m) PROVE UNCHANGED client
    BY <2>8 DEF Post, Lose
  <2>9. UNCHANGED client \/ UNCHANGED vars
          => UNCHANGED <<incoming_dedupe, encrypted_message_queue, message_store>>
    BY DEF client, vars
  <2>. QED
    BY <1>2, <2>1, <2>2, <2>3, <2>4, <2>5, <2>6, <2>7, <2>8, <2>9 DEF Next
<1>3. DigestsFill => DigestsFill'
  BY DEF DigestsFill
<1>4. DigestsFill /\ IInv /\ NothingMislaid /\ [Next]_vars => NothingMislaid'
  BY <1>2
<1>. QED
  BY <1>1, <1>3, <1>4, Invariant, PTL DEF Spec

=============================================================================
