--------------------------- MODULE BonehFranklin ---------------------------
(***************************************************************************)
(* The identity based encryption of src/bfibe: set-up, shards of the       *)
(* system secret, sums of shards, export and import, encryption and        *)
(* decryption, and the two bindings (ctypes api.c, Android bfibejni.c).    *)
(*                                                                         *)
(* Groups are written additively over the secrets, which stay symbols:     *)
(*   P_pub        the multiples of P it sums, a function of the shards;    *)
(*   private key  the multiples of (hashed identity, shard) it sums.       *)
(* A hash is a free term, equal to another only on equal arguments, and a  *)
(* byte string is a function from positions to bytes.  A byte is the set   *)
(* of terms xor-ed into it, so that the empty set is the byte 0.           *)
(***************************************************************************)
EXTENDS Integers

CONSTANTS
    Curve,      \* curves, with a point and a modulus of their own
    Id,         \* identities, the strings that hash_to_point maps to points
    Shard,      \* system secrets drawn by bf_generate_shard, all different
    NULL        \* what a call returns instead of a pointer

ZeroByte == {}

Xor(a, b) == (a \ b) \cup (b \ a)
XorBytes(x, y) == [i \in DOMAIN x |-> Xor(x[i], y[i])]
Zeros(len) == [i \in 1..len |-> ZeroByte]

----------------------------------------------------------------------------
(***************************************************************************)
(* Security levels and the hashes of hash.c.                               *)
(***************************************************************************)

Levels == 1..5

\* Bytes of a digest at each level: SHA-1, SHA-224, 256, 384 and 512.
hashlen == <<20, 28, 32, 48, 64>>

\* One digest, as a byte string of which only the whole is ever used.
Digest(what, of) == {<<what, of>>}

\* An exponent, derived from the seed rho and the digest of the plaintext.
hash_to_range(rho, m) == [rho |-> rho, m |-> m]

\* Byte number i of block number k of the stream that a seed generates.
StreamByte(seed, k, i) == {<<"stream", seed, k, i>>}

\* Blocks that are copied in full: the loop takes the short branch as soon as
\* no more than one digest remains.
FullBlocks(hlen, outlen) == (outlen - 1) \div hlen

\* The stream written over the buffer result.  Full blocks follow one another;
\* the last one, whole or partial, is copied to the start of the buffer.
hash_to_bytes(hlen, seed, outlen, result) ==
    LET full == FullBlocks(hlen, outlen)
        rest == outlen - full * hlen
    IN  [i \in 1..outlen |->
            IF i <= rest THEN StreamByte(seed, full + 1, i)
            ELSE IF i <= full * hlen
            THEN StreamByte(seed, 1 + ((i - 1) \div hlen), 1 + ((i - 1) % hlen))
            ELSE result[i]]

----------------------------------------------------------------------------
(***************************************************************************)
(* System parameters.  precomp is the table that encryption pairs with; it *)
(* is right as long as it was computed from the present P_pub.             *)
(***************************************************************************)

Params == [level : Levels, curve : Curve,
           P_pub : [Shard -> Nat], precomp : [Shard -> Nat]]

Multiple(s) == [t \in Shard |-> IF t = s THEN 1 ELSE 0]

\* params with another P_pub, for which pairing_pp_init computes the table.
WithPublic(params, point) ==
    [level |-> params.level, curve |-> params.curve,
     P_pub |-> point, precomp |-> point]

bf_generate_shard(params, s) == WithPublic(params, Multiple(s))

bf_setup(curve, level, s) ==
    bf_generate_shard([level |-> level, curve |-> curve], s)

\* The text holds the level, P, P_pub and the curve; reading it computes the
\* table anew.
bf_params_to_string(params) ==
    [level |-> params.level, curve |-> params.curve, P_pub |-> params.P_pub]

bf_params_from_string(text) == WithPublic(text, text.P_pub)

copy_params(params) == bf_params_from_string(bf_params_to_string(params))

generate_shard(base, s) == bf_generate_shard(copy_params(base), s)

\* Mutant: the table of the first summand is kept.
mut_StaleTable(p1, p2) ==
    IF p1.level # p2.level \/ p1.curve # p2.curve THEN NULL
    ELSE [copy_params(p1) EXCEPT !.P_pub =
              [s \in Shard |-> p1.P_pub[s] + p2.P_pub[s]]]

\* Refused unless both have the level and the modulus; curves drawn apart are
\* taken to differ in their modulus.
add_public(p1, p2) ==
    IF p1.level # p2.level \/ p1.curve # p2.curve THEN NULL
    ELSE WithPublic(copy_params(p1),
                    [s \in Shard |-> p1.P_pub[s] + p2.P_pub[s]])

----------------------------------------------------------------------------
(***************************************************************************)
(* Private keys, pairing, encryption and decryption.                       *)
(***************************************************************************)

Pairs == Id \X Shard
PrivateKeys == [curve : Curve, sum : [Pairs -> Nat]]

bf_generate_private_key(params, s, id) ==
    [curve |-> params.curve,
     sum |-> [p \in Pairs |-> IF p = <<id, s>> THEN 1 ELSE 0]]

add_secret(k1, k2) ==
    [curve |-> k1.curve, sum |-> [p \in Pairs |-> k1.sum[p] + k2.sum[p]]]

\* The pairing of an identity's point with the table of P_pub, to the power l.
pairing_pp_apply(params, id, l) ==
    [curve |-> params.curve, l |-> l,
     sum |-> [p \in Pairs |-> IF p[1] = id THEN params.precomp[p[2]] ELSE 0]]

\* The pairing of U, which is l times P, with a private key.
element_pairing(U, key) ==
    [curve |-> IF U.curve = key.curve THEN key.curve ELSE "mixed",
     l |-> U.l, sum |-> key.sum]

bf_encrypt(params, id, m, len, rho) ==
    LET hlen == hashlen[params.level]
        l == hash_to_range(rho, m)
    IN  [length |-> len,
         U |-> [curve |-> params.curve, l |-> l],
         V |-> Xor(Digest("theta", pairing_pp_apply(params, id, l)), rho),
         W |-> XorBytes(hash_to_bytes(hlen, rho, len, Zeros(len)), m)]

\* buffer is what the caller's output array holds before the call.
bf_decrypt(params, key, msg, buffer) ==
    LET hlen == hashlen[params.level]
        w == Xor(msg.V, Digest("theta", element_pairing(msg.U, key)))
        output == XorBytes(hash_to_bytes(hlen, w, msg.length, buffer), msg.W)
        lP == [curve |-> params.curve, l |-> hash_to_range(w, output)]
    IN  IF msg.U = lP THEN output ELSE Zeros(msg.length)

----------------------------------------------------------------------------
(***************************************************************************)
(* The bindings: the message travels as bytes that carry its level.        *)
(***************************************************************************)

bf_message_to_bytes(params, msg) == [level |-> params.level, msg |-> msg]

encrypt_ibe(params, id, m, len, rho) ==
    bf_message_to_bytes(params, bf_encrypt(params, id, m, len, rho))

\* The buffer of the ctypes binding comes from calloc.
decrypt_ibe(params, key, bytes) ==
    IF bytes.level # params.level THEN NULL
    ELSE bf_decrypt(params, key, bytes.msg, Zeros(bytes.msg.length))

\* The buffer of the Android binding is a local array: any content.
decryptIBE(params, key, bytes, stack) ==
    IF bytes.level # params.level THEN NULL
    ELSE bf_decrypt(params, key, bytes.msg, stack)

=============================================================================
