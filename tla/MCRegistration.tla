--------------------------- MODULE MCRegistration ---------------------------
(***************************************************************************)
(* Instances of Registration: one client that registers, with two copies   *)
(* of a message waiting for it, and one that has its key.                  *)
(***************************************************************************)
EXTENDS Registration, TLC

CONSTANTS new, old, s1, s2

MCClients == {new, old}
MCShards == {s1, s2}
MCProvisioned == {old}
MCAndroid == {old}
MCSent ==
    {[to |-> new, nonce |-> 1, rho |-> 1], [to |-> new, nonce |-> 1, rho |-> 2],
     [to |-> old, nonce |-> 2, rho |-> 3]}

=============================================================================
