---------------------------- MODULE Registration ----------------------------
(***************************************************************************)
(* Bootstrapping of clients.  A client without a private key asks every    *)
(* member of the registration committee for a fragment, sums the fragments *)
(* into its key, and then reads the messages that came in meanwhile.       *)
(* client.py, roles/client_registration.py, over BonehFranklin.            *)
(*                                                                         *)
(* Requests, responses and user messages travel through drop boxes: mail   *)
(* holds what is stored, and handing a member over any number of times is  *)
(* the at-least-once delivery of a drop box.  Lose takes away registration *)
(* mail only; resending user messages is the sender's send log.            *)
(***************************************************************************)
EXTENDS BonehFranklin, FiniteSets, Sequences, Functions, Folds

CONSTANTS
    Client,         \* the clients, a set of identities
    Provisioned,    \* those whose configuration holds a private key
    Android,        \* those that decrypt through bfibejni.c
    Level,          \* security level of the system
    Dropbox,        \* what the receivers' drop boxes are, see DropboxKinds
    Sent,           \* user messages: [to, nonce, rho], rho the seed of a copy
    MaxRestarts,    \* bound on restarts of clients and servers
    MaxLost         \* bound on lost requests and responses

\* "oblivious": a client hears its own mail, and errors while it is handled
\* are caught.  "return": own mail over return links, nothing is caught.
\* "broadcast": everybody hears all the mail, nothing is caught.
DropboxKinds == {"oblivious", "return", "broadcast"}

\* Committee members are the holders of the shards.
Server == Shard

ASSUME RegistrationAssumption ==
    /\ Client \subseteq Id /\ IsFiniteSet(Client) /\ IsFiniteSet(Server)
    /\ Server # {} /\ Curve # {}
    /\ Provisioned \subseteq Client /\ Android \subseteq Client
    /\ Level \in Levels /\ Dropbox \in DropboxKinds
    /\ MaxRestarts \in Nat /\ MaxLost \in Nat
    /\ \A m \in Sent : m.to \in Client
    /\ NULL \notin PrivateKeys

VARIABLES
    alive,                      \* the client's tasks run
    session,                    \* bootstraps so far: names half key and nonces
    private_key,                \* ibe.key, or NULL
    registration_keys,          \* fragments by committee member
    encrypted_message_queue,    \* messages that wait for the key
    incoming_dedupe,            \* user messages handled before
    message_store,              \* cleartexts received, in order
    distributed_keys,           \* per member: client -> nonce it served
    mail,                       \* what the drop boxes hold
    restarts, lost              \* what the bounds count

client == <<alive, session, private_key, registration_keys,
            encrypted_message_queue, incoming_dedupe, message_store>>
vars == <<client, distributed_keys, mail, restarts, lost>>

----------------------------------------------------------------------------
(***************************************************************************)
(* The generated system: a shard per member on one curve, and their sum.   *)
(***************************************************************************)

AnyOf(set) == CHOOSE x \in set : TRUE

SystemCurve == AnyOf(Curve)
base_ibe == bf_setup(SystemCurve, Level, AnyOf(Server))
ibe_shard(s) == generate_shard(base_ibe, s)

\* reduce starts with the first of the shards, and only ever adds each once.
public_params ==
    LET first == AnyOf(Server)
    IN  MapThenFoldSet(add_public, ibe_shard(first), ibe_shard, AnyOf,
                       Server \ {first})

fragment(s, c) == bf_generate_private_key(ibe_shard(s), s, c)

sum_secrets(keys) ==
    LET first == AnyOf(DOMAIN keys)
        key(s) == keys[s]
    IN  MapThenFoldSet(add_secret, keys[first], key, AnyOf, DOMAIN keys \ {first})

\* A session key is 32 bytes, each of which is only equal to itself.
KeyBytes == 32
SessionKey(m) == [i \in 1..KeyBytes |-> {<<"key", m.nonce, m.rho, i>>}]
encrypt_user_message(m) ==
    encrypt_ibe(public_params, m.to, SessionKey(m), KeyBytes, {<<"rho", m.rho>>})

\* What an uninitialised array holds.
Stack == [i \in 1..KeyBytes |-> {<<"stack", i>>}]

decrypt_user_message(c, key, m) ==
    LET bytes == encrypt_user_message(m)
    IN  IF c \in Android THEN decryptIBE(public_params, key, bytes, Stack)
        ELSE decrypt_ibe(public_params, key, bytes)

\* Any other session key turns the ciphertext into bytes that do not decode.
\* Tabulated over the keys that fragments can sum up to.
Keys == {sum_secrets([s \in some |-> fragment(s, c)]) :
             some \in (SUBSET Server) \ {{}}, c \in Client}
Reading == [c \in Client |-> [key \in Keys |-> [m \in Sent |->
                decrypt_user_message(c, key, m) = SessionKey(m)]]]
Opens(c, key, m) == Reading[c][key][m]

Requests == [type : {"request"}, name : Client, server : Server,
             nonce : 1..(MaxRestarts + 1)]
Responses == [type : {"response"}, name : Client, server : Server,
              nonce : 1..(MaxRestarts + 1)]
UserMail == [type : {"user"}, body : Sent]

Hears(c, recipient) == Dropbox = "broadcast" \/ recipient = c

\* Mutant: every member uses the first member's secret.
mut_OneSecret(response) == fragment(AnyOf(Server), response.name)

\* The fragment that a response carries: generate_private_key of its member.
messagetext(response) == fragment(response.server, response.name)

NoKeys == [s \in Server |-> NULL]

----------------------------------------------------------------------------
(***************************************************************************)
(* Clients.                                                                *)
(***************************************************************************)

\* private_key(name) of the generated configuration.
ConfiguredKey(c) ==
    IF c \in Provisioned THEN sum_secrets([s \in Server |-> fragment(s, c)])
    ELSE NULL

Init ==
    /\ alive = [c \in Client |-> TRUE]
    /\ session = [c \in Client |-> IF c \in Provisioned THEN 0 ELSE 1]
    /\ private_key = [c \in Client |-> ConfiguredKey(c)]
    /\ registration_keys = [c \in Client |-> NoKeys]
    /\ encrypted_message_queue = [c \in Client |-> {}]
    /\ incoming_dedupe = [c \in Client |-> {}]
    /\ message_store = [c \in Client |-> <<>>]
    /\ distributed_keys = [s \in Server |-> [c \in {} |-> 0]]
    /\ mail = {}
    /\ restarts = [who \in Client \cup Server |-> 0]
    /\ lost = 0

can_decrypt(c) == private_key[c] # NULL

send_bootstrap_request(c, s) ==
    LET request == [type |-> "request", name |-> c, server |-> s,
                    nonce |-> session[c]]
    IN  /\ alive[c] /\ ~can_decrypt(c)
        /\ registration_keys[c][s] = NULL
        /\ request \notin mail
        /\ mail' = mail \cup {request}
        /\ UNCHANGED <<client, distributed_keys, restarts, lost>>

\* A response to the half key and the nonce of the present session: only such
\* a one decrypts and passes the assertions.
IsMine(c, m) == session[c] > 0 /\ m.name = c /\ m.nonce = session[c]

process_encrypted_registration_message(c, m) ==
    LET keys == [registration_keys[c] EXCEPT ![m.server] = messagetext(m)]
        whole == \A s \in Server : keys[s] # NULL
    IN  /\ alive[c] /\ m \in mail /\ m \in Responses /\ Hears(c, m.name)
        /\ IsMine(c, m)
        /\ registration_keys' = [registration_keys EXCEPT ![c] = keys]
        /\ private_key' =
               IF whole THEN [private_key EXCEPT ![c] = sum_secrets(keys)]
               ELSE private_key
        /\ UNCHANGED <<alive, session, encrypted_message_queue, incoming_dedupe,
                       message_store, distributed_keys, mail, restarts, lost>>

\* Any other response raises.  Nothing between receive_task and the nursery
\* catches it, unless it was reassembled from an oblivious drop box.
refuse_registration_message(c, m) ==
    /\ alive[c] /\ m \in mail /\ m \in Responses /\ Hears(c, m.name)
    /\ ~IsMine(c, m) /\ Dropbox # "oblivious"
    /\ alive' = [alive EXCEPT ![c] = FALSE]
    /\ UNCHANGED <<session, private_key, registration_keys,
                   encrypted_message_queue, incoming_dedupe, message_store,
                   distributed_keys, mail, restarts, lost>>

\* Mutant: what was taken in before is a repeat, received or not.
mut_DedupeOnArrival(c, m) ==
    IF /\ Opens(c, private_key[c], m)
       /\ m.nonce \notin {n.nonce : n \in incoming_dedupe[c] \ {m}}
    THEN [message_store EXCEPT ![c] = Append(@, m.nonce)]
    ELSE message_store

\* The store after a message: unreadable ones are dropped, and so is a nonce
\* that was received before.
process_encrypted_user_message(c, m) ==
    IF Opens(c, private_key[c], m) /\ m.nonce \notin Range(message_store[c])
    THEN [message_store EXCEPT ![c] = Append(@, m.nonce)]
    ELSE message_store

process_message(c, m) ==
    /\ alive[c] /\ [type |-> "user", body |-> m] \in mail /\ Hears(c, m.to)
    /\ m \notin incoming_dedupe[c]
    /\ incoming_dedupe' = [incoming_dedupe EXCEPT ![c] = @ \cup {m}]
    /\ IF can_decrypt(c)
       THEN /\ message_store' = process_encrypted_user_message(c, m)
            /\ UNCHANGED encrypted_message_queue
       ELSE /\ encrypted_message_queue' =
                   [encrypted_message_queue EXCEPT ![c] = @ \cup {m}]
            /\ UNCHANGED message_store
    /\ UNCHANGED <<alive, session, private_key, registration_keys,
                   distributed_keys, mail, restarts, lost>>

\* The end of bootstrap_task, a message at a time.
drain_queue(c, m) ==
    /\ alive[c] /\ can_decrypt(c) /\ m \in encrypted_message_queue[c]
    /\ encrypted_message_queue' = [encrypted_message_queue EXCEPT ![c] = @ \ {m}]
    /\ message_store' = process_encrypted_user_message(c, m)
    /\ UNCHANGED <<alive, session, private_key, registration_keys,
                   incoming_dedupe, distributed_keys, mail, restarts, lost>>

\* Nothing a client holds outlives its process.
RestartClient(c) ==
    /\ FoldFunction(+, 0, restarts) < MaxRestarts
    /\ restarts' = [restarts EXCEPT ![c] = @ + 1]
    /\ alive' = [alive EXCEPT ![c] = TRUE]
    /\ session' = [session EXCEPT ![c] = IF c \in Provisioned THEN 0 ELSE @ + 1]
    /\ private_key' = [private_key EXCEPT ![c] = ConfiguredKey(c)]
    /\ registration_keys' = [registration_keys EXCEPT ![c] = NoKeys]
    /\ encrypted_message_queue' = [encrypted_message_queue EXCEPT ![c] = {}]
    /\ incoming_dedupe' = [incoming_dedupe EXCEPT ![c] = {}]
    /\ message_store' = [message_store EXCEPT ![c] = <<>>]
    /\ UNCHANGED <<distributed_keys, mail, lost>>

----------------------------------------------------------------------------
(***************************************************************************)
(* The committee, the senders and the network.                             *)
(***************************************************************************)

\* Mutant: who was served once is refused.
mut_ServedOnce(s, request) == request.name \notin DOMAIN distributed_keys[s]

authorize(s, request) ==
    request.name \in DOMAIN distributed_keys[s]
        => distributed_keys[s][request.name] = request.nonce

message_received(s, request) ==
    /\ request \in mail /\ request \in Requests /\ request.server = s
    /\ authorize(s, request)
    /\ distributed_keys' = [distributed_keys EXCEPT ![s] =
           [c \in DOMAIN @ \cup {request.name} |->
               IF c = request.name THEN request.nonce ELSE @[c]]]
    /\ mail' = mail \cup {[request EXCEPT !.type = "response"]}
    /\ UNCHANGED <<client, restarts, lost>>

RestartServer(s) ==
    /\ FoldFunction(+, 0, restarts) < MaxRestarts
    /\ restarts' = [restarts EXCEPT ![s] = @ + 1]
    /\ distributed_keys' = [distributed_keys EXCEPT ![s] = [c \in {} |-> 0]]
    /\ UNCHANGED <<client, mail, lost>>

Post(m) ==
    /\ [type |-> "user", body |-> m] \notin mail
    /\ mail' = mail \cup {[type |-> "user", body |-> m]}
    /\ UNCHANGED <<client, distributed_keys, restarts, lost>>

Lose(m) ==
    /\ lost < MaxLost /\ m \in mail /\ m.type # "user"
    /\ lost' = lost + 1
    /\ mail' = mail \ {m}
    /\ UNCHANGED <<client, distributed_keys, restarts>>

Next ==
    \/ \E c \in Client, s \in Server : send_bootstrap_request(c, s)
    \/ \E s \in Server, m \in mail : message_received(s, m)
    \/ \E c \in Client, m \in mail : process_encrypted_registration_message(c, m)
    \/ \E c \in Client, m \in mail : refuse_registration_message(c, m)
    \/ \E c \in Client, m \in Sent : process_message(c, m)
    \/ \E c \in Client, m \in Sent : drain_queue(c, m)
    \/ \E c \in Client : RestartClient(c)
    \/ \E s \in Server : RestartServer(s)
    \/ \E m \in Sent : Post(m)
    \/ \E m \in mail : Lose(m)

Spec == Init /\ [][Next]_vars

----------------------------------------------------------------------------
(***************************************************************************)
(* Fairness: the tasks of a client run while it lives, and a drop box is   *)
(* polled again and again.  Nobody has to restart, post or lose anything.  *)
(***************************************************************************)

Fairness ==
    /\ \A c \in Client, s \in Server : WF_vars(send_bootstrap_request(c, s))
    /\ \A s \in Server, m \in Requests : WF_vars(message_received(s, m))
    /\ \A c \in Client, m \in Responses :
           WF_vars(process_encrypted_registration_message(c, m))
    /\ \A c \in Client, m \in Responses :
           WF_vars(refuse_registration_message(c, m))
    /\ \A c \in Client, m \in Sent : WF_vars(process_message(c, m))
    /\ \A c \in Client, m \in Sent : WF_vars(drain_queue(c, m))

FairSpec == Spec /\ Fairness

----------------------------------------------------------------------------
(***************************************************************************)
(* Properties.                                                             *)
(***************************************************************************)

\* The types of the variables.
TypeOK ==
    /\ alive \in [Client -> BOOLEAN]
    /\ session \in [Client -> 0..(MaxRestarts + 1)]
    /\ \A c \in Client : private_key[c] \in Keys \cup {NULL}
    /\ \A c \in Client, s \in Server :
           registration_keys[c][s] \in {NULL, fragment(s, c)}
    /\ encrypted_message_queue \in [Client -> SUBSET Sent]
    /\ incoming_dedupe \in [Client -> SUBSET Sent]
    /\ mail \subseteq Requests \cup Responses \cup UserMail
    /\ restarts \in [Client \cup Server -> 0..MaxRestarts]
    /\ lost \in 0..MaxLost

\* A key that a client uses opens every message encrypted to the client, and
\* none encrypted to another, however it came to be: configured, or summed up
\* from fragments that came in any order, twice, or across a restart
\* (process_encrypted_registration_message, add_secret, bf_decrypt).
KeyIsWhole ==
    \A c \in Client, m \in Sent :
        can_decrypt(c) => (Opens(c, private_key[c], m) <=> m.to = c)

\* What a client once took in, and will therefore never look at again, it has
\* received, or keeps for when the key is whole (process_message).
NothingMislaid ==
    \A c \in Client : \A m \in incoming_dedupe[c] :
        m.to = c => \/ m \in encrypted_message_queue[c]
                    \/ m.nonce \in Range(message_store[c])

\* A message posted to a client arrives, also when it was posted before the
\* client had its key, as long as the client's process lasts (bootstrap_task).
EarlierMessagesArrive ==
    \A m \in Sent :
        [type |-> "user", body |-> m] \in mail
            ~> (m.nonce \in Range(message_store[m.to]) \/ restarts[m.to] > 0)

\* The same of every client, wherever its mail comes from:
\* src/rib/NOTES-bootstrap.md:41 says of a message that was sent earlier that
\* it should arrive once the client is bootstrapped.
ArrivesAnywhere == EarlierMessagesArrive

\* hash.c:59 says that hash_to_bytes generates its bytes from the seed: what
\* the buffer held before makes no difference.
SeedDetermines ==
    \A m \in Sent : [type |-> "user", body |-> m] \in mail =>
        LET seed == {<<"rho", m.rho>>}
        IN  hash_to_bytes(hashlen[Level], seed, KeyBytes, Stack)
                = hash_to_bytes(hashlen[Level], seed, KeyBytes, Zeros(KeyBytes))

=============================================================================
