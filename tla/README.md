# Verification of PRISM

PRISM (`src/prism`, with its RACE adapter in `src/rib`) is an anonymous
messaging system. A client leaves an encrypted message for a pseudonym with a
*dropbox*, a committee of servers that holds it secret-shared; the recipient
polls the dropbox, and the committee compares the pseudonyms by multi-party
computation (MPC) without any member learning them. Servers find each other and
forward their traffic with a link-state router.

A client reaches its dropbox over *emixes*, servers that pass onion-encrypted
messages on, and gets its identity-based key from a registration committee.

This directory holds TLA+ models of these protocols, the TLC runs that check
them on small instances, and TLAPS proofs of the results that matter most. Paths
below are relative to `src/`; `LF/` stands for
`prism/server/CS2/roles/lockfree/`.

Contents: [1 Inventory](#1-inventory) · [2 Modules](#2-modules) ·
[3 Runs](#3-runs) · [4 Fairness](#4-fairness) · [5 Proofs](#5-proofs) ·
[6 Disagreements](#6-disagreements-with-the-documentation) ·
[7 Abstractions](#7-abstractions) · [8 What could be added](#8-what-could-be-added)

## 1 Inventory

Everything on a server runs as cooperative `trio` tasks in one thread: a task
keeps control from one `await` to the next, so one action of a model is the code
between two `await`s that let another task see the state. Processes share
nothing but messages; state survives a restart only where a `save_state` wrote
it (`prism/common/state.py`; the docs call persistence "not fully implemented
yet", `doc/Code.md:43`).

### Modelled

**Preproduct store** (`LF/preproduct.py`, the generation half of `LF/mpc.py`).
*State*: every party's batches with their `None`d slots and the counter `next`;
the leader's record of which peers hold which batch
(`peer.preproduct_batches`); the copies of all that on disk. *Operations*: a
group generates a batch (`generate_preproduct_task`, `preproduct_op`), the
leader claims a chunk for an operation (`claim_chunk`), parties fetch it
(`get_chunk`), save, load. *Hard*: memory and disk of several parties, written
at different moments and never compared; generations that time out on one party
and complete on another; restarts. *Correct when* no multiplication triple
serves two operations, and what the leader gives out the parties really have.

**Lock-free dropbox** (`LF/dropbox.py`, `LF/poll.py`, `LF/peer.py`). *State*:
the fragments each party stores (memory only), the leader's record of them
(saved), the store, poll, retrieve, reply and delete tasks with their limiters.
*Interactions*: it claims preproducts for each check, talks to its peers by
request and response with timeouts and retries, and replies over the router.
*Hard*: several tasks per message and poll, each using what it read before its
last `await`; requests and acknowledgements that arrive during the next attempt,
or after the deletion; parties that go offline or restart. *Correct when* a
stored message stays until a reply with it was sent, and a poll misses no
message it could have got.

**Shares, triples and comparison** (`LF/sharing.py`,
`prism/common/crypto/secretsharing/`, `mulm*` and `preproduct_op` in
`LF/mpc.py`, `check_task`/`handle_find_op` in `LF/dropbox.py`). *State*: the
shares each party has of a batch and of a comparison. *Hard*: every party opens
values from the messages that came first, some of them dummies; parties drop
out in any round. *Correct when* those that keep a batch hold shares of one
triple, and a comparison is right or undecided, never wrong.

**Link-state router** (`prism/server/routing/`). *State*: LSP database, routing
table, record of floods seen, what neighbours said of their databases. *Hard*:
floods whose copies take ways of different length, databases and LSPs that cross
each other, links that fail while messages are forwarded, restarts with nothing
but the neighbours. *Correct when* databases converge on the newest LSPs and
messages arrive.

**Epoch life cycle** (`prism/server/epoch/`, `prism/server/newserver.py`).
*State*: the epochs of a server (PRE_RUN, RUNNING, HANDOFF, OFF), their tasks and
keys, the command queue; the current and the saved epoch on disk. *Interactions*:
an operator moves all servers from epoch to epoch with NEW, NEXT, OFF and FLOOD
commands; the router of an epoch floods the ARK of the next one and saves its own
state. *Hard*: commands that a server misses while it is down, or obeys while the
task they concern has not got that far; exceptions that end the whole server;
crashes between saves of several files. *Correct when* epochs follow each other
without a gap, and a restart resumes the newest one with the key the others know.

**Identity-based encryption and registration** (`bfibe/src`, `bfibe/jni`,
`prism/server/CS2/roles/client_registration.py`, `prism/client/client.py`).
*State*: the sum of fragments on a client, the queue of messages that came before
the key, nonces a member has served. *Interactions*: a client asks every member of
the committee, over drop boxes that deliver at least once; Python calls the C
library through `ctypes`, Android through JNI. *Hard*: requests and responses
that are lost, repeated or meant for an earlier bootstrap; restarts; messages that
arrive while the key is incomplete; buffers filled at one security level and not
at another. *Correct when* a key that is used opens exactly the client's
messages, and none that came early is mislaid.

**Transport hooks** (`prism/common/transport/transport.py`,
`prism/common/deduplicate.py`, the queue of
`rib/prism/rib/connection/CommsTransport.py`). *State*: the queue of incoming
packages, the list of hooks, the pool of packages nobody matched, packages seen.
*Interactions*: every role waits for its messages with a hook. *Hard*: the walk
over the hooks and the scan of the pool give way while other tasks add and remove
hooks. *Correct when* no package vanishes, and each reaches its hook once.

**Messaging** (`prism/client/send_log.py` and its neighbours,
`prism/server/CS2/roles/emix.py`, `roles/dropbox.py`). *State*: the backlog and the
complete entries of the sender with their routes, copies underway, the store of a
dropbox, copies a reading task has taken out. *Hard*: servers that die, or are
reported dead and are not; polls that overlap, replies that fail, time out or
arrive late; the same message over several ways. *Correct when* the recipient gets
a message from as many dropboxes as configured, and the user sees it once.

### Not modelled

| part | state and operations | what would make it correct |
|---|---|---|
| Committee handshake (`LF/mpc.py:698-781`, `LF/peer.py`) | hello/ready with each peer, acknowledgements kept in memory | both sides agree on who is ready; a restarted party becomes ready again |
| ARK stores, announcing role | ARKs heard of, broadcast schedule | every reachable server is announced in the end |
| RIB links and connections (`rib/prism/rib/connection/`) | connections of the RACE framework, reconnect with back-off | a lost connection is re-opened |

The modules above leave open what these decide (which peers are online, which
servers a client knows, whether a send succeeds), so their results hold whatever
these do; what is missing are results about these parts themselves.

### Out of scope

Sortition, symmetric encryption and signatures (strength of primitives; that they
round-trip is assumed), CBOR encoding, the offline configuration generator,
monitors and dashboards, the Android build with its vendored libraries.
PROJECT.json gives the reason for each. By size, nearly all of the repository is
the last of these: copies of OpenSSL and GMP under `rib/client/android/src`, which
are other projects' code, tables and assembly generators, and no part of the
protocols. What PRISM itself adds to them there is the JNI binding of `bfibe`,
which `BonehFranklin` models. PROJECT.json also lists the hazards this
code is exposed to, with the line where each bites and the properties that would
notice; a hazard that no property covers has a note that says why.

## 2 Modules

```
PreproductPool <-- refines -- PreproductStore <-- PreproductStoreProofs
Mailbox        <-- refines -- LockFreeDropbox  <-- LockFreeDropboxProofs
SecretSharing <-- TripleGeneration --+
             <-- FindCheck ----------+-- SharedCheck <-- SharedCheckProofs
LinkStateRouter <-- LinkStateRouterProofs
EpochLifecycle <-- EpochLifecycleProofs
BonehFranklin  <-- Registration <-- RegistrationProofs
TransportHooks <-- TransportHooksProofs
Messaging      <-- MessagingProofs
```

The modules cut the dropbox in three, along what each part needs of the others.
`PreproductStore` knows slots but no values, `SharedCheck` values but one batch
and one comparison, `LockFreeDropbox` which fragments match but no shares. What
one assumes the other checks: the dropbox takes from `MatchIsRight`
that a comparison over enough real shares tells whether a
message is addressed to a poll, and that others tell nothing; the check takes
from `SlotClaimedOnce` that its triple is its own, and from `ClaimedIsHeld` that
its parties have it.

Every module names, in PROJECT.json "map", the lines its definitions stand for.
Definitions called `mut_...` are plausible mistakes in one definition of the
code; replacing the definition by the mistake has to break a property, which
shows that the property depends on the code. `MC...` modules hold instances for
TLC and nothing else.

### PreproductPool, PreproductStore

`PreproductPool` is the promise to the users of preproducts: a slot (one triple
with one random number) is allocated once, to one operation, for ever; and a
party takes exactly what was allocated to an operation.

`PreproductStore` is the code. `held`, `nulled`, `next` are the
`PreproductStore` of each party, `savedHeld`, `savedNulled`, `savedNext` its file.
Every action that corresponds to a method that ends with `save_state` includes
the save, so `add_batch` and `claim_chunk` write the disk and `get_chunk` does
not. `group`, `gathering`, `asked`, `started`, `running`, `acks`, `replies` follow
one `generate_preproduct_task` and its `preproduct_op`s; `GatherReply` certifies
the batch for all its parties with the last response, `GiveUpBatch` is the
timeout, which deletes the leader's copy *without* saving, while participants may
still finish. `stage`, `peers`, `size`, `batches`, `slots` are the claims
(`ClaimChunk` is the greedy loop of `claim_chunk`), `GetChunk` and `GetNothing` the
two outcomes of `get_chunk`, with the partial nulling of the second. `CrashPeer`
and `CrashLeader` lose memory, tasks, and messages a party sent to itself.

Refinement: `slots` is what the pool allocates, and a party has taken the slots of
the operations whose chunk it was handed.

### Mailbox, LockFreeDropbox

`Mailbox` is the promise to clients: a message that is kept stays until a reply
with it was sent to a poll it is addressed to. It is weak where the code is:
two polls may get the same message, a late retry may keep a message again, a
restart may lose one.

`LockFreeDropbox` has one group of actions per task. Store: `StartStore`,
`AttemptStore` (under `store_limiter`), `StoreOp` on each party, `GatherAck`,
`EndAttempt` (success, or a failure that sleeps with its token), `WakeStore`. Poll:
`StartPoll`, `ChooseFragments` (`fragments_to_check`, before the wait for a find
token), `StartCheck`, `FindOp` on each party, `EndCheck`, `EndPoll`. Retrieve and
reply: `StartRetrieve`, `RetrieveOp`, `EndRetrieve`, `Reply`, `ReplyFails`,
`DeleteOp`. `SaveCommittee`, `CrashPeer` and `CrashLeader` are the rest. `has` is
each party's `stored_fragments`, `known` the leader's `peer.stored_fragments`,
`savedKnown` its file.

Refinement: a message is accepted when its store task starts and kept while
`Threshold` parties hold a fragment of it.

### SecretSharing, TripleGeneration, FindCheck, SharedCheck

`SecretSharing` is the arithmetic: Shamir shares over a small prime field,
reconstruction by Lagrange interpolation with `modinv` by the extended algorithm
of Euclid, and the `Sharing` operations, which carry dummies through. `xgcd` recurs
into itself as the code does, over the values that occur; sums and products are
folds, and `open` takes a list of shares or the shares of some parties, since no
result depends on their order. `TripleGeneration` is
`preproduct_op` for one batch, round by round, with parties that give up in any
of them. `FindCheck` is one comparison: request, the exchange of epsilon and delta
shares, answers, and what the leader opens. `SharedCheck` composes them: the
check uses the shares the group has generated, and consumes them.

### LinkStateRouter

One server of the model is one `LinkStateRouter` with its `LinkStateNetwork`,
`FloodDB` and `Neighborhood`. `StartLoop`, `Refresh` and `Update` are `lsp_loop`;
`handle_flood` passes a copy on by the comparison of `FloodDB.update`;
`NoticeNeighbor` follows `online`; `request_ls_db`, `handle_db_request` and
`handle_db_response` are the exchange of databases; `Send` and `Forward` route a
message with `LinkStateNetwork.hop`. `net`, which never changes, holds the
network and the bounds, so that one run covers several networks.

### EpochLifecycle

One server and the operator. `epochs` holds the `Epoch` objects: `state`, `previous`
and `key` are their fields, `ark` says how far `pre_run` has come, `run` how far the
task of `run` has (`"serving"` while there is a `run_scope`). `disk` stands for the
files `current-epoch`, `saved-epoch` and `router-ls`, `queue` for
`epoch_command_queue`. `New`, `Advance`, `Off`, `FloodEpoch` are the branches of
`main_loop`; `PreRun`, `Serve`, `SaveRouter` what the tasks of an epoch do;
`Restart` is `load_epoch` with `from_seed`. `Crash`, `CrashInSave` (between the two
saves of `run`) and `Fail` (an exception that reaches `main`: `LoadFails`, `NoLink`, and
the outcomes of `Off` and `FloodEpoch`) end the process. `Issue...` are the
operator's commands, in the order `rib/NOTES-epoch.md` gives.

### BonehFranklin, Registration

`BonehFranklin` is the library `bfibe` over symbols: a point is the multiples of
secrets that it sums, a hash is a free term, a byte is the set of terms xor-ed into
it. `hash_to_bytes` keeps the arithmetic of positions in its output, because the
last block goes to the wrong one (section 6). `encrypt_ibe`, `decrypt_ibe` (ctypes)
and `decryptIBE` (JNI) differ in what their buffers hold before.

`Registration` is `bootstrap_task`, `message_received` of a committee member, and
the client's side: `process_encrypted_registration_message` (with its three early
returns in `refuse_registration_message`), `process_message`, which queues while
`can_decrypt` is false, and `drain_queue`. Decryption is what `BonehFranklin` says
the bytes decrypt to. `mail` holds what the drop boxes store: handing it over any
number of times is delivery at least once.

### TransportHooks

The three tasks of a node: `package_task` (`ReceiveOld`, `ReceiveNew`, `SubmitOn`),
`hook_task` (`StartSweep`, `SweepOn`, `SweepPast`, `SweepOld`, `SweepPut`) and the one
that registers (`register_hook`, `RegisterOn`, `CancelRegister`, `remove_hook`). An
action is a task's turn up to the next `hook.put` that gives way. `package_task` and
`hook_task` hold the walk of `_check_hooks` in progress, by *position* in the list
`hooks`, as Python's iterator does.

### Messaging

`process_clear_text`, `BeginAttempt` (the next entry of `SendLog`, with
`invalidate_routes` and the choice of targets), `SkipTarget`, `Post`, `EndAttempt` and
`CleanupOnly` are the sender's `send_task`; `process_nark`, `process_ark` and `Expire` its
`server_db`. `mix_message` is an emix, `write`, `read_task`, `Reply` and
`ReplyTimesOut` a simple dropbox whose `read_task` takes all messages out and puts back
what it could not send. `Die`, `Lose` and `LoseReply` are failures.

## 3 Runs

| run | shows | instance |
|---|---|---|
| `preproduct_store` | no slot is claimed twice; claims name batches every party has in memory and on disk; parties refuse only repeats; the pool is implemented | 3 parties, 2 batches of 2 slots, 2 operations, 1 crash |
| `preproduct_liveness` | a waiting claim is answered while batches are left, after a timeout too | 2 parties, 2 batches, 1 timeout |
| `dropbox_store` | the mailbox is implemented; what a store task has stored is held and remembered | 3 parties of which one comes and goes, 2 messages, 2 polls |
| `dropbox_liveness` | store tasks end although failed attempts sleep with the only token; polls end; stored messages are returned | 2 parties, 2 messages, 2 polls, 1 timeout |
| `shared_check` | parties that keep a batch hold shares of one triple; a comparison is right or undecided, undecided for a reason | 4 parties, a group of 3, threshold 2, GF(5) |
| `router` | newest LSPs are kept; floods reach who is near enough; messages arrive; agreed tables have no loop; databases catch up | 4 small networks |
| `epoch` | epochs are staggered; a server serves with the key it announced, restarts in its newest epoch, and recovers from whatever ended it | 3 epochs, 2 crashes, 1 OFF, 1 FLOOD_EPOCH |
| `registration` | a key in use opens the client's messages and no others, natively and on Android; messages that came early arrive | 2 clients, 2 members, 1 restart each, 1 loss |
| `transport` | no package vanishes, waits beside its hook, stays in the pool after delivery, or comes twice to its only hook | 3 hooks, 2 packages in 2 copies |
| `messaging` | copies are not mislaid; a complete entry is spread over enough dropboxes; the user sees a message once; messages arrive whichever server dies | 1 message, 2 emixes, 2 dropboxes, 3 posts, 1 fault, 1 loss |
| `ibe_hash_bytes`, `transport_all` | disagreements, see section 6 | as above, smaller |

**Why these bounds.** *Preproducts*: three parties, so that an operation may need
fewer than the group and a party may be left out; two slots and two batches, so
that a claim can be short, exact, or span batches; one crash, which TLC places
between any two steps; timeouts come from that crash. The proofs remove all of
these bounds. *Dropbox*: with everything at once the product is too large, so
`Scope` allows either two polls for one message with a timeout, or one message
stored again after a timeout and a restart, or two messages with a poll for both;
these are the combinations in which the tasks of one message meet. Two attempts
are what it takes for an acknowledgement of the first to count for the second; in
`dropbox_liveness` there is a third, because the second can fail by such an
acknowledgement alone: it fills the count and leaves a party out. `Scope` and `LiveScope` restrict clients and
faults only, which no fairness applies to. *Shares*: four parties with ids 0 to 3
of which 0, 1 and 3 work, so that the ids are not those of a prefix; a field of
five elements is the smallest with room for them; two polynomials per draw are
enough to tell the parties' contributions apart, and the assumption `OpensToSecret`
of `MCSharedCheck`, which TLC evaluates, goes through all polynomials, sets of parties
and dummies. *Router*: `Floods` has two ways of
different length to a server behind the fork, at a hop limit that the longer one
exhausts; `Messages` has a direct link that fails and a way round; `Restarts` a
server two links away that has lost everything; `Lossy` a link that fails and
recovers under requests. *Epochs*: three epochs are what it takes for one to go
through all its states; two crashes allow a restart in an epoch that was itself
restarted; the queue holds two commands, so that NEXT is there before NEW is obeyed.
(Four epochs with one crash give the same results in two minutes.) *Registration*:
two members, so that a key can be half; two copies of one message, for
de-duplication while the key is missing; one client that is configured and reads
through the Android binding, for messages of others. The three kinds of drop box
are those of `DropboxKinds`; the run takes the one where nothing is caught.
*Transport*: three hooks of which two match the same package are what it takes for a
removal to shift a third; two copies for de-duplication. *Messaging*: two dropboxes
with a redundancy of two, so that a death leaves fewer than configured; three posts
are the two of the first attempt and one that makes up for a death.

**Deadlock** is not checked: the instances stop when their identifiers or bounds
are used up, and the systems have nothing to do without clients.

**Symmetry** is used in two safety runs only (parties other than the leader and
batches in one, retrieve tasks in the other), where no property or constant tells
them apart.

## 4 Fairness

`trio` runs every ready task, and the loops of the code wake by themselves: the
group tasks look at the reserve, waiting claims at the batches, the limiters
serve their waiters in order, `maintain_neighbor` and `lsp_loop` come round.
Hence weak fairness of the steps of tasks that are started. Two kinds of strong
fairness are used, both in `LockFreeDropbox`: of getting a limiter's token (FIFO),
and of `ChooseFragments` and `StartCheck` with a fragment the poll has not checked
(`random.sample` picks from all that may be checked, so it does not leave one out
for ever). Nothing makes clients send, links recover, timeouts or crashes happen;
timeouts are bounded, which stands for a network that answers in the end.

In `EpochLifecycle` a server that is not up is started again, as the deployment
does, its main loop reads its queue, and started tasks go on. There is no fairness
for `SaveRouter`: `router-state-save` is one frequency limit for the routers of all
epochs, and which of them gets it is a matter of timing.

In `Registration` the client's tasks run while it lives and drop boxes are polled
again and again; in `TransportHooks` the three tasks run as long as the node does.
In `Messaging` tasks go on (weak), and fairness is strong for what is retried or
chosen at random: the backlog is a queue, so every entry in it gets its attempt;
targets and routes are chosen by `random`, so that posting does not fail for ever
while something can be posted; polls come again, and their replies do not fail
for ever. The client hears of a dead server in the end, by a NARK or because its
ARK expires.

In the router, `<>[]Settled` is a premise of the properties, not fairness: floods
and messages arrive *if* links stay as they are and everybody has announced its
neighbours since.

## 5 Proofs

`PreproductStoreProofs` proves, for every committee, every number of batches and
operations, every batch size, and any number of timeouts and crashes, that each
safety property of `preproduct_store` holds, including the refinement of
`PreproductPool` (`StoreImplementsPool`), and besides that parties null whole claimed
chunks only and no counter goes back. The assumptions are those of
`PreproductStore`: `CommitteeAssumption` (the leader is a party) and
`SizeAssumption` (sizes are natural numbers, the batch size and the claim limit
positive). TLC evaluates both.

**The invariant.** No property is inductive by itself. `SlotClaimedOnce` needs to
know that the next claim starts past all slots claimed before, also after a
restart of the leader (`CounterIsSaved`: counters in memory and on disk are equal
at every step, because `claim_chunk` saves before it returns). That counter is
only kept as long as the batch is: if a batch could be deleted, or added once
more, its counter would start again at 0. Hence `CertifiedIsHeld`: a certified
batch is in memory and on disk of every party it is certified for. This in turn
needs the order of events of a generation: a party answers only after it saved
(`AnsweredIsHeld`), the leader drops its copy only while it still gathers, and a
party that has answered does not run again (`Progress`). Claims inherit all this
(`ClaimedIsCertified`, `ClaimStages`), and `NulledIsHanded` ties the `None`s of each
party, in memory and on disk, to chunks that were handed to it as a whole, which
gives `RefusedOnlyRepeats` and `ChunkIsWhole`. `IInv` is the conjunction;
`Inductive` proves it step by step, one lemma per part with one step per action,
and the theorems follow.

`LockFreeDropboxProofs`: for any finite committee (`PartyAssumption`), threshold,
messages, polls, tasks, timeouts and restarts, the types, `StoredIsHeld` and the
refinement of `Mailbox` (`CommitteeIsMailbox`). A message is handed in before
anything else happens to it (`OnlyAccepted`), and a retrieve task works for one
poll, with messages addressed to it (`OneClient`), so that what is sent was asked
for. A delete request follows a reply (`DeletesAnswered`). Until then nothing but a
restart takes a fragment from a party, and there is a difference between the
parties that the leader takes to have the message (by its record, the saved one,
the responses it has or those on their way) and those that have it: at most one
party per restart (its `ClaimedIsHeld`), which is what makes a late
acknowledgement that counts for the next attempt harmless. `StoredIsSaved` says
that the saved record names enough parties for what was reported as stored.

`LinkStateRouterProofs`: for any finite set of servers, networks, hop limits, link
failures and restarts (`RouterAssumption`), the types, of which the core is that first hops are neighbours, and `NewestKept`. Every
LSP that is known or travels was announced (`Issued`), and announcements name
neighbours (`AnnouncedTyped`); hence the graph of any database is part of the
network, and so are the shortest paths in it. A response names at most one LSP of
each server, and takes nothing back, in whatever order it is handled.

`EpochLifecycleProofs`: for any number of epochs, commands and crashes, the types,
`Staggered`, `KeysAsAnnounced` and `ResumesNewest`, from `BoundsAssumption` alone.
`NEXT` moves every epoch on by one state, which cannot bring two together; the
danger is `NEW`, which adds an epoch in PRE_RUN. Hence `NextBetween`: among the
commands that wait, a NEXT stands between two NEW, and before the first if an
epoch is in PRE_RUN already, whatever was missed while the server was down;
`NewIsNew`: they name epochs the server has not met in memory, on disk or by an
ARK, in increasing order, so that `from_seed` finds no saved key; and
`CurrentIsSaved`: unless a crash tore the two saves of `run` apart, a restart finds a
key, or Genesis, which `GenesisIsQuiet` keeps out of all floods. `KeysAgree` relates
the keys in memory, on disk and in ARKs, `FileIsNewest` the files to the history.
The steps are first summarised once from each side (what happens to the
epochs, the files, the ARKs, the queue: `EpochsStep`, `SaveStep`, `AnnounceStep`,
`QueueStep`), so that each invariant has a handful of cases and not twenty.

`MessagingProofs`: for any redundancy, layers, servers and faults, the types,
`CopyIsSomewhere`, `CompleteIsSpread` and `ReceivedOnce`. A complete entry has enough
routes when it is completed (`CompleteHasRoutes`); they lead to different
dropboxes because an attempt only has targets no route leads to (`RoutesAreOwn`,
`TargetsAreNew`); and a copy is lost through a counted loss or a dead server on its
way, which stays dead (`LossHasCause`).

`TransportHooksProofs`: for any hooks, packages and copies, the types,
`NothingVanishes`, `PoolIsUndelivered` and `OnceEach`. What a task has in hand was put
to a hook before (`InHand`, `HeldInHand`), and only packages never seen enter the
pool (`SeenFirst`). `OnceEach` needs that a walk has left behind every hook it put
the package to, although removals shift the list (`Passed`, `ListedOnce`).

`RegistrationProofs` has two parts. About the library: encryption and decryption
invert each other when the key matches the parameters (`RoundTrip`), through the
Android binding too at levels whose digest is at least as long as the session key
(`AndroidRoundTrip`); other keys give a cleared buffer (`OtherKeysClear`); keys match
from the start (`FragmentMatches`), after export and import (`ExportImport`) and after
summing (`SumMatches`). About the protocol, for any committee, clients, losses,
repetitions and restarts: the types, `KeyIsWhole` and `NothingMislaid`. `SumMatches` is
carried by induction to the sum over the committee: the public parameters are the
sum of all members' (`PublicIs`), a sum of fragments is the same in every order
(`SumIs`), so the key of a client is whole exactly when it sums one fragment of each
member (`WholeKeyIs`) and then opens what is encrypted for the client and nothing
else (`WholeKeyOpens`). The invariant says of every fragment, in mail, in a client's
list or in its key, whose it is (`NetworkTyped`, `KeysTyped`), and that a client counts
one session per restart (`SessionsCounted`), so that responses to an earlier session
are told apart. `KeysAreWhole` and `NothingIsMislaid` assume `DigestsFill`: where a
client decrypts through the Android binding, the digest of the security level is as
long as a session key. That is a hypothesis because without it they are false: it
is the disagreement of `ibe_hash_bytes` in section 6. It holds at levels 3 and
above, for every client without the binding at all levels, and in the instance of
the run `registration`.

`LinkStateRouterProofs` proves `AgreedTablesReach` (`TablesReach`) too. `TableUpToDate` is
its invariant: the table of a server that its own graph mentions is the table of
that graph, in every state, since each step that changes a database ends with
`update`. So with equal databases all those tables are of one graph; and in one
graph every first hop is nearer to the target than the server itself
(`HopsLeadNearer`, by induction over the balls `within`), whence no loop and no dead
end (`NoLoopNoEnd`). The premise that the graph mentions the server is needed:
`LinkStateNetwork.update` leaves a table as it is when it does not
(`network.py:70`), and the tables of such servers may be of any earlier graph.

`SharedCheckProofs`: for every prime, threshold, number of parties, group large
enough for the degree of a product, and whatever is drawn, the types,
`TripleMultiplies` and `MatchIsRight` (`TriplesMultiply`, `MatchesAreRight`). From the
bottom: every number the prime does not divide has an inverse and Euclid's
algorithm finds it (`InverseIs`), as the pair of rows it keeps has the same common
divisors throughout, and that divisor is 1; hence the interpolation weights are
right. *Opens(F, d, v)* says that the values F of the parties, at whichever d or more
of them, interpolate to v. The constant 1 opens from one value on (`OnesOpen`, by
taking one party out of a set), multiplying by the point costs one more party
and gives 0 (`TimesPoint`), linear combinations keep the number (`OpensLinear`);
from these polynomials (`PolynomialOpens`), sums of them over the group
(`DealtOpens`), products (`DealtTimes`), and `SharesOpen`, which is Shamir's scheme.
`Operations` says that `add`, `sub`, `mul` and the rest do to shares what they do to the
values, `OpenIs` what `open` gives when there are dummies among them.

The invariant `GenInv` of the generation follows the rounds: what a message was made
from is there and stays as it was (`InOrder`), so that all parties that add a batch
add shares of the same sums, although each did so at its own time (`BatchesRight`);
once the leader has taken the batch, what is left are shares of one triple and one
random number (`Common`). `CheckInv` ties the comparison to them: every answer is a
dummy, for a reason, or a share of the difference times the random number
(`Asked`, `MultipliedIs`), whichever messages its party used; what the leader opens
is then that product or nothing (`ResultIs`), and the product is 0 exactly for equal
pseudonyms (`ZeroIsMatch`). The assumptions are those of the modules, which TLC
evaluates: the modulus is a prime larger than the number of parties, a group has
2 * `Threshold` - 1 members, at least `Threshold` of which are asked; `None` is no number.
The proof has no counterpart of `sameDraws` of `MCSharedCheck`: it covers all draws.

**Induction.** The library's induction theorems take a predicate as parameter and
cannot be instantiated here. These proofs use instead that every non-empty set has
a least element of a well-founded order (`WFMin`), which takes sets: `Induction`,
`SubsetInduction` and `Least` are derived from it, and with them what recursive
functions and folds compute for every input. That is why `SecretSharing` and
`LinkStateRouter` declare no RECURSIVE operator.

**Only model-checked**: liveness, in `preproduct_liveness`, `dropbox_liveness`,
`router`, `epoch`, `registration`, `transport` and `messaging`: it is beyond the backends
installed. Every safety invariant and action property of a passing run is proved.

## 6 Disagreements with the documentation

Two runs end in a counterexample to what a comment says.

* `ibe_hash_bytes`: `hash_to_bytes` "Generates outputlen random bytes based on a
  seed" (`bfibe/src/hash.c:59`); the last, partial block is copied to the start of the
  buffer (`hash.c:92`), so that the end of the output keeps what the buffer held. The
  native binding clears it, `bfibejni.c:144` does not: at levels 1 and 2, where a
  digest is shorter than a 32-byte key, decryption on Android gives a wrong key.
* `transport_all`: `submit_to_hooks` is to "Submit incoming package to all registered
  hooks" (`prism/common/transport/transport.py:270`); the walk (`:278`) goes over the
  live list, and when a hook it has passed is removed while it gives way, as
  `gather_responses` does once it has enough, the next hook is skipped.

Six more are reproduced by configurations that are kept beside the runs:

* `MCPreproductRefetch.cfg`, `NoDoubleFetch`: `get_chunk` nulls a chunk "to prevent
  double-fetching" (`LF/preproduct.py:142-145`), but in memory only: after a restart a
  second copy of the request gets the same chunk again.
* `MCDropboxRecheck.cfg`, `NeverRechecks`: `poll_task` is to "check fragments that the
  poll request has not already checked" (`LF/dropbox.py:173`); the last step of
  `fragments_to_check` (`LF/poll.py:91`) brings checked ones back when they are
  stored on the same peers as an unchecked one, which costs preproducts.
* `MCRouterReachable.cfg`, `ReachableIsReachable`: `reachable` "Returns a list of all
  reachable endpoints" (`prism/server/routing/network.py:104`); a server that lost its
  only neighbour keeps its table (`network.py:70`) and reports it.
* `MCEpochOff.cfg`, `EndsWhenTold`: OFF "Instructs the specified epoch to end
  immediately" (`prism/common/epoch/command.py:29`); `Epoch.shutdown` (`epoch.py:195`)
  cancels what already serves and leaves the state alone, so that an epoch told to
  end earlier, in PRE_RUN or while it loads its links, serves afterwards.
* `MCEpochFlood.cfg`, `FloodsWhenTold`: FLOOD_EPOCH "Triggers immediate flooding of
  EARKs" (`command.py:31`); before the new epoch has made its link there is no ARK,
  and the assertion at `earkstore.py:49` ends the server.
* `MCRegistrationOverheard.cfg`, `ArrivesAnywhere`: a message sent earlier "should
  arrive now" (`rib/NOTES-bootstrap.md:41`); where a drop box broadcasts, a client
  that hears another's registration response fails an assertion
  (`prism/client/client.py:640`) that nothing catches, and its tasks end.

Read in the code and not run: `emix.py:70` passes address and name to
`add_broadcast_client` in the opposite order of its parameters (`router_ls.py:224`);
`router.send` without `block` returns True at once, so that the emix's
`mix_forward_retry_limit` never takes effect; `send_broadcast_task`
(`router_ls.py:362`) does not look at what `link.send` returns; `find_start` and
`find_route` can draw from an empty list, which `attempt_send` catches.

## 7 Abstractions

*Everywhere.* Identifiers are random in the code and never reused in the models.
Encryption is transparent. A crash loses everything that is not saved; saved files
are written whole.

*PreproductStore.* Share values are left out (see `SharedCheck`). Which peers are
online is left open. The requests of a generation are not delivered again after
a restart: its rounds would need the shares of all other parties again. A second
copy of a find request is, because packages go over every link between neighbours
and a restarted transport has forgotten what it delivered.

*LockFreeDropbox.* `gather_responses` counts messages, not parties, and the model
does too. Requests of a check that has ended are dropped: what a party computes
for them reaches nobody. `replied` means that `reply_to_client` reported the reply
as sent, not that the client has it. The file of fragments is left out because
nothing reads it back (`load_fragments` is never called). Forming the committee,
the ARK data and replies over broadcast links (`router_ls.py:362-368`) are left
out; the last report success whatever happens.

*Shares.* Sums and products are reduced modulo the prime once, at the end, and
shares are not told apart by their place in a list; both give the same numbers.
One fragment per check, since the fragments of a request do not
influence each other. The code takes a random product of 0 for equality; that a
random number is 0 by chance is excluded (`usable`), with the program's modulus it
is negligible. In the run, checks start from batches for which all parties drew the same
polynomials, to keep the number of states down. Two responses of one party to the
same request do not occur here.

*Router.* Two neighbours share one link; handing a copy to a live link and
receiving it is one step, so a send that is reported failed after it was delivered
is not covered. LSP lifetimes are left out: owners refresh at two thirds of them
(and nothing starts `LinkStateNetwork.run`, which would remove expired ones).
`flood_limiter` only delays. Of several shortest paths any may be chosen.
`FloodsReachAll` is about servers within `hops` + 2 links, as the configuration
asks for a limit "around the diameter" (`server.toml:63`). `DatabasesCatchUp` has
the premise that restarted servers announce again: until then a neighbour keeps
the size it heard before, and keeps asking. A copy travels up to `hops` + 2 links
because `handle_flood` compares the count before it adds one, and `flood` ignores its
argument `hops`.

*Epochs.* `announced` is what was given to the previous epoch's router; whether the
flood gets through is the router's concern. NEXT and FLOOD_EPOCH name no epoch, OFF
names one, as in `rib/NOTES-epoch.md`. `Staggered` and `KeysAsAnnounced` do not
claim anything once a crash has come between the two saves of `run` (`torn`): the
server then comes back in an epoch without its key and its predecessor.
`ResumesNewest` excludes that an epoch which was slow to load saves itself as
current after a newer one (`late`), and `Recovers` a server that crashed before the
router of its epoch had saved: it fails in `load_state` (`router_ls.py:806`) at every
restart. Serial numbers, which select the key pair in testbeds only
(`saved.py:23` sets the counter of the wrong class), servers that register clients
and the handing over of ARK stores are left out.

*Registration.* Members generate shards on one curve. Loading bootstrap ARKs, the
files of base64 messages that nothing calls, and failing system calls are left out.
User messages are not lost in `mail`: sending them again is the sender's send log.
A key other than the right one is taken to give bytes that do not decode.

*TransportHooks.* Records of packages seen outlast the copies (`msg_seen_ttl`).
`hook_task` gives way between packages, which adds turns the code does not have.
Sending, local links and the links of an epoch are left out.

*Messaging.* There is one channel that everybody can use. The mix strategies, which
only delay, client polls, the change of epochs and the persistence of the send log
are left out. A dropbox loses its store when it dies (it is in memory only), and a
server that died does not come back. The recipient's polls are environment.

## 8 What could be added

1. `Handshake`: hello and ready between two parties that restart [gives
   `LockFreeDropbox` its online peers].
2. ARK stores and the announcing role [give `Messaging` its `server_db`].
3. Change of epochs on the client, with the send log that persists.
4. Proofs: that what one module of the dropbox takes from another is what the other
   proves (section 2), as one theorem about their composition.
