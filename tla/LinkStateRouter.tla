-------------------------- MODULE LinkStateRouter --------------------------
(* The link-state router of the servers: prism/server/routing/router_ls.py, *)
(* network.py, flood_db.py and neighborhood.py.                             *)
(*                                                                          *)
(* Every server announces which of its neighbours are online in a link      *)
(* state packet (LSP) that it floods; keeps the newest LSP of each server   *)
(* in a database; computes the next hop to each server from it; and asks a  *)
(* neighbour with a larger database for a copy.  Messages for a server are  *)
(* forwarded hop by hop.  Links fail and recover, servers restart with      *)
(* their neighbours only, floods give up on a neighbour that stays away.    *)
(*                                                                          *)
(* A timestamp of an LSP is its number among the LSPs of its origin.  Two   *)
(* neighbours share one link, which works in both directions or in none.    *)
(* The lifetime of LSPs is left out: an owner refreshes its own at two      *)
(* thirds of it.                                                            *)
EXTENDS Naturals, FiniteSets, SequencesExt

CONSTANTS
    Server,        \* the servers of one epoch
    Packet,        \* messages to route
    Nets           \* the networks and bounds to consider: records with ...
\*   edges          the pairs {s, n} that are neighbours
\*   hops           ls_hops_max
\*   routes         where messages come from and go to: pairs of servers
\*   asking         bound: servers that may ask for databases
\*   versions       bound: the number of LSPs of each server
\*   changes        bound: links that fail or recover
\*   crashes        bound: restarts

ASSUME RouterAssumption ==
    /\ IsFiniteSet(Server)
    /\ \A n \in Nets :
         /\ \A e \in n.edges : \E s, t \in Server : s # t /\ e = {s, t}
         /\ \A r \in n.routes : r \in Server \X Server /\ r[1] # r[2]
         /\ n.asking \subseteq Server
         /\ n.versions \in [Server -> Nat]
         /\ {n.hops, n.changes, n.crashes} \subseteq Nat

VARIABLES
    net,           \* the network, one of Nets, always the same
    live,          \* the links that work
    online,        \* online[s]: the neighbours that s has heard from in time
    running,       \* the servers whose LSP loop has started
    last,          \* last[s]: last_neighbors in the LSP loop of s
    announced,     \* announced[o]: the neighbours in each LSP of o, in order
    database,      \* database[s][o]: the LSP of o that s holds, 0 if none
    routing_table, \* routing_table[s][t]: the first hops of the shortest paths
    flood_db,      \* flood_db[s]: the hop count at which s accepted a flood
    copies,        \* copies of floods that a server still has to pass on
    ls_db_size,    \* ls_db_size[s][n]: the last database size s heard of n
    dbRequests,    \* LSP_DATABASE_REQUESTs under way
    dbReplies,     \* LSP_DATABASE_RESPONSEs under way
    packet,        \* packet[p]: where the message p is and where it goes
    fresh,         \* servers that have announced since the last change
    changes, crashes

links     == <<net, live, changes>>
announces == <<running, last, announced, fresh>>
knowledge == <<database, routing_table>>
syncs     == <<dbRequests, dbReplies>>
vars == <<links, online, announces, knowledge, flood_db, copies, ls_db_size,
          syncs, packet, crashes>>

Nowhere == "Nowhere"
Announcer == {s \in Server : net.versions[s] > 0}
Lsp == UNION {{s} \X (1..net.versions[s]) : s \in Server}
Member == UNION net.edges
neighbors(s) == {n \in Server : {s, n} \in net.edges}
linked(s, n) == {s, n} \in live

-----------------------------------------------------------------------------
(* network.py: the database and the routing table. *)

NoDatabase == [o \in Server |-> 0]
NoTable == [t \in Server |-> {}]
size(db) == Cardinality({o \in Server : db[o] > 0})

edges(db, ann) ==
    {e \in Server \X Server : db[e[1]] > 0 /\ e[2] \in ann[e[1]][db[e[1]]]}

Graph == UNION {SUBSET {e \in Server \X Server : {e[1], e[2]} \in n.edges} : n \in Nets}
mentions(E, s) == \E e \in E : s \in {e[1], e[2]}

\* within[E][s][k]: the servers that a path of at most k edges leads to from s.
within ==
    LET from(E, s) ==
          LET ball[k \in 0..Cardinality(Server)] ==
                IF k = 0 THEN {s}
                ELSE UNION {{m} \cup {n \in Server : <<m, n>> \in E} : m \in ball[k - 1]}
          IN  [k \in 0..Cardinality(Server) |-> ball[k]]
    IN  [E \in Graph |-> [s \in Server |-> from(E, s)]]
reach(E, s) == within[E][s][Cardinality(Server)]

mut_AnyPath ==
    [E \in Graph |-> [s \in Server |-> [t \in Server |->
        {n \in Server : <<s, n>> \in E /\ s # t /\ t \in reach(E, n)}]]]

\* The first servers on the shortest paths: networkx chooses one of the paths.
shortest_path ==
    [E \in Graph |-> [s \in Server |-> [t \in Server |->
        {n \in Server : /\ <<s, n>> \in E
                        /\ s # t
                        /\ \E k \in 0..Cardinality(Server) :
                             t \in within[E][n][k] /\ t \notin within[E][s][k]}]]]

\* A server that no LSP mentions keeps the table it has.
_update_routing_table(s, E, table) ==
    IF mentions(E, s) THEN shortest_path[E][s] ELSE table

mut_NotNewer(s, o, v) == database[s][o] # v
newer(s, o, v) == database[s][o] < v

\* The database with an LSP of o, and the routing table that goes with it.
update(s, ann, o, v) ==
    IF newer(s, o, v)
    THEN \E db \in {[database[s] EXCEPT ![o] = v]} :
           /\ database' = [database EXCEPT ![s] = db]
           /\ routing_table' =
                [routing_table EXCEPT ![s] = _update_routing_table(s, edges(db, ann), @)]
    ELSE UNCHANGED knowledge

mut_AnyNeighbor(s, t) == IF t \in neighbors(s) THEN {t} ELSE routing_table[s][t]
hop(s, t) == IF t \in online[s] THEN {t} ELSE routing_table[s][t]

-----------------------------------------------------------------------------
Init ==
    /\ net \in Nets
    /\ live = net.edges
    /\ online = [s \in Server |-> neighbors(s)]
    /\ running = {}
    /\ last = [s \in Server |-> {}]
    /\ announced = [s \in Server |-> <<>>]
    /\ database = [s \in Server |-> NoDatabase]
    /\ routing_table = [s \in Server |-> NoTable]
    /\ flood_db = [s \in Server |-> <<>>]
    /\ copies = {}
    /\ ls_db_size = [s \in Server |-> [n \in Server |-> 0]]
    /\ dbRequests = {}
    /\ dbReplies = {}
    /\ packet = [p \in Packet |-> [at |-> Nowhere, to |-> Nowhere]]
    /\ fresh = {}
    /\ changes = 0
    /\ crashes = 0

-----------------------------------------------------------------------------
(* Links and neighbours. *)

ChangeLink(e) ==
    /\ changes < net.changes
    /\ live' = IF e \in live THEN live \ {e} ELSE live \cup {e}
    /\ changes' = changes + 1
    /\ fresh' = {}
    /\ UNCHANGED <<net, online, running, last, announced, knowledge, flood_db, copies, ls_db_size,
                   syncs, packet, crashes>>

\* Neighbours that share a working link hear each other's hello messages; one
\* that was not heard for ls_alive_factor hello intervals is offline.
NoticeNeighbor(s, n) ==
    /\ linked(s, n) # (n \in online[s])
    /\ online' = [online EXCEPT ![s] = IF linked(s, n) THEN @ \cup {n} ELSE @ \ {n}]
    /\ UNCHANGED <<links, announces, knowledge, flood_db, copies, ls_db_size, syncs,
                   packet, crashes>>

-----------------------------------------------------------------------------
(* Announcing: lsp_loop, send_lsp and flood. *)

copiesOf(s, fid, h, sent_to) ==
    {[fid |-> fid, hop_count |-> h, from |-> s, to |-> n] : n \in neighbors(s) \ sent_to}

\* The LSP goes to the own queue first, then to all neighbours.
send_lsp(s) ==
    LET fid == <<s, Len(announced[s]) + 1>>
        ann == [announced EXCEPT ![s] = Append(@, online[s])]
    IN  /\ Len(announced[s]) < net.versions[s]
        /\ announced' = ann
        /\ update(s, ann, fid[1], fid[2])
        /\ copies' = copies \cup copiesOf(s, fid, 0, {})
        /\ fresh' = fresh \cup {s}
        /\ UNCHANGED <<links, online, flood_db, ls_db_size, syncs, packet, crashes>>

StartLoop(s) ==
    /\ s \notin running
    /\ send_lsp(s)
    /\ running' = running \cup {s}
    /\ last' = [last EXCEPT ![s] = online[s]]

\* The regular cadence: last_neighbors is not brought up to date.
Refresh(s) ==
    /\ s \in running
    /\ send_lsp(s)
    /\ UNCHANGED <<running, last>>

\* The neighbours that are online have changed since last_neighbors.
Update(s) ==
    /\ s \in running
    /\ last[s] # online[s]
    /\ send_lsp(s)
    /\ last' = [last EXCEPT ![s] = online[s]]
    /\ UNCHANGED running

-----------------------------------------------------------------------------
(* Flooding: send_flood_task and handle_flood. *)

\* Messages to a neighbour are tagged with the size of the sender's database;
\* only servers that may ask for databases have a use for it.
handle_tags(s, n) ==
    ls_db_size' = IF s \in net.asking /\ n \in neighbors(s) /\ size(database[n]) > 0
                  THEN [ls_db_size EXCEPT ![s][n] = size(database[n])] ELSE ls_db_size

mut_FirstOnly(s, fid, h) == fid \notin DOMAIN flood_db[s]
FloodDBupdates(s, fid, h) ==
    fid \in DOMAIN flood_db[s] => h < flood_db[s][fid]

mut_ForwardsOneMore(s, c) ==
    IF c.hop_count > net.hops + 1 THEN {}
    ELSE copiesOf(s, c.fid, c.hop_count + 1, {c.from})
forwards(s, c) ==
    IF c.hop_count > net.hops THEN {}
    ELSE copiesOf(s, c.fid, c.hop_count + 1, {c.from})

handle_flood(c) ==
    /\ c \in copies
    /\ linked(c.from, c.to)
    /\ handle_tags(c.to, c.from)
    /\ \/ /\ ~FloodDBupdates(c.to, c.fid, c.hop_count)
          /\ copies' = copies \ {c}
          /\ UNCHANGED <<flood_db, knowledge>>
       \/ /\ FloodDBupdates(c.to, c.fid, c.hop_count)
          /\ flood_db' = [flood_db EXCEPT ![c.to] =
                 [f \in DOMAIN @ \cup {c.fid} |-> IF f = c.fid THEN c.hop_count ELSE @[f]]]
          /\ update(c.to, announced, c.fid[1], c.fid[2])
          /\ copies' = (copies \ {c}) \cup forwards(c.to, c)
    /\ UNCHANGED <<links, online, announces, syncs, packet, crashes>>

\* The flood stops trying after ls_flood_timeout_sec.
FloodTimeout(c) ==
    /\ c \in copies
    /\ ~linked(c.from, c.to)
    /\ copies' = copies \ {c}
    /\ UNCHANGED <<links, online, announces, knowledge, flood_db, ls_db_size, syncs,
                   packet, crashes>>

-----------------------------------------------------------------------------
(* Asking a neighbour for its database: maintain_neighbor, request_ls_db,   *)
(* handle_db_request and handle_db_response.                                *)

mut_FarBehind(s, n) == ls_db_size[s][n] > size(database[s]) + 1
behind(s, n) == ls_db_size[s][n] > size(database[s])

request_ls_db(s, n) ==
    /\ s \in net.asking
    /\ n \in online[s]
    /\ linked(s, n)
    /\ behind(s, n)
    /\ \A r \in dbRequests : <<r.from, r.to>> # <<s, n>>
    /\ \A r \in dbReplies : <<r.from, r.to>> # <<n, s>>
    /\ dbRequests' = dbRequests \cup {[from |-> s, to |-> n]}
    /\ UNCHANGED <<links, online, announces, knowledge, flood_db, copies, ls_db_size,
                   dbReplies, packet, crashes>>

handle_db_request(r) ==
    /\ r \in dbRequests
    /\ linked(r.from, r.to)
    /\ dbRequests' = dbRequests \ {r}
    /\ dbReplies' = dbReplies \cup
         {[from |-> r.to, to |-> r.from, submessages |->
             {<<o, database[r.to][o]>> : o \in {o \in Server : database[r.to][o] > 0}}]}
    /\ UNCHANGED <<links, online, announces, knowledge, flood_db, copies, ls_db_size,
                   packet, crashes>>

\* The LSPs of the response are handled one by one, in some order and with
\* nothing in between: the last of the graphs that mention the server gives its
\* table.
handle_db_response(r) ==
    LET s == r.to
        known(lsps) == [o \in Server |->
            Max({database[s][o]} \cup {lsp[2] : lsp \in {lsp \in lsps : lsp[1] = o}})]
    IN  /\ r \in dbReplies
        /\ dbReplies' = dbReplies \ {r}
        /\ database' = [database EXCEPT ![s] = known(r.submessages)]
        /\ \E lsps \in SetToSeqs(r.submessages) :
             LET graph == [k \in DOMAIN lsps |->
                     edges(known({lsps[i] : i \in {i \in DOMAIN lsps : i <= k}}), announced)]
                 telling == {k \in DOMAIN lsps : mentions(graph[k], s)}
             IN  \/ /\ telling = {}
                    /\ UNCHANGED routing_table
                 \/ \E k \in telling :
                      /\ \A j \in telling : j <= k
                      /\ routing_table' =
                           [routing_table EXCEPT ![s] = shortest_path[graph[k]][s]]
        /\ UNCHANGED <<links, online, announces, flood_db, copies, ls_db_size,
                       dbRequests, packet, crashes>>

LoseDbMessage(r) ==
    /\ r \in dbRequests \cup dbReplies
    /\ ~linked(r.from, r.to)
    /\ dbRequests' = dbRequests \ {r}
    /\ dbReplies' = dbReplies \ {r}
    /\ UNCHANGED <<links, online, announces, knowledge, flood_db, copies, ls_db_size,
                   packet, crashes>>

-----------------------------------------------------------------------------
(* Routing messages: send, send_target_task and handle_forward. *)

Send(p, r) ==
    /\ packet[p].to = Nowhere
    /\ packet' = [packet EXCEPT ![p] = [at |-> r[1], to |-> r[2]]]
    /\ UNCHANGED <<links, online, announces, knowledge, flood_db, copies, ls_db_size,
                   syncs, crashes>>

\* The server that has the message tries its next hop until it gets through.
Forward(p) ==
    LET s == packet[p].at
    IN  /\ s \notin {Nowhere, packet[p].to}
        /\ \E n \in hop(s, packet[p].to) \cap neighbors(s) :
             /\ linked(s, n)
             /\ packet' = [packet EXCEPT ![p].at = n]
             /\ handle_tags(n, s)
        /\ UNCHANGED <<links, online, announces, knowledge, flood_db, copies, syncs,
                       crashes>>

-----------------------------------------------------------------------------
\* A restart reads the neighbours and their links back; the rest is lost, and
\* with it the messages the server was sending or had not handled.
Crash(s) ==
    /\ crashes < net.crashes
    /\ crashes' = crashes + 1
    /\ online' = [online EXCEPT ![s] = {}]
    /\ running' = running \ {s}
    /\ last' = [last EXCEPT ![s] = {}]
    /\ database' = [database EXCEPT ![s] = NoDatabase]
    /\ routing_table' = [routing_table EXCEPT ![s] = NoTable]
    /\ flood_db' = [flood_db EXCEPT ![s] = <<>>]
    /\ ls_db_size' = [ls_db_size EXCEPT ![s] = [n \in Server |-> 0]]
    /\ copies' = {c \in copies : c.from # s}
    /\ dbRequests' = {r \in dbRequests : r.to # s}
    /\ dbReplies' = {r \in dbReplies : r.to # s}
    /\ packet' = [p \in Packet |-> IF packet[p].at = s /\ packet[p].to # s
                                   THEN [packet[p] EXCEPT !.at = Nowhere] ELSE packet[p]]
    /\ fresh' = {}
    /\ UNCHANGED <<links, announced>>

Next ==
    \/ \E e \in net.edges : ChangeLink(e)
    \/ \E s \in Server : \E n \in neighbors(s) : NoticeNeighbor(s, n) \/ request_ls_db(s, n)
    \/ \E s \in Announcer : StartLoop(s) \/ Refresh(s) \/ Update(s)
    \/ \E c \in copies : handle_flood(c) \/ FloodTimeout(c)
    \/ \E r \in dbRequests : handle_db_request(r)
    \/ \E r \in dbReplies : handle_db_response(r)
    \/ \E r \in dbRequests \cup dbReplies : LoseDbMessage(r)
    \/ \E p \in Packet, r \in net.routes : Send(p, r)
    \/ \E p \in Packet : Forward(p)
    \/ \E s \in Member : Crash(s)

\* What the tasks of the servers keep doing; links need not recover, servers
\* need not crash, and no refresh is due.
Fairness ==
    /\ WF_vars(\E s \in Server : \E n \in neighbors(s) : NoticeNeighbor(s, n))
    /\ WF_vars(\E s \in Announcer : StartLoop(s) \/ Update(s))
    /\ WF_vars(\E c \in copies : handle_flood(c))
    /\ \A s \in UNION {m.asking : m \in Nets}, n \in Server : WF_vars(request_ls_db(s, n))
    /\ WF_vars(\E r \in dbRequests : handle_db_request(r))
    /\ WF_vars(\E r \in dbReplies : handle_db_response(r))
    /\ \A p \in Packet : WF_vars(Forward(p))

Spec == Init /\ [][Next]_vars
FairSpec == Spec /\ Fairness

-----------------------------------------------------------------------------
(* Properties. *)

\* All variables are well typed.
TypeOK ==
    /\ live \subseteq net.edges
    /\ \A s \in Server :
         /\ online[s] \subseteq neighbors(s)
         /\ last[s] \subseteq neighbors(s)
         /\ announced[s] \in Seq(SUBSET neighbors(s)) /\ Len(announced[s]) <= net.versions[s]
         /\ \A o \in Server : database[s][o] \in 0..net.versions[o]
         /\ routing_table[s] \in [Server -> SUBSET neighbors(s)]
         /\ ls_db_size[s] \in [Server -> 0..Cardinality(Server)]
         /\ flood_db[s] \in [DOMAIN flood_db[s] -> 0..net.hops + 1]
         /\ DOMAIN flood_db[s] \subseteq Lsp
    /\ copies \subseteq [fid : Lsp, hop_count : 0..net.hops + 1,
                         from : Server, to : Server]
    /\ dbRequests \subseteq [from : Server, to : Server]
    /\ dbReplies \subseteq [from : Server, to : Server,
                            submessages : SUBSET Lsp]
    /\ packet \in [Packet -> [at : Server \cup {Nowhere}, to : Server \cup {Nowhere}]]
    /\ fresh \subseteq Announcer

liveEdges == {e \in Server \X Server : linked(e[1], e[2])}
connected(s, t) == t \in reach(liveEdges, s)

\* The copies of a flood travel at most net.hops + 2 links.
near(s, o) == \E k \in 0..Cardinality(Server) :
                k <= net.hops + 2 /\ o \in within[liveEdges][s][k]

\* Nothing changes any more, and everybody has announced the neighbours it has.
Settled ==
    /\ \A s \in Server : online[s] = {n \in neighbors(s) : linked(s, n)}
    /\ fresh = Announcer
    /\ \A s \in Announcer : announced[s][Len(announced[s])] = online[s]

\* A server never replaces an LSP by an older one, in whatever order floods,
\* database dumps and its own LSPs reach it; only a restart forgets LSPs
\* (LinkStateNetwork.update).
NewestKept ==
    [][\A s, o \in Server : database'[s][o] < database[s][o]
                            => database'[s] = NoDatabase /\ crashes' > crashes]_vars

\* Once links stay as they are and everybody has announced its neighbours since,
\* every server ends up with the newest LSP of each server that is near enough:
\* a copy that came first over a longer way, and was not passed on for its hop
\* count, does not stop the one that comes later over a shorter way
\* (handle_flood and FloodDB.update).
FloodsReachAll ==
    (<>[]Settled) => <>[](\A s \in Server, o \in Announcer :
                            near(s, o) => database[s][o] = Len(announced[o]))

\* A message that was handed to a router, and not lost in a restart, gets to a
\* server that stays connected, through whatever routing tables it meets while
\* the network settles: it is not caught in a loop and does not wait for ever
\* (send_target_task, handle_forward, LinkStateNetwork.hop).
MessagesArrive ==
    \A p \in Packet :
      (<>[](Settled /\ packet[p].at # Nowhere /\ connected(packet[p].at, packet[p].to)))
        => <>(packet[p].at = packet[p].to /\ packet[p].to # Nowhere)

\* When all databases are the same, the tables of the servers that the graph
\* mentions have no loop and no dead end: from each such server that has a first
\* hop for t, t is reached whatever first hops are taken.  (The others keep
\* tables from earlier graphs.)
AgreedTablesReach ==
    (\A s, o \in Member : database[s] = database[o]) =>
      \A s, t \in Server : mentions(edges(database[s], announced), s) =>
        LET E == {e \in Server \X Server : e[2] \in routing_table[e[1]][t]}
        IN  \A m \in reach(E, s) :
              /\ routing_table[s][t] # {} /\ m # t => routing_table[m][t] # {}
              /\ \A n \in routing_table[m][t] : m \notin reach(E, n)

\* A server that knows of an online neighbour with a larger database catches up
\* with it, and the requests for databases come to an end (maintain_neighbor,
\* request_ls_db, handle_db_request, handle_db_response).
DatabasesCatchUp ==
    <>[](Announcer \subseteq running)
      => <>[](\A s \in net.asking : \A n \in online[s] : ls_db_size[s][n] <= size(database[s]))

\* "Returns a list of all reachable endpoints" (the docstring of
\* LinkStateNetwork.reachable): the LSPs that the server has lead to each of them.
ReachableIsReachable ==
    \A s, t \in Server :
        routing_table[s][t] # {}
          => t \in reach(edges(database[s], announced), s)
=============================================================================
