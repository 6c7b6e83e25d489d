----------------------- MODULE LinkStateRouterProofs -----------------------
(***************************************************************************)
(* Theorems about LinkStateRouter, for any servers, networks, hop limits,  *)
(* numbers of LSPs, link failures and restarts.                            *)
(*                                                                         *)
(* The argument: a server's numbers for its LSPs are the only ones that    *)
(* travel, so that no flood, database or response names an LSP that its    *)
(* origin has not announced; the graph of any database is then one of the  *)
(* network, and the first hops computed from it are neighbours.  A         *)
(* response names one LSP of each server, and what it names replaces only  *)
(* older ones.  The table of a server that its own graph mentions is the   *)
(* one of that graph; and the first hops of one graph get nearer at every  *)
(* step, by induction over the lengths of paths.                           *)
(***************************************************************************)
EXTENDS LinkStateRouter, FiniteSetTheorems, SequenceTheorems, WellFoundedInduction, TLAPS

Copy == [fid : Lsp, hop_count : 0..net.hops + 1, from : Server, to : Server]

(* What the state consists of; TypeOK says it server by server.             *)
NetTyped == net \in Nets /\ live \subseteq net.edges /\ changes \in Nat /\ crashes \in Nat

ServersTyped ==
    /\ running \subseteq Server /\ fresh \subseteq Announcer
    /\ online \in [Server -> SUBSET Server] /\ last \in [Server -> SUBSET Server]
    /\ \A s \in Server : online[s] \subseteq neighbors(s) /\ last[s] \subseteq neighbors(s)
    /\ announced \in [Server -> Seq(SUBSET Server)]

(* A table of first hops, each of them a neighbour.                         *)
IsTable(table) ==
    /\ table \in [Server -> [Server -> SUBSET Server]]
    /\ \A s, t \in Server : table[s][t] \subseteq neighbors(s)

KnowledgeTyped ==
    /\ database \in [Server -> [Server -> Nat]]
    /\ IsTable(routing_table)
    /\ ls_db_size \in [Server -> [Server -> 0..Cardinality(Server)]]

TrafficTyped ==
    /\ copies \subseteq Copy
    /\ dbRequests \subseteq [from : Server, to : Server]
    /\ dbReplies \subseteq [from : Server, to : Server, submessages : SUBSET Lsp]
    /\ packet \in [Packet -> [at : Server \cup {Nowhere}, to : Server \cup {Nowhere}]]

Typed == NetTyped /\ ServersTyped /\ KnowledgeTyped /\ TrafficTyped

(* A server's LSPs name its neighbours.                                     *)
AnnouncedTyped ==
    \A s \in Server : announced[s] \in Seq(SUBSET neighbors(s))
                      /\ Len(announced[s]) <= net.versions[s]

FloodsTyped ==
    /\ flood_db = [s \in Server |-> flood_db[s]]
    /\ \A s \in Server : /\ DOMAIN flood_db[s] \subseteq Lsp
                         /\ flood_db[s] \in [DOMAIN flood_db[s] -> 0..net.hops + 1]

(* LSPs that are known or travel were announced.                            *)
Issued ==
    /\ \A s, o \in Server : database[s][o] <= Len(announced[o])
    /\ \A c \in copies : c.fid[2] <= Len(announced[c.fid[1]])
    /\ \A r \in dbReplies : \A lsp \in r.submessages : lsp[2] <= Len(announced[lsp[1]])

(* A response names one LSP of each server.                                 *)
OneVersion ==
    \A r \in dbReplies : \A x, y \in r.submessages : x[1] = y[1] => x = y

IInv == Typed /\ AnnouncedTyped /\ FloodsTyped /\ Issued /\ OneVersion

-----------------------------------------------------------------------------
(***************************************************************************)
(* Numbers, graphs and first hops.                                         *)
(***************************************************************************)

LEMMA NetType ==
    ASSUME net \in Nets
    PROVE  /\ net.versions \in [Server -> Nat] /\ net.hops \in Nat /\ net.asking \subseteq Server
           /\ \A e \in net.edges : \E s, t \in Server : e = {s, t}
  BY RouterAssumption

LEMMA LspType ==
    ASSUME net \in Nets
    PROVE  /\ \A x \in Lsp : /\ x[1] \in Server /\ x[2] \in 1..net.versions[x[1]]
                             /\ x = <<x[1], x[2]>>
           /\ \A s \in Server : \A v \in 1..net.versions[s] : <<s, v>> \in Lsp
  BY NetType DEF Lsp

(* The network stays, and with it what is made of it.                       *)
LEMMA NetStays ==
    ASSUME net' = net
    PROVE  /\ Lsp' = Lsp /\ Announcer' = Announcer /\ Copy' = Copy
           /\ \A s \in Server : neighbors(s)' = neighbors(s)
  BY DEF Lsp, Announcer, Copy, neighbors

LEMMA AtMost == \A i, j, k \in Nat : i <= j /\ j <= k => i <= k
  OBVIOUS

LEMMA MaxOfTwo ==
    ASSUME NEW a \in Nat, NEW b \in Nat
    PROVE  Max({a, b}) \in {a, b} /\ Max({a, b}) >= a /\ Max({a, b}) >= b
  <1>1. \E x \in {a, b} : \A y \in {a, b} : x >= y
    <2>1. CASE a >= b
      BY <2>1
    <2>2. CASE b >= a
      BY <2>2
    <2> QED BY <2>1, <2>2
  <1> QED BY <1>1 DEF Max

(* The newest of what a server has and what it is told, one LSP of each     *)
(* server at most.                                                          *)
LEMMA NewestOf ==
    ASSUME NEW a \in Nat, NEW o, NEW lsps, NEW n \in Nat, a <= n,
           \A x, y \in lsps : x[1] = y[1] => x = y,
           \A x \in lsps : x[1] = o => x[2] \in Nat /\ x[2] <= n
    PROVE  LET newest == Max({a} \cup {lsp[2] : lsp \in {lsp \in lsps : lsp[1] = o}})
           IN  newest \in Nat /\ newest >= a /\ newest <= n
  <1> DEFINE told == {lsp[2] : lsp \in {lsp \in lsps : lsp[1] = o}}
  <1>1. CASE told = {}
    <2>1. {a} \cup told = {a, a}
      BY <1>1
    <2> QED BY <2>1, MaxOfTwo
  <1>2. CASE told # {}
    <2>1. PICK x \in lsps : x[1] = o
      BY <1>2
    <2>2. told = {x[2]}
      BY <2>1
    <2>3. {a} \cup told = {a, x[2]}
      BY <2>2
    <2>4. Max({a, x[2]}) \in {a, x[2]} /\ Max({a, x[2]}) >= a /\ x[2] \in Nat /\ x[2] <= n
      BY <2>1, MaxOfTwo
    <2> QED BY <2>3, <2>4
  <1> QED BY <1>1, <1>2

(* The graph of a database is one of the network, with edges to neighbours. *)
LEMMA GraphType ==
    ASSUME net \in Nets, NEW db \in [Server -> Nat], NEW ann,
           \A o \in Server : ann[o] \in Seq(SUBSET neighbors(o)) /\ db[o] <= Len(ann[o])
    PROVE  /\ edges(db, ann) \in Graph
           /\ \A s, n \in Server : <<s, n>> \in edges(db, ann) => n \in neighbors(s)
  <1>1. ASSUME NEW s \in Server, NEW n \in Server, db[s] > 0, n \in ann[s][db[s]]
        PROVE  n \in neighbors(s)
    <2>1. Len(ann[s]) \in Nat
      BY LenProperties
    <2>2. db[s] \in Nat /\ db[s] <= Len(ann[s])
      OBVIOUS
    <2>3. db[s] \in 1..Len(ann[s])
      BY <1>1, <2>1, <2>2
    <2>4. ann[s][db[s]] \in SUBSET neighbors(s)
      BY <2>3, ElementOfSeq
    <2> QED BY <1>1, <2>4
  <1>2. \A e \in edges(db, ann) : e \in Server \X Server /\ {e[1], e[2]} \in net.edges
    BY <1>1 DEF edges, neighbors
  <1>3. edges(db, ann) \in SUBSET {e \in Server \X Server : {e[1], e[2]} \in net.edges}
    BY <1>2
  <1>4. edges(db, ann) \in Graph
    BY <1>3, ZenonT(60) DEF Graph
  <1>5. ASSUME NEW s \in Server, NEW n \in Server, <<s, n>> \in edges(db, ann)
        PROVE  n \in neighbors(s)
    <2>1. db[s] > 0 /\ n \in ann[s][db[s]]
      BY <1>5 DEF edges
    <2> QED BY <1>1, <2>1
  <1> QED BY <1>4, <1>5

LEMMA PathType ==
    ASSUME NEW E \in Graph, NEW s \in Server
    PROVE  /\ shortest_path[E][s] \in [Server -> SUBSET Server]
           /\ \A t \in Server : \A n \in shortest_path[E][s][t] : n \in Server /\ <<s, n>> \in E
  BY DEF shortest_path

LEMMA SizeType ==
    ASSUME NEW db
    PROVE  size(db) \in 0..Cardinality(Server)
  <1>1. {o \in Server : db[o] > 0} \in SUBSET Server
    OBVIOUS
  <1>2. /\ Cardinality({o \in Server : db[o] > 0}) <= Cardinality(Server)
        /\ Cardinality({o \in Server : db[o] > 0}) \in Nat /\ Cardinality(Server) \in Nat
    BY <1>1, RouterAssumption, FS_Subset, FS_CardinalityType
  <1> QED BY <1>2 DEF size

(* What update leaves: the newer LSP, or all as it was.                     *)
LEMMA UpdateStep ==
    ASSUME IInv, NEW s \in Server, NEW ann, NEW o \in Server, NEW v \in Nat,
           \A x \in Server : ann[x] \in Seq(SUBSET neighbors(x)) /\ Len(announced[x]) <= Len(ann[x]),
           v <= Len(ann[o]), update(s, ann, o, v)
    PROVE  /\ database' \in [Server -> [Server -> Nat]]
           /\ \A x, y \in Server : database'[x][y] <= Len(ann[y]) /\ database[x][y] <= database'[x][y]
           /\ IsTable(routing_table')
  <1>0. /\ database \in [Server -> [Server -> Nat]] /\ net \in Nets /\ IsTable(routing_table)
        /\ announced \in [Server -> Seq(SUBSET Server)]
    BY DEF IInv, Typed, NetTyped, ServersTyped, KnowledgeTyped, IsTable
  <1>1. \A x, y \in Server : database[x][y] \in Nat /\ database[x][y] <= Len(ann[y])
    <2>1. ASSUME NEW x \in Server, NEW y \in Server
          PROVE  database[x][y] <= Len(ann[y])
      <3>1. database[x][y] <= Len(announced[y]) /\ Len(announced[y]) <= Len(ann[y])
        BY DEF IInv, Issued
      <3>2. database[x][y] \in Nat /\ Len(announced[y]) \in Nat /\ Len(ann[y]) \in Nat
        BY <1>0, LenProperties
      <3> QED BY <3>1, <3>2
    <2> QED BY <1>0, <2>1
  <1>2. CASE newer(s, o, v)
    <2> DEFINE db == [database[s] EXCEPT ![o] = v]
    <2>1. /\ database' = [database EXCEPT ![s] = db]
          /\ routing_table' =
               [routing_table EXCEPT ![s] = _update_routing_table(s, edges(db, ann), @)]
      BY <1>2 DEF update
    <2>2. db \in [Server -> Nat] /\ \A y \in Server : db[y] <= Len(ann[y]) /\ database[s][y] <= db[y]
      BY <1>0, <1>1, <1>2 DEF newer
    <2>3. /\ edges(db, ann) \in Graph
          /\ \A x, n \in Server : <<x, n>> \in edges(db, ann) => n \in neighbors(x)
      BY <1>0, <2>2, GraphType
    <2> HIDE DEF db
    <2>4. /\ shortest_path[edges(db, ann)][s] \in [Server -> SUBSET Server]
          /\ \A t \in Server : shortest_path[edges(db, ann)][s][t] \subseteq neighbors(s)
      BY <2>3, PathType
    <2>5. routing_table' \in {routing_table,
                              [routing_table EXCEPT ![s] = shortest_path[edges(db, ann)][s]]}
      BY <1>0, <2>1 DEF _update_routing_table, IsTable
    <2>6. IsTable(routing_table')
      BY <1>0, <2>4, <2>5 DEF IsTable
    <2>7. database' \in [Server -> [Server -> Nat]]
      BY <1>0, <2>1, <2>2
    <2>8. ASSUME NEW x \in Server, NEW y \in Server
          PROVE  database'[x][y] <= Len(ann[y]) /\ database[x][y] <= database'[x][y]
      <3>1. database'[x] = IF x = s THEN db ELSE database[x]
        BY <1>0, <2>1
      <3>2. CASE x = s
        BY <2>2, <3>1, <3>2
      <3>3. CASE x # s
        <4>1. database'[x][y] = database[x][y] /\ database[x][y] \in Nat
          BY <1>1, <3>1, <3>3
        <4>2. \A i \in Nat : i <= i
          OBVIOUS
        <4> QED BY <1>1, <4>1, <4>2
      <3> QED BY <3>2, <3>3
    <2> QED BY <2>6, <2>7, <2>8
  <1>3. CASE ~newer(s, o, v)
    <2>1. database' = database /\ routing_table' = routing_table
      BY <1>3 DEF update, knowledge
    <2>2. \A i \in Nat : i <= i
      OBVIOUS
    <2> QED BY <1>0, <1>1, <2>1, <2>2
  <1> QED BY <1>2, <1>3

(* update never takes an older LSP.                                         *)
LEMMA UpdateMonotone ==
    ASSUME IInv, NEW s \in Server, NEW ann, NEW o \in Server, NEW v \in Nat, update(s, ann, o, v)
    PROVE  \A x, y \in Server : database'[x][y] \in Nat /\ ~(database'[x][y] < database[x][y])
  <1>1. database \in [Server -> [Server -> Nat]]
    BY DEF IInv, Typed, KnowledgeTyped
  <1>2. CASE newer(s, o, v)
    <2>1. database' = [database EXCEPT ![s] = [database[s] EXCEPT ![o] = v]]
      BY <1>2 DEF update
    <2> QED BY <1>1, <1>2, <2>1 DEF newer
  <1>3. CASE ~newer(s, o, v)
    BY <1>1, <1>3 DEF update, knowledge
  <1> QED BY <1>2, <1>3

-----------------------------------------------------------------------------
(***************************************************************************)
(* The steps.                                                              *)
(***************************************************************************)

LEMMA InvInit == Init => IInv
  <1> SUFFICES ASSUME Init PROVE IInv
    OBVIOUS
  <1>1. \A s \in Server : neighbors(s) \subseteq Server
    BY DEF neighbors
  <1>2. Cardinality(Server) \in Nat /\ 0 \in 0..Cardinality(Server)
    BY RouterAssumption, FS_CardinalityType
  <1>3. Typed
    <2>1. NetTyped
      BY DEF Init, NetTyped
    <2>2. ServersTyped
      BY <1>1, EmptySeq DEF Init, ServersTyped
    <2>3. KnowledgeTyped
      BY <1>2 DEF Init, KnowledgeTyped, IsTable, NoDatabase, NoTable
    <2>4. TrafficTyped
      BY DEF Init, TrafficTyped
    <2> QED BY <2>1, <2>2, <2>3, <2>4 DEF Typed
  <1>4. \A s \in Server : <<>> \in Seq(SUBSET neighbors(s)) /\ Len(announced[s]) = 0
    BY EmptySeq DEF Init
  <1>5. net \in Nets /\ \A s \in Server : 0 <= net.versions[s]
    BY NetType DEF Init
  <1>6. AnnouncedTyped
    BY <1>4, <1>5 DEF Init, AnnouncedTyped
  <1>7. FloodsTyped
    <2>1. \A s \in Server : flood_db[s] = <<>>
      BY DEF Init
    <2>2. DOMAIN <<>> = {} /\ <<>> \in [{} -> 0..net.hops + 1]
      OBVIOUS
    <2>3. flood_db = [s \in Server |-> flood_db[s]]
      BY DEF Init
    <2> QED BY <2>1, <2>2, <2>3 DEF FloodsTyped
  <1>8. Issued /\ OneVersion
    BY <1>4 DEF Init, Issued, OneVersion, NoDatabase
  <1> QED BY <1>3, <1>6, <1>7, <1>8 DEF IInv

(* The parts of the state that a step leaves alone.                         *)
LEMMA NetKept ==
    ASSUME NetTyped, UNCHANGED <<net, live, changes, crashes>>
    PROVE  NetTyped'
  BY DEF NetTyped

LEMMA ServersKept ==
    ASSUME ServersTyped, UNCHANGED <<net, running, fresh, online, last, announced>>
    PROVE  ServersTyped'
  BY NetStays DEF ServersTyped

LEMMA KnowledgeKept ==
    ASSUME KnowledgeTyped, UNCHANGED <<net, database, routing_table, ls_db_size>>
    PROVE  KnowledgeTyped'
  BY NetStays DEF KnowledgeTyped, IsTable

LEMMA TrafficKept ==
    ASSUME TrafficTyped, UNCHANGED <<net, packet>>, copies' \subseteq copies,
           dbRequests' \subseteq dbRequests, dbReplies' \subseteq dbReplies
    PROVE  TrafficTyped'
  BY NetStays DEF TrafficTyped

(* What is announced, known and under way stays as it is, or is lost.       *)
LEMMA QuietStep ==
    ASSUME IInv, Typed', UNCHANGED <<net, announced, database, flood_db>>,
           copies' \subseteq copies, dbReplies' \subseteq dbReplies
    PROVE  IInv'
  <1>1. AnnouncedTyped'
    BY NetStays DEF IInv, AnnouncedTyped
  <1>2. FloodsTyped'
    BY NetStays DEF IInv, FloodsTyped
  <1>3. Issued' /\ OneVersion'
    BY DEF IInv, Issued, OneVersion
  <1> QED BY <1>1, <1>2, <1>3 DEF IInv

(* Tags tell database sizes.                                                *)
LEMMA TagsType ==
    ASSUME IInv, NEW s \in Server, NEW n \in Server, handle_tags(s, n)
    PROVE  ls_db_size' \in [Server -> [Server -> 0..Cardinality(Server)]]
  BY SizeType DEF handle_tags, IInv, Typed, KnowledgeTyped

LEMMA ChangeStep ==
    ASSUME IInv, NEW e \in net.edges, ChangeLink(e)
    PROVE  IInv'
  <1>1. /\ UNCHANGED <<net, running, online, last, announced, database, routing_table, flood_db,
                       copies, ls_db_size, dbRequests, dbReplies, packet, crashes>>
        /\ fresh' = {} /\ live' \in {live \ {e}, live \cup {e}} /\ changes' = changes + 1
    BY DEF ChangeLink, links, knowledge, syncs
  <1>2. NetTyped'
    BY <1>1 DEF IInv, Typed, NetTyped
  <1>3. ServersTyped'
    BY <1>1, NetStays DEF IInv, Typed, ServersTyped
  <1> QED BY <1>1, <1>2, <1>3, KnowledgeKept, TrafficKept, QuietStep DEF IInv, Typed

LEMMA NoticeStep ==
    ASSUME IInv, NEW s \in Server, NEW n \in neighbors(s), NoticeNeighbor(s, n)
    PROVE  IInv'
  <1>1. /\ UNCHANGED <<net, live, changes, crashes, running, last, announced, fresh, database,
                       routing_table, flood_db, copies, ls_db_size, dbRequests, dbReplies, packet>>
        /\ online' \in {[online EXCEPT ![s] = @ \cup {n}], [online EXCEPT ![s] = @ \ {n}]}
    BY DEF NoticeNeighbor, links, announces, knowledge, syncs
  <1>2. n \in Server
    BY DEF neighbors
  <1>3. ServersTyped'
    <2>1. /\ online \in [Server -> SUBSET Server]
          /\ \A x \in Server : online[x] \subseteq neighbors(x)
      BY DEF IInv, Typed, ServersTyped
    <2>2. /\ online' \in [Server -> SUBSET Server]
          /\ \A x \in Server : online'[x] \subseteq neighbors(x)
      BY <1>1, <1>2, <2>1
    <2> QED BY <1>1, <2>2, NetStays DEF IInv, Typed, ServersTyped
  <1> QED BY <1>1, <1>3, NetKept, KnowledgeKept, TrafficKept, QuietStep DEF IInv, Typed

LEMMA SendStep ==
    ASSUME IInv, NEW s \in Announcer, send_lsp(s),
           running' \subseteq Server, last' \in [Server -> SUBSET Server],
           \A x \in Server : last'[x] \subseteq neighbors(x)
    PROVE  IInv'
  <1> USE DEF links, announces, knowledge, syncs
  <1> DEFINE ann == [announced EXCEPT ![s] = Append(@, online[s])]
             v == Len(announced[s]) + 1
  <1>1. /\ announced' = ann /\ update(s, ann, s, v) /\ Len(announced[s]) < net.versions[s]
        /\ copies' = copies \cup copiesOf(s, <<s, v>>, 0, {}) /\ fresh' = fresh \cup {s}
        /\ net' = net
    BY DEF send_lsp
  <1>2. /\ s \in Server /\ net \in Nets /\ announced \in [Server -> Seq(SUBSET Server)]
        /\ Len(announced[s]) \in Nat
    BY LenProperties DEF Announcer, IInv, Typed, NetTyped, ServersTyped
  <1>3. \A x \in Server : ann[x] = IF x = s THEN Append(announced[s], online[s]) ELSE announced[x]
    BY <1>2
  <1>4. /\ ann[s] \in Seq(SUBSET neighbors(s)) /\ Len(ann[s]) = v
        /\ ann[s] \in Seq(SUBSET Server)
    <2>1. announced[s] \in Seq(SUBSET neighbors(s)) /\ online[s] \in SUBSET neighbors(s)
      BY <1>2 DEF IInv, AnnouncedTyped, Typed, ServersTyped
    <2>2. announced[s] \in Seq(SUBSET Server) /\ online[s] \in SUBSET Server
      BY <1>2 DEF IInv, Typed, ServersTyped
    <2> QED BY <1>2, <1>3, <2>1, <2>2, AppendProperties
  <1>5. \A x \in Server : /\ ann[x] \in Seq(SUBSET neighbors(x)) /\ ann[x] \in Seq(SUBSET Server)
                          /\ Len(ann[x]) \in Nat /\ Len(announced[x]) \in Nat
                          /\ Len(announced[x]) <= Len(ann[x])
    <2>1. ASSUME NEW x \in Server
          PROVE  /\ ann[x] \in Seq(SUBSET neighbors(x)) /\ ann[x] \in Seq(SUBSET Server)
                 /\ Len(ann[x]) \in Nat /\ Len(announced[x]) \in Nat
                 /\ Len(announced[x]) <= Len(ann[x])
      <3>1. announced[x] \in Seq(SUBSET neighbors(x)) /\ announced[x] \in Seq(SUBSET Server)
        BY <1>2 DEF IInv, AnnouncedTyped
      <3>2. Len(announced[x]) \in Nat /\ Len(announced[x]) <= Len(announced[x])
        BY <3>1, LenProperties
      <3>3. Len(announced[s]) <= v /\ v \in Nat
        BY <1>2
      <3> HIDE DEF ann, v
      <3>4. CASE x = s
        BY <1>4, <3>2, <3>3, <3>4
      <3>5. CASE x # s
        BY <1>3, <3>1, <3>2, <3>5
      <3> QED BY <3>4, <3>5
    <2> QED BY <2>1
  <1>6. v \in Nat /\ v <= Len(ann[s]) /\ v \in 1..net.versions[s]
    <2>1. net.versions[s] \in Nat
      BY <1>2, NetType
    <2> QED BY <1>1, <1>2, <1>4, <2>1
  <1>7. /\ database' \in [Server -> [Server -> Nat]]
        /\ \A x, y \in Server : database'[x][y] <= Len(ann[y])
        /\ IsTable(routing_table')
    <2> HIDE DEF ann, v
    <2> QED BY <1>1, <1>2, <1>5, <1>6, UpdateStep
  <1>8. copiesOf(s, <<s, v>>, 0, {}) \subseteq Copy
    <2>1. <<s, v>> \in Lsp
      BY <1>2, <1>6, LspType
    <2>2. 0 \in 0..net.hops + 1
      BY <1>2, NetType
    <2>3. ASSUME NEW n \in neighbors(s)
          PROVE  [fid |-> <<s, v>>, hop_count |-> 0, from |-> s, to |-> n] \in Copy
      <3>1. n \in Server
        BY DEF neighbors
      <3> HIDE DEF v
      <3> QED BY <1>2, <2>1, <2>2, <3>1 DEF Copy
    <2> QED BY <2>3 DEF copiesOf
  <1> HIDE DEF ann, v
  <1>9. Typed'
    <2>1. UNCHANGED <<net, live, changes, online, ls_db_size, dbRequests, dbReplies, packet, crashes>>
      BY DEF send_lsp
    <2>2. announced' \in [Server -> Seq(SUBSET Server)] /\ fresh' \subseteq Announcer
      BY <1>1, <1>2, <1>5 DEF ann, IInv, Typed, ServersTyped
    <2>3. ServersTyped'
      BY <2>1, <2>2, NetStays DEF IInv, Typed, ServersTyped
    <2>4. KnowledgeTyped'
      BY <1>7, <2>1, NetStays DEF IInv, Typed, KnowledgeTyped, IsTable
    <2>5. TrafficTyped'
      BY <1>1, <1>8, <2>1, NetStays DEF IInv, Typed, TrafficTyped
    <2> QED BY <2>1, <2>3, <2>4, <2>5, NetKept DEF IInv, Typed
  <1>10. AnnouncedTyped'
    <2>1. ASSUME NEW x \in Server
          PROVE  Len(ann[x]) <= net.versions[x]
      <3>1. CASE x = s
        <4>1. net.versions[s] \in Nat
          BY <1>2, NetType
        <4> QED BY <1>4, <1>6, <3>1, <4>1
      <3>2. CASE x # s
        BY <1>3, <3>2 DEF IInv, AnnouncedTyped
      <3> QED BY <3>1, <3>2
    <2> QED BY <1>1, <1>5, <2>1, NetStays DEF AnnouncedTyped
  <1>11. FloodsTyped'
    BY <1>1, NetStays DEF send_lsp, IInv, FloodsTyped
  <1>12. Issued'
    <2>1. ASSUME NEW c \in copies'
          PROVE  c.fid[2] <= Len(ann[c.fid[1]])
      <3>1. CASE c \in copies
        <4>1. c.fid[1] \in Server /\ c.fid[2] \in Nat /\ c.fid[2] <= Len(announced[c.fid[1]])
          <5>1. c.fid \in Lsp /\ c.fid[2] <= Len(announced[c.fid[1]])
            BY <3>1 DEF IInv, Typed, TrafficTyped, Copy, Issued
          <5>2. c.fid[1] \in Server /\ c.fid[2] \in 1..net.versions[c.fid[1]]
            BY <1>2, <5>1, LspType
          <5>3. net.versions[c.fid[1]] \in Nat
            BY <1>2, <5>2, NetType
          <5> QED BY <5>1, <5>2, <5>3
        <4> QED BY <1>5, <4>1, AtMost
      <3>2. CASE c \in copiesOf(s, <<s, v>>, 0, {})
        <4>1. c.fid = <<s, v>>
          BY <3>2 DEF copiesOf
        <4> QED BY <1>6, <4>1
      <3> QED BY <1>1, <3>1, <3>2
    <2>2. ASSUME NEW r \in dbReplies, NEW x \in r.submessages
          PROVE  x[2] <= Len(ann[x[1]])
      <3>1. x \in Lsp /\ x[2] <= Len(announced[x[1]])
        BY DEF IInv, Typed, TrafficTyped, Issued
      <3>2. x[1] \in Server /\ x[2] \in 1..net.versions[x[1]]
        BY <1>2, <3>1, LspType
      <3>3. x[2] \in Nat
        BY <1>2, <3>2, NetType
      <3> QED BY <1>5, <3>1, <3>2, <3>3, AtMost
    <2>3. dbReplies' = dbReplies
      BY DEF send_lsp
    <2> QED BY <1>1, <1>7, <2>1, <2>2, <2>3 DEF Issued
  <1>13. OneVersion'
    BY DEF send_lsp, IInv, OneVersion
  <1> QED BY <1>9, <1>10, <1>11, <1>12, <1>13 DEF IInv

LEMMA LoopSteps ==
    ASSUME IInv, NEW s \in Announcer, StartLoop(s) \/ Refresh(s) \/ Update(s)
    PROVE  IInv'
  <1>1. send_lsp(s) /\ s \in Server
    BY DEF StartLoop, Refresh, Update, Announcer
  <1>2. running' \subseteq Server
    BY <1>1 DEF StartLoop, Refresh, Update, IInv, Typed, ServersTyped
  <1>3. last' \in [Server -> SUBSET Server] /\ \A x \in Server : last'[x] \subseteq neighbors(x)
    <2>1. last' \in {last, [last EXCEPT ![s] = online[s]]}
      BY DEF StartLoop, Refresh, Update
    <2> QED BY <1>1, <2>1 DEF IInv, Typed, ServersTyped
  <1> QED BY <1>1, <1>2, <1>3, SendStep

(* What a copy of a flood is made of.                                       *)
LEMMA CopyType ==
    ASSUME IInv, NEW c \in copies
    PROVE  /\ c \in Copy /\ c.from \in Server /\ c.to \in Server /\ c.fid \in Lsp
           /\ c.hop_count \in 0..net.hops + 1 /\ net.hops \in Nat
           /\ c.fid[1] \in Server /\ c.fid[2] \in Nat
           /\ c.fid[2] <= Len(announced[c.fid[1]])
  <1>1. net \in Nets /\ c \in Copy
    BY DEF IInv, Typed, NetTyped, TrafficTyped
  <1>2. c.fid \in Lsp /\ c.from \in Server /\ c.to \in Server /\ c.hop_count \in 0..net.hops + 1
    BY <1>1 DEF Copy
  <1>3. c.fid[1] \in Server /\ c.fid[2] \in 1..net.versions[c.fid[1]]
    BY <1>1, <1>2, LspType
  <1>4. net.versions[c.fid[1]] \in Nat /\ net.hops \in Nat
    BY <1>1, <1>3, NetType
  <1>5. c.fid[2] <= Len(announced[c.fid[1]])
    BY DEF IInv, Issued
  <1> QED BY <1>1, <1>2, <1>3, <1>4, <1>5

LEMMA FloodStep ==
    ASSUME IInv, NEW c \in copies, handle_flood(c)
    PROVE  IInv'
  <1>1. /\ UNCHANGED <<net, live, changes, crashes, running, last, announced, fresh, online,
                       dbRequests, dbReplies, packet>>
        /\ handle_tags(c.to, c.from)
    BY DEF handle_flood, links, announces, syncs
  <1>2. ls_db_size' \in [Server -> [Server -> 0..Cardinality(Server)]]
    BY <1>1, CopyType, TagsType
  <1>3. CASE /\ copies' = copies \ {c}
             /\ UNCHANGED <<flood_db, database, routing_table>>
    <2>1. KnowledgeTyped'
      BY <1>1, <1>2, <1>3, NetStays DEF IInv, Typed, KnowledgeTyped, IsTable
    <2> QED BY <1>1, <1>3, <2>1, NetKept, ServersKept, TrafficKept, QuietStep DEF IInv, Typed
  <1>4. CASE /\ flood_db' = [flood_db EXCEPT ![c.to] =
                    [f \in DOMAIN @ \cup {c.fid} |-> IF f = c.fid THEN c.hop_count ELSE @[f]]]
             /\ update(c.to, announced, c.fid[1], c.fid[2])
             /\ copies' = (copies \ {c}) \cup forwards(c.to, c)
    <2>1. \A x \in Server : announced[x] \in Seq(SUBSET neighbors(x)) /\ Len(announced[x]) <= Len(announced[x])
      <3>1. \A x \in Server : announced[x] \in Seq(SUBSET neighbors(x))
        BY DEF IInv, AnnouncedTyped
      <3>2. \A x \in Server : Len(announced[x]) \in Nat
        BY <3>1, LenProperties
      <3> QED BY <3>1, <3>2
    <2>2. /\ database' \in [Server -> [Server -> Nat]]
          /\ \A x, y \in Server : database'[x][y] <= Len(announced[y])
          /\ IsTable(routing_table')
      BY <1>4, <2>1, CopyType, UpdateStep
    <2>3. KnowledgeTyped'
      BY <1>1, <1>2, <2>2, NetStays DEF KnowledgeTyped, IsTable
    <2>4. \A d \in forwards(c.to, c) : d \in Copy /\ d.fid = c.fid
      <3>1. CASE c.hop_count > net.hops
        BY <3>1 DEF forwards
      <3>2. CASE ~(c.hop_count > net.hops)
        <4>1. c.hop_count + 1 \in 0..net.hops + 1
          BY <3>2, CopyType
        <4>2. ASSUME NEW n \in neighbors(c.to)
              PROVE  [fid |-> c.fid, hop_count |-> c.hop_count + 1, from |-> c.to, to |-> n] \in Copy
          <5>1. n \in Server
            BY DEF neighbors
          <5> QED BY <4>1, <5>1, CopyType DEF Copy
        <4> QED BY <3>2, <4>2 DEF forwards, copiesOf
      <3> QED BY <3>1, <3>2
    <2>5. TrafficTyped'
      BY <1>1, <1>4, <2>4, NetStays DEF IInv, Typed, TrafficTyped
    <2>6. AnnouncedTyped' /\ OneVersion'
      BY <1>1, NetStays DEF IInv, AnnouncedTyped, OneVersion
    <2>7. FloodsTyped'
      <3> DEFINE seen == [f \in DOMAIN flood_db[c.to] \cup {c.fid} |->
                              IF f = c.fid THEN c.hop_count ELSE flood_db[c.to][f]]
      <3>1. /\ flood_db = [s \in Server |-> flood_db[s]]
            /\ \A s \in Server : /\ DOMAIN flood_db[s] \subseteq Lsp
                                 /\ flood_db[s] \in [DOMAIN flood_db[s] -> 0..net.hops + 1]
        BY DEF IInv, FloodsTyped
      <3>2. seen \in [DOMAIN seen -> 0..net.hops + 1] /\ DOMAIN seen \subseteq Lsp
        BY <3>1, CopyType
      <3>3. flood_db' = [flood_db EXCEPT ![c.to] = seen]
        BY <1>4
      <3> HIDE DEF seen
      <3>4. /\ flood_db' = [s \in Server |-> flood_db'[s]]
            /\ \A s \in Server : flood_db'[s] = IF s = c.to THEN seen ELSE flood_db[s]
        BY <3>1, <3>3
      <3>5. \A s \in Server : /\ DOMAIN flood_db'[s] \subseteq Lsp
                              /\ flood_db'[s] \in [DOMAIN flood_db'[s] -> 0..net.hops + 1]
        BY <3>1, <3>2, <3>4
      <3> QED BY <1>1, <3>4, <3>5, NetStays DEF FloodsTyped
    <2>8. Issued'
      BY <1>1, <1>4, <2>2, <2>4 DEF IInv, Issued
    <2> QED BY <1>1, <2>3, <2>5, <2>6, <2>7, <2>8, NetKept, ServersKept DEF IInv, Typed
  <1> QED BY <1>3, <1>4 DEF handle_flood, knowledge

LEMMA SendMonotone ==
    ASSUME IInv, NEW s \in Server, send_lsp(s)
    PROVE  \A x, y \in Server : database'[x][y] \in Nat /\ ~(database'[x][y] < database[x][y])
  <1> DEFINE ann == [announced EXCEPT ![s] = Append(@, online[s])]
             v == Len(announced[s]) + 1
  <1>1. update(s, ann, s, v)
    BY DEF send_lsp
  <1>2. \A x, y \in Server : database[x][y] \in Nat
    BY DEF IInv, Typed, KnowledgeTyped
  <1>3. v \in Nat
    <2>1. Len(announced[s]) \in Nat
      BY LenProperties DEF IInv, AnnouncedTyped
    <2> QED BY <2>1
  <1> HIDE DEF ann, v
  <1> QED BY <1>1, <1>2, <1>3, UpdateMonotone

LEMMA FloodMonotone ==
    ASSUME IInv, NEW c \in copies, handle_flood(c)
    PROVE  \A x, y \in Server : database'[x][y] \in Nat /\ ~(database'[x][y] < database[x][y])
  <1>1. CASE update(c.to, announced, c.fid[1], c.fid[2])
    BY <1>1, CopyType, UpdateMonotone
  <1>2. CASE database' = database
    BY <1>2 DEF IInv, Typed, KnowledgeTyped
  <1> QED BY <1>1, <1>2 DEF handle_flood, knowledge

(* Steps that send requests, drop messages or forward them.                 *)
LEMMA TrafficSteps ==
    ASSUME IInv,
           \/ \E c \in copies : FloodTimeout(c)
           \/ \E s \in Server : \E n \in neighbors(s) : request_ls_db(s, n)
           \/ \E r \in dbRequests \cup dbReplies : LoseDbMessage(r)
           \/ \E p \in Packet, r \in net.routes : Send(p, r)
    PROVE  IInv'
  <1>1. /\ UNCHANGED <<net, live, changes, crashes, running, last, announced, fresh, online,
                       database, routing_table, flood_db, ls_db_size>>
        /\ copies' \subseteq copies /\ dbReplies' \subseteq dbReplies
    BY DEF FloodTimeout, request_ls_db, LoseDbMessage, Send, links, announces, knowledge, syncs
  <1>2. TrafficTyped'
    <2>1. ASSUME NEW c \in copies, FloodTimeout(c)
          PROVE  UNCHANGED <<packet, dbRequests, dbReplies>>
      BY <2>1 DEF FloodTimeout, syncs
    <2>2. ASSUME NEW s \in Server, NEW n \in neighbors(s), request_ls_db(s, n)
          PROVE  /\ UNCHANGED packet
                 /\ dbRequests' = dbRequests \cup {[from |-> s, to |-> n]} /\ n \in Server
      BY <2>2 DEF request_ls_db, neighbors
    <2>3. ASSUME NEW r \in dbRequests \cup dbReplies, LoseDbMessage(r)
          PROVE  UNCHANGED packet /\ dbRequests' \subseteq dbRequests
      BY <2>3 DEF LoseDbMessage
    <2>4. ASSUME NEW p \in Packet, NEW r \in net.routes, Send(p, r)
          PROVE  /\ packet' \in [Packet -> [at : Server \cup {Nowhere}, to : Server \cup {Nowhere}]]
                 /\ UNCHANGED dbRequests
      <3>1. r[1] \in Server /\ r[2] \in Server
        BY RouterAssumption DEF IInv, Typed, NetTyped
      <3> QED BY <2>4, <3>1 DEF Send, syncs, IInv, Typed, TrafficTyped
    <2>5. /\ dbRequests' \subseteq [from : Server, to : Server]
          /\ packet' \in [Packet -> [at : Server \cup {Nowhere}, to : Server \cup {Nowhere}]]
      BY <2>1, <2>2, <2>3, <2>4 DEF IInv, Typed, TrafficTyped
    <2> QED BY <1>1, <2>5, NetStays DEF IInv, Typed, TrafficTyped
  <1> QED BY <1>1, <1>2, NetKept, ServersKept, KnowledgeKept, QuietStep DEF IInv, Typed

LEMMA ForwardStep ==
    ASSUME IInv, NEW p \in Packet, Forward(p)
    PROVE  IInv'
  <1>1. /\ UNCHANGED <<net, live, changes, crashes, running, last, announced, fresh, online,
                       database, routing_table, flood_db, copies, dbRequests, dbReplies>>
        /\ packet[p].at # Nowhere
    BY DEF Forward, links, announces, knowledge, syncs
  <1>2. packet[p].at \in Server
    BY <1>1 DEF IInv, Typed, TrafficTyped
  <1>3. PICK n \in neighbors(packet[p].at) :
           packet' = [packet EXCEPT ![p].at = n] /\ handle_tags(n, packet[p].at)
    BY DEF Forward
  <1>4. n \in Server
    BY DEF neighbors
  <1>5. KnowledgeTyped'
    BY <1>1, <1>2, <1>3, <1>4, TagsType, NetStays DEF IInv, Typed, KnowledgeTyped, IsTable
  <1>6. TrafficTyped'
    BY <1>1, <1>3, <1>4, NetStays DEF IInv, Typed, TrafficTyped
  <1> QED BY <1>1, <1>5, <1>6, NetKept, ServersKept, QuietStep DEF IInv, Typed

LEMMA RequestStep ==
    ASSUME IInv, NEW r \in dbRequests, handle_db_request(r)
    PROVE  IInv'
  <1> DEFINE dump == {<<o, database[r.to][o]>> : o \in {o \in Server : database[r.to][o] > 0}}
             reply == [from |-> r.to, to |-> r.from, submessages |-> dump]
  <1>1. /\ UNCHANGED <<net, live, changes, crashes, running, last, announced, fresh, online,
                       database, routing_table, flood_db, copies, ls_db_size, packet>>
        /\ dbRequests' = dbRequests \ {r} /\ dbReplies' = dbReplies \cup {reply}
    BY DEF handle_db_request, links, announces, knowledge
  <1>2. r.from \in Server /\ r.to \in Server /\ net \in Nets
    BY DEF IInv, Typed, NetTyped, TrafficTyped
  <1>3. \A x \in dump : /\ x \in Lsp /\ x[1] \in Server /\ x[2] = database[r.to][x[1]]
                        /\ x = <<x[1], x[2]>> /\ x[2] <= Len(announced[x[1]])
    <2>1. ASSUME NEW o \in Server, database[r.to][o] > 0
          PROVE  <<o, database[r.to][o]>> \in Lsp /\ database[r.to][o] <= Len(announced[o])
      <3>1. /\ database[r.to][o] \in Nat /\ database[r.to][o] <= Len(announced[o])
            /\ Len(announced[o]) <= net.versions[o]
        BY <1>2 DEF IInv, Typed, KnowledgeTyped, Issued, AnnouncedTyped
      <3>2. Len(announced[o]) \in Nat /\ net.versions[o] \in Nat
        BY <1>2, NetType, LenProperties DEF IInv, AnnouncedTyped
      <3>3. database[r.to][o] \in 1..net.versions[o]
        BY <2>1, <3>1, <3>2
      <3> QED BY <1>2, <3>1, <3>3, LspType
    <2> QED BY <2>1
  <1> HIDE DEF dump
  <1>4. TrafficTyped'
    <2>1. reply \in [from : Server, to : Server, submessages : SUBSET Lsp]
      BY <1>2, <1>3
    <2> QED BY <1>1, <2>1, NetStays DEF IInv, Typed, TrafficTyped
  <1>5. AnnouncedTyped' /\ FloodsTyped'
    BY <1>1, NetStays DEF IInv, AnnouncedTyped, FloodsTyped
  <1>6. Issued'
    BY <1>1, <1>3 DEF IInv, Issued
  <1>7. OneVersion'
    <2>1. \A x, y \in dump : x[1] = y[1] => x = y
      <3>1. ASSUME NEW x \in dump, NEW y \in dump, x[1] = y[1]
            PROVE  x = y
        <4>1. x = <<x[1], database[r.to][x[1]]>> /\ y = <<y[1], database[r.to][y[1]]>>
          BY <1>3
        <4> QED BY <3>1, <4>1
      <3> QED BY <3>1
    <2> QED BY <1>1, <2>1 DEF IInv, OneVersion
  <1> QED BY <1>1, <1>4, <1>5, <1>6, <1>7, NetKept, ServersKept, KnowledgeKept DEF IInv, Typed

(* What a server knows after some of the LSPs of a response.                *)
LEMMA KnownType ==
    ASSUME IInv, NEW r \in dbReplies, NEW lsps \in SUBSET r.submessages
    PROVE  LET db == [o \in Server |->
                  Max({database[r.to][o]} \cup {lsp[2] : lsp \in {lsp \in lsps : lsp[1] = o}})]
           IN  /\ r.to \in Server /\ db \in [Server -> Nat]
               /\ \A o \in Server : db[o] <= Len(announced[o]) /\ database[r.to][o] <= db[o]
               /\ edges(db, announced) \in Graph
               /\ \A s, n \in Server : <<s, n>> \in edges(db, announced) => n \in neighbors(s)
  <1> DEFINE db == [o \in Server |->
                  Max({database[r.to][o]} \cup {lsp[2] : lsp \in {lsp \in lsps : lsp[1] = o}})]
  <1>1. r.to \in Server /\ r.submessages \subseteq Lsp /\ net \in Nets
    BY DEF IInv, Typed, NetTyped, TrafficTyped
  <1>2. ASSUME NEW o \in Server
        PROVE  db[o] \in Nat /\ db[o] <= Len(announced[o]) /\ database[r.to][o] <= db[o]
    <2>1. database[r.to][o] \in Nat /\ database[r.to][o] <= Len(announced[o])
      BY <1>1 DEF IInv, Typed, KnowledgeTyped, Issued
    <2>2. Len(announced[o]) \in Nat
      BY LenProperties DEF IInv, AnnouncedTyped
    <2>3. \A x, y \in lsps : x[1] = y[1] => x = y
      BY DEF IInv, OneVersion
    <2>4. ASSUME NEW x \in lsps, x[1] = o
          PROVE  x[2] \in Nat /\ x[2] <= Len(announced[o])
      <3>1. x[2] <= Len(announced[o]) /\ x \in Lsp
        BY <1>1, <2>4 DEF IInv, Issued
      <3>2. x[2] \in 1..net.versions[o] /\ net.versions[o] \in Nat
        BY <1>1, <2>4, <3>1, LspType, NetType
      <3> QED BY <3>1, <3>2
    <2>5. LET newest == Max({database[r.to][o]} \cup {lsp[2] : lsp \in {lsp \in lsps : lsp[1] = o}})
          IN  newest \in Nat /\ newest >= database[r.to][o] /\ newest <= Len(announced[o])
      BY <2>1, <2>2, <2>3, <2>4, NewestOf
    <2>6. db[o] = Max({database[r.to][o]} \cup {lsp[2] : lsp \in {lsp \in lsps : lsp[1] = o}})
      OBVIOUS
    <2> QED BY <2>1, <2>5, <2>6
  <1>3. db \in [Server -> Nat]
    <2>1. db = [o \in Server |-> db[o]]
      OBVIOUS
    <2> QED BY <1>2, <2>1
  <1>4. \A o \in Server : announced[o] \in Seq(SUBSET neighbors(o)) /\ db[o] <= Len(announced[o])
    BY <1>2 DEF IInv, AnnouncedTyped
  <1> HIDE DEF db
  <1>5. /\ edges(db, announced) \in Graph
        /\ \A s, n \in Server : <<s, n>> \in edges(db, announced) => n \in neighbors(s)
    BY <1>1, <1>3, <1>4, GraphType
  <1> QED BY <1>1, <1>2, <1>3, <1>5 DEF db

(* A response replaces what is older, and the table by one of its graphs.   *)
LEMMA ResponseStep ==
    ASSUME IInv, NEW r \in dbReplies, handle_db_response(r)
    PROVE  /\ IInv'
           /\ \A s, o \in Server : database[s][o] <= database'[s][o]
  <1> DEFINE known(lsps) == [o \in Server |->
                 Max({database[r.to][o]} \cup {lsp[2] : lsp \in {lsp \in lsps : lsp[1] = o}})]
  <1>1. /\ UNCHANGED <<net, live, changes, crashes, running, last, announced, fresh, online,
                       flood_db, copies, ls_db_size, dbRequests, packet>>
        /\ dbReplies' = dbReplies \ {r}
        /\ database' = [database EXCEPT ![r.to] = known(r.submessages)]
    BY DEF handle_db_response, links, announces
  <1>2. /\ r.to \in Server /\ database \in [Server -> [Server -> Nat]] /\ IsTable(routing_table)
        /\ \A s, o \in Server : database[s][o] <= Len(announced[o])
    BY DEF IInv, Typed, TrafficTyped, KnowledgeTyped, Issued
  <1>3. /\ known(r.submessages) \in [Server -> Nat]
        /\ \A o \in Server : /\ known(r.submessages)[o] <= Len(announced[o])
                             /\ database[r.to][o] <= known(r.submessages)[o]
    BY KnownType
  <1>4. PICK lsps \in SetToSeqs(r.submessages) :
          LET graph == [k \in DOMAIN lsps |->
                  edges(known({lsps[i] : i \in {i \in DOMAIN lsps : i <= k}}), announced)]
              telling == {k \in DOMAIN lsps : mentions(graph[k], r.to)}
          IN  \/ /\ telling = {}
                 /\ UNCHANGED routing_table
              \/ \E k \in telling :
                   /\ \A j \in telling : j <= k
                   /\ routing_table' =
                        [routing_table EXCEPT ![r.to] = shortest_path[graph[k]][r.to]]
    BY DEF handle_db_response
  <1>5. ASSUME NEW k \in DOMAIN lsps
        PROVE  /\ edges(known({lsps[i] : i \in {i \in DOMAIN lsps : i <= k}}), announced) \in Graph
               /\ \A s, n \in Server :
                    <<s, n>> \in edges(known({lsps[i] : i \in {i \in DOMAIN lsps : i <= k}}), announced)
                      => n \in neighbors(s)
    <2>1. {lsps[i] : i \in {i \in DOMAIN lsps : i <= k}} \in SUBSET r.submessages
      BY DEF SetToSeqs
    <2> QED BY <2>1, KnownType
  <1> HIDE DEF known
  <1>6. IsTable(routing_table')
    <2>1. CASE UNCHANGED routing_table
      BY <1>2, <2>1
    <2>2. ASSUME NEW E \in Graph,
                 \A s, n \in Server : <<s, n>> \in E => n \in neighbors(s),
                 routing_table' = [routing_table EXCEPT ![r.to] = shortest_path[E][r.to]]
          PROVE  IsTable(routing_table')
      <3>1. /\ shortest_path[E][r.to] \in [Server -> SUBSET Server]
            /\ \A t \in Server : shortest_path[E][r.to][t] \subseteq neighbors(r.to)
        BY <1>2, <2>2, PathType
      <3> QED BY <1>2, <2>2, <3>1 DEF IsTable
    <2> QED BY <1>4, <1>5, <2>1, <2>2
  <1>7. /\ database' \in [Server -> [Server -> Nat]]
        /\ \A s \in Server : database'[s] = IF s = r.to THEN known(r.submessages) ELSE database[s]
    BY <1>1, <1>2, <1>3
  <1>8. ASSUME NEW s \in Server, NEW o \in Server
        PROVE  database'[s][o] <= Len(announced[o]) /\ database[s][o] <= database'[s][o]
    <2>1. CASE s = r.to
      BY <1>3, <1>7, <2>1
    <2>2. CASE s # r.to
      <3>1. database'[s][o] = database[s][o] /\ database[s][o] \in Nat
        BY <1>2, <1>7, <2>2
      <3>2. database[s][o] <= database[s][o]
        BY <3>1
      <3> QED BY <1>2, <3>1, <3>2
    <2> QED BY <2>1, <2>2
  <1>9. KnowledgeTyped'
    BY <1>1, <1>6, <1>7, NetStays DEF IInv, Typed, KnowledgeTyped, IsTable
  <1>10. AnnouncedTyped' /\ FloodsTyped' /\ OneVersion'
    BY <1>1, NetStays DEF IInv, AnnouncedTyped, FloodsTyped, OneVersion
  <1>11. Issued'
    BY <1>1, <1>8 DEF IInv, Issued
  <1> QED BY <1>1, <1>8, <1>9, <1>10, <1>11, NetKept, ServersKept, TrafficKept DEF IInv, Typed

LEMMA CrashStep ==
    ASSUME IInv, NEW s \in Server, Crash(s)
    PROVE  /\ IInv' /\ crashes' > crashes
           /\ \A x \in Server : database'[x] = IF x = s THEN NoDatabase ELSE database[x]
  <1>1. /\ UNCHANGED <<net, live, changes, announced>> /\ crashes' = crashes + 1
        /\ running' \subseteq running /\ fresh' = {}
        /\ copies' \subseteq copies /\ dbRequests' \subseteq dbRequests
        /\ dbReplies' \subseteq dbReplies
        /\ online' = [online EXCEPT ![s] = {}] /\ last' = [last EXCEPT ![s] = {}]
        /\ database' = [database EXCEPT ![s] = NoDatabase]
        /\ routing_table' = [routing_table EXCEPT ![s] = NoTable]
        /\ flood_db' = [flood_db EXCEPT ![s] = <<>>]
        /\ ls_db_size' = [ls_db_size EXCEPT ![s] = [n \in Server |-> 0]]
        /\ packet' = [p \in Packet |-> IF packet[p].at = s /\ packet[p].to # s
                                       THEN [packet[p] EXCEPT !.at = Nowhere] ELSE packet[p]]
    BY DEF Crash, links
  <1>2. crashes \in Nat /\ crashes' \in Nat /\ crashes' > crashes
    BY <1>1 DEF IInv, Typed, NetTyped
  <1>3. NetTyped'
    BY <1>1, <1>2 DEF IInv, Typed, NetTyped
  <1>4. ServersTyped'
    <2>1. /\ online' \in [Server -> SUBSET Server] /\ last' \in [Server -> SUBSET Server]
          /\ \A x \in Server : online'[x] \subseteq neighbors(x) /\ last'[x] \subseteq neighbors(x)
      BY <1>1 DEF IInv, Typed, ServersTyped
    <2> QED BY <1>1, <2>1, NetStays DEF IInv, Typed, ServersTyped
  <1>5. /\ database' \in [Server -> [Server -> Nat]]
        /\ \A x \in Server : database'[x] = IF x = s THEN NoDatabase ELSE database[x]
    BY <1>1 DEF IInv, Typed, KnowledgeTyped, NoDatabase
  <1>6. KnowledgeTyped'
    <2>1. IsTable(routing_table')
      BY <1>1 DEF IInv, Typed, KnowledgeTyped, IsTable, NoTable
    <2>2. 0 \in 0..Cardinality(Server)
      BY RouterAssumption, FS_CardinalityType
    <2>3. ls_db_size' \in [Server -> [Server -> 0..Cardinality(Server)]]
      BY <1>1, <2>2 DEF IInv, Typed, KnowledgeTyped
    <2> QED BY <1>1, <1>5, <2>1, <2>3, NetStays DEF KnowledgeTyped, IsTable
  <1>7. TrafficTyped'
    <2>1. packet' \in [Packet -> [at : Server \cup {Nowhere}, to : Server \cup {Nowhere}]]
      BY <1>1 DEF IInv, Typed, TrafficTyped
    <2> QED BY <1>1, <2>1, NetStays DEF IInv, Typed, TrafficTyped
  <1>8. AnnouncedTyped' /\ OneVersion'
    BY <1>1, NetStays DEF IInv, AnnouncedTyped, OneVersion
  <1>9. FloodsTyped'
    <2>1. /\ flood_db = [x \in Server |-> flood_db[x]]
          /\ \A x \in Server : /\ DOMAIN flood_db[x] \subseteq Lsp
                               /\ flood_db[x] \in [DOMAIN flood_db[x] -> 0..net.hops + 1]
      BY DEF IInv, FloodsTyped
    <2>2. DOMAIN <<>> = {} /\ <<>> \in [{} -> 0..net.hops + 1]
      OBVIOUS
    <2>3. /\ flood_db' = [x \in Server |-> flood_db'[x]]
          /\ \A x \in Server : flood_db'[x] = IF x = s THEN <<>> ELSE flood_db[x]
      BY <1>1, <2>1
    <2>4. \A x \in Server : /\ DOMAIN flood_db'[x] \subseteq Lsp
                            /\ flood_db'[x] \in [DOMAIN flood_db'[x] -> 0..net.hops + 1]
      BY <2>1, <2>2, <2>3
    <2> QED BY <1>1, <2>3, <2>4, NetStays DEF FloodsTyped
  <1>10. Issued'
    <2>1. ASSUME NEW x \in Server, NEW o \in Server
          PROVE  database'[x][o] <= Len(announced[o])
      <3>1. Len(announced[o]) \in Nat /\ database[x][o] <= Len(announced[o])
        BY LenProperties DEF IInv, AnnouncedTyped, Issued
      <3>2. CASE x = s
        BY <1>5, <3>1, <3>2 DEF NoDatabase
      <3>3. CASE x # s
        BY <1>5, <3>1, <3>3
      <3> QED BY <3>2, <3>3
    <2> QED BY <1>1, <2>1 DEF IInv, Issued
  <1> QED BY <1>2, <1>3, <1>4, <1>5, <1>6, <1>7, <1>8, <1>9, <1>10 DEF IInv, Typed

-----------------------------------------------------------------------------
(***************************************************************************)
(* Paths: what within and shortest_path say, by induction over lengths.    *)
(***************************************************************************)

(* No shortest path has more edges than this.                               *)
N == Cardinality(Server)

LEMMA ServerCount == N \in Nat
  BY RouterAssumption, FS_CardinalityType DEF N

(* Every set of numbers has a least one.                                    *)
LEMMA Least ==
    ASSUME NEW T, T \subseteq Nat, T # {}
    PROVE  \E x \in T : \A y \in T : x <= y
  <1>1. IsWellFoundedOn({p \in Nat \X Nat : p[1] < p[2]}, Nat)
    BY NatLessThanWellFounded DEF OpToRel
  <1>2. PICK x \in T : \A y \in T : ~(<<y, x>> \in {p \in Nat \X Nat : p[1] < p[2]})
    BY <1>1, WFMin
  <1>3. ASSUME NEW y \in T PROVE x <= y
    <2>1. x \in Nat /\ y \in Nat /\ <<y, x>> \in Nat \X Nat
      OBVIOUS
    <2>2. ~(<<y, x>>[1] < <<y, x>>[2])
      BY <1>2, <2>1
    <2> QED BY <2>1, <2>2
  <1> QED BY <1>3

(* A set of numbers with 0 and all successors has all.                      *)
LEMMA Induction ==
    ASSUME NEW T, 0 \in T, \A n \in Nat : n \in T => n + 1 \in T
    PROVE  Nat \subseteq T
  <1> SUFFICES ASSUME Nat \ T # {} PROVE FALSE
    OBVIOUS
  <1>1. PICK x \in Nat \ T : \A y \in Nat \ T : x <= y
    BY Least
  <1>2. x - 1 \in Nat /\ x - 1 \in T
    BY <1>1
  <1> QED BY <1>1, <1>2

(* What one more edge leads to.                                             *)
onward(E, ball) == UNION {{m} \cup {n \in Server : <<m, n>> \in E} : m \in ball}

IsBall(ball, E, s, i) == ball = [k \in 0..i |-> IF k = 0 THEN {s} ELSE onward(E, ball[k - 1])]

LEMMA BallExists ==
    ASSUME NEW E, NEW s, NEW i \in Nat
    PROVE  \E ball : IsBall(ball, E, s, i)
  <1> DEFINE T == {n \in Nat : \E ball : IsBall(ball, E, s, n)}
  <1>1. 0 \in T
    <2> DEFINE ball == [k \in 0..0 |-> {s}]
    <2>1. IsBall(ball, E, s, 0)
      BY DEF IsBall
    <2> QED BY <2>1
  <1>2. ASSUME NEW n \in Nat, n \in T PROVE n + 1 \in T
    <2>1. PICK ball : IsBall(ball, E, s, n)
      BY <1>2
    <2> DEFINE more == [k \in 0..n + 1 |-> IF k = n + 1 THEN onward(E, ball[n]) ELSE ball[k]]
    <2>2. \A k \in 0..n + 1 : more[k] = IF k = 0 THEN {s} ELSE onward(E, more[k - 1])
      <3> SUFFICES ASSUME NEW k \in 0..n + 1
                   PROVE more[k] = IF k = 0 THEN {s} ELSE onward(E, more[k - 1])
        OBVIOUS
      <3>1. CASE k = n + 1
        <4>1. n \in 0..n + 1 /\ n # n + 1 /\ k - 1 = n /\ k # 0
          BY <3>1
        <4>2. more[k - 1] = ball[n]
          BY <4>1
        <4> QED BY <3>1, <4>1, <4>2
      <3>2. CASE k # n + 1
        <4>1. k \in 0..n /\ (k # 0 => k - 1 \in 0..n + 1 /\ k - 1 # n + 1)
          BY <3>2
        <4>2. ball[k] = IF k = 0 THEN {s} ELSE onward(E, ball[k - 1])
          BY <2>1, <4>1 DEF IsBall
        <4> QED BY <3>2, <4>1, <4>2
      <3> QED BY <3>1, <3>2
    <2> HIDE DEF more
    <2>3. DOMAIN more = 0..n + 1 /\ more = [k \in 0..n + 1 |-> more[k]]
      BY DEF more
    <2>4. IsBall(more, E, s, n + 1)
      BY <2>2, <2>3 DEF IsBall
    <2> QED BY <2>4
  <1> QED BY <1>1, <1>2, Induction

(* within is what its definition says.                                      *)
LEMMA WithinDef ==
    ASSUME NEW E \in Graph, NEW s \in Server
    PROVE  /\ within[E][s][0] = {s}
           /\ \A k \in 0..N : k # 0 => within[E][s][k] = onward(E, within[E][s][k - 1])
  <1> DEFINE ball == CHOOSE ball : IsBall(ball, E, s, N)
  <1>1. within[E][s] = [k \in 0..N |-> ball[k]]
    BY DEF within, IsBall, onward, N
  <1>2. IsBall(ball, E, s, N)
    BY BallExists, ServerCount
  <1> HIDE DEF ball
  <1>3. \A k \in 0..N : k # 0 => k - 1 \in 0..N
    BY ServerCount
  <1>4. 0 \in 0..N
    BY ServerCount
  <1> QED BY <1>1, <1>2, <1>3, <1>4 DEF IsBall

LEMMA OnwardIs ==
    ASSUME NEW E, NEW B, NEW u
    PROVE  u \in onward(E, B) <=> \E m \in B : u = m \/ (u \in Server /\ <<m, u>> \in E)
  BY SMTT(30) DEF onward

(* A path of more edges leads further, one of none stays.                   *)
LEMMA WithinGrows ==
    ASSUME NEW E \in Graph, NEW s \in Server
    PROVE  /\ \A k \in 0..N : within[E][s][k] \subseteq Server /\ s \in within[E][s][k]
           /\ \A k \in 0..N : \A i \in 0..k : within[E][s][i] \subseteq within[E][s][k]
  <1> DEFINE W == within[E][s]
             T == {k \in Nat : k <= N => /\ W[k] \subseteq Server /\ s \in W[k]
                                        /\ \A i \in 0..k : W[i] \subseteq W[k]}
  <1>1. 0 \in T
    BY WithinDef
  <1>2. ASSUME NEW k \in Nat, k \in T PROVE k + 1 \in T
    <2> SUFFICES ASSUME k + 1 <= N
                 PROVE  /\ W[k + 1] \subseteq Server /\ s \in W[k + 1]
                        /\ \A i \in 0..k + 1 : W[i] \subseteq W[k + 1]
      OBVIOUS
    <2>1. k <= N /\ k + 1 \in 0..N /\ k + 1 # 0 /\ (k + 1) - 1 = k
      BY ServerCount
    <2>2. W[k + 1] = onward(E, W[k])
      BY <2>1, WithinDef
    <2>3. W[k] \subseteq Server /\ s \in W[k] /\ \A i \in 0..k : W[i] \subseteq W[k]
      BY <1>2, <2>1
    <2> HIDE DEF W
    <2>4. W[k] \subseteq W[k + 1] /\ W[k + 1] \subseteq Server
      <3>1. \A u \in W[k] : u \in onward(E, W[k])
        BY OnwardIs
      <3>2. ASSUME NEW u \in onward(E, W[k]) PROVE u \in Server
        <4>1. PICK m \in W[k] : u = m \/ (u \in Server /\ <<m, u>> \in E)
          BY OnwardIs
        <4> QED BY <2>3, <4>1
      <3> QED BY <2>2, <3>1, <3>2
    <2>5. \A i \in 0..k + 1 : i \in 0..k \/ i = k + 1
      OBVIOUS
    <2> QED BY <2>3, <2>4, <2>5
  <1>3. Nat \subseteq T
    <2> HIDE DEF T
    <2> QED BY <1>1, <1>2, Induction
  <1> QED BY <1>3, ServerCount

(* A path starts with an edge.                                              *)
LEMMA FirstEdge ==
    ASSUME NEW E \in Graph, NEW s \in Server, NEW k \in Nat, k + 1 <= N,
           NEW t \in within[E][s][k + 1], t # s
    PROVE  \E n \in Server : <<s, n>> \in E /\ t \in within[E][n][k]
  <1> DEFINE W == within[E]
             T == {i \in Nat : i + 1 <= N => \A u \in W[s][i + 1] : u # s =>
                       \E n \in Server : <<s, n>> \in E /\ u \in W[n][i]}
  <1>0. \A u \in Server : \A i \in Nat : i + 1 <= N =>
            W[u][i + 1] = onward(E, W[u][i]) /\ u \in W[u][i] /\ W[u][i] \subseteq Server
    <2> SUFFICES ASSUME NEW u \in Server, NEW i \in Nat, i + 1 <= N
                 PROVE  W[u][i + 1] = onward(E, W[u][i]) /\ u \in W[u][i] /\ W[u][i] \subseteq Server
      OBVIOUS
    <2>1. i \in 0..N /\ i + 1 \in 0..N /\ i + 1 # 0 /\ (i + 1) - 1 = i
      BY ServerCount
    <2> QED BY <2>1, WithinDef, WithinGrows
  <1>1. 0 \in T
    <2> SUFFICES ASSUME 0 + 1 <= N, NEW u \in W[s][0 + 1], u # s
                 PROVE  \E n \in Server : <<s, n>> \in E /\ u \in W[n][0]
      OBVIOUS
    <2>1. W[s][0] = {s} /\ W[s][0 + 1] = onward(E, W[s][0])
      BY <1>0, WithinDef
    <2>2. u \in Server /\ <<s, u>> \in E
      BY <2>1, OnwardIs
    <2> QED BY <2>2, WithinDef
  <1>2. ASSUME NEW i \in Nat, i \in T PROVE i + 1 \in T
    <2> SUFFICES ASSUME (i + 1) + 1 <= N, NEW u \in W[s][(i + 1) + 1], u # s
                 PROVE  \E n \in Server : <<s, n>> \in E /\ u \in W[n][i + 1]
      OBVIOUS
    <2>1. i + 1 <= N /\ i + 1 \in Nat
      BY ServerCount
    <2>2. PICK m \in W[s][i + 1] : u = m \/ (u \in Server /\ <<m, u>> \in E)
      BY <1>0, <2>1, OnwardIs
    <2>3. m \in Server
      BY <1>0, <2>1
    <2>4. CASE m = s
      <3>1. u \in Server /\ <<s, u>> \in E /\ u \in W[u][i + 1]
        BY <1>0, <2>1, <2>2, <2>4
      <3> QED BY <3>1
    <2>5. CASE m # s
      <3>1. PICK n \in Server : <<s, n>> \in E /\ m \in W[n][i]
        BY <1>2, <2>1, <2>5
      <3>2. u \in W[n][i + 1]
        <4>1. W[n][i + 1] = onward(E, W[n][i])
          BY <1>0, <2>1
        <4>2. u \in onward(E, W[n][i])
          <5> HIDE DEF W
          <5> QED BY <2>2, <3>1, OnwardIs
        <4> QED BY <4>1, <4>2
      <3> QED BY <3>1, <3>2
    <2> QED BY <2>4, <2>5
  <1>3. Nat \subseteq T
    <2> HIDE DEF T
    <2> QED BY <1>1, <1>2, Induction
  <1> QED BY <1>3

(* A first hop is nearer: it reaches t whenever its predecessor does, and   *)
(* within a number of edges for which the predecessor does not.             *)
Nearer(E, s, t, n) == \E k \in 0..N : t \in within[E][n][k] /\ t \notin within[E][s][k]

LEMMA HopIs ==
    ASSUME NEW E \in Graph, NEW s \in Server, NEW t \in Server, NEW n \in shortest_path[E][s][t]
    PROVE  n \in Server /\ <<s, n>> \in E /\ Nearer(E, s, t, n)
  BY DEF shortest_path, N, Nearer

LEMMA HopIsNearer ==
    ASSUME NEW E \in Graph, NEW s \in Server, NEW t \in Server, NEW n \in shortest_path[E][s][t]
    PROVE  /\ n \in Server /\ <<s, n>> \in E
           /\ \A k \in 0..N : t \in within[E][s][k] => t \in within[E][n][k]
  <1>1. n \in Server /\ <<s, n>> \in E /\ Nearer(E, s, t, n)
    BY HopIs
  <1>2. PICK i \in 0..N : t \in within[E][n][i] /\ t \notin within[E][s][i]
    BY <1>1 DEF Nearer
  <1>3. ASSUME NEW k \in 0..N, t \in within[E][s][k] PROVE t \in within[E][n][k]
    <2>1. k \notin 0..i
      BY <1>2, <1>3, WithinGrows
    <2>2. i \in 0..k
      BY <2>1, ServerCount
    <2> QED BY <1>1, <1>2, <2>2, WithinGrows
  <1> QED BY <1>1, <1>3

(* A server that reaches t has a first hop for it.                          *)
LEMMA HopExists ==
    ASSUME NEW E \in Graph, NEW m \in Server, NEW t \in Server, m # t,
           NEW k \in 0..N, t \in within[E][m][k]
    PROVE  shortest_path[E][m][t] # {}
  <1> DEFINE T == {i \in 0..N : t \in within[E][m][i]}
  <1>0. T \subseteq Nat /\ T # {}
    BY ServerCount
  <1>1. PICK i \in T : \A j \in T : i <= j
    <2> HIDE DEF T
    <2> QED BY <1>0, Least
  <1>2. i # 0
    BY <1>1, WithinDef
  <1>3. i - 1 \in 0..N /\ i - 1 \in Nat /\ (i - 1) + 1 = i /\ i <= N /\ ~(i <= i - 1)
    BY <1>1, <1>2, ServerCount
  <1>4. t \notin within[E][m][i - 1]
    BY <1>1, <1>3
  <1>5. PICK n \in Server : <<m, n>> \in E /\ t \in within[E][n][i - 1]
    BY <1>1, <1>3, FirstEdge
  <1> QED BY <1>3, <1>4, <1>5 DEF shortest_path, N

(* Where the first hops of F for t are those of the graph E, every server   *)
(* they lead to is one that E mentions, and as near to t.                   *)
Follows(F, E, t) ==
    \A u, n \in Server : mentions(E, u) /\ <<u, n>> \in F => n \in shortest_path[E][u][t]

LEMMA HopsLeadNearer ==
    ASSUME NEW E \in Graph, NEW F \in Graph, NEW t \in Server, Follows(F, E, t),
           NEW s \in Server, mentions(E, s), NEW m \in reach(F, s)
    PROVE  /\ m \in Server /\ mentions(E, m)
           /\ \A k \in 0..N : t \in within[E][s][k] => t \in within[E][m][k]
  <1> DEFINE Near(u) == /\ u \in Server /\ mentions(E, u)
                        /\ \A k \in 0..N : t \in within[E][s][k] => t \in within[E][u][k]
             T == {i \in Nat : i <= N => \A u \in within[F][s][i] : Near(u)}
  <1>1. 0 \in T
    BY WithinDef
  <1>2. ASSUME NEW i \in Nat, i \in T PROVE i + 1 \in T
    <2> SUFFICES ASSUME i + 1 <= N, NEW u \in within[F][s][i + 1] PROVE Near(u)
      OBVIOUS
    <2>1. i <= N /\ i + 1 \in 0..N /\ i + 1 # 0 /\ (i + 1) - 1 = i
      BY ServerCount
    <2>2. PICK v \in within[F][s][i] : u = v \/ (u \in Server /\ <<v, u>> \in F)
      BY <2>1, WithinDef, OnwardIs
    <2>3. Near(v)
      BY <1>2, <2>1
    <2>4. CASE u = v
      BY <2>3, <2>4
    <2>5. CASE u \in Server /\ <<v, u>> \in F
      <3>1. u \in shortest_path[E][v][t]
        BY <2>3, <2>5 DEF Follows
      <3>2. <<v, u>> \in E /\ \A k \in 0..N : t \in within[E][v][k] => t \in within[E][u][k]
        BY <2>3, <3>1, HopIsNearer
      <3>3. mentions(E, u)
        <4>1. u \in {<<v, u>>[1], <<v, u>>[2]}
          OBVIOUS
        <4> QED BY <3>2, <4>1 DEF mentions
      <3> QED BY <2>3, <2>5, <3>2, <3>3
    <2> QED BY <2>2, <2>4, <2>5
  <1>3. Nat \subseteq T
    <2> HIDE DEF T
    <2> QED BY <1>1, <1>2, Induction
  <1>4. \A u \in within[F][s][N] : Near(u)
    BY <1>3, ServerCount
  <1> QED BY <1>4 DEF reach, N

(* Such first hops have no loop and no dead end.                            *)
LEMMA NoLoopNoEnd ==
    ASSUME NEW E \in Graph, NEW F \in Graph, NEW t \in Server, Follows(F, E, t),
           NEW s \in Server, mentions(E, s), NEW m \in reach(F, s)
    PROVE  /\ m \in Server /\ mentions(E, m)
           /\ \A n \in shortest_path[E][m][t] : m \notin reach(F, n)
           /\ (\A n \in Server : <<s, n>> \in F => n \in shortest_path[E][s][t])
           /\ m # t /\ m # s => shortest_path[E][m][t] # {}
  <1>1. m \in Server /\ mentions(E, m)
    BY HopsLeadNearer
  <1>2. ASSUME NEW n \in shortest_path[E][m][t], m \in reach(F, n) PROVE FALSE
    <2>1. n \in Server /\ <<m, n>> \in E
      BY <1>1, <1>2, HopIsNearer
    <2>0. Nearer(E, m, t, n)
      BY <1>1, <1>2, HopIs
    <2>2. PICK k \in 0..N : t \in within[E][n][k] /\ t \notin within[E][m][k]
      BY <2>0 DEF Nearer
    <2>3. mentions(E, n)
      <3>1. n \in {<<m, n>>[1], <<m, n>>[2]}
        OBVIOUS
      <3> QED BY <2>1, <3>1 DEF mentions
    <2> QED BY <1>2, <2>1, <2>2, <2>3, HopsLeadNearer
  <1>3. \A n \in Server : <<s, n>> \in F => n \in shortest_path[E][s][t]
    BY DEF Follows
  <1>4. ASSUME m # t, m # s PROVE shortest_path[E][m][t] # {}
    <2>1. N # 0
      BY <1>4, WithinDef DEF reach, N
    <2>2. N - 1 \in Nat /\ (N - 1) + 1 <= N /\ (N - 1) + 1 = N /\ N - 1 \in 0..N /\ N \in 0..N
          /\ N - 1 \in 0..N
      BY <2>1, ServerCount
    <2>3. PICK n \in Server : <<s, n>> \in F /\ m \in within[F][n][N - 1]
      BY <1>4, <2>2, FirstEdge DEF reach, N
    <2>4. m \in reach(F, n)
      BY <2>2, <2>3, WithinGrows DEF reach, N
    <2>5. n \in shortest_path[E][s][t]
      BY <1>3, <2>3
    <2>0. Nearer(E, s, t, n)
      BY <2>5, HopIs
    <2>6. PICK k \in 0..N : t \in within[E][n][k]
      BY <2>0 DEF Nearer
    <2>7. <<s, n>> \in E /\ n \in {<<s, n>>[1], <<s, n>>[2]}
      BY <2>5, HopIsNearer
    <2>8. mentions(E, n)
      BY <2>7 DEF mentions
    <2>9. t \in within[E][m][k]
      BY <2>4, <2>6, <2>8, <2>3, HopsLeadNearer
    <2> QED BY <1>1, <1>4, <2>9, HopExists
  <1> QED BY <1>1, <1>2, <1>3, <1>4

-----------------------------------------------------------------------------
(***************************************************************************)
(* The theorems.                                                           *)
(***************************************************************************)

LEMMA Servers ==
    ASSUME IInv
    PROVE  Announcer \subseteq Server /\ Member \subseteq Server
  BY RouterAssumption DEF Announcer, Member, IInv, Typed, NetTyped

LEMMA InvStep == IInv /\ [Next]_vars => IInv'
  <1> SUFFICES ASSUME IInv, [Next]_vars PROVE IInv'
    OBVIOUS
  <1>1. CASE UNCHANGED vars
    <2>1. UNCHANGED <<net, live, changes, crashes, running, last, announced, fresh, online, database,
                      routing_table, flood_db, copies, ls_db_size, dbRequests, dbReplies, packet>>
      BY <1>1 DEF vars, links, announces, knowledge, syncs
    <2> QED BY <2>1, NetKept, ServersKept, KnowledgeKept, TrafficKept, QuietStep DEF IInv, Typed
  <1>2. CASE Next
    BY <1>2, Servers, ChangeStep, NoticeStep, LoopSteps, FloodStep, TrafficSteps, ForwardStep,
       RequestStep, ResponseStep, CrashStep DEF Next
  <1> QED BY <1>1, <1>2

(* The named parts hold together in every state of the network.             *)
THEOREM Invariant == Spec => []IInv
  BY InvInit, InvStep, PTL DEF Spec

(* In every network the state of the servers is well typed: no server holds *)
(* or passes on an LSP that nobody announced, and every first hop is a      *)
(* neighbour.                                                               *)
THEOREM TypeCorrect == Spec => []TypeOK
  <1>1. ASSUME IInv PROVE TypeOK
    <2>1. Typed /\ net \in Nets
      BY <1>1 DEF IInv, Typed, NetTyped
    <2>2. ASSUME NEW s \in Server, NEW o \in Server
          PROVE  database[s][o] \in 0..net.versions[o]
      <3>1. /\ database[s][o] \in Nat /\ database[s][o] <= Len(announced[o])
            /\ Len(announced[o]) <= net.versions[o]
        BY <1>1 DEF IInv, Typed, KnowledgeTyped, Issued, AnnouncedTyped
      <3>2. Len(announced[o]) \in Nat /\ net.versions[o] \in Nat
        BY <1>1, <2>1, NetType, LenProperties DEF IInv, AnnouncedTyped
      <3> QED BY <3>1, <3>2
    <2>3. ASSUME NEW s \in Server
          PROVE  /\ online[s] \subseteq neighbors(s) /\ last[s] \subseteq neighbors(s)
                 /\ announced[s] \in Seq(SUBSET neighbors(s))
                 /\ Len(announced[s]) <= net.versions[s]
                 /\ ls_db_size[s] \in [Server -> 0..Cardinality(Server)]
                 /\ flood_db[s] \in [DOMAIN flood_db[s] -> 0..net.hops + 1]
                 /\ DOMAIN flood_db[s] \subseteq Lsp
      BY <1>1 DEF IInv, Typed, ServersTyped, KnowledgeTyped, AnnouncedTyped, FloodsTyped
    <2>4. ASSUME NEW s \in Server
          PROVE  routing_table[s] \in [Server -> SUBSET neighbors(s)]
      BY <2>1 DEF Typed, KnowledgeTyped, IsTable
    <2>5. live \subseteq net.edges /\ fresh \subseteq Announcer
      BY <2>1 DEF Typed, NetTyped, ServersTyped
    <2>6. /\ copies \subseteq [fid : Lsp, hop_count : 0..net.hops + 1, from : Server, to : Server]
          /\ dbRequests \subseteq [from : Server, to : Server]
          /\ dbReplies \subseteq [from : Server, to : Server, submessages : SUBSET Lsp]
          /\ packet \in [Packet -> [at : Server \cup {Nowhere}, to : Server \cup {Nowhere}]]
      BY <2>1 DEF Typed, TrafficTyped, Copy
    <2> QED BY <2>2, <2>3, <2>4, <2>5, <2>6 DEF TypeOK
  <1> QED BY <1>1, Invariant, PTL

(* In every network, whatever ways floods and responses take: what a server *)
(* has of another is replaced by something newer only, and lost only with   *)
(* all the rest in a restart.                                               *)
THEOREM OnlyNewerReplaces == Spec => NewestKept
  <1>1. ASSUME IInv, [Next]_vars, NEW s \in Server, NEW o \in Server,
               database'[s][o] < database[s][o]
        PROVE  database'[s] = NoDatabase /\ crashes' > crashes
    <2>1. database[s][o] \in Nat /\ ~(database[s][o] < database[s][o])
      BY <1>1 DEF IInv, Typed, KnowledgeTyped
    <2>2. database' # database
      BY <1>1, <2>1
    <2>3. ASSUME NEW x \in Announcer, StartLoop(x) \/ Refresh(x) \/ Update(x)
          PROVE  FALSE
      <3>1. send_lsp(x) /\ x \in Server
        BY <2>3 DEF StartLoop, Refresh, Update, Announcer
      <3> QED BY <1>1, <2>1, <3>1, SendMonotone
    <2>4. ASSUME NEW c \in copies, handle_flood(c)
          PROVE  FALSE
      BY <1>1, <2>1, <2>4, FloodMonotone
    <2>5. ASSUME NEW r \in dbReplies, handle_db_response(r)
          PROVE  FALSE
      <3>1. database[s][o] <= database'[s][o] /\ database'[s][o] \in Nat
        BY <1>1, <2>5, ResponseStep DEF IInv, Typed, KnowledgeTyped
      <3> QED BY <1>1, <2>1, <3>1
    <2>6. PICK x \in Server : Crash(x)
      <3>1. ASSUME NEW e \in net.edges PROVE ~ChangeLink(e)
        BY <2>2 DEF ChangeLink, knowledge
      <3>2. ASSUME NEW x \in Server, NEW n \in neighbors(x)
            PROVE  ~NoticeNeighbor(x, n) /\ ~request_ls_db(x, n)
        BY <2>2 DEF NoticeNeighbor, request_ls_db, knowledge
      <3>3. ASSUME NEW c PROVE ~FloodTimeout(c)
        BY <2>2 DEF FloodTimeout, knowledge
      <3>4. ASSUME NEW r PROVE ~handle_db_request(r) /\ ~LoseDbMessage(r)
        BY <2>2 DEF handle_db_request, LoseDbMessage, knowledge
      <3>5. ASSUME NEW p PROVE ~Forward(p) /\ \A r : ~Send(p, r)
        BY <2>2 DEF Forward, Send, knowledge
      <3>6. vars' # vars
        BY <2>2 DEF vars, knowledge
      <3> QED BY <1>1, <2>3, <2>4, <2>5, <3>1, <3>2, <3>3, <3>4, <3>5, <3>6, Servers DEF Next
    <2>7. s = x
      BY <1>1, <2>1, <2>6, CrashStep
    <2> QED BY <1>1, <2>6, <2>7, CrashStep
  <1>2. IInv /\ [Next]_vars => [\A s, o \in Server : database'[s][o] < database[s][o]
                                   => database'[s] = NoDatabase /\ crashes' > crashes]_vars
    BY <1>1
  <1> QED BY <1>2, Invariant, PTL DEF Spec, NewestKept

-----------------------------------------------------------------------------
(***************************************************************************)
(* Tables and databases.                                                   *)
(***************************************************************************)

(* The table of a server that its own graph mentions is the one of that     *)
(* graph.                                                                   *)
TableUpToDate ==
    \A s \in Server :
        mentions(edges(database[s], announced), s)
            => routing_table[s] = shortest_path[edges(database[s], announced)][s]

(* New LSPs change no graph of those there were.                            *)
LEMMA EdgesStay ==
    ASSUME IInv, NEW ann, NEW s \in Server,
           \A o \in Server : \A v \in 1..Len(announced[o]) : ann[o][v] = announced[o][v]
    PROVE  edges(database[s], ann) = edges(database[s], announced)
  <1>1. ASSUME NEW o \in Server, database[s][o] > 0
        PROVE  ann[o][database[s][o]] = announced[o][database[s][o]]
    <2>1. database[s][o] \in Nat /\ database[s][o] <= Len(announced[o])
      BY DEF IInv, Typed, KnowledgeTyped, Issued
    <2>2. Len(announced[o]) \in Nat
      BY LenProperties DEF IInv, AnnouncedTyped
    <2>3. database[s][o] \in 1..Len(announced[o])
      BY <1>1, <2>1, <2>2
    <2> QED BY <2>3
  <1> QED BY <1>1 DEF edges

LEMMA TableKept ==
    ASSUME TableUpToDate, UNCHANGED <<database, routing_table, announced>>
    PROVE  TableUpToDate'
  BY DEF TableUpToDate

LEMMA TableUpdated ==
    ASSUME IInv, TableUpToDate, NEW s \in Server, NEW ann, NEW o \in Server, NEW v,
           \A x \in Server : \A i \in 1..Len(announced[x]) : ann[x][i] = announced[x][i],
           update(s, ann, o, v), announced' = ann
    PROVE  TableUpToDate'
  <1>1. database \in [Server -> [Server -> Nat]] /\ routing_table \in [Server -> [Server -> SUBSET Server]]
    BY DEF IInv, Typed, KnowledgeTyped, IsTable
  <1> SUFFICES ASSUME NEW x \in Server, mentions(edges(database'[x], ann), x)
               PROVE  routing_table'[x] = shortest_path[edges(database'[x], ann)][x]
    BY DEF TableUpToDate
  <1>2. edges(database[x], ann) = edges(database[x], announced)
    BY EdgesStay
  <1>3. CASE database'[x] = database[x] /\ routing_table'[x] = routing_table[x]
    BY <1>2, <1>3 DEF TableUpToDate
  <1>4. CASE newer(s, o, v) /\ x = s
    <2> DEFINE db == [database[s] EXCEPT ![o] = v]
    <2>1. /\ database' = [database EXCEPT ![s] = db]
          /\ routing_table' =
               [routing_table EXCEPT ![s] = _update_routing_table(s, edges(db, ann), @)]
      BY <1>4 DEF update
    <2> HIDE DEF db
    <2>2. database'[s] = db
      BY <1>1, <2>1
    <2>3. routing_table'[s] = _update_routing_table(s, edges(db, ann), routing_table[s])
      BY <1>1, <2>1
    <2> QED BY <1>4, <2>2, <2>3 DEF _update_routing_table
  <1>5. CASE newer(s, o, v) /\ x # s
    <2>1. database'[x] = database[x] /\ routing_table'[x] = routing_table[x]
      BY <1>1, <1>5 DEF update
    <2> QED BY <1>3, <2>1
  <1>6. CASE ~newer(s, o, v)
    BY <1>3, <1>6 DEF update, knowledge
  <1> QED BY <1>4, <1>5, <1>6

LEMMA TableSent ==
    ASSUME IInv, TableUpToDate, NEW s \in Announcer, send_lsp(s)
    PROVE  TableUpToDate'
  <1> DEFINE ann == [announced EXCEPT ![s] = Append(@, online[s])]
  <1>1. announced' = ann /\ update(s, ann, s, Len(announced[s]) + 1)
    BY DEF send_lsp
  <1>2. s \in Server /\ announced \in [Server -> Seq(SUBSET Server)] /\ online[s] \in SUBSET Server
    BY DEF Announcer, IInv, Typed, ServersTyped
  <1>3. ASSUME NEW x \in Server, NEW i \in 1..Len(announced[x])
        PROVE  ann[x][i] = announced[x][i]
    <2>1. CASE x = s
      <3>1. ann[s] = Append(announced[s], online[s])
        BY <1>2
      <3>2. Append(announced[s], online[s])[i] = announced[s][i]
        BY <1>2, <2>1, AppendProperties
      <3> QED BY <2>1, <3>1, <3>2
    <2>2. CASE x # s
      BY <1>2, <2>2
    <2> QED BY <2>1, <2>2
  <1> HIDE DEF ann
  <1> QED BY <1>1, <1>2, <1>3, TableUpdated

LEMMA TableFlooded ==
    ASSUME IInv, TableUpToDate, NEW c \in copies, handle_flood(c)
    PROVE  TableUpToDate'
  <1>1. announced' = announced
    BY DEF handle_flood, announces
  <1>2. c.to \in Server /\ c.fid[1] \in Server
    <2>1. c \in Copy /\ net \in Nets
      BY DEF IInv, Typed, NetTyped, TrafficTyped
    <2> QED BY <2>1, LspType DEF Copy
  <1>3. CASE UNCHANGED knowledge
    BY <1>1, <1>3, TableKept DEF knowledge
  <1>4. CASE update(c.to, announced, c.fid[1], c.fid[2])
    BY <1>1, <1>2, <1>4, TableUpdated
  <1> QED BY <1>3, <1>4 DEF handle_flood

(* An order of the LSPs of a response has them all.                         *)
LEMMA OrderHasAll ==
    ASSUME NEW S, IsFiniteSet(S), NEW lsps \in SetToSeqs(S)
    PROVE  /\ Cardinality(S) \in Nat /\ DOMAIN lsps = 1..Cardinality(S)
           /\ {lsps[i] : i \in {i \in DOMAIN lsps : i <= Cardinality(S)}} = S
  <1> DEFINE n == Cardinality(S)
  <1>1. n \in Nat /\ IsFiniteSet(1..n) /\ Cardinality(1..n) = n
    <2>1. n \in Nat
      BY FS_CardinalityType
    <2> QED BY <2>1, FS_Interval
  <1>2. lsps \in [1..n -> S] /\ \A i, j \in 1..n : i # j => lsps[i] # lsps[j]
    BY DEF SetToSeqs
  <1>3. lsps \in Injection(1..n, S)
    BY <1>2 DEF Injection, IsInjective
  <1>4. lsps \in Surjection(1..n, S)
    BY <1>1, <1>3, FS_Injection
  <1>5. \A x \in S : \E i \in 1..n : lsps[i] = x
    BY <1>4 DEF Surjection
  <1>6. {i \in DOMAIN lsps : i <= n} = 1..n
    BY <1>1, <1>2
  <1> QED BY <1>1, <1>2, <1>5, <1>6

LEMMA LspFinite ==
    ASSUME net \in Nets, NEW S \in SUBSET Lsp
    PROVE  IsFiniteSet(S)
  <1> DEFINE lspOf(s) == {s} \X (1..net.versions[s])
             All == {lspOf(s) : s \in Server}
  <1>1. \A s \in Server : IsFiniteSet(lspOf(s))
    <2> SUFFICES ASSUME NEW s \in Server PROVE IsFiniteSet(lspOf(s))
      OBVIOUS
    <2>1. net.versions[s] \in Nat
      BY NetType
    <2>2. IsFiniteSet(1..net.versions[s])
      BY <2>1, FS_Interval
    <2>3. IsFiniteSet({s})
      BY FS_Singleton
    <2> QED BY <2>2, <2>3, FS_Product
  <1>2. IsFiniteSet(All)
    <2>1. [s \in Server |-> lspOf(s)] \in Surjection(Server, All)
      BY DEF Surjection
    <2> QED BY <2>1, RouterAssumption, FS_Surjection
  <1>3. IsFiniteSet(UNION All)
    <2>1. \A T \in All : IsFiniteSet(T)
      BY <1>1
    <2> HIDE DEF All
    <2> QED BY <1>2, <2>1, FS_UNION
  <1> QED BY <1>3, FS_Subset DEF Lsp

LEMMA TableAnswered ==
    ASSUME IInv, TableUpToDate, NEW r \in dbReplies, handle_db_response(r)
    PROVE  TableUpToDate'
  <1> DEFINE known(lsps) == [o \in Server |->
                 Max({database[r.to][o]} \cup {lsp[2] : lsp \in {lsp \in lsps : lsp[1] = o}})]
             n == Cardinality(r.submessages)
  <1>1. announced' = announced /\ database' = [database EXCEPT ![r.to] = known(r.submessages)]
    BY DEF handle_db_response, announces
  <1>2. /\ r.to \in Server /\ r.submessages \in SUBSET Lsp /\ net \in Nets
        /\ database \in [Server -> [Server -> Nat]]
        /\ routing_table \in [Server -> [Server -> SUBSET Server]]
    BY DEF IInv, Typed, NetTyped, TrafficTyped, KnowledgeTyped, IsTable
  <1>3. PICK lsps \in SetToSeqs(r.submessages) :
          LET graph == [k \in DOMAIN lsps |->
                  edges(known({lsps[i] : i \in {i \in DOMAIN lsps : i <= k}}), announced)]
              telling == {k \in DOMAIN lsps : mentions(graph[k], r.to)}
          IN  \/ /\ telling = {}
                 /\ UNCHANGED routing_table
              \/ \E k \in telling :
                   /\ \A j \in telling : j <= k
                   /\ routing_table' =
                        [routing_table EXCEPT ![r.to] = shortest_path[graph[k]][r.to]]
    BY DEF handle_db_response
  <1>4. /\ n \in Nat /\ DOMAIN lsps = 1..n
        /\ {lsps[i] : i \in {i \in DOMAIN lsps : i <= n}} = r.submessages
    BY <1>2, LspFinite, OrderHasAll
  <1> SUFFICES ASSUME NEW x \in Server, mentions(edges(database'[x], announced), x)
               PROVE  routing_table'[x] = shortest_path[edges(database'[x], announced)][x]
    BY <1>1 DEF TableUpToDate
  <1> HIDE DEF n
  <1>5. CASE x # r.to
    <2>1. database'[x] = database[x] /\ routing_table'[x] = routing_table[x]
      <3> HIDE DEF known
      <3> QED BY <1>1, <1>2, <1>3, <1>5
    <2> QED BY <2>1 DEF TableUpToDate
  <1>6. CASE x = r.to /\ n = 0
    <2>1. r.submessages = {}
      BY <1>4, <1>6
    <2>2. \A o \in Server : known({})[o] = database[r.to][o]
      <3> SUFFICES ASSUME NEW o \in Server PROVE known({})[o] = database[r.to][o]
        OBVIOUS
      <3>1. database[r.to][o] \in Nat
        BY <1>2
      <3>2. {database[r.to][o]} \cup {lsp[2] : lsp \in {lsp \in {} : lsp[1] = o}}
              = {database[r.to][o], database[r.to][o]}
        OBVIOUS
      <3> QED BY <3>1, <3>2, MaxOfTwo
    <2>3. known({}) = database[r.to]
      <3>1. database[r.to] = [o \in Server |-> database[r.to][o]]
        BY <1>2
      <3> QED BY <2>2, <3>1
    <2> HIDE DEF known
    <2>4. database'[x] = database[x] /\ routing_table'[x] = routing_table[x]
      BY <1>1, <1>2, <1>3, <1>4, <1>6, <2>1, <2>3
    <2> QED BY <2>4 DEF TableUpToDate
  <1>7. CASE x = r.to /\ n # 0
    <2> DEFINE graph == [k \in DOMAIN lsps |->
                  edges(known({lsps[i] : i \in {i \in DOMAIN lsps : i <= k}}), announced)]
    <2>1. n \in DOMAIN lsps
      BY <1>4, <1>7
    <2>2. graph[n] = edges(known(r.submessages), announced)
      BY <1>4, <2>1
    <2>3. database'[x] = known(r.submessages)
      <3> HIDE DEF known
      <3> QED BY <1>1, <1>2, <1>7
    <2>4. mentions(graph[n], x)
      BY <2>2, <2>3
    <2>5. PICK k \in DOMAIN lsps :
            /\ \A j \in DOMAIN lsps : mentions(graph[j], x) => j <= k
            /\ routing_table' = [routing_table EXCEPT ![x] = shortest_path[graph[k]][x]]
      BY <1>3, <1>7, <2>1, <2>4
    <2>6. k = n
      <3>1. n <= k /\ k \in 1..n
        <4> HIDE DEF graph
        <4> QED BY <1>4, <2>1, <2>4, <2>5
      <3> QED BY <1>4, <3>1
    <2> HIDE DEF graph
    <2> QED BY <1>2, <2>2, <2>3, <2>5, <2>6
  <1> QED BY <1>5, <1>6, <1>7

LEMMA TableRestarted ==
    ASSUME IInv, TableUpToDate, NEW s \in Server, Crash(s)
    PROVE  TableUpToDate'
  <1>1. announced' = announced /\ routing_table' = [routing_table EXCEPT ![s] = NoTable]
    BY DEF Crash
  <1>2. \A x \in Server : database'[x] = IF x = s THEN NoDatabase ELSE database[x]
    BY CrashStep
  <1>3. routing_table \in [Server -> [Server -> SUBSET Server]]
    BY DEF IInv, Typed, KnowledgeTyped, IsTable
  <1> SUFFICES ASSUME NEW x \in Server, mentions(edges(database'[x], announced), x)
               PROVE  routing_table'[x] = shortest_path[edges(database'[x], announced)][x]
    BY <1>1 DEF TableUpToDate
  <1>4. ~mentions(edges(NoDatabase, announced), x)
    BY DEF mentions, edges, NoDatabase
  <1>5. x # s
    BY <1>2, <1>4
  <1>6. database'[x] = database[x] /\ routing_table'[x] = routing_table[x]
    BY <1>1, <1>2, <1>3, <1>5
  <1> QED BY <1>6 DEF TableUpToDate

LEMMA TableStep == IInv /\ TableUpToDate /\ [Next]_vars => TableUpToDate'
  <1> SUFFICES ASSUME IInv, TableUpToDate, [Next]_vars PROVE TableUpToDate'
    OBVIOUS
  <1>1. CASE UNCHANGED vars
    <2>1. UNCHANGED <<database, routing_table, announced>>
      BY <1>1 DEF vars, announces, knowledge
    <2> QED BY <2>1, TableKept
  <1>2. ASSUME NEW s \in Server, NEW n, NoticeNeighbor(s, n) \/ request_ls_db(s, n) PROVE TableUpToDate'
    BY <1>2, TableKept DEF NoticeNeighbor, request_ls_db, announces, knowledge
  <1>3. ASSUME NEW s \in Announcer, StartLoop(s) \/ Refresh(s) \/ Update(s) PROVE TableUpToDate'
    BY <1>3, TableSent DEF StartLoop, Refresh, Update
  <1>4. ASSUME NEW e, ChangeLink(e) PROVE TableUpToDate'
    BY <1>4, TableKept DEF ChangeLink, knowledge
  <1>5. ASSUME NEW c \in copies, handle_flood(c) \/ FloodTimeout(c) PROVE TableUpToDate'
    BY <1>5, TableKept, TableFlooded DEF FloodTimeout, announces, knowledge
  <1>6. ASSUME NEW r, handle_db_request(r) \/ LoseDbMessage(r) PROVE TableUpToDate'
    BY <1>6, TableKept DEF handle_db_request, LoseDbMessage, announces, knowledge
  <1>7. ASSUME NEW p, Forward(p) \/ \E r : Send(p, r) PROVE TableUpToDate'
    BY <1>7, TableKept DEF Forward, Send, announces, knowledge
  <1> QED BY <1>1, <1>2, <1>3, <1>4, <1>5, <1>6, <1>7, Servers, TableAnswered, TableRestarted DEF Next

LEMMA AgreedTables ==
    ASSUME IInv, TableUpToDate, \A s, o \in Member : database[s] = database[o],
           NEW s \in Server, NEW t \in Server, mentions(edges(database[s], announced), s)
    PROVE  LET F == {e \in Server \X Server : e[2] \in routing_table[e[1]][t]}
           IN  \A m \in reach(F, s) :
                 /\ routing_table[s][t] # {} /\ m # t => routing_table[m][t] # {}
                 /\ \A n \in routing_table[m][t] : m \notin reach(F, n)
  <1> DEFINE E == edges(database[s], announced)
             F == {e \in Server \X Server : e[2] \in routing_table[e[1]][t]}
  <1>1. net \in Nets /\ IsTable(routing_table)
    BY DEF IInv, Typed, NetTyped, KnowledgeTyped
  <1>2. E \in Graph /\ \A x, n \in Server : <<x, n>> \in E => n \in neighbors(x)
    <2>1. /\ database[s] \in [Server -> Nat]
          /\ \A o \in Server : announced[o] \in Seq(SUBSET neighbors(o)) /\ database[s][o] <= Len(announced[o])
      BY DEF IInv, Typed, KnowledgeTyped, AnnouncedTyped, Issued
    <2> QED BY <1>1, <2>1, GraphType
  <1>3. F \in Graph
    <2>1. F \in SUBSET {e \in Server \X Server : {e[1], e[2]} \in net.edges}
      BY <1>1 DEF IsTable, neighbors
    <2> QED BY <1>1, <2>1 DEF Graph
  <1>4. ASSUME NEW u \in Server, mentions(E, u) PROVE routing_table[u] = shortest_path[E][u]
    <2>1. \A x \in Server : mentions(E, x) => x \in Member
      <3> SUFFICES ASSUME NEW x \in Server, mentions(E, x) PROVE x \in Member
        OBVIOUS
      <3>1. PICK e \in E : x \in {e[1], e[2]}
        BY DEF mentions
      <3>2. e \in Server \X Server
        BY DEF edges
      <3>3. e[2] \in neighbors(e[1])
        BY <1>2, <3>2
      <3>4. {e[1], e[2]} \in net.edges
        BY <3>3 DEF neighbors
      <3> QED BY <3>1, <3>4 DEF Member
    <2>2. database[u] = database[s]
      BY <1>4, <2>1
    <2> QED BY <1>4, <2>2 DEF TableUpToDate
  <1> HIDE DEF E
  <1>5. Follows(F, E, t)
    BY <1>4 DEF Follows
  <1> HIDE DEF F
  <1> SUFFICES ASSUME NEW m \in reach(F, s)
               PROVE  /\ routing_table[s][t] # {} /\ m # t => routing_table[m][t] # {}
                      /\ \A n \in routing_table[m][t] : m \notin reach(F, n)
    BY DEF F
  <1>0. mentions(E, s)
    BY DEF E
  <1>6. /\ m \in Server /\ mentions(E, m)
        /\ \A n \in shortest_path[E][m][t] : m \notin reach(F, n)
        /\ m # t /\ m # s => shortest_path[E][m][t] # {}
    BY <1>0, <1>2, <1>3, <1>5, NoLoopNoEnd
  <1>7. routing_table[m] = shortest_path[E][m]
    BY <1>4, <1>6
  <1> QED BY <1>6, <1>7

(* In every network: once all databases are the same, messages for a server *)
(* follow the tables without a loop or a dead end, whatever first hop each  *)
(* server takes, if they come from a server that the common graph mentions. *)
THEOREM TablesReach == Spec => []AgreedTablesReach
  <1>1. Init => TableUpToDate
    BY DEF Init, TableUpToDate, mentions, edges, NoDatabase
  <1>2. IInv /\ TableUpToDate => AgreedTablesReach
    BY AgreedTables DEF AgreedTablesReach
  <1>3. Spec => []TableUpToDate
    BY <1>1, TableStep, Invariant, PTL DEF Spec
  <1> QED BY <1>2, <1>3, Invariant, PTL

=============================================================================
