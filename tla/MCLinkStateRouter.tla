------------------------ MODULE MCLinkStateRouter ------------------------
(* Instances of LinkStateRouter for TLC: small networks.                    *)
EXTENDS LinkStateRouter

CONSTANTS a, b, c, d

Line == {{a, b}, {b, c}}
Triangle == Line \cup {{a, c}}
Kite == Triangle \cup {{c, d}}

versions(f) == [s \in Server |-> IF s \in DOMAIN f THEN f[s] ELSE 0]

(* Two floods of one server; the longer way round exhausts the hop limit.   *)
Floods == [edges |-> Kite, hops |-> 0, routes |-> {}, asking |-> {},
           versions |-> versions([s \in {a} |-> 2]), changes |-> 1, crashes |-> 0]

(* A message for a neighbour; the direct link may fail before or after it   *)
(* is sent.                                                                 *)
Messages == [edges |-> Triangle, hops |-> 1, routes |-> {<<a, c>>}, asking |-> {},
             versions |-> versions([s \in {a, b} |-> 1]), changes |-> 1, crashes |-> 0]

(* A server at the end of the line catches up with the others.              *)
Restarts == [edges |-> Line, hops |-> 1, routes |-> {}, asking |-> {c},
             versions |-> versions([s \in {a, b} |-> IF s = a THEN 1 ELSE 2]),
             changes |-> 0, crashes |-> 1]

(* Two servers, one of which asks for the database while the link may fail. *)
Lossy == [edges |-> {{a, b}}, hops |-> 1, routes |-> {}, asking |-> {b},
          versions |-> versions([s \in {a, b} |-> 1]), changes |-> 2, crashes |-> 1]

AllNets == {Floods, Messages, Restarts, Lossy}

(* Two servers whose link may fail.                                         *)
PairNet == {[edges |-> {{a, b}}, hops |-> 1, routes |-> {}, asking |-> {},
             versions |-> versions([s \in {a} |-> 2]), changes |-> 1, crashes |-> 0]}

===========================================================================
