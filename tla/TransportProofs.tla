-------------------------- MODULE TransportProofs ----------------------------
(***************************************************************************)
(* Proofs about the TCP transport, for any number of nodes, connections,   *)
(* messages and faults: its connection table is exact, nothing is sent on  *)
(* a closed channel, and it implements Network.                            *)
(***************************************************************************)
EXTENDS TcpTransport, TLAPS

End == {"none", "greeting", "up", "closing", "shut"}

Record == [from : Node \cup {None}, to : Node \cup {None},
           by : {"none", "Connect", "reconnect"},
           end : [Node -> End], wire : [Node -> Seq(Message)]]

(* A connection is free, or it joins two nodes and one of its ends is open. *)
Shaped(r) ==
  \/ r = Free
  \/ /\ r.from \in Node /\ r.to \in Node /\ r.from # r.to
     /\ \A k \in Node : r.end[k] = "none" <=> k \notin {r.from, r.to}

(* No node dials itself, and the sockets are as setupConn leaves them. *)
SocketInv ==
  /\ \A n \in Node : n \notin peerAddrs[n] /\ n \notin missing[n]
  /\ \A c \in Conn : Shaped(conn[c])

(* The table of a node and its ends that are up are the same thing, and a    *)
(* closed node reads nothing.                                                *)
Exact(n) ==
  /\ \A p \in Node : conns[n][p] # None =>
       conn[conns[n][p]].end[n] = "up" /\ Peer(n, conns[n][p]) = p
  /\ \A c \in Conn : conn[c].end[n] = "up" => conns[n][Peer(n, c)] = c
  /\ \A c \in Conn : phase[n] = "closed" => ~Reading(n, c)

TableInv == \A n \in Node : Exact(n)
-----------------------------------------------------------------------------
(* The ends of the other nodes stay where they are, a dial and the end of a  *)
(* connection aside.                                                         *)
Ends(r, s, n) ==
  \A k \in Node \ {n} :
    \/ s.end[k] = r.end[k] /\ s.from = r.from /\ s.to = r.to
    \/ {s.end[k], r.end[k]} \subseteq {"none", "greeting", "shut"}

(* The messages on their way stay on it, or are all dropped. *)
Wires(r, s) ==
  \A k \in Node :
    \/ s.wire[k] = <<>>
    \/ s.wire[k] = r.wire[k] /\ s.from = r.from /\ s.to = r.to

Calm(r, s, n) == Ends(r, s, n) /\ Wires(r, s)

Fine(r) == r \in Record /\ Shaped(r)

(* None is no node and no connection, and messages are numbered from one      *)
(* (NodeID 0 is invalid, types.go).                                           *)
LEMMA Nobody == None \notin Node /\ None \notin Conn /\ Fine(Free)
  <1>1. None \notin Node /\ None \notin Conn
    BY TransportAssumption DEF None, Conn
  <1>2. <<>> \in Seq(Message)
    OBVIOUS
  <1>3. Free \in Record
    BY <1>2 DEF Free, Record, End
  <1> QED
    BY <1>1, <1>3 DEF Fine, Shaped

(* An end of a connection moves on. *)
LEMMA MovedFields ==
  ASSUME NEW r \in Record, NEW n \in Node, NEW e \in End
  PROVE  /\ Moved(r, n, e) \in Record
         /\ Moved(r, n, e).from = r.from /\ Moved(r, n, e).to = r.to
         /\ Moved(r, n, e).wire = r.wire
         /\ Moved(r, n, e).end = [r.end EXCEPT ![n] = e]
  BY Zenon DEF Moved, Record

Rewired(r, n, w) == [r EXCEPT !.wire[n] = w]

(* The messages on their way to one end change. *)
LEMMA WireFields ==
  ASSUME NEW r \in Record, NEW n \in Node, NEW w \in Seq(Message)
  PROVE  /\ Rewired(r, n, w) \in Record
         /\ Rewired(r, n, w).from = r.from /\ Rewired(r, n, w).to = r.to
         /\ Rewired(r, n, w).end = r.end
         /\ Rewired(r, n, w).wire = [r.wire EXCEPT ![n] = w]
  BY Zenon DEF Record, Rewired

(* setupConn and readLoop move their own end only (transport_tcp.go:158-305). *)
LEMMA MovedCalm ==
  ASSUME NEW r, Fine(r), NEW n \in Node, r.end[n] # "none", NEW e \in End, e # "none"
  PROVE  /\ Fine(Moved(r, n, e)) /\ Calm(r, Moved(r, n, e), n)
         /\ Moved(r, n, e).from = r.from /\ Moved(r, n, e).to = r.to
         /\ Moved(r, n, e).end[n] = e
  <1>1. r \in Record /\ r.end \in [Node -> End] /\ Shaped(r)
    BY DEF Fine, Record
  <1>2. r # Free
    BY DEF Free
  <1>q. PICK q : q = Moved(r, n, e)
    OBVIOUS
  <1>3. /\ q \in Record /\ q.from = r.from /\ q.to = r.to /\ q.wire = r.wire
        /\ q.end = [r.end EXCEPT ![n] = e]
    <2>1. e \in End /\ n \in Node /\ r \in Record
      BY <1>1
    <2>2. Moved(r, n, e) \in Record /\ Moved(r, n, e).from = r.from /\ Moved(r, n, e).to = r.to
          /\ Moved(r, n, e).wire = r.wire /\ Moved(r, n, e).end = [r.end EXCEPT ![n] = e]
      BY <2>1, MovedFields
    <2> QED
      BY <1>q, <2>2
  <1>4. q.end[n] = e /\ \A k \in Node \ {n} : q.end[k] = r.end[k]
    BY <1>1, <1>3
  <1>5. Shaped(q)
    BY <1>1, <1>2, <1>3, <1>4 DEF Shaped
  <1> QED
    BY <1>q, <1>3, <1>4, <1>5 DEF Fine, Calm, Ends, Wires

(* A socket is closed (net.Conn.Close). *)
LEMMA ShutCalm ==
  ASSUME NEW r, Fine(r), NEW n \in Node, r.end[n] # "none"
  PROVE  /\ Fine(Shut(r, n)) /\ Calm(r, Shut(r, n), n)
         /\ Shut(r, n).end[n] \in {"none", "shut"}
  <1>0. r \in Record /\ r.end \in [Node -> End] /\ r.wire \in [Node -> Seq(Message)] /\ "shut" \in End
    BY DEF Fine, Record, End
  <1>m. PICK m : m = Moved(r, n, "shut")
    OBVIOUS
  <1>1. /\ m \in Record /\ m.from = r.from /\ m.to = r.to /\ m.end = [r.end EXCEPT ![n] = "shut"]
        /\ m.wire = r.wire
    BY <1>0, <1>m, MovedFields
  <1>s. PICK s : s = [m EXCEPT !.wire[n] = <<>>]
    BY Zenon
  <1>2. /\ s.from = m.from /\ s.to = m.to /\ s.end = m.end
        /\ s.wire = [m.wire EXCEPT ![n] = <<>>] /\ s \in Record
    <2>1. <<>> \in Seq(Message)
      OBVIOUS
    <2>2. PICK w \in Seq(Message) : w = <<>>
      BY Zenon, <2>1
    <2>3. s = Rewired(m, n, w)
      BY Zenon, <1>s, <2>2 DEF Rewired
    <2>4. /\ s.from = m.from /\ s.to = m.to /\ s.end = m.end
          /\ s.wire = [m.wire EXCEPT ![n] = w] /\ s \in Record
      <3>1. m \in Record /\ n \in Node /\ w \in Seq(Message)
        BY <1>1, <2>2
      <3>2. /\ Rewired(m, n, w) \in Record
            /\ Rewired(m, n, w).from = m.from /\ Rewired(m, n, w).to = m.to
            /\ Rewired(m, n, w).end = m.end
            /\ Rewired(m, n, w).wire = [m.wire EXCEPT ![n] = w]
        BY Zenon, <3>1, WireFields
      <3> QED
        BY <2>3, <3>2
    <2> QED
      BY Zenon, <2>2, <2>4
  <1>3. Shaped(r) /\ r # Free
    BY DEF Fine, Free
  <1>4. Fine(s)
    BY <1>0, <1>1, <1>2, <1>3 DEF Fine, Shaped
  <1>5. Shut(r, n) = IF s.end[s.from] = "shut" /\ s.end[s.to] = "shut" THEN Free ELSE s
    BY Zenon, <1>m, <1>s DEF Shut
  <1>7. CASE s.end[s.from] = "shut" /\ s.end[s.to] = "shut"
    <2>1. \A k \in Node \ {n} : r.end[k] \in {"none", "shut"}
      BY <1>0, <1>1, <1>2, <1>3, <1>7 DEF Shaped
    <2> QED
      BY <1>5, <1>7, <2>1, Nobody DEF Calm, Ends, Wires, Free
  <1>8. CASE ~(s.end[s.from] = "shut" /\ s.end[s.to] = "shut")
    BY <1>0, <1>1, <1>2, <1>4, <1>5, <1>8 DEF Calm, Ends, Wires
  <1> QED
    BY <1>7, <1>8

Dialled(n, p, by) ==
  [Free EXCEPT !.from = n, !.to = p, !.by = by, !.end[n] = "greeting", !.end[p] = "greeting"]

(* A dial (transport_tcp.go:113-145). *)
LEMMA DialCalm ==
  ASSUME NEW n \in Node, NEW p \in Node, n # p, NEW by \in {"Connect", "reconnect"}
  PROVE  /\ Fine(Dialled(n, p, by)) /\ Calm(Free, Dialled(n, p, by), n)
         /\ Dialled(n, p, by).end[n] = "greeting"
  <1>q. PICK q : q = Dialled(n, p, by)
    OBVIOUS
  <1>1. /\ q.from = n /\ q.to = p /\ q.by = by /\ q.wire = [k \in Node |-> <<>>]
        /\ q.end = [k \in Node |-> IF k \in {n, p} THEN "greeting" ELSE "none"]
        /\ q = [from |-> q.from, to |-> q.to, by |-> q.by, end |-> q.end, wire |-> q.wire]
    BY Zenon, <1>q DEF Dialled, Free
  <1>2. q.wire \in [Node -> Seq(Message)]
    BY <1>1
  <1>3. q \in Record
    BY Zenon, <1>1, <1>2 DEF Record, End
  <1>4. Shaped(q)
    BY <1>1 DEF Shaped
  <1>5. Calm(Free, q, n) /\ q.end[n] = "greeting"
    BY <1>1 DEF Calm, Ends, Wires, Free
  <1> QED
    BY Zenon, <1>q, <1>3, <1>4, <1>5 DEF Fine
-----------------------------------------------------------------------------
(* What a step of node n does to the sockets, the table and the phases. *)
Effect(n) ==
  /\ conn' \in [Conn -> Record] /\ conns' \in [Node -> [Node -> Conn \cup {None}]]
  /\ \A c \in Conn : Fine(conn'[c]) /\ Ends(conn[c], conn'[c], n)
  /\ \A k \in Node \ {n} : conns'[k] = conns[k] /\ phase'[k] = phase[k]
  /\ Exact(n)'

Sockets == TypeOK /\ SocketInv /\ TableInv

(* Every other node keeps an exact table. *)
LEMMA EffectExact ==
  ASSUME Sockets, NEW n \in Node, Effect(n)
  PROVE  TableInv'
  <1> SUFFICES ASSUME NEW k \in Node, k # n PROVE Exact(k)'
    BY DEF TableInv, Effect
  <1>1. /\ conn \in [Conn -> Record] /\ conns \in [Node -> [Node -> Conn \cup {None}]]
        /\ Exact(k)
    BY DEF Sockets, TypeOK, Record, End, TableInv
  <1>2. \A c \in Conn :
          \/ /\ conn'[c].end[k] = conn[c].end[k]
             /\ conn'[c].from = conn[c].from /\ conn'[c].to = conn[c].to
          \/ {conn'[c].end[k], conn[c].end[k]} \subseteq {"none", "greeting", "shut"}
    BY DEF Effect, Ends
  <1>3. conns'[k] = conns[k] /\ phase'[k] = phase[k] /\ conns[k] \in [Node -> Conn \cup {None}]
    BY <1>1 DEF Effect
  <1>4. \A p \in Node : conns'[k][p] # None =>
          conn'[conns'[k][p]].end[k] = "up" /\ Peer(k, conns[k][p])' = p
    BY <1>1, <1>2, <1>3 DEF Exact, Peer
  <1>5. \A c \in Conn : conn'[c].end[k] = "up" => conns'[k][Peer(k, c)'] = c
    BY <1>1, <1>2, <1>3 DEF Exact, Peer
  <1>6. \A c \in Conn : phase'[k] = "closed" => ~Reading(k, c)'
    BY <1>1, <1>2, <1>3 DEF Exact, Reading
  <1> QED
    BY <1>3, <1>4, <1>5, <1>6 DEF Exact, Peer

Quiet == \A c \in Conn : Wires(conn[c], conn'[c])

(* A step that leaves the table of n alone and takes none of its ends up or   *)
(* down keeps that table exact.                                               *)
LEMMA OwnKept ==
  ASSUME Sockets, NEW n \in Node, conns' = conns, phase'[n] # "closed" \/ phase'[n] = phase[n],
         \A c \in Conn :
           \/ conn'[c].end[n] = conn[c].end[n] /\ conn'[c].from = conn[c].from /\ conn'[c].to = conn[c].to
           \/ {conn[c].end[n], conn'[c].end[n]} \subseteq {"none", "greeting", "shut"}
  PROVE  Exact(n)'
  <1>1. conns \in [Node -> [Node -> Conn \cup {None}]] /\ Exact(n)
    BY DEF Sockets, TypeOK, TableInv
  <1>2. \A p \in Node : conns'[n][p] # None =>
          conn'[conns'[n][p]].end[n] = "up" /\ Peer(n, conns[n][p])' = p
    BY <1>1 DEF Exact, Peer
  <1>3. \A c \in Conn : conn'[c].end[n] = "up" => conns'[n][Peer(n, c)'] = c
    BY <1>1 DEF Exact, Peer
  <1>4. \A c \in Conn : phase'[n] = "closed" => ~Reading(n, c)'
    BY <1>1 DEF Exact, Reading
  <1> QED
    BY <1>2, <1>3, <1>4 DEF Exact, Peer

(* Every connection is either left alone or calmly changed. *)
LEMMA AllCalm ==
  ASSUME Sockets, NEW n \in Node, conn' \in [Conn -> Record],
         \A c \in Conn : conn'[c] = conn[c] \/ (Fine(conn'[c]) /\ Calm(conn[c], conn'[c], n))
  PROVE  Quiet /\ \A c \in Conn : Fine(conn'[c]) /\ Ends(conn[c], conn'[c], n)
  <1>1. conn \in [Conn -> Record]
    BY DEF Sockets, TypeOK, Record, End
  <1>2. \A c \in Conn : Fine(conn[c]) /\ Calm(conn[c], conn[c], n)
    BY <1>1 DEF Sockets, SocketInv, Fine, Calm, Ends, Wires
  <1>3. \A c \in Conn : Fine(conn'[c]) /\ Calm(conn[c], conn'[c], n)
    BY Zenon, <1>2
  <1> QED
    BY Zenon, <1>3 DEF Calm, Quiet

(* One connection changes. *)
LEMMA OneSocket ==
  ASSUME Sockets, NEW n \in Node, NEW c \in Conn, NEW r, Fine(r), Calm(conn[c], r, n),
         conn' = [conn EXCEPT ![c] = r]
  PROVE  /\ Quiet /\ \A d \in Conn : Fine(conn'[d]) /\ Ends(conn[d], conn'[d], n)
         /\ conn' \in [Conn -> Record]
         /\ conn'[c] = r /\ \A d \in Conn \ {c} : conn'[d] = conn[d]
  <1>1. conn \in [Conn -> Record] /\ r \in Record
    BY DEF Sockets, TypeOK, Record, End, Fine
  <1>2. /\ conn' \in [Conn -> Record]
        /\ conn'[c] = r /\ \A d \in Conn \ {c} : conn'[d] = conn[d]
    BY <1>1
  <1>3. \A d \in Conn : conn'[d] = conn[d] \/ (Fine(conn'[d]) /\ Calm(conn[d], conn'[d], n))
    BY Zenon, <1>2
  <1> QED
    BY Zenon, <1>2, <1>3, AllCalm

(* Steps that touch no socket: Listen, the ticks, the ends of loops, Receive  *)
(* and the return of Close.                                                   *)
LEMMA StillEffect ==
  ASSUME Sockets, NEW n \in Node,
         \/ Listen(n) \/ ReconnectTick(n) \/ Receive(n) \/ CloseReturns(n)
         \/ \E l \in loops[n] : LoopExits(n, l)
  PROVE  Effect(n) /\ conn' = conn
  <1>1. conn' = conn /\ conns' = conns
    BY DEF Listen, ReconnectTick, Receive, CloseReturns, LoopExits, tableVars
  <1>2. /\ conn \in [Conn -> Record] /\ conns \in [Node -> [Node -> Conn \cup {None}]]
        /\ phase \in [Node -> {"new", "open", "closing", "closed"}]
    BY DEF Sockets, TypeOK, Record, End
  <1>3. \A k \in Node \ {n} : phase'[k] = phase[k]
    BY <1>2 DEF Listen, ReconnectTick, Receive, CloseReturns, LoopExits
  <1>4. \A c \in Conn : Fine(conn'[c]) /\ Ends(conn[c], conn'[c], n)
    BY <1>1, <1>2, AllCalm
  <1>5. CASE phase'[n] = phase[n] \/ phase'[n] # "closed"
    <2>1. Exact(n)'
      BY <1>1, <1>5, OwnKept
    <2> QED
      BY <1>1, <1>2, <1>3, <1>4, <2>1 DEF Effect
  <1>6. CASE phase'[n] = "closed" /\ phase[n] # "closed"
    <2>1. \A c \in Conn : ~Reading(n, c)
      BY <1>2, <1>6 DEF Listen, ReconnectTick, Receive, CloseReturns, LoopExits
    <2>2. Exact(n)
      BY DEF Sockets, TableInv
    <2>3. Exact(n)'
      BY <1>1, <2>1, <2>2 DEF Exact, Peer, Reading
    <2> QED
      BY <1>1, <1>2, <1>3, <1>4, <2>3 DEF Effect
  <1> QED
    BY <1>5, <1>6

(* Connect and reconnectLoop dial (transport_tcp.go:99-145, 222-250). *)
LEMMA DialEffect ==
  ASSUME Sockets, NEW n \in Node, NEW p \in Node, Connect(n, p) \/ Redial(n, p)
  PROVE  Effect(n) /\ Quiet
  <1>1. p # n /\ conns' = conns /\ phase' = phase
    BY DEF Connect, Redial, tableVars, Sockets, SocketInv
  <1>2. /\ conn \in [Conn -> Record] /\ conns \in [Node -> [Node -> Conn \cup {None}]]
    BY DEF Sockets, TypeOK, Record, End
  <1>3. CASE conn' = conn
    <2>1. Quiet /\ \A c \in Conn : Fine(conn'[c]) /\ Ends(conn[c], conn'[c], n)
      BY <1>2, <1>3, AllCalm
    <2>2. Exact(n)'
      BY <1>1, <1>3, OwnKept
    <2> QED
      BY <1>1, <1>2, <1>3, <2>1, <2>2 DEF Effect
  <1>4. ASSUME NEW c \in Conn, NEW by \in {"Connect", "reconnect"}, conn[c] = Free,
               conn' = [conn EXCEPT ![c] = Dialled(n, p, by)]
        PROVE  Effect(n) /\ Quiet
    <2>1. PICK q : q = Dialled(n, p, by)
      OBVIOUS
    <2>2. Fine(q) /\ Calm(Free, q, n) /\ q.end[n] = "greeting"
      BY <1>1, <2>1, DialCalm
    <2>3. Calm(conn[c], q, n) /\ conn' = [conn EXCEPT ![c] = q]
      BY Zenon, <1>4, <2>1, <2>2
    <2>4. /\ Quiet /\ \A d \in Conn : Fine(conn'[d]) /\ Ends(conn[d], conn'[d], n)
          /\ conn' \in [Conn -> Record]
          /\ conn'[c] = q /\ \A d \in Conn \ {c} : conn'[d] = conn[d]
      BY Zenon, <2>2, <2>3, OneSocket
    <2>5. conn[c].end[n] = "none"
      BY <1>4 DEF Free
    <2>6. Exact(n)'
      BY <1>1, <2>2, <2>4, <2>5, OwnKept
    <2> QED
      BY <1>1, <1>2, <2>4, <2>6 DEF Effect
  <1>5. ASSUME NEW by \in {"Connect", "reconnect"}, dial(n, p, by)
        PROVE  Effect(n) /\ Quiet
    BY Zenon, <1>3, <1>4, <1>5 DEF dial, Dialled
  <1> QED
    BY <1>3, <1>5 DEF Connect, Redial

(* One end of a connection that is not up is shut. *)
LEMMA ShutEffect ==
  ASSUME Sockets, NEW n \in Node, NEW c \in Conn, conn[c].end[n] \in {"greeting", "shut"},
         conn' = [conn EXCEPT ![c] = Shut(@, n)], conns' = conns, phase' = phase
  PROVE  Effect(n) /\ Quiet
  <1>1. PICK q : q = Shut(conn[c], n)
    OBVIOUS
  <1>2. /\ conn \in [Conn -> Record] /\ conns \in [Node -> [Node -> Conn \cup {None}]]
        /\ Fine(conn[c])
    BY DEF Sockets, TypeOK, Record, End, SocketInv, Fine
  <1>3. Fine(q) /\ Calm(conn[c], q, n) /\ q.end[n] \in {"none", "shut"}
    BY <1>1, <1>2, ShutCalm
  <1>4. conn' = [conn EXCEPT ![c] = q]
    BY Zenon, <1>1
  <1>5. /\ Quiet /\ \A d \in Conn : Fine(conn'[d]) /\ Ends(conn[d], conn'[d], n)
        /\ conn' \in [Conn -> Record]
        /\ conn'[c] = q /\ \A d \in Conn \ {c} : conn'[d] = conn[d]
    BY Zenon, <1>3, <1>4, OneSocket
  <1>6. Exact(n)'
    BY <1>3, <1>5, OwnKept
  <1> QED
    BY <1>2, <1>5, <1>6 DEF Effect

(* The other end of a connection that an end of n belongs to is a node. *)
LEMMA PeerIsNode ==
  ASSUME Sockets, NEW n \in Node, NEW c \in Conn, conn[c].end[n] # "none"
  PROVE  Peer(n, c) \in Node /\ conn[c] # Free
  BY DEF Sockets, SocketInv, Shaped, Free, Peer

(* A handshake that fails (transport_tcp.go:158-187). *)
LEMMA FailsEffect ==
  ASSUME Sockets, NEW n \in Node, NEW c \in Conn, handshakeFails(n, c)
  PROVE  Effect(n) /\ Quiet
  BY Zenon, ShutEffect DEF handshakeFails, tableVars

(* readLoop removes its own entry and no other (transport_tcp.go:297-304). *)
LEMMA ReadEndsEffect ==
  ASSUME Sockets, NEW n \in Node, NEW c \in Conn, readLoopEnds(n, c)
  PROVE  Effect(n) /\ Quiet
  <1>1. PICK q : q = Shut(conn[c], n)
    OBVIOUS
  <1>2. /\ conn \in [Conn -> Record] /\ conns \in [Node -> [Node -> Conn \cup {None}]]
        /\ Fine(conn[c]) /\ conn[c].end[n] \in {"up", "closing"} /\ Exact(n) /\ phase' = phase
    BY DEF Sockets, TypeOK, Record, End, SocketInv, Fine, readLoopEnds, Reading, TableInv
  <1>3. Fine(q) /\ Calm(conn[c], q, n) /\ q.end[n] \in {"none", "shut"}
    BY <1>1, <1>2, ShutCalm
  <1>4. conn' = [conn EXCEPT ![c] = q]
    BY Zenon, <1>1 DEF readLoopEnds
  <1>5. /\ Quiet /\ \A d \in Conn : Fine(conn'[d]) /\ Ends(conn[d], conn'[d], n)
        /\ conn' \in [Conn -> Record]
        /\ conn'[c] = q /\ \A d \in Conn \ {c} : conn'[d] = conn[d]
    BY Zenon, <1>3, <1>4, OneSocket
  <1>6. Peer(n, c) \in Node
    BY <1>2 DEF Fine, Shaped, Free, Peer
  <1>7. /\ conns' \in [Node -> [Node -> Conn \cup {None}]]
        /\ \A k \in Node \ {n} : conns'[k] = conns[k]
        /\ \A p \in Node : conns'[n][p] = IF conns[n][p] = c /\ p = Peer(n, c) THEN None ELSE conns[n][p]
    <2>1. conns' = IF conns[n][Peer(n, c)] = c THEN [conns EXCEPT ![n][Peer(n, c)] = None] ELSE conns
      BY Zenon DEF readLoopEnds
    <2> QED
      BY <1>2, <1>6, <2>1
  <1>8. \A p \in Node : conns'[n][p] # None =>
          conn'[conns'[n][p]].end[n] = "up" /\ Peer(n, conns[n][p])' = p
    BY <1>2, <1>5, <1>7, Nobody DEF Exact, Peer
  <1>9. ASSUME NEW d \in Conn, conn'[d].end[n] = "up" PROVE conns'[n][Peer(n, d)'] = d
    <2>1. d # c
      BY <1>3, <1>5, <1>9
    <2>2. conn'[d] = conn[d]
      BY Zenon, <1>5, <2>1
    <2>3. Peer(n, d)' = Peer(n, d) /\ conn[d].end[n] = "up"
      BY Zenon, <1>9, <2>2 DEF Peer
    <2>4. conns[n][Peer(n, d)] = d
      BY Zenon, <1>2, <2>3 DEF Exact
    <2>5. Peer(n, d) \in Node
      BY <2>3, PeerIsNode
    <2> QED
      BY <1>7, <2>1, <2>3, <2>4, <2>5
  <1>10. \A d \in Conn : phase'[n] = "closed" => ~Reading(n, d)'
    BY <1>2, <1>3, <1>5 DEF Exact, Reading
  <1> QED
    BY <1>2, <1>5, <1>7, <1>8, <1>9, <1>10 DEF Effect, Exact

(* registerLocked takes a connection up and closes the one it replaces       *)
(* (transport_tcp.go:199-219).                                               *)
LEMMA RegisterEffect ==
  ASSUME Sockets, NEW n \in Node, NEW c \in Conn, conn[c].end[n] = "greeting",
         phase[n] # "closed", phase' = phase, registerLocked(n, c)
  PROVE  Effect(n) /\ Quiet
  <1> DEFINE p == Peer(n, c)
             old == conns[n][p]
  <1>1. /\ conn \in [Conn -> Record] /\ conns \in [Node -> [Node -> Conn \cup {None}]]
        /\ Exact(n) /\ \A d \in Conn : Fine(conn[d])
    BY DEF Sockets, TypeOK, Record, End, SocketInv, Fine, TableInv
  <1>2. p \in Node
    BY <1>1 DEF Fine, Shaped, Free, Peer
  <1>3. CASE conn' = [conn EXCEPT ![c] = Shut(@, n)] /\ conns' = conns
    BY Zenon, <1>3, ShutEffect
  <1>4. CASE /\ conn' = [d \in Conn |-> CASE d = c -> Moved(conn[d], n, "up")
                                        [] d = old -> Moved(conn[d], n, "closing")
                                        [] OTHER -> conn[d]]
             /\ conns' = [conns EXCEPT ![n][p] = c]
    <2>1. old # None => old \in Conn /\ conn[old].end[n] = "up" /\ Peer(n, old) = p
      BY <1>1, <1>2 DEF Exact
    <2>2. c # old /\ old \in Conn \cup {None}
      BY <1>1, <1>2, <2>1, Nobody
    <2>3. PICK q : q = Moved(conn[c], n, "up")
      OBVIOUS
    <2>4. Fine(q) /\ Calm(conn[c], q, n) /\ q.from = conn[c].from /\ q.to = conn[c].to /\ q.end[n] = "up"
      BY <1>1, <2>3, MovedCalm DEF End
    <2>5. PICK o : o = Moved(conn[old], n, "closing")
      OBVIOUS
    <2>6. old # None => /\ Fine(o) /\ Calm(conn[old], o, n) /\ o.end[n] = "closing"
      BY <1>1, <2>1, <2>5, MovedCalm DEF End
    <2>7. /\ conn'[c] = q /\ (old # None => conn'[old] = o)
          /\ \A d \in Conn \ {c, old} : conn'[d] = conn[d]
      BY <1>4, <2>1, <2>2, <2>3, <2>5
    <2>8. conn' \in [Conn -> Record]
      <3>1. \A d \in Conn : conn'[d] \in Record
        BY <1>1, <2>1, <2>2, <2>4, <2>6, <2>7, Nobody DEF Fine
      <3> DEFINE g(d) == CASE d = c -> Moved(conn[d], n, "up")
                           [] d = old -> Moved(conn[d], n, "closing")
                           [] OTHER -> conn[d]
      <3>2. conn' = [d \in Conn |-> g(d)]
        BY Zenon, <1>4
      <3> HIDE DEF g
      <3>3. \A d \in Conn : g(d) \in Record
        BY Zenon, <3>1, <3>2
      <3> QED
        BY Zenon, <3>2, <3>3
    <2>9. \A d \in Conn : conn'[d] = conn[d] \/ (Fine(conn'[d]) /\ Calm(conn[d], conn'[d], n))
      BY <2>1, <2>2, <2>4, <2>6, <2>7, Nobody
    <2>10. Quiet /\ \A d \in Conn : Fine(conn'[d]) /\ Ends(conn[d], conn'[d], n)
      BY Zenon, <2>8, <2>9, AllCalm
    <2>11. /\ conns' \in [Node -> [Node -> Conn \cup {None}]]
           /\ \A k \in Node \ {n} : conns'[k] = conns[k]
           /\ \A r \in Node : conns'[n][r] = IF r = p THEN c ELSE conns[n][r]
      BY <1>1, <1>2, <1>4
    <2> HIDE DEF p, old
    <2>12. Peer(n, c)' = p /\ Peer(n, c) = p
      BY <2>4, <2>7 DEF p, Peer
    <2>13. \A r \in Node : conns'[n][r] # None =>
             conn'[conns'[n][r]].end[n] = "up" /\ Peer(n, conns[n][r])' = r
      <3> SUFFICES ASSUME NEW r \in Node, conns'[n][r] # None
                   PROVE  conn'[conns'[n][r]].end[n] = "up" /\ Peer(n, conns[n][r])' = r
        OBVIOUS
      <3>1. CASE r = p
        BY <2>4, <2>7, <2>11, <2>12, <3>1
      <3>2. CASE r # p
        <4>1. PICK d : d = conns[n][r]
          OBVIOUS
        <4>2. d \in Conn /\ conn[d].end[n] = "up" /\ Peer(n, d) = r /\ conns'[n][r] = d
          BY <1>1, <2>11, <3>2, <4>1 DEF Exact
        <4>3. d # c /\ d # old
          BY <2>1, <2>12, <3>2, <4>2, Nobody
        <4>4. conn'[d] = conn[d]
          BY <2>7, <4>2, <4>3
        <4> QED
          BY <4>1, <4>2, <4>4 DEF Peer
      <3> QED
        BY <3>1, <3>2
    <2>14. \A d \in Conn : conn'[d].end[n] = "up" => conns'[n][Peer(n, d)'] = d
      <3> SUFFICES ASSUME NEW d \in Conn, conn'[d].end[n] = "up"
                   PROVE  conns'[n][Peer(n, d)'] = d
        OBVIOUS
      <3>1. CASE d = c
        BY <1>2, <2>11, <2>12, <3>1 DEF p
      <3>2. CASE d # c
        <4>1. d # old
          BY <2>6, <2>7, Nobody
        <4>2. conn'[d] = conn[d] /\ Peer(n, d)' = Peer(n, d) /\ conns[n][Peer(n, d)] = d
          BY <1>1, <2>7, <3>2, <4>1 DEF Exact, Peer
        <4>3. Peer(n, d) \in Node /\ Peer(n, d) # p
          BY <1>1, <4>1, <4>2 DEF Fine, Shaped, Free, Peer, old
        <4> QED
          BY <2>11, <4>2, <4>3
      <3> QED
        BY <3>1, <3>2
    <2> QED
      BY <2>8, <2>10, <2>11, <2>13, <2>14 DEF Effect, Exact
  <1> QED
    BY Zenon, <1>3, <1>4 DEF registerLocked

(* setupConn, when the peer's handshake has been read                        *)
(* (transport_tcp.go:158-197).                                               *)
LEMMA SetupEffect ==
  ASSUME Sockets, NEW n \in Node, NEW c \in Conn, setupConn(n, c)
  PROVE  Effect(n) /\ Quiet
  <1>1. conn[c].end[n] = "greeting" /\ phase' = phase
    BY DEF setupConn
  <1>2. CASE phase[n] \in {"closing", "closed"}
    <2>1. conn' = [conn EXCEPT ![c] = Shut(@, n)] /\ conns' = conns
      BY Zenon, <1>2 DEF setupConn, tableVars
    <2> QED
      BY Zenon, <1>1, <2>1, ShutEffect
  <1>3. CASE phase[n] \notin {"closing", "closed"}
    <2>1. registerLocked(n, c) /\ phase[n] # "closed"
      BY Zenon, <1>3 DEF setupConn
    <2> QED
      BY Zenon, <1>1, <2>1, RegisterEffect
  <1> QED
    BY <1>2, <1>3

(* Node n drops every connection: none of its ends stays up, and its table is *)
(* empty.                                                                     *)
LEMMA DropEffect ==
  ASSUME Sockets, NEW n \in Node, NEW g, DOMAIN g = Conn,
         \A c \in Conn : g[c] = conn[c] \/ (Fine(g[c]) /\ Calm(conn[c], g[c], n)),
         \A c \in Conn : g[c].end[n] # "up",
         conn' = [c \in Conn |-> g[c]], conns' = [conns EXCEPT ![n] = [p \in Node |-> None]],
         phase'[n] # "closed", \A k \in Node \ {n} : phase'[k] = phase[k]
  PROVE  Effect(n) /\ Quiet
  <1>1. /\ conn \in [Conn -> Record] /\ conns \in [Node -> [Node -> Conn \cup {None}]]
    BY DEF Sockets, TypeOK, Record, End
  <1>2. \A c \in Conn : g[c] \in Record
    BY <1>1 DEF Fine
  <1>3. conn' \in [Conn -> Record] /\ \A c \in Conn : conn'[c] = g[c]
    BY Zenon, <1>2
  <1>4. \A c \in Conn : conn'[c] = conn[c] \/ (Fine(conn'[c]) /\ Calm(conn[c], conn'[c], n))
    BY Zenon, <1>3
  <1>5. Quiet /\ \A c \in Conn : Fine(conn'[c]) /\ Ends(conn[c], conn'[c], n)
    BY Zenon, <1>3, <1>4, AllCalm
  <1>6. /\ conns' \in [Node -> [Node -> Conn \cup {None}]]
        /\ \A k \in Node \ {n} : conns'[k] = conns[k]
        /\ \A p \in Node : conns'[n][p] = None
    BY <1>1
  <1>7. Exact(n)'
    BY <1>3, <1>6 DEF Exact
  <1> QED
    BY <1>3, <1>5, <1>6, <1>7 DEF Effect

(* Close closes the registered connections (transport_tcp.go:345-366). *)
LEMMA CloseEffect ==
  ASSUME Sockets, NEW n \in Node, Close(n)
  PROVE  Effect(n) /\ Quiet
  <1> DEFINE f(c) == IF conn[c].end[n] = "up" THEN Moved(conn[c], n, "closing") ELSE conn[c]
             g == [c \in Conn |-> f(c)]
  <1>1. /\ conn \in [Conn -> Record] /\ \A c \in Conn : Fine(conn[c])
        /\ phase \in [Node -> {"new", "open", "closing", "closed"}]
    BY DEF Sockets, TypeOK, Record, End, SocketInv, Fine
  <1>2. ASSUME NEW c \in Conn
        PROVE  /\ f(c) = conn[c] \/ (Fine(f(c)) /\ Calm(conn[c], f(c), n))
               /\ f(c).end[n] # "up"
    <2>1. CASE conn[c].end[n] = "up"
      <3>1. /\ Fine(Moved(conn[c], n, "closing")) /\ Calm(conn[c], Moved(conn[c], n, "closing"), n)
            /\ Moved(conn[c], n, "closing").end[n] = "closing"
        BY <1>1, <2>1, MovedCalm DEF End
      <3> QED
        BY <2>1, <3>1
    <2>2. CASE conn[c].end[n] # "up"
      BY <2>2
    <2> QED
      BY <2>1, <2>2
  <1>3. /\ conn' = [c \in Conn |-> f(c)] /\ conns' = [conns EXCEPT ![n] = [p \in Node |-> None]]
        /\ phase' = [phase EXCEPT ![n] = "closing"]
    BY Zenon DEF Close
  <1> HIDE DEF f
  <1>4. /\ DOMAIN g = Conn /\ \A c \in Conn : g[c] = f(c)
        /\ conn' = [c \in Conn |-> g[c]]
    BY <1>3
  <1> HIDE DEF g
  <1>5. phase'[n] # "closed" /\ \A k \in Node \ {n} : phase'[k] = phase[k]
    BY <1>1, <1>3
  <1>6. /\ \A c \in Conn : g[c] = conn[c] \/ (Fine(g[c]) /\ Calm(conn[c], g[c], n))
        /\ \A c \in Conn : g[c].end[n] # "up"
    BY Zenon, <1>2, <1>4
  <1> QED
    BY Zenon, <1>3, <1>4, <1>5, <1>6, DropEffect

(* A crash takes every socket of the process with it. *)
LEMMA CrashEffect ==
  ASSUME Sockets, NEW n \in Node, Crash(n)
  PROVE  Effect(n) /\ Quiet
  <1> DEFINE f(c) == IF conn[c].end[n] = "none" THEN conn[c] ELSE Shut(conn[c], n)
             g == [c \in Conn |-> f(c)]
  <1>1. /\ conn \in [Conn -> Record] /\ \A c \in Conn : Fine(conn[c])
        /\ phase \in [Node -> {"new", "open", "closing", "closed"}]
    BY DEF Sockets, TypeOK, Record, End, SocketInv, Fine
  <1>2. ASSUME NEW c \in Conn
        PROVE  /\ f(c) = conn[c] \/ (Fine(f(c)) /\ Calm(conn[c], f(c), n))
               /\ f(c).end[n] # "up"
    <2>1. CASE conn[c].end[n] # "none"
      <3>1. /\ Fine(Shut(conn[c], n)) /\ Calm(conn[c], Shut(conn[c], n), n)
            /\ Shut(conn[c], n).end[n] \in {"none", "shut"}
        BY <1>1, <2>1, ShutCalm
      <3> QED
        BY <2>1, <3>1
    <2>2. CASE conn[c].end[n] = "none"
      BY <2>2
    <2> QED
      BY <2>1, <2>2
  <1>3. /\ conn' = [c \in Conn |-> f(c)] /\ conns' = [conns EXCEPT ![n] = [p \in Node |-> None]]
        /\ phase' = [phase EXCEPT ![n] = "new"]
    BY Zenon DEF Crash
  <1> HIDE DEF f
  <1>4. /\ DOMAIN g = Conn /\ \A c \in Conn : g[c] = f(c)
        /\ conn' = [c \in Conn |-> g[c]]
    BY <1>3
  <1> HIDE DEF g
  <1>5. phase'[n] # "closed" /\ \A k \in Node \ {n} : phase'[k] = phase[k]
    BY <1>1, <1>3
  <1>6. /\ \A c \in Conn : g[c] = conn[c] \/ (Fine(g[c]) /\ Calm(conn[c], g[c], n))
        /\ \A c \in Conn : g[c].end[n] # "up"
    BY Zenon, <1>2, <1>4
  <1> QED
    BY Zenon, <1>3, <1>4, <1>5, <1>6, DropEffect

(* Only messages move: the ends of every connection stay as they are. *)
OnlyWires ==
  /\ conn' \in [Conn -> Record] /\ conns' = conns /\ phase' = phase
  /\ \A c \in Conn :
       /\ conn'[c].from = conn[c].from /\ conn'[c].to = conn[c].to /\ conn'[c].end = conn[c].end
       /\ conn[c] = Free => conn'[c] = Free

LEMMA WireEffect ==
  ASSUME Sockets, NEW n \in Node, OnlyWires
  PROVE  Effect(n)
  <1>1. /\ conn \in [Conn -> Record] /\ conns \in [Node -> [Node -> Conn \cup {None}]]
        /\ \A c \in Conn : Shaped(conn[c])
    BY DEF Sockets, TypeOK, Record, End, SocketInv
  <1>2. ASSUME NEW c \in Conn PROVE Fine(conn'[c]) /\ Ends(conn[c], conn'[c], n)
    <2>1. conn'[c] \in Record
      BY DEF OnlyWires
    <2>2. Shaped(conn'[c])
      BY <1>1 DEF OnlyWires, Shaped
    <2>3. Ends(conn[c], conn'[c], n)
      BY DEF OnlyWires, Ends
    <2> QED
      BY <2>1, <2>2, <2>3 DEF Fine
  <1>3. Exact(n)'
    BY OwnKept DEF OnlyWires
  <1> QED
    BY <1>1, <1>2, <1>3 DEF Effect, OnlyWires

(* readLoop takes the next message off its socket and leaves every other     *)
(* message where it is (transport_tcp.go:271-295).                           *)
LEMMA ReadWires ==
  ASSUME Sockets, NEW n \in Node, NEW c \in Conn, readMessage(n, c)
  PROVE  /\ OnlyWires
         /\ conn'[c].wire[n] = Tail(conn[c].wire[n])
         /\ \A d \in Conn, k \in Node : (d # c \/ k # n) => conn'[d].wire[k] = conn[d].wire[k]
  <1>1. /\ conn \in [Conn -> Record] /\ conn[c] \in Record /\ conn[c].wire[n] \in Seq(Message)
        /\ conn[c].wire \in [Node -> Seq(Message)]
        /\ conn[c].wire[n] # <<>> /\ conns' = conns /\ phase' = phase /\ conn[c] # Free
    BY DEF Sockets, TypeOK, Record, End, readMessage, tableVars, Free, Reading
  <1>2. PICK w : w = Tail(conn[c].wire[n])
    BY Zenon
  <1>3. w \in Seq(Message)
    BY <1>1, <1>2
  <1>4. PICK q : q = Rewired(conn[c], n, w)
    OBVIOUS
  <1>5. conn' = [conn EXCEPT ![c] = q]
    BY Zenon, <1>2, <1>4 DEF readMessage, Rewired
  <1>6. /\ Rewired(conn[c], n, w) \in Record
        /\ Rewired(conn[c], n, w).from = conn[c].from /\ Rewired(conn[c], n, w).to = conn[c].to
        /\ Rewired(conn[c], n, w).end = conn[c].end
        /\ Rewired(conn[c], n, w).wire = [conn[c].wire EXCEPT ![n] = w]
    BY ZenonT(30), <1>1, <1>3, WireFields
  <1>7. /\ q \in Record /\ q.from = conn[c].from /\ q.to = conn[c].to /\ q.end = conn[c].end
        /\ q.wire = [conn[c].wire EXCEPT ![n] = w]
    BY <1>4, <1>6
  <1>8. conn' \in [Conn -> Record] /\ conn'[c] = q /\ \A d \in Conn \ {c} : conn'[d] = conn[d]
    BY <1>1, <1>5, <1>7
  <1>9. OnlyWires
    BY <1>1, <1>7, <1>8 DEF OnlyWires
  <1> QED
    BY ZenonT(30), <1>1, <1>2, <1>7, <1>8, <1>9

Filled(r, w) == [r EXCEPT !.wire = w]

LEMMA FilledFields ==
  ASSUME NEW r \in Record, NEW w \in [Node -> Seq(Message)]
  PROVE  /\ Filled(r, w) \in Record
         /\ Filled(r, w).from = r.from /\ Filled(r, w).to = r.to
         /\ Filled(r, w).end = r.end /\ Filled(r, w).wire = w
         /\ w = r.wire => Filled(r, w) = r
  BY Zenon DEF Record, Filled

MessageOf(n, p, id) == [from |-> n, to |-> p, id |-> id]

Reaches(n, p, c) == conns[n][p] = c /\ conn[c].end[p] \notin {"closing", "shut"}

(* Send and Broadcast put one message for each addressee on one connection,  *)
(* the registered one, or drop it (transport_tcp.go:307-343).                *)
LEMMA TransmitWires ==
  ASSUME Sockets, NEW n \in Node, NEW P \in SUBSET Node, Transmit(n, P)
  PROVE  /\ OnlyWires
         /\ \E id \in 1 .. MaxMessage :
              /\ Fresh(id)
              /\ sent' = sent \cup {MessageOf(n, p, id) : p \in P}
              /\ \A c \in Conn, p \in Node :
                   conn'[c].wire[p] = IF p \in P /\ Reaches(n, p, c)
                                      THEN Append(conn[c].wire[p], MessageOf(n, p, id))
                                      ELSE conn[c].wire[p]
  <1>1. /\ conn \in [Conn -> Record] /\ conns' = conns /\ phase' = phase
        /\ conns \in [Node -> [Node -> Conn \cup {None}]] /\ Exact(n)
        /\ \A c \in Conn : conn[c].wire \in [Node -> Seq(Message)]
    BY DEF Sockets, TypeOK, Record, End, Transmit, tableVars, TableInv
  <1> DEFINE w(c, id) == [p \in Node |-> IF p \in P /\ Reaches(n, p, c)
                                        THEN Append(conn[c].wire[p], MessageOf(n, p, id))
                                        ELSE conn[c].wire[p]]
  <1>2. PICK id \in 1 .. MaxMessage :
          /\ Fresh(id) /\ sent' = sent \cup {MessageOf(n, p, id) : p \in P}
          /\ conn' = [c \in Conn |-> Filled(conn[c], w(c, id))]
    BY Zenon DEF Transmit, Reaches, Filled, MessageOf
  <1>3. ASSUME NEW c \in Conn PROVE w(c, id) \in [Node -> Seq(Message)]
    <2>1. \A p \in Node : MessageOf(n, p, id) \in Message
      BY <1>2 DEF Message, MessageOf
    <2>2. \A p \in Node : conn[c].wire[p] \in Seq(Message)
      BY <1>1
    <2>3. \A p \in Node : Append(conn[c].wire[p], MessageOf(n, p, id)) \in Seq(Message)
      BY <2>1, <2>2
    <2> QED
      BY Zenon, <2>2, <2>3
  <1>4. ASSUME NEW c \in Conn, conn[c] = Free PROVE w(c, id) = conn[c].wire
    <2>1. \A p \in Node : ~Reaches(n, p, c)
      BY <1>1, <1>4, Nobody DEF Reaches, Exact, Free
    <2>2. w(c, id) = [p \in Node |-> conn[c].wire[p]]
      BY <2>1
    <2> QED
      BY Zenon, <1>1, <2>2
  <1>5. ASSUME NEW c \in Conn, NEW p \in Node
        PROVE  w(c, id)[p] = IF p \in P /\ Reaches(n, p, c)
                             THEN Append(conn[c].wire[p], MessageOf(n, p, id))
                             ELSE conn[c].wire[p]
    BY Zenon
  <1> HIDE DEF w
  <1>6. ASSUME NEW c \in Conn
        PROVE  /\ Filled(conn[c], w(c, id)) \in Record
               /\ Filled(conn[c], w(c, id)).from = conn[c].from
               /\ Filled(conn[c], w(c, id)).to = conn[c].to
               /\ Filled(conn[c], w(c, id)).end = conn[c].end
               /\ Filled(conn[c], w(c, id)).wire = w(c, id)
               /\ w(c, id) = conn[c].wire => Filled(conn[c], w(c, id)) = conn[c]
    <2>1. conn[c] \in Record
      BY <1>1
    <2> QED
      BY Zenon, <2>1, <1>3, FilledFields
  <1>7. conn' \in [Conn -> Record] /\ \A c \in Conn : conn'[c] = Filled(conn[c], w(c, id))
    BY Zenon, <1>2, <1>6
  <1>8. OnlyWires
    <2>1. ASSUME NEW c \in Conn
          PROVE  /\ conn'[c].from = conn[c].from /\ conn'[c].to = conn[c].to
                 /\ conn'[c].end = conn[c].end
                 /\ conn[c] = Free => conn'[c] = Free
      BY Zenon, <1>4, <1>6, <1>7
    <2> QED
      BY Zenon, <1>1, <1>7, <2>1 DEF OnlyWires
  <1>9. \A c \in Conn, p \in Node :
          conn'[c].wire[p] = IF p \in P /\ Reaches(n, p, c)
                             THEN Append(conn[c].wire[p], MessageOf(n, p, id))
                             ELSE conn[c].wire[p]
    <2> SUFFICES ASSUME NEW c \in Conn, NEW p \in Node
                 PROVE  conn'[c].wire[p] = IF p \in P /\ Reaches(n, p, c)
                                           THEN Append(conn[c].wire[p], MessageOf(n, p, id))
                                           ELSE conn[c].wire[p]
      OBVIOUS
    <2>1. conn'[c].wire = w(c, id)
      BY <1>6, <1>7
    <2> QED
      BY <1>5, <2>1
  <1> QED
    BY Zenon, <1>2, <1>8, <1>9
-----------------------------------------------------------------------------
(* The rest of the state. *)
Plain ==
  /\ phase \in [Node -> {"new", "open", "closing", "closed"}]
  /\ loops \in [Node -> SUBSET {"accept", "reconnect"}]
  /\ peerAddrs \in [Node -> SUBSET Node]
  /\ addrToNode \in [Node -> SUBSET Node]
  /\ missing \in [Node -> SUBSET Node]
  /\ faults \in 0 .. MaxFault
  /\ \A n \in Node : n \notin peerAddrs[n] /\ n \notin missing[n]

Mail ==
  /\ incoming \in [Node -> Seq(Envelope)]
  /\ sent \in SUBSET Message
  /\ received \in [Node -> Seq(Envelope)]

(* The invariant in parts. *)
LEMMA Parts ==
  /\ TypeOK /\ SocketInv <=>
       /\ Plain /\ Mail
       /\ conns \in [Node -> [Node -> Conn \cup {None}]]
       /\ conn \in [Conn -> Record] /\ \A c \in Conn : Shaped(conn[c])
  BY DEF TypeOK, SocketInv, Plain, Mail, Record, End

(* Loops, phases, addresses and lists of peers stay what they are, and no     *)
(* node has itself for a peer (transport_tcp.go:99-112, 222-250).             *)
LEMMA StepPlain ==
  ASSUME Sockets, Next
  PROVE  Plain'
  <1>0. Plain /\ MaxFault \in Nat
    BY Parts, TransportAssumption DEF Sockets
  <1>n. PICK n \in Node :
    \/ Listen(n) \/ ReconnectTick(n) \/ Broadcast(n) \/ Receive(n) \/ Close(n)
    \/ CloseReturns(n) \/ Crash(n)
    \/ \E l \in loops[n] : LoopExits(n, l)
    \/ \E p \in Node : Connect(n, p) \/ Redial(n, p) \/ Send(n, p)
    \/ \E c \in Conn : \/ setupConn(n, c) \/ handshakeFails(n, c)
                       \/ readMessage(n, c) \/ readLoopEnds(n, c)
    BY Zenon DEF Next
  <1>1. CASE Listen(n)
    BY <1>0, <1>1 DEF Listen, Plain, tableVars, dialVars
  <1>2. CASE ReconnectTick(n)
    BY <1>0, <1>2 DEF ReconnectTick, Plain, tableVars
  <1>3. ASSUME NEW P, Transmit(n, P) PROVE Plain'
    BY <1>0, <1>3 DEF Transmit, Plain, tableVars, dialVars
  <1>4. CASE Receive(n)
    BY <1>0, <1>4 DEF Receive, Plain, tableVars, dialVars
  <1>5. CASE Close(n) \/ CloseReturns(n)
    BY <1>0, <1>5 DEF Close, CloseReturns, Plain, tableVars, dialVars
  <1>6. CASE Crash(n)
    BY <1>0, <1>6 DEF Crash, Plain
  <1>7. ASSUME NEW l \in loops[n], LoopExits(n, l) PROVE Plain'
    BY <1>0, <1>7 DEF LoopExits, Plain, tableVars, dialVars
  <1>8. ASSUME NEW p \in Node, Connect(n, p) PROVE Plain'
    BY <1>0, <1>8 DEF Connect, Plain, tableVars
  <1>9. ASSUME NEW p \in Node, Redial(n, p) PROVE Plain'
    BY <1>0, <1>9 DEF Redial, Plain, tableVars
  <1>10. ASSUME NEW c \in Conn, setupConn(n, c) PROVE Plain'
    <2>1. /\ UNCHANGED <<phase, loops, peerAddrs, missing, faults>>
          /\ addrToNode' = addrToNode \/ addrToNode' = [addrToNode EXCEPT ![n] = @ \cup ({Peer(n, c)} \ Alias)]
      BY Zenon, <1>10 DEF setupConn, tableVars, dialVars
    <2>2. Peer(n, c) \in Node
      BY <1>10, PeerIsNode DEF setupConn
    <2> QED
      BY <1>0, <2>1, <2>2 DEF Plain
  <1>11. ASSUME NEW c \in Conn, handshakeFails(n, c) \/ readLoopEnds(n, c) PROVE Plain'
    <2>1. /\ UNCHANGED <<phase, loops, peerAddrs, missing, addrToNode>>
          /\ faults' = faults \/ (faults < MaxFault /\ faults' = faults + 1)
      BY Zenon, <1>11 DEF handshakeFails, readLoopEnds, Broken, tableVars, dialVars
    <2> QED
      BY <1>0, <2>1 DEF Plain
  <1>12. ASSUME NEW c \in Conn, readMessage(n, c) PROVE Plain'
    BY <1>0, <1>12 DEF readMessage, Plain, tableVars, dialVars
  <1> QED
    BY Zenon, <1>n, <1>1, <1>2, <1>3, <1>4, <1>5, <1>6, <1>7, <1>8, <1>9, <1>10, <1>11, <1>12
       DEF Send, Broadcast

(* What moves between the sockets and the application is a message with its  *)
(* sender.                                                                   *)
LEMMA StepMail ==
  ASSUME Sockets, Next
  PROVE  Mail'
  <1>0. Mail
    BY Parts DEF Sockets
  <1>1. ASSUME UNCHANGED <<incoming, sent, received>> PROVE Mail'
    BY <1>0, <1>1 DEF Mail
  <1>2. ASSUME NEW n \in Node, Receive(n) PROVE Mail'
    <2>1. incoming[n] \in Seq(Envelope) /\ incoming[n] # <<>> /\ received[n] \in Seq(Envelope)
      BY <1>0, <1>2 DEF Mail, Receive
    <2>2. Tail(incoming[n]) \in Seq(Envelope) /\ Append(received[n], Head(incoming[n])) \in Seq(Envelope)
      BY <2>1
    <2> QED
      BY <1>0, <1>2, <2>2 DEF Mail, Receive
  <1>3. ASSUME NEW n \in Node, Crash(n) PROVE Mail'
    BY <1>0, <1>3 DEF Mail, Crash
  <1>4. ASSUME NEW n \in Node, NEW P \in SUBSET Node, Transmit(n, P) PROVE Mail'
    <2>1. PICK id \in 1 .. MaxMessage : sent' = sent \cup {MessageOf(n, p, id) : p \in P}
      BY <1>4, TransmitWires
    <2>2. sent' \in SUBSET Message
      BY <1>0, <2>1 DEF Mail, MessageOf, Message
    <2> QED
      BY <1>0, <1>4, <2>2 DEF Mail, Transmit
  <1>5. ASSUME NEW n \in Node, NEW c \in Conn, readMessage(n, c) PROVE Mail'
    <2>1. Peer(n, c) \in Node
      BY <1>5, PeerIsNode DEF readMessage, Reading
    <2>2. conn[c].wire[n] \in Seq(Message) /\ conn[c].wire[n] # <<>>
      BY <1>5 DEF Sockets, TypeOK, readMessage
    <2>3. Head(conn[c].wire[n]) \in Message
      BY <2>2
    <2>4. PICK e \in Envelope : e = [from |-> Peer(n, c), message |-> Head(conn[c].wire[n])]
      BY Zenon, <2>1, <2>3 DEF Envelope
    <2>5. /\ incoming' = incoming \/ incoming' = [incoming EXCEPT ![n] = Append(@, e)]
          /\ sent' = sent /\ received' = received
      BY Zenon, <1>5, <2>4 DEF readMessage
    <2>6. Append(incoming[n], e) \in Seq(Envelope)
      BY <1>0, <2>4 DEF Mail
    <2> QED
      BY Zenon, <1>0, <2>5, <2>6 DEF Mail
  <1>6. ASSUME NEW n \in Node,
               \/ Listen(n) \/ ReconnectTick(n) \/ Close(n) \/ CloseReturns(n)
               \/ \E l \in loops[n] : LoopExits(n, l)
               \/ \E p \in Node : Connect(n, p) \/ Redial(n, p)
               \/ \E c \in Conn : setupConn(n, c) \/ handshakeFails(n, c) \/ readLoopEnds(n, c)
        PROVE  UNCHANGED <<incoming, sent, received>>
    BY <1>6 DEF Listen, ReconnectTick, Close, CloseReturns, LoopExits, Connect, Redial,
                setupConn, handshakeFails, readLoopEnds
  <1>7. ASSUME NEW n \in Node, Broadcast(n) \/ \E p \in Node : Send(n, p) PROVE Mail'
    BY Zenon, <1>4, <1>7 DEF Broadcast, Send
  <1> QED
    BY Zenon, <1>1, <1>2, <1>3, <1>5, <1>6, <1>7 DEF Next

(* Every step is a step of one node. *)
LEMMA StepEffect ==
  ASSUME Sockets, Next
  PROVE  \E n \in Node : Effect(n)
  <1>n. PICK n \in Node :
    \/ Listen(n) \/ ReconnectTick(n) \/ Broadcast(n) \/ Receive(n) \/ Close(n)
    \/ CloseReturns(n) \/ Crash(n)
    \/ \E l \in loops[n] : LoopExits(n, l)
    \/ \E p \in Node : Connect(n, p) \/ Redial(n, p) \/ Send(n, p)
    \/ \E c \in Conn : \/ setupConn(n, c) \/ handshakeFails(n, c)
                       \/ readMessage(n, c) \/ readLoopEnds(n, c)
    BY Zenon DEF Next
  <1>1. ASSUME NEW P \in SUBSET Node, Transmit(n, P) PROVE Effect(n)
    BY Zenon, <1>1, TransmitWires, WireEffect
  <1>2. ASSUME NEW p \in Node, Send(n, p) PROVE Effect(n)
    BY <1>1, <1>2 DEF Send
  <1>3. CASE Broadcast(n)
    BY <1>1, <1>3 DEF Broadcast
  <1>4. ASSUME NEW c \in Conn, readMessage(n, c) PROVE Effect(n)
    BY Zenon, <1>4, ReadWires, WireEffect
  <1> QED
    BY Zenon, <1>n, <1>2, <1>3, <1>4, StillEffect, DialEffect, SetupEffect, FailsEffect,
       ReadEndsEffect, CloseEffect, CrashEffect

LEMMA InitSockets == Init => Sockets
  <1> SUFFICES ASSUME Init PROVE Sockets
    OBVIOUS
  <1>1. <<>> \in Seq(Envelope)
    OBVIOUS
  <1>2. Plain /\ Mail
    BY <1>1, TransportAssumption DEF Init, Plain, Mail
  <1>3. conn = [c \in Conn |-> Free] /\ conns = [n \in Node |-> [p \in Node |-> None]]
    BY DEF Init
  <1>4. /\ conns \in [Node -> [Node -> Conn \cup {None}]]
        /\ conn \in [Conn -> Record] /\ \A c \in Conn : Shaped(conn[c])
    BY <1>3, Nobody DEF Fine
  <1>5. \A c \in Conn, n \in Node : conn[c].end[n] = "none"
    BY <1>3 DEF Free
  <1>6. TableInv
    BY <1>3, <1>5 DEF TableInv, Exact, Reading
  <1> QED
    BY Zenon, <1>2, <1>4, <1>6, Parts DEF Sockets

LEMMA StepSockets == Sockets /\ [Next]_vars => Sockets'
  <1>1. ASSUME Sockets, Next PROVE Sockets'
    <2>1. PICK n \in Node : Effect(n)
      BY <1>1, StepEffect
    <2>2. TableInv'
      BY Zenon, <1>1, <2>1, EffectExact
    <2>3. /\ conns' \in [Node -> [Node -> Conn \cup {None}]]
          /\ conn' \in [Conn -> Record] /\ \A c \in Conn : Shaped(conn'[c])
      BY Zenon, <2>1 DEF Effect, Fine
    <2>4. Plain' /\ Mail'
      BY Zenon, <1>1, StepPlain, StepMail
    <2>5. TypeOK' /\ SocketInv'
      BY <2>3, <2>4 DEF TypeOK, SocketInv, Plain, Mail, Record, End
    <2> QED
      BY <2>2, <2>5 DEF Sockets
  <1>2. ASSUME Sockets, UNCHANGED vars PROVE Sockets'
    <2>1. TypeOK /\ SocketInv /\ TableInv
      BY Zenon, <1>2 DEF Sockets
    <2>2. TypeOK'
      BY Zenon, <1>2, <2>1 DEF vars, TypeOK
    <2>3. SocketInv'
      BY Zenon, <1>2, <2>1 DEF vars, SocketInv
    <2>4. conn' = conn /\ conns' = conns /\ phase' = phase
      BY Zenon, <1>2 DEF vars
    <2>5. TableInv'
      <3>1. ASSUME NEW n \in Node PROVE Exact(n)'
        <4>1. Exact(n)
          BY Zenon, <2>1 DEF TableInv
        <4>2. \A c : Peer(n, c)' = Peer(n, c) /\ Reading(n, c)' = Reading(n, c)
          BY Zenon, <2>4 DEF Peer, Reading
        <4> QED
          BY Zenon, <2>4, <4>1, <4>2 DEF Exact
      <3> QED
        BY Zenon, <3>1 DEF TableInv
    <2> QED
      BY Zenon, <2>2, <2>3, <2>5 DEF Sockets
  <1> QED
    BY <1>1, <1>2

LEMMA SocketsHold == Spec => []Sockets
  BY InitSockets, StepSockets, PTL DEF Spec

(* The variables of the transport keep their types, for any number of nodes,  *)
(* connections and faults.                                                    *)
THEOREM TypesHold == Spec => []TypeOK
  BY SocketsHold, PTL DEF Sockets

(* registerLocked, readLoop and Close keep the table of connections exact: a  *)
(* registered connection is one that is up and has a readLoop to remove it,   *)
(* and every connection that is up is registered (transport_tcp.go:199-219,   *)
(* 297-304).                                                                  *)
THEOREM TableIsExact == Spec => []TableExact
  <1>1. Sockets => TableExact
    <2> SUFFICES ASSUME Sockets, NEW n \in Node, NEW c \in Conn
                 PROVE  conn[c].end[n] = "up" <=> \E p \in Node : conns[n][p] = c
      BY DEF TableExact
    <2>1. Exact(n)
      BY DEF Sockets, TableInv
    <2>2. conn[c].end[n] = "up" => Peer(n, c) \in Node /\ conns[n][Peer(n, c)] = c
      BY <2>1, PeerIsNode DEF Exact
    <2>3. ASSUME NEW p \in Node, conns[n][p] = c PROVE conn[c].end[n] = "up"
      BY <2>1, <2>3, Nobody DEF Exact
    <2> QED
      BY <2>2, <2>3
  <1> QED
    BY <1>1, SocketsHold, PTL

(* Close closes incoming when no readLoop can send on it any more, although a *)
(* handshake may end while Close runs (transport_tcp.go:189-192, 345-372).    *)
THEOREM NothingSentOnClosed == Spec => []NoSendOnClosed
  <1>1. Sockets => NoSendOnClosed
    BY DEF Sockets, TableInv, Exact, NoSendOnClosed
  <1> QED
    BY <1>1, SocketsHold, PTL
-----------------------------------------------------------------------------
(* Messages on their way to n, in the sockets and in incoming, and those that *)
(* Receive() yielded: where each is.                                          *)
OnWire(n, c, i, m) == i \in 1 .. Len(conn[c].wire[n]) /\ conn[c].wire[n][i] = m
Waits(n, i, x) == i \in 1 .. Len(incoming[n]) /\ incoming[n][i] = x
Came(n, i, x) == i \in 1 .. Len(received[n]) /\ received[n][i] = x

(* A message on the way was sent by the node at the other end. *)
Genuine(n) ==
  /\ \A c \in Conn : \A i, m :
       OnWire(n, c, i, m) => m \in sent /\ m.to = n /\ m.from = Peer(n, c)
  /\ \A i, x :
       Waits(n, i, x) => x.message \in sent /\ x.message.to = n /\ x.message.from = x.from
  /\ \A i, x : Came(n, i, x) => x.message \in sent

(* It is in one place only. *)
Single(n) ==
  /\ \A c, d \in Conn : \A i, j, m :
       OnWire(n, c, i, m) /\ OnWire(n, d, j, m) => c = d /\ i = j
  /\ \A i, j, x, y : Waits(n, i, x) /\ Waits(n, j, y) /\ x.message = y.message => i = j

Apart(n) ==
  /\ \A c \in Conn : \A i, j, m, x :
       /\ OnWire(n, c, i, m) /\ Waits(n, j, x) => x.message # m
       /\ OnWire(n, c, i, m) /\ Came(n, j, x) => x.message # m
  /\ \A i, j, x, y : Waits(n, i, x) /\ Came(n, j, y) => x.message # y.message

Proper(n) == Genuine(n) /\ Single(n) /\ Apart(n)

NetInv == \A n \in Node : Proper(n)

(* The places of a queue after its head is taken and after an element is put  *)
(* at its end.                                                                *)
LEMMA Taken ==
  ASSUME NEW S, NEW s \in Seq(S), s # <<>>
  PROVE  /\ 1 \in 1 .. Len(s) /\ Head(s) = s[1]
         /\ \A i \in 1 .. Len(Tail(s)) :
              i \in Nat /\ i + 1 # 1 /\ i + 1 \in 1 .. Len(s) /\ Tail(s)[i] = s[i + 1]
  OBVIOUS

LEMMA Put ==
  ASSUME NEW S, NEW s \in Seq(S), NEW e \in S
  PROVE  \A i \in 1 .. Len(Append(s, e)) :
           \/ i \in 1 .. Len(s) /\ Append(s, e)[i] = s[i]
           \/ i = Len(s) + 1 /\ Append(s, e)[i] = e
  OBVIOUS

(* What the mail of a node is made of. *)
LEMMA MailTypes ==
  ASSUME Sockets, NEW n \in Node
  PROVE  /\ \A c \in Conn : conn[c].wire[n] \in Seq(Message)
         /\ incoming[n] \in Seq(Envelope) /\ received[n] \in Seq(Envelope)
  BY DEF Sockets, TypeOK

(* A node that loses mail, or none, and gets none. *)
LEMMA NoNewMail ==
  ASSUME NEW n \in Node, Proper(n), sent \subseteq sent',
         \A c \in Conn : \A i, m :
           OnWire(n, c, i, m)' => OnWire(n, c, i, m) /\ Peer(n, c)' = Peer(n, c),
         \A i, x : Waits(n, i, x)' => Waits(n, i, x),
         \A i, x : Came(n, i, x)' => Came(n, i, x)
  PROVE  Proper(n)'
  <1>0. Genuine(n) /\ Single(n) /\ Apart(n)
    BY Zenon DEF Proper
  <1>s. \A m : m \in sent => m \in sent'
    BY Zenon
  <1>1. Genuine(n)'
    <2>1. ASSUME NEW c \in Conn, NEW i, NEW m, OnWire(n, c, i, m)'
          PROVE  m \in sent' /\ m.to = n /\ m.from = Peer(n, c)'
      <3>1. OnWire(n, c, i, m) /\ Peer(n, c)' = Peer(n, c)
        BY Zenon, <2>1
      <3>2. m \in sent /\ m.to = n /\ m.from = Peer(n, c)
        BY Zenon, <1>0, <3>1 DEF Genuine
      <3> QED
        BY Zenon, <1>s, <3>1, <3>2
    <2>2. ASSUME NEW i, NEW x, Waits(n, i, x)'
          PROVE  x.message \in sent' /\ x.message.to = n /\ x.message.from = x.from
      BY Zenon, <1>0, <1>s, <2>2 DEF Genuine
    <2>3. ASSUME NEW i, NEW x, Came(n, i, x)' PROVE x.message \in sent'
      BY Zenon, <1>0, <1>s, <2>3 DEF Genuine
    <2> QED
      BY Zenon, <2>1, <2>2, <2>3 DEF Genuine
  <1>2. Single(n)'
    <2>1. ASSUME NEW c \in Conn, NEW d \in Conn, NEW i, NEW j, NEW m,
                 OnWire(n, c, i, m)', OnWire(n, d, j, m)'
          PROVE  c = d /\ i = j
      <3>1. OnWire(n, c, i, m) /\ OnWire(n, d, j, m)
        BY Zenon, <2>1
      <3> QED
        BY Zenon, <1>0, <3>1 DEF Single
    <2>2. ASSUME NEW i, NEW j, NEW x, NEW y, Waits(n, i, x)', Waits(n, j, y)', x.message = y.message
          PROVE  i = j
      <3>1. Waits(n, i, x) /\ Waits(n, j, y)
        BY Zenon, <2>2
      <3> QED
        BY Zenon, <1>0, <2>2, <3>1 DEF Single
    <2> QED
      BY Zenon, <2>1, <2>2 DEF Single
  <1>3. Apart(n)'
    <2>1. ASSUME NEW c \in Conn, NEW i, NEW j, NEW m, NEW x, OnWire(n, c, i, m)'
          PROVE  /\ Waits(n, j, x)' => x.message # m
                 /\ Came(n, j, x)' => x.message # m
      <3>1. OnWire(n, c, i, m)
        BY Zenon, <2>1
      <3> QED
        BY Zenon, <1>0, <3>1 DEF Apart
    <2>2. ASSUME NEW i, NEW j, NEW x, NEW y, Waits(n, i, x)', Came(n, j, y)'
          PROVE  x.message # y.message
      <3>1. Waits(n, i, x) /\ Came(n, j, y)
        BY Zenon, <2>2
      <3> QED
        BY Zenon, <1>0, <3>1 DEF Apart
    <2> QED
      BY Zenon, <2>1, <2>2 DEF Apart
  <1> QED
    BY Zenon, <1>1, <1>2, <1>3 DEF Proper

(* Steps that put no message anywhere: connections may go, with what they     *)
(* carry, and so may a process with its incoming.                             *)
LEMMA QuietNet ==
  ASSUME Sockets, NetInv, Quiet, sent' = sent, received' = received,
         \A n \in Node : incoming'[n] = incoming[n] \/ incoming'[n] = <<>>
  PROVE  NetInv'
  <1> SUFFICES ASSUME NEW n \in Node PROVE Proper(n)'
    BY Zenon DEF NetInv
  <1>0. Proper(n)
    BY Zenon DEF NetInv
  <1>1. ASSUME NEW c \in Conn, NEW i, NEW m, OnWire(n, c, i, m)'
        PROVE  OnWire(n, c, i, m) /\ Peer(n, c)' = Peer(n, c)
    <2>1. \/ conn'[c].wire[n] = <<>>
          \/ /\ conn'[c].wire[n] = conn[c].wire[n]
             /\ conn'[c].from = conn[c].from /\ conn'[c].to = conn[c].to
      BY Zenon DEF Quiet, Wires
    <2>2. conn'[c].wire[n] # <<>>
      BY <1>1 DEF OnWire
    <2> QED
      BY Zenon, <1>1, <2>1, <2>2 DEF OnWire, Peer
  <1>2. ASSUME NEW i, NEW x, Waits(n, i, x)' PROVE Waits(n, i, x)
    <2>1. incoming'[n] # <<>>
      BY <1>2 DEF Waits
    <2> QED
      BY Zenon, <1>2, <2>1 DEF Waits
  <1>3. ASSUME NEW i, NEW x, Came(n, i, x)' PROVE Came(n, i, x)
    BY Zenon, <1>3 DEF Came
  <1> QED
    BY Zenon, <1>0, <1>1, <1>2, <1>3, NoNewMail

(* readLoop moves a message from its socket to incoming, or drops it           *)
(* (transport_tcp.go:271-295).                                                *)
LEMMA ReadNet ==
  ASSUME Sockets, NetInv, NEW k \in Node, NEW e \in Conn, readMessage(k, e)
  PROVE  NetInv'
  <1>w. /\ OnlyWires /\ conn'[e].wire[k] = Tail(conn[e].wire[k])
        /\ \A d \in Conn, n \in Node : (d # e \/ n # k) => conn'[d].wire[n] = conn[d].wire[n]
    BY Zenon, ReadWires
  <1>p. \A n \in Node, c \in Conn : Peer(n, c)' = Peer(n, c)
    BY Zenon, <1>w DEF OnlyWires, Peer
  <1>s. sent' = sent /\ received' = received
    BY Zenon DEF readMessage
  <1>t. /\ conn[e].wire[k] \in Seq(Message) /\ conn[e].wire[k] # <<>>
        /\ incoming[k] \in Seq(Envelope) /\ incoming \in [Node -> Seq(Envelope)]
    <2>1. conn[e].wire[k] # <<>>
      BY Zenon DEF readMessage
    <2>2. incoming \in [Node -> Seq(Envelope)]
      BY Zenon DEF Sockets, TypeOK
    <2> QED
      BY Zenon, <2>1, <2>2, MailTypes
  <1>e. PICK env : env = [from |-> Peer(k, e), message |-> Head(conn[e].wire[k])]
    BY Zenon
  <1>i. incoming' = incoming \/ incoming' = [incoming EXCEPT ![k] = Append(@, env)]
    BY Zenon, <1>e DEF readMessage
  <1>f. env.from = Peer(k, e) /\ OnWire(k, e, 1, env.message)
    <2>1. 1 \in 1 .. Len(conn[e].wire[k]) /\ Head(conn[e].wire[k]) = conn[e].wire[k][1]
      BY Zenon, <1>t, Taken
    <2>2. env.from = Peer(k, e) /\ env.message = Head(conn[e].wire[k])
      BY <1>e
    <2> QED
      BY Zenon, <2>1, <2>2 DEF OnWire
  <1>1. ASSUME NEW n \in Node, n # k PROVE Proper(n)'
    <2>0. Proper(n)
      BY Zenon DEF NetInv
    <2>1. \A c \in Conn : conn'[c].wire[n] = conn[c].wire[n]
      BY Zenon, <1>1, <1>w
    <2>2. incoming'[n] = incoming[n]
      BY <1>1, <1>t, <1>i
    <2>3. ASSUME NEW c \in Conn, NEW i, NEW m, OnWire(n, c, i, m)'
          PROVE  OnWire(n, c, i, m) /\ Peer(n, c)' = Peer(n, c)
      BY Zenon, <1>p, <2>1, <2>3 DEF OnWire
    <2>4. ASSUME NEW i, NEW x, Waits(n, i, x)' PROVE Waits(n, i, x)
      BY Zenon, <2>2, <2>4 DEF Waits
    <2>5. ASSUME NEW i, NEW x, Came(n, i, x)' PROVE Came(n, i, x)
      BY Zenon, <1>s, <2>5 DEF Came
    <2> QED
      BY Zenon, <1>s, <2>0, <2>3, <2>4, <2>5, NoNewMail
  <1>2. Proper(k)'
    <2>0. Genuine(k) /\ Single(k) /\ Apart(k)
      BY Zenon DEF NetInv, Proper
    <2> DEFINE at(c, i) == IF c = e THEN i + 1 ELSE i
    <2>1. ASSUME NEW c \in Conn, NEW i, NEW m, OnWire(k, c, i, m)'
          PROVE  OnWire(k, c, at(c, i), m) /\ i \in Nat /\ (c = e => at(c, i) # 1)
      <3>1. CASE c = e
        <4>1. i \in 1 .. Len(Tail(conn[e].wire[k])) /\ Tail(conn[e].wire[k])[i] = m
          BY Zenon, <1>w, <2>1, <3>1 DEF OnWire
        <4>2. /\ i \in Nat /\ i + 1 # 1 /\ i + 1 \in 1 .. Len(conn[e].wire[k])
              /\ conn[e].wire[k][i + 1] = m
          BY Zenon, <1>t, <4>1, Taken
        <4> QED
          BY Zenon, <3>1, <4>2 DEF OnWire
      <3>2. CASE c # e
        <4>1. conn'[c].wire[k] = conn[c].wire[k]
          BY Zenon, <1>w, <3>2
        <4>2. OnWire(k, c, i, m)
          BY Zenon, <2>1, <4>1 DEF OnWire
        <4>3. i \in Nat
          BY <4>2 DEF OnWire
        <4> QED
          BY Zenon, <3>2, <4>2, <4>3
      <3> QED
        BY Zenon, <3>1, <3>2
    <2>2. \A c \in Conn : \A i, j \in Nat : at(c, i) = at(c, j) => i = j
      OBVIOUS
    <2> HIDE DEF at
    <2>3. ASSUME NEW i, NEW x, Waits(k, i, x)'
          PROVE  Waits(k, i, x) \/ (i = Len(incoming[k]) + 1 /\ x = env)
      <3>1. env \in Envelope
        <4>1. Peer(k, e) \in Node
          BY Zenon, PeerIsNode DEF readMessage, Reading
        <4>2. Head(conn[e].wire[k]) \in Message
          BY <1>t
        <4> QED
          BY Zenon, <1>e, <4>1, <4>2 DEF Envelope
      <3>2. incoming'[k] = incoming[k] \/ incoming'[k] = Append(incoming[k], env)
        BY <1>i, <1>t
      <3>3. CASE incoming'[k] = incoming[k]
        BY Zenon, <2>3, <3>3 DEF Waits
      <3>4. CASE incoming'[k] = Append(incoming[k], env)
        <4>1. i \in 1 .. Len(Append(incoming[k], env)) /\ Append(incoming[k], env)[i] = x
          BY Zenon, <2>3, <3>4 DEF Waits
        <4> QED
          BY Zenon, <1>t, <3>1, <4>1, Put DEF Waits
      <3> QED
        BY Zenon, <3>2, <3>3, <3>4
    <2>4. \A i, x : Came(k, i, x)' <=> Came(k, i, x)
      BY Zenon, <1>s DEF Came
    <2>5. env.message \in sent /\ env.message.to = k /\ env.message.from = env.from
      BY Zenon, <1>f, <2>0 DEF Genuine
    <2>6. Genuine(k)'
      <3>1. ASSUME NEW c \in Conn, NEW i, NEW m, OnWire(k, c, i, m)'
            PROVE  m \in sent' /\ m.to = k /\ m.from = Peer(k, c)'
        <4>1. OnWire(k, c, at(c, i), m)
          BY Zenon, <2>1, <3>1
        <4>2. m \in sent /\ m.to = k /\ m.from = Peer(k, c)
          BY Zenon, <2>0, <4>1 DEF Genuine
        <4> QED
          BY Zenon, <1>p, <1>s, <4>2
      <3>2. ASSUME NEW i, NEW x, Waits(k, i, x)'
            PROVE  x.message \in sent' /\ x.message.to = k /\ x.message.from = x.from
        <4>1. Waits(k, i, x) \/ x = env
          BY Zenon, <2>3, <3>2
        <4>2. CASE Waits(k, i, x)
          BY Zenon, <1>s, <2>0, <4>2 DEF Genuine
        <4>3. CASE x = env
          BY Zenon, <1>s, <2>5, <4>3
        <4> QED
          BY Zenon, <4>1, <4>2, <4>3
      <3>3. ASSUME NEW i, NEW x, Came(k, i, x)' PROVE x.message \in sent'
        BY Zenon, <1>s, <2>0, <2>4, <3>3 DEF Genuine
      <3> QED
        BY Zenon, <3>1, <3>2, <3>3 DEF Genuine
    <2>7. Single(k)'
      <3>1. ASSUME NEW c \in Conn, NEW d \in Conn, NEW i, NEW j, NEW m,
                   OnWire(k, c, i, m)', OnWire(k, d, j, m)'
            PROVE  c = d /\ i = j
        <4>1. OnWire(k, c, at(c, i), m) /\ OnWire(k, d, at(d, j), m) /\ i \in Nat /\ j \in Nat
          BY Zenon, <2>1, <3>1
        <4>2. c = d /\ at(c, i) = at(d, j)
          BY Zenon, <2>0, <4>1 DEF Single
        <4> QED
          BY Zenon, <2>2, <4>1, <4>2
      <3>2. \A i, x : Waits(k, i, x) => x.message # env.message
        BY Zenon, <1>f, <2>0 DEF Apart
      <3>3. ASSUME NEW i, NEW j, NEW x, NEW y, Waits(k, i, x)', Waits(k, j, y)', x.message = y.message
            PROVE  i = j
        <4>1. /\ Waits(k, i, x) \/ (i = Len(incoming[k]) + 1 /\ x = env)
              /\ Waits(k, j, y) \/ (j = Len(incoming[k]) + 1 /\ y = env)
          BY Zenon, <2>3, <3>3
        <4>2. Waits(k, i, x) /\ Waits(k, j, y) => i = j
          BY Zenon, <2>0, <3>3 DEF Single
        <4> QED
          BY Zenon, <3>2, <3>3, <4>1, <4>2
      <3> QED
        BY Zenon, <3>1, <3>3 DEF Single
    <2>8. Apart(k)'
      <3>1. ASSUME NEW c \in Conn, NEW i, NEW m, OnWire(k, c, i, m)' PROVE env.message # m
        <4>1. OnWire(k, c, at(c, i), m) /\ (c = e => at(c, i) # 1)
          BY Zenon, <2>1, <3>1
        <4>2. OnWire(k, c, at(c, i), m) /\ OnWire(k, e, 1, m) => c = e /\ at(c, i) = 1
          BY Zenon, <2>0 DEF Single
        <4> QED
          BY Zenon, <1>f, <4>1, <4>2
      <3>2. ASSUME NEW c \in Conn, NEW i, NEW j, NEW m, NEW x, OnWire(k, c, i, m)'
            PROVE  /\ Waits(k, j, x)' => x.message # m
                   /\ Came(k, j, x)' => x.message # m
        <4>1. OnWire(k, c, at(c, i), m)
          BY Zenon, <2>1, <3>2
        <4>2. /\ Waits(k, j, x) => x.message # m
              /\ Came(k, j, x) => x.message # m
          BY Zenon, <2>0, <4>1 DEF Apart
        <4>3. env.message # m
          BY Zenon, <3>1, <3>2
        <4> QED
          BY Zenon, <2>3, <2>4, <4>2, <4>3
      <3>3. ASSUME NEW i, NEW j, NEW x, NEW y, Waits(k, i, x)', Came(k, j, y)'
            PROVE  x.message # y.message
        <4>1. Came(k, j, y) /\ (Waits(k, i, x) \/ x = env)
          BY Zenon, <2>3, <2>4, <3>3
        <4>2. y.message # env.message
          BY Zenon, <1>f, <2>0, <4>1 DEF Apart
        <4>3. Waits(k, i, x) => x.message # y.message
          BY Zenon, <2>0, <4>1 DEF Apart
        <4> QED
          BY Zenon, <4>1, <4>2, <4>3
      <3> QED
        BY Zenon, <3>2, <3>3 DEF Apart
    <2> QED
      BY Zenon, <2>6, <2>7, <2>8 DEF Proper
  <1> QED
    BY Zenon, <1>1, <1>2 DEF NetInv

(* The node takes the next envelope from Receive(). *)
LEMMA ReceiveNet ==
  ASSUME Sockets, NetInv, NEW k \in Node, Receive(k)
  PROVE  NetInv' /\ \E m \in Message : Net!Receive(k, m)
  <1>t. /\ incoming \in [Node -> Seq(Envelope)] /\ received \in [Node -> Seq(Envelope)]
        /\ incoming[k] \in Seq(Envelope) /\ received[k] \in Seq(Envelope)
    <2>1. incoming \in [Node -> Seq(Envelope)] /\ received \in [Node -> Seq(Envelope)]
      BY Zenon DEF Sockets, TypeOK
    <2> QED
      BY Zenon, <2>1, MailTypes
  <1>u. incoming[k] # <<>> /\ sent' = sent /\ conn' = conn
    BY Zenon DEF Receive
  <1>h. PICK env \in Envelope : env = Head(incoming[k])
    BY <1>t, <1>u
  <1>v. Waits(k, 1, env)
    BY Zenon, <1>t, <1>u, <1>h, Taken DEF Waits
  <1>r. received' = [received EXCEPT ![k] = Append(@, env)] /\ incoming' = [incoming EXCEPT ![k] = Tail(@)]
    BY Zenon, <1>h DEF Receive
  <1>g. Genuine(k) /\ Single(k) /\ Apart(k)
    BY Zenon DEF NetInv, Proper
  <1>m. env.message \in sent /\ env.message.to = k /\ env.message.from = env.from
    BY Zenon, <1>v, <1>g DEF Genuine
  <1>a. \A j, x : Came(k, j, x) => x.message # env.message
    BY Zenon, <1>v, <1>g DEF Apart
  <1>w. \A n, c : Peer(n, c)' = Peer(n, c) /\ \A i, m : OnWire(n, c, i, m)' <=> OnWire(n, c, i, m)
    BY Zenon, <1>u DEF OnWire, Peer
  <1>1. ASSUME NEW n \in Node, n # k PROVE Proper(n)'
    <2>0. Proper(n)
      BY Zenon DEF NetInv
    <2>1. incoming'[n] = incoming[n] /\ received'[n] = received[n]
      BY <1>1, <1>t, <1>r
    <2>2. ASSUME NEW i, NEW x, Waits(n, i, x)' PROVE Waits(n, i, x)
      BY Zenon, <2>1, <2>2 DEF Waits
    <2>3. ASSUME NEW i, NEW x, Came(n, i, x)' PROVE Came(n, i, x)
      BY Zenon, <2>1, <2>3 DEF Came
    <2> QED
      BY Zenon, <1>u, <1>w, <2>0, <2>2, <2>3, NoNewMail
  <1>2. Proper(k)'
    <2>1. ASSUME NEW i, NEW x, Waits(k, i, x)'
          PROVE  Waits(k, i + 1, x) /\ i \in Nat /\ i + 1 # 1
      <3>1. incoming'[k] = Tail(incoming[k])
        BY <1>t, <1>r
      <3>2. i \in 1 .. Len(Tail(incoming[k])) /\ Tail(incoming[k])[i] = x
        BY Zenon, <2>1, <3>1 DEF Waits
      <3> QED
        BY Zenon, <1>t, <1>u, <3>2, Taken DEF Waits
    <2>2. ASSUME NEW i, NEW x, Came(k, i, x)' PROVE Came(k, i, x) \/ x = env
      <3>1. received'[k] = Append(received[k], env)
        BY <1>t, <1>r
      <3>2. i \in 1 .. Len(Append(received[k], env)) /\ Append(received[k], env)[i] = x
        BY Zenon, <2>2, <3>1 DEF Came
      <3>3. \A h \in 1 .. Len(Append(received[k], env)) :
              \/ h \in 1 .. Len(received[k]) /\ Append(received[k], env)[h] = received[k][h]
              \/ h = Len(received[k]) + 1 /\ Append(received[k], env)[h] = env
        BY Zenon, <1>t, Put
      <3> QED
        BY Zenon, <3>2, <3>3 DEF Came
    <2>3. Genuine(k)'
      <3>1. ASSUME NEW c \in Conn, NEW i, NEW m, OnWire(k, c, i, m)'
            PROVE  m \in sent' /\ m.to = k /\ m.from = Peer(k, c)'
        BY Zenon, <1>g, <1>u, <1>w, <3>1 DEF Genuine
      <3>2. ASSUME NEW i, NEW x, Waits(k, i, x)'
            PROVE  x.message \in sent' /\ x.message.to = k /\ x.message.from = x.from
        BY Zenon, <1>g, <1>u, <2>1, <3>2 DEF Genuine
      <3>3. ASSUME NEW i, NEW x, Came(k, i, x)' PROVE x.message \in sent'
        BY Zenon, <1>g, <1>m, <1>u, <2>2, <3>3 DEF Genuine
      <3> QED
        BY Zenon, <3>1, <3>2, <3>3 DEF Genuine
    <2>4. Single(k)'
      <3>1. ASSUME NEW c \in Conn, NEW d \in Conn, NEW i, NEW j, NEW m,
                   OnWire(k, c, i, m)', OnWire(k, d, j, m)'
            PROVE  c = d /\ i = j
        <4>1. OnWire(k, c, i, m) /\ OnWire(k, d, j, m)
          BY Zenon, <1>w, <3>1
        <4> QED
          BY Zenon, <1>g, <4>1 DEF Single
      <3>2. ASSUME NEW i, NEW j, NEW x, NEW y, Waits(k, i, x)', Waits(k, j, y)', x.message = y.message
            PROVE  i = j
        <4>1. Waits(k, i + 1, x) /\ Waits(k, j + 1, y) /\ i \in Nat /\ j \in Nat
          BY Zenon, <2>1, <3>2
        <4>2. i + 1 = j + 1
          BY Zenon, <1>g, <3>2, <4>1 DEF Single
        <4>3. \A a, b \in Nat : a + 1 = b + 1 => a = b
          OBVIOUS
        <4> QED
          BY Zenon, <4>1, <4>2, <4>3
      <3> QED
        BY Zenon, <3>1, <3>2 DEF Single
    <2>5. Apart(k)'
      <3>1. ASSUME NEW c \in Conn, NEW i, NEW j, NEW m, NEW x, OnWire(k, c, i, m)'
            PROVE  /\ Waits(k, j, x)' => x.message # m
                   /\ Came(k, j, x)' => x.message # m
        <4>1. OnWire(k, c, i, m)
          BY Zenon, <1>w, <3>1
        <4>2. \A h : Waits(k, h, x) => x.message # m
          BY Zenon, <1>g, <4>1 DEF Apart
        <4>3. Came(k, j, x) => x.message # m
          BY Zenon, <1>g, <4>1 DEF Apart
        <4>4. env.message # m
          BY Zenon, <1>g, <1>v, <4>1 DEF Apart
        <4> QED
          BY Zenon, <2>1, <2>2, <4>2, <4>3, <4>4
      <3>2. ASSUME NEW i, NEW j, NEW x, NEW y, Waits(k, i, x)', Came(k, j, y)'
            PROVE  x.message # y.message
        <4>1. Waits(k, i + 1, x) /\ i + 1 # 1 /\ (Came(k, j, y) \/ y = env)
          BY Zenon, <2>1, <2>2, <3>2
        <4>2. Came(k, j, y) => x.message # y.message
          BY Zenon, <1>g, <4>1 DEF Apart
        <4>3. x.message # env.message
          BY Zenon, <1>g, <1>v, <4>1 DEF Single
        <4> QED
          BY Zenon, <4>1, <4>2, <4>3
      <3> QED
        BY Zenon, <3>1, <3>2 DEF Apart
    <2> QED
      BY Zenon, <2>3, <2>4, <2>5 DEF Proper
  <1>3. NetInv'
    BY Zenon, <1>1, <1>2 DEF NetInv
  <1>4. env.message \in Message /\ env = [from |-> env.message.from, message |-> env.message]
    BY <1>m DEF Envelope
  <1>5. Net!Receive(k, env.message)
    <2>1. \A j \in 1 .. Len(received[k]) : received[k][j].message # env.message
      BY Zenon, <1>a DEF Came
    <2> QED
      BY Zenon, <1>u, <1>m, <1>r, <1>4, <2>1 DEF Net!Receive
  <1> QED
    BY Zenon, <1>3, <1>4, <1>5

(* Send and Broadcast hand over messages with a number of their own, and put  *)
(* each on one connection at most (transport_tcp.go:307-343).                 *)
LEMMA TransmitNet ==
  ASSUME Sockets, NetInv, NEW k \in Node, NEW P \in SUBSET Node, Transmit(k, P)
  PROVE  NetInv' /\ \E M \in SUBSET Message : Net!Send(M)
  <1>i. PICK id \in 1 .. MaxMessage :
          /\ OnlyWires /\ Fresh(id)
          /\ sent' = sent \cup {MessageOf(k, p, id) : p \in P}
          /\ \A c \in Conn, p \in Node :
               conn'[c].wire[p] = IF p \in P /\ Reaches(k, p, c)
                                  THEN Append(conn[c].wire[p], MessageOf(k, p, id))
                                  ELSE conn[c].wire[p]
    BY Zenon, TransmitWires
  <1>u. incoming' = incoming /\ received' = received
    BY Zenon DEF Transmit
  <1>m. \A p \in Node : /\ MessageOf(k, p, id) \in Message /\ MessageOf(k, p, id).id = id
                        /\ MessageOf(k, p, id).from = k /\ MessageOf(k, p, id).to = p
    BY DEF MessageOf, Message
  <1>f. \A p \in Node : MessageOf(k, p, id) \notin sent
    <2>1. sent \in SUBSET Message
      BY Zenon DEF Sockets, TypeOK
    <2>2. ASSUME NEW p \in Node, MessageOf(k, p, id) \in sent PROVE FALSE
      BY <1>i, <1>m, <2>2 DEF Fresh
    <2> QED
      BY Zenon, <2>2
  <1>1. Net!Send({MessageOf(k, p, id) : p \in P})
    <2>1. {MessageOf(k, p, id) : p \in P} \subseteq Message \ sent
      BY Zenon, <1>m, <1>f
    <2> QED
      BY Zenon, <1>i, <1>u, <2>1 DEF Net!Send
  <1>p. \A n \in Node, c \in Conn : Peer(n, c)' = Peer(n, c)
    BY Zenon, <1>i DEF OnlyWires, Peer
  <1>s. \A m : m \in sent => m \in sent'
    BY Zenon, <1>i
  <1>2. ASSUME NEW n \in Node PROVE Proper(n)'
    <2>0. Genuine(n) /\ Single(n) /\ Apart(n)
      BY Zenon DEF NetInv, Proper
    <2>c. PICK m : m = MessageOf(k, n, id)
      BY Zenon
    <2>m. m \notin sent /\ m \in Message /\ m.to = n /\ m.from = k
      BY Zenon, <1>f, <1>m, <2>c
    <2>s. n \in P => m \in sent'
      BY Zenon, <1>i, <2>c
    <2>1. ASSUME NEW c \in Conn, NEW i, NEW x, OnWire(n, c, i, x)'
          PROVE  \/ OnWire(n, c, i, x)
                 \/ n \in P /\ Reaches(k, n, c) /\ i = Len(conn[c].wire[n]) + 1 /\ x = m
      <3>1. \/ conn'[c].wire[n] = conn[c].wire[n]
            \/ n \in P /\ Reaches(k, n, c) /\ conn'[c].wire[n] = Append(conn[c].wire[n], m)
        BY Zenon, <1>i, <2>c
      <3>2. CASE conn'[c].wire[n] = conn[c].wire[n]
        BY Zenon, <2>1, <3>2 DEF OnWire
      <3>3. CASE n \in P /\ Reaches(k, n, c) /\ conn'[c].wire[n] = Append(conn[c].wire[n], m)
        <4>1. conn[c].wire[n] \in Seq(Message)
          BY Zenon, MailTypes
        <4>2. \A h \in 1 .. Len(Append(conn[c].wire[n], m)) :
                \/ h \in 1 .. Len(conn[c].wire[n]) /\ Append(conn[c].wire[n], m)[h] = conn[c].wire[n][h]
                \/ h = Len(conn[c].wire[n]) + 1 /\ Append(conn[c].wire[n], m)[h] = m
          BY Zenon, <2>m, <4>1, Put
        <4>3. i \in 1 .. Len(Append(conn[c].wire[n], m)) /\ Append(conn[c].wire[n], m)[i] = x
          BY Zenon, <2>1, <3>3 DEF OnWire
        <4> QED
          BY Zenon, <3>3, <4>2, <4>3 DEF OnWire
      <3> QED
        BY Zenon, <3>1, <3>2, <3>3
    <2>w. \A c \in Conn : \A i, x : OnWire(n, c, i, x)' =>
            OnWire(n, c, i, x) \/ (n \in P /\ Reaches(k, n, c) /\ x = m)
      BY <2>1
    <2>2. ASSUME NEW c \in Conn, Reaches(k, n, c) PROVE Peer(n, c) = k
      <3>1. conns[k][n] = c /\ c # None /\ Exact(k)
        BY <2>2, Nobody DEF Reaches, Sockets, TableInv
      <3>2. conn[c].end[k] = "up" /\ Peer(k, c) = n
        BY Zenon, <3>1 DEF Exact
      <3>3. conn[c] # Free /\ Shaped(conn[c])
        BY <3>2 DEF Free, Sockets, SocketInv
      <3> QED
        BY <3>2, <3>3 DEF Shaped, Peer
    <2>3. \A c, d \in Conn : Reaches(k, n, c) /\ Reaches(k, n, d) => c = d
      BY Zenon DEF Reaches
    <2>4. \A c \in Conn : \A i : ~OnWire(n, c, i, m)
      BY Zenon, <2>0, <2>m DEF Genuine
    <2>5. /\ \A i, x : Waits(n, i, x) => x.message # m
          /\ \A i, x : Came(n, i, x) => x.message # m
      <3>1. \A i, x : Waits(n, i, x) \/ Came(n, i, x) => x.message \in sent
        BY Zenon, <2>0 DEF Genuine
      <3> QED
        BY Zenon, <2>m, <3>1
    <2>6. /\ \A i, x : Waits(n, i, x)' <=> Waits(n, i, x)
          /\ \A i, x : Came(n, i, x)' <=> Came(n, i, x)
      BY Zenon, <1>u DEF Waits, Came
    <2>7. Genuine(n)'
      <3>1. ASSUME NEW c \in Conn, NEW i, NEW x, OnWire(n, c, i, x)'
            PROVE  x \in sent' /\ x.to = n /\ x.from = Peer(n, c)'
        <4>1. CASE OnWire(n, c, i, x)
          <5>1. x \in sent /\ x.to = n /\ x.from = Peer(n, c)
            BY Zenon, <2>0, <4>1 DEF Genuine
          <5> QED
            BY Zenon, <1>p, <1>s, <5>1
        <4>2. CASE n \in P /\ Reaches(k, n, c) /\ x = m
          BY Zenon, <1>p, <2>2, <2>m, <2>s, <4>2
        <4>3. OnWire(n, c, i, x) \/ (n \in P /\ Reaches(k, n, c) /\ x = m)
          BY <2>w, <3>1
        <4> QED
          BY Zenon, <4>1, <4>2, <4>3
      <3>2. ASSUME NEW i, NEW x, Waits(n, i, x)'
            PROVE  x.message \in sent' /\ x.message.to = n /\ x.message.from = x.from
        BY Zenon, <1>s, <2>0, <2>6, <3>2 DEF Genuine
      <3>3. ASSUME NEW i, NEW x, Came(n, i, x)' PROVE x.message \in sent'
        BY Zenon, <1>s, <2>0, <2>6, <3>3 DEF Genuine
      <3> QED
        BY Zenon, <3>1, <3>2, <3>3 DEF Genuine
    <2>8. Single(n)'
      <3>1. ASSUME NEW c \in Conn, NEW d \in Conn, NEW i, NEW j, NEW x,
                   OnWire(n, c, i, x)', OnWire(n, d, j, x)'
            PROVE  c = d /\ i = j
        <4>1. OnWire(n, c, i, x) /\ OnWire(n, d, j, x) => c = d /\ i = j
          BY Zenon, <2>0 DEF Single
        <4>2. CASE x = m
          <5>1. /\ Reaches(k, n, c) /\ i = Len(conn[c].wire[n]) + 1
                /\ Reaches(k, n, d) /\ j = Len(conn[d].wire[n]) + 1
            BY Zenon, <2>1, <2>4, <3>1, <4>2
          <5> QED
            BY Zenon, <2>3, <5>1
        <4>3. CASE x # m
          <5>1. OnWire(n, c, i, x)
            BY <2>w, <3>1, <4>3
          <5>2. OnWire(n, d, j, x)
            BY <2>w, <3>1, <4>3
          <5> QED
            BY Zenon, <4>1, <5>1, <5>2
        <4> QED
          BY Zenon, <4>2, <4>3
      <3>2. ASSUME NEW i, NEW j, NEW x, NEW y, Waits(n, i, x)', Waits(n, j, y)', x.message = y.message
            PROVE  i = j
        <4>1. Waits(n, i, x) /\ Waits(n, j, y)
          BY Zenon, <2>6, <3>2
        <4> QED
          BY Zenon, <2>0, <3>2, <4>1 DEF Single
      <3> QED
        BY Zenon, <3>1, <3>2 DEF Single
    <2>9. Apart(n)'
      <3>1. ASSUME NEW c \in Conn, NEW i, NEW j, NEW y, NEW x, OnWire(n, c, i, y)'
            PROVE  /\ Waits(n, j, x)' => x.message # y
                   /\ Came(n, j, x)' => x.message # y
        <4>1. OnWire(n, c, i, y) \/ y = m
          BY <2>w, <3>1
        <4>2. OnWire(n, c, i, y) => /\ Waits(n, j, x) => x.message # y
                                    /\ Came(n, j, x) => x.message # y
          BY Zenon, <2>0 DEF Apart
        <4> QED
          <5>1. CASE OnWire(n, c, i, y)
            BY Zenon, <2>6, <4>2, <5>1
          <5>2. CASE y = m
            BY Zenon, <2>5, <2>6, <5>2
          <5> QED
            BY Zenon, <4>1, <5>1, <5>2
      <3>2. ASSUME NEW i, NEW j, NEW x, NEW y, Waits(n, i, x)', Came(n, j, y)'
            PROVE  x.message # y.message
        <4>1. Waits(n, i, x) /\ Came(n, j, y)
          BY Zenon, <2>6, <3>2
        <4> QED
          BY Zenon, <2>0, <4>1 DEF Apart
      <3> QED
        BY Zenon, <3>1, <3>2 DEF Apart
    <2> QED
      BY Zenon, <2>7, <2>8, <2>9 DEF Proper
  <1>3. NetInv'
    BY Zenon, <1>2 DEF NetInv
  <1>4. {MessageOf(k, p, id) : p \in P} \in SUBSET Message
    BY Zenon, <1>m
  <1> QED
    BY Zenon, <1>1, <1>3, <1>4

(* A step of the transport is a step of the network, or none. *)
LEMMA StepNet ==
  ASSUME Sockets, NetInv, Next
  PROVE  NetInv' /\ [Net!Next]_(Net!vars)
  <1>n. PICK n \in Node :
    \/ Listen(n) \/ ReconnectTick(n) \/ Broadcast(n) \/ Receive(n) \/ Close(n)
    \/ CloseReturns(n) \/ Crash(n)
    \/ \E l \in loops[n] : LoopExits(n, l)
    \/ \E p \in Node : Connect(n, p) \/ Redial(n, p) \/ Send(n, p)
    \/ \E c \in Conn : \/ setupConn(n, c) \/ handshakeFails(n, c)
                       \/ readMessage(n, c) \/ readLoopEnds(n, c)
    BY Zenon DEF Next
  <1>1. ASSUME NEW P \in SUBSET Node, Transmit(n, P) PROVE NetInv' /\ Net!Next
    BY Zenon, <1>1, TransmitNet DEF Net!Next
  <1>2. ASSUME NEW p \in Node, Send(n, p) PROVE NetInv' /\ Net!Next
    BY <1>1, <1>2 DEF Send
  <1>3. CASE Broadcast(n)
    BY <1>1, <1>3 DEF Broadcast
  <1>4. CASE Receive(n)
    BY Zenon, <1>4, ReceiveNet DEF Net!Next
  <1>5. ASSUME NEW c \in Conn, readMessage(n, c) PROVE NetInv' /\ UNCHANGED Net!vars
    BY Zenon, <1>5, ReadNet DEF readMessage, Net!vars
  <1>6. ASSUME \/ Listen(n) \/ ReconnectTick(n) \/ Close(n) \/ CloseReturns(n) \/ Crash(n)
               \/ \E l \in loops[n] : LoopExits(n, l)
               \/ \E p \in Node : Connect(n, p) \/ Redial(n, p)
               \/ \E c \in Conn : setupConn(n, c) \/ handshakeFails(n, c) \/ readLoopEnds(n, c)
        PROVE  NetInv' /\ UNCHANGED Net!vars
    <2>1. incoming \in [Node -> Seq(Envelope)]
      BY DEF Sockets, TypeOK
    <2>2. sent' = sent /\ received' = received
      BY ZenonT(30), <1>6 DEF Listen, ReconnectTick, Close, CloseReturns, Crash, LoopExits, Connect, Redial,
                  setupConn, handshakeFails, readLoopEnds
    <2>3. incoming' = incoming \/ incoming' = [incoming EXCEPT ![n] = <<>>]
      BY Zenon, <1>6 DEF Listen, ReconnectTick, Close, CloseReturns, Crash, LoopExits, Connect, Redial,
                  setupConn, handshakeFails, readLoopEnds
    <2>4. conn' = conn => Quiet
      BY DEF Quiet, Wires
    <2>5. Quiet
      BY Zenon, <1>6, <2>4, StillEffect, DialEffect, SetupEffect, FailsEffect, ReadEndsEffect,
         CloseEffect, CrashEffect
    <2>6. \A k \in Node : incoming'[k] = incoming[k] \/ incoming'[k] = <<>>
      BY <2>1, <2>3
    <2>7. NetInv'
      BY Zenon, <2>2, <2>5, <2>6, QuietNet
    <2> QED
      BY <2>2, <2>7 DEF Net!vars
  <1> QED
    BY Zenon, <1>n, <1>2, <1>3, <1>4, <1>5, <1>6

(* What the transport promises its node, with any number of nodes, connections *)
(* and faults: every message that Receive() yields was sent to this node by    *)
(* the node it is said to come from, and comes once, whichever connections are *)
(* replaced, closed or broken while it is on its way (types.go:136-160,        *)
(* transport_tcp.go:252-343).                                                  *)
THEOREM TransportRefines == Spec => ImplementsNetwork
  <1>1. Init => NetInv /\ Net!Init
    <2> SUFFICES ASSUME Init PROVE NetInv /\ Net!Init
      OBVIOUS
    <2>1. \A n \in Node : /\ incoming[n] = <<>> /\ received[n] = <<>>
                          /\ \A c \in Conn : conn[c].wire[n] = <<>>
      BY DEF Init, Free
    <2>2. \A i : i \notin 1 .. Len(<<>>)
      OBVIOUS
    <2>3. \A n \in Node : /\ \A c \in Conn : \A i, m : ~OnWire(n, c, i, m)
                          /\ \A i, x : ~Waits(n, i, x) /\ ~Came(n, i, x)
      BY Zenon, <2>1, <2>2 DEF OnWire, Waits, Came
    <2>4. ASSUME NEW n \in Node PROVE Genuine(n) /\ Single(n) /\ Apart(n)
      <3>1. Genuine(n)
        BY Zenon, <2>3 DEF Genuine
      <3>2. Single(n)
        BY Zenon, <2>3 DEF Single
      <3>3. Apart(n)
        BY Zenon, <2>3 DEF Apart
      <3> QED
        BY Zenon, <3>1, <3>2, <3>3
    <2>5. NetInv
      BY Zenon, <2>4 DEF NetInv, Proper
    <2> QED
      BY Zenon, <2>5 DEF Init, Net!Init
  <1>2. Sockets /\ NetInv /\ [Next]_vars => NetInv' /\ [Net!Next]_(Net!vars)
    <2>1. ASSUME Sockets, NetInv, UNCHANGED vars PROVE NetInv' /\ UNCHANGED Net!vars
      <3>1. UNCHANGED <<conn, incoming, received, sent>>
        BY Zenon, <2>1 DEF vars
      <3>2. ASSUME NEW n \in Node PROVE Proper(n)'
        <4>1. Proper(n)
          BY Zenon, <2>1 DEF NetInv
        <4>2. /\ \A c : Peer(n, c)' = Peer(n, c) /\ \A i, m : OnWire(n, c, i, m)' <=> OnWire(n, c, i, m)
              /\ \A i, x : (Waits(n, i, x)' <=> Waits(n, i, x)) /\ (Came(n, i, x)' <=> Came(n, i, x))
          BY Zenon, <3>1 DEF OnWire, Waits, Came, Peer
        <4> QED
          BY Zenon, <3>1, <4>1, <4>2, NoNewMail
      <3> QED
        BY Zenon, <3>1, <3>2 DEF NetInv, Net!vars
    <2> QED
      BY StepNet, <2>1
  <1> QED
    BY <1>1, <1>2, SocketsHold, PTL DEF Spec, ImplementsNetwork, Net!Spec
=============================================================================
