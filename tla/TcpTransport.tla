---------------------------- MODULE TcpTransport -----------------------------
(***************************************************************************)
(* The TCP transport of every node of a cluster (paxos/transport_tcp.go):  *)
(* accept, reconnect and read loops, the identity handshake, the rule that *)
(* keeps one of two connections between a pair of nodes, sends that give   *)
(* up without a connection, and Close.                                     *)
(*                                                                         *)
(* A connection has two ends.  An end is "greeting" in setupConn, once its *)
(* handshake is written, "up" while it is registered and read, "closing"   *)
(* when its socket is closed and its readLoop has yet to notice, and then  *)
(* "shut".  A step is a stretch of code between two blocking calls; the    *)
(* mutex makes each of them atomic.  acceptLoop takes a connection in the  *)
(* step that dials it: it keeps nothing but the socket, and a late one is  *)
(* as good as a slow handshake.                                            *)
(***************************************************************************)
EXTENDS Integers, Sequences, FiniteSets

CONSTANTS
  Node,         \* the node IDs; every node has every other as a peer
  Alias,        \* nodes that listen on another address than their peers dial
  BufferSize,   \* the capacity of incoming (1000 in NewTCPTransport)
  MaxConn,      \* bound on the connections that exist at one time
  MaxMessage,   \* bound on the calls of Send and Broadcast
  MaxFault,     \* bound on the connections that break and the crashes
  MayClose      \* the nodes that call Close (bound)

ASSUME TransportAssumption ==
  /\ Node \subseteq Nat \ {0}
  /\ IsFiniteSet(Node)
  /\ Alias \subseteq Node
  /\ MayClose \subseteq Node
  /\ {BufferSize, MaxConn, MaxMessage, MaxFault} \subseteq Nat

VARIABLES
  phase,        \* node -> "new", "open" (after Listen), "closing", "closed"
  loops,        \* node -> which of acceptLoop and reconnectLoop run
  conns,        \* node -> peer -> the registered connection, or None
  peerAddrs,    \* node -> the peers whose address Connect was given
  addrToNode,   \* node -> the peers whose dialled address was learnt
  missing,      \* node -> reconnectLoop's list of peers it has yet to dial
  incoming,     \* node -> the envelopes that wait in incoming
  conn,         \* connection -> what the sockets of its two ends hold
  faults,       \* how many connections broke or processes crashed
  sent,         \* history: every message handed to Send and Broadcast
  received      \* history: node -> the envelopes taken from Receive()

tableVars == <<conns, addrToNode>>
dialVars  == <<peerAddrs, missing>>
vars == <<phase, loops, conns, peerAddrs, addrToNode, missing, incoming, conn, faults,
          sent, received>>

Conn == 1 .. MaxConn
None == 0
Message == [from : Node, to : Node, id : 1 .. MaxMessage]
Envelope == [from : Node, message : Message]
Net == INSTANCE Network

Free == [from |-> None, to |-> None, by |-> "none",
         end |-> [n \in Node |-> "none"], wire |-> [n \in Node |-> <<>>]]

Reading(n, c) == conn[c].end[n] \in {"up", "closing"}
Peer(n, c) == IF conn[c].from = n THEN conn[c].to ELSE conn[c].from

(* The end of n moves on; a dial is over once its own end does. *)
Moved(r, n, e) == [r EXCEPT !.end[n] = e, !.by = IF r.from = n THEN "none" ELSE @]

(* A socket is closed for good; a connection shut at both ends is no more. *)
Shut(r, n) ==
  LET s == [Moved(r, n, "shut") EXCEPT !.wire[n] = <<>>] IN
  IF s.end[s.from] = "shut" /\ s.end[s.to] = "shut" THEN Free ELSE s

Init ==
  /\ phase = [n \in Node |-> "new"]
  /\ loops = [n \in Node |-> {}]
  /\ conns = [n \in Node |-> [p \in Node |-> None]]
  /\ peerAddrs = [n \in Node |-> {}]
  /\ addrToNode = [n \in Node |-> {}]
  /\ missing = [n \in Node |-> {}]
  /\ incoming = [n \in Node |-> <<>>]
  /\ conn = [c \in Conn |-> Free]
  /\ faults = 0
  /\ sent = {}
  /\ received = [n \in Node |-> <<>>]
-----------------------------------------------------------------------------
(* Listen and the loops it starts. *)

Listen(n) ==
  /\ phase[n] = "new"
  /\ phase' = [phase EXCEPT ![n] = "open"]
  /\ loops' = [loops EXCEPT ![n] = {"accept", "reconnect"}]
  /\ UNCHANGED <<tableVars, dialVars, incoming, conn, faults, sent, received>>

connectedTo(n, p) == p \in addrToNode[n] /\ conns[n][p] # None

(* Is a dial of n, from Connect or from reconnectLoop, in its handshake? *)
Dialing(n, by) ==
  \E c \in Conn : conn[c].from = n /\ conn[c].by = by /\ conn[c].end[n] = "greeting"

(* A dial succeeds where a listener is open, and both ends go on to setupConn. *)
dial(n, p, by) ==
  IF phase[p] = "open"
  THEN \E c \in Conn :
         /\ conn[c] = Free
         /\ \A d \in Conn : conn[d] = Free => c <= d
         /\ conn' = [conn EXCEPT ![c] =
              [Free EXCEPT !.from = n, !.to = p, !.by = by,
                           !.end[n] = "greeting", !.end[p] = "greeting"]]
  ELSE UNCHANGED conn

(* Start calls Connect for one peer after the other. *)
Connect(n, p) ==
  /\ phase[n] = "open"
  /\ p \notin peerAddrs[n] \cup {n}
  /\ ~Dialing(n, "Connect")
  /\ peerAddrs' = [peerAddrs EXCEPT ![n] = @ \cup {p}]
  /\ IF connectedTo(n, p) THEN UNCHANGED conn ELSE dial(n, p, "Connect")
  /\ UNCHANGED <<phase, loops, tableVars, missing, incoming, faults, sent, received>>

(* reconnectLoop lists the peers it misses under the lock, and dials them    *)
(* one by one without it.                                                    *)
ReconnectTick(n) ==
  /\ "reconnect" \in loops[n]
  /\ missing[n] = {}
  /\ ~Dialing(n, "reconnect")
  /\ missing' = [missing EXCEPT ![n] = {p \in peerAddrs[n] : ~connectedTo(n, p)}]
  /\ UNCHANGED <<phase, loops, tableVars, peerAddrs, incoming, conn, faults, sent, received>>

Redial(n, p) ==
  /\ p \in missing[n]
  /\ ~Dialing(n, "reconnect")
  /\ dial(n, p, "reconnect")
  /\ missing' = [missing EXCEPT ![n] = @ \ {p}]
  /\ UNCHANGED <<phase, loops, tableVars, peerAddrs, incoming, faults, sent, received>>

LoopExits(n, l) ==
  /\ l \in loops[n]
  /\ phase[n] = "closing"
  /\ l = "reconnect" => missing[n] = {} /\ ~Dialing(n, "reconnect")
  /\ loops' = [loops EXCEPT ![n] = @ \ {l}]
  /\ UNCHANGED <<phase, tableVars, dialVars, incoming, conn, faults, sent, received>>
-----------------------------------------------------------------------------
(* setupConn. *)

(* Slip: every node prefers the connection it dialled itself. *)
PrefersOwn(n, p, initiatedByMe) == initiatedByMe

(* The rule of registerLocked for a second connection to a peer. *)
Wins(n, p, initiatedByMe) == initiatedByMe = (n < p)

registerLocked(n, c) ==
  LET p == Peer(n, c)
      old == conns[n][p]
  IN IF old # None /\ ~Wins(n, p, conn[c].from = n)
     THEN /\ conn' = [conn EXCEPT ![c] = Shut(@, n)]
          /\ UNCHANGED conns
     ELSE /\ conn' = [d \in Conn |->
               CASE d = c -> Moved(conn[d], n, "up")
                 [] d = old -> Moved(conn[d], n, "closing")
                 [] OTHER -> conn[d]]
          /\ conns' = [conns EXCEPT ![n][p] = c]

(* Slip: Close is not looked for after the handshake. *)
SetupWhenClosed(n, c) ==
  LET p == Peer(n, c) IN
  /\ conn[c].end[n] = "greeting"
  /\ addrToNode' = [addrToNode EXCEPT ![n] = @ \cup ({p} \ Alias)]
  /\ registerLocked(n, c)
  /\ UNCHANGED <<phase, loops, dialVars, incoming, faults, sent, received>>

(* The peer's handshake has been read. *)
setupConn(n, c) ==
  LET p == Peer(n, c) IN
  /\ conn[c].end[n] = "greeting"
  /\ IF phase[n] \in {"closing", "closed"}
     THEN conn' = [conn EXCEPT ![c] = Shut(@, n)] /\ UNCHANGED tableVars
     ELSE /\ addrToNode' = [addrToNode EXCEPT ![n] = @ \cup ({p} \ Alias)]
          /\ registerLocked(n, c)
  /\ UNCHANGED <<phase, loops, dialVars, incoming, faults, sent, received>>

(* The other end is closed, or the connection breaks (a fault). *)
Broken(n, c) ==
  \/ conn[c].end[Peer(n, c)] \in {"closing", "shut"} /\ UNCHANGED faults
  \/ faults < MaxFault /\ faults' = faults + 1

handshakeFails(n, c) ==
  /\ conn[c].end[n] = "greeting"
  /\ Broken(n, c)
  /\ conn' = [conn EXCEPT ![c] = Shut(@, n)]
  /\ UNCHANGED <<phase, loops, tableVars, dialVars, incoming, sent, received>>
-----------------------------------------------------------------------------
(* readLoop, Send and Broadcast, Receive. *)

(* Slip: the message is passed on without its sender. *)
ReadBare(n, c) ==
  /\ Reading(n, c)
  /\ conn[c].wire[n] # <<>>
  /\ conn' = [conn EXCEPT ![c].wire[n] = Tail(@)]
  /\ incoming' = IF Len(incoming[n]) < BufferSize
                 THEN [incoming EXCEPT ![n] = Append(@, Head(conn[c].wire[n]))]
                 ELSE incoming
  /\ UNCHANGED <<phase, loops, tableVars, dialVars, faults, sent, received>>

readMessage(n, c) ==
  /\ Reading(n, c)
  /\ conn[c].wire[n] # <<>>
  /\ conn' = [conn EXCEPT ![c].wire[n] = Tail(@)]
  /\ incoming' = IF Len(incoming[n]) < BufferSize
                 THEN [incoming EXCEPT ![n] =
                         Append(@, [from |-> Peer(n, c), message |-> Head(conn[c].wire[n])])]
                 ELSE incoming
  /\ UNCHANGED <<phase, loops, tableVars, dialVars, faults, sent, received>>

(* Slip: a replaced connection removes its successor. *)
ReadLoopForgets(n, c) ==
  /\ Reading(n, c)
  /\ (conn[c].end[n] = "closing" /\ UNCHANGED faults) \/ Broken(n, c)
  /\ conns' = [conns EXCEPT ![n][Peer(n, c)] = None]
  /\ conn' = [conn EXCEPT ![c] = Shut(@, n)]
  /\ UNCHANGED <<phase, loops, addrToNode, dialVars, incoming, sent, received>>

(* A read fails on a closed socket, or when the other end is closed. *)
readLoopEnds(n, c) ==
  LET p == Peer(n, c) IN
  /\ Reading(n, c)
  /\ (conn[c].end[n] = "closing" /\ UNCHANGED faults) \/ Broken(n, c)
  /\ conns' = IF conns[n][p] = c THEN [conns EXCEPT ![n][p] = None] ELSE conns
  /\ conn' = [conn EXCEPT ![c] = Shut(@, n)]
  /\ UNCHANGED <<phase, loops, addrToNode, dialVars, incoming, sent, received>>

(* The next message ID. *)
Fresh(id) == \A m \in sent : m.id < id

(* Slip: a message goes out on every socket, duplicates included. *)
TransmitOnAll(n, P) ==
  \E id \in 1 .. MaxMessage :
    LET m(p) == [from |-> n, to |-> p, id |-> id]
        reaches(c, p) == Peer(n, c) = p /\ conn[c].end[n] \in {"greeting", "up"}
    IN /\ Fresh(id) /\ \A j \in 1 .. id - 1 : ~Fresh(j)
       /\ sent' = sent \cup {m(p) : p \in P}
       /\ conn' = [c \in Conn |-> [conn[c] EXCEPT !.wire = [p \in Node |->
                     IF p \in P /\ reaches(c, p) THEN Append(@[p], m(p)) ELSE @[p]]]]
       /\ UNCHANGED <<phase, loops, tableVars, dialVars, incoming, faults, received>>

(* writeMessage to each of the peers P that has a connection. *)
Transmit(n, P) ==
  \E id \in 1 .. MaxMessage :
    LET m(p) == [from |-> n, to |-> p, id |-> id]
        reaches(c, p) == conns[n][p] = c /\ conn[c].end[p] \notin {"closing", "shut"}
    IN /\ Fresh(id) /\ \A j \in 1 .. id - 1 : ~Fresh(j)
       /\ sent' = sent \cup {m(p) : p \in P}
       /\ conn' = [c \in Conn |-> [conn[c] EXCEPT !.wire = [p \in Node |->
                     IF p \in P /\ reaches(c, p) THEN Append(@[p], m(p)) ELSE @[p]]]]
       /\ UNCHANGED <<phase, loops, tableVars, dialVars, incoming, faults, received>>

Send(n, p) ==
  /\ p # n
  /\ Transmit(n, {p})

Broadcast(n) == Transmit(n, Node \ {n})

Receive(n) ==
  /\ incoming[n] # <<>>
  /\ received' = [received EXCEPT ![n] = Append(@, Head(incoming[n]))]
  /\ incoming' = [incoming EXCEPT ![n] = Tail(@)]
  /\ UNCHANGED <<phase, loops, tableVars, dialVars, conn, faults, sent>>
-----------------------------------------------------------------------------
(* Close and crashes. *)

(* Slip: the connections stay open. *)
CloseListener(n) ==
  /\ n \in MayClose
  /\ phase[n] \in {"new", "open"}
  /\ phase' = [phase EXCEPT ![n] = "closing"]
  /\ UNCHANGED <<loops, tableVars, dialVars, incoming, conn, faults, sent, received>>

Close(n) ==
  /\ n \in MayClose
  /\ phase[n] \in {"new", "open"}
  /\ phase' = [phase EXCEPT ![n] = "closing"]
  /\ conn' = [c \in Conn |->
       IF conn[c].end[n] = "up" THEN Moved(conn[c], n, "closing") ELSE conn[c]]
  /\ conns' = [conns EXCEPT ![n] = [p \in Node |-> None]]
  /\ UNCHANGED <<loops, addrToNode, dialVars, incoming, faults, sent, received>>

(* wg.Wait: no loop is left; close(incoming). *)
CloseReturns(n) ==
  /\ phase[n] = "closing"
  /\ loops[n] = {}
  /\ \A c \in Conn : ~Reading(n, c)
  /\ phase' = [phase EXCEPT ![n] = "closed"]
  /\ UNCHANGED <<loops, tableVars, dialVars, incoming, conn, faults, sent, received>>

(* The process dies and starts again with a new transport. *)
Crash(n) ==
  /\ faults < MaxFault
  /\ phase[n] = "open"
  /\ faults' = faults + 1
  /\ phase' = [phase EXCEPT ![n] = "new"]
  /\ loops' = [loops EXCEPT ![n] = {}]
  /\ conns' = [conns EXCEPT ![n] = [p \in Node |-> None]]
  /\ peerAddrs' = [peerAddrs EXCEPT ![n] = {}]
  /\ addrToNode' = [addrToNode EXCEPT ![n] = {}]
  /\ missing' = [missing EXCEPT ![n] = {}]
  /\ incoming' = [incoming EXCEPT ![n] = <<>>]
  /\ conn' = [c \in Conn |-> IF conn[c].end[n] = "none" THEN conn[c] ELSE Shut(conn[c], n)]
  /\ UNCHANGED <<sent, received>>

Next ==
  \E n \in Node :
    \/ Listen(n)
    \/ ReconnectTick(n)
    \/ Broadcast(n)
    \/ Receive(n)
    \/ Close(n)
    \/ CloseReturns(n)
    \/ Crash(n)
    \/ \E l \in loops[n] : LoopExits(n, l)
    \/ \E p \in Node : Connect(n, p) \/ Redial(n, p) \/ Send(n, p)
    \/ \E c \in Conn : \/ setupConn(n, c)
                       \/ handshakeFails(n, c)
                       \/ readMessage(n, c)
                       \/ readLoopEnds(n, c)

Spec == Init /\ [][Next]_vars

(* Goroutines that can run do: Start, the loops and the handshakes.          *)
(* reconnectLoop's select takes the cancelled context sooner or later; a     *)
(* connection closed at either end is noticed.  Nothing has to break, and    *)
(* nobody has to send, close or crash.                                       *)
Fairness ==
  \A n \in Node :
    /\ WF_vars(Listen(n) \/ \E p \in Node : Connect(n, p))
    /\ WF_vars(ReconnectTick(n) \/ \E p \in Node : Redial(n, p))
    /\ SF_vars(LoopExits(n, "reconnect"))
    /\ WF_vars(LoopExits(n, "accept"))
    /\ WF_vars(CloseReturns(n))
    /\ \A c \in Conn : /\ WF_vars(setupConn(n, c) \/ handshakeFails(n, c))
                       /\ WF_vars(readLoopEnds(n, c) /\ UNCHANGED faults)

FairSpec == Spec /\ Fairness
-----------------------------------------------------------------------------
TypeOK ==
  /\ phase \in [Node -> {"new", "open", "closing", "closed"}]
  /\ loops \in [Node -> SUBSET {"accept", "reconnect"}]
  /\ conns \in [Node -> [Node -> Conn \cup {None}]]
  /\ peerAddrs \in [Node -> SUBSET Node]
  /\ addrToNode \in [Node -> SUBSET Node]
  /\ missing \in [Node -> SUBSET Node]
  /\ incoming \in [Node -> Seq(Envelope)]
  /\ conn \in [Conn -> [from : Node \cup {None}, to : Node \cup {None},
                        by : {"none", "Connect", "reconnect"},
                        end : [Node -> {"none", "greeting", "up", "closing", "shut"}],
                        wire : [Node -> Seq(Message)]]]
  /\ faults \in 0 .. MaxFault
  /\ sent \in SUBSET Message
  /\ received \in [Node -> Seq(Envelope)]

(* The table holds the connections that are up and no other: an entry has a  *)
(* readLoop that will remove it, and no readLoop outlives its entry on an    *)
(* open socket, whichever of two connections registers first and however     *)
(* late a replaced readLoop ends (registerLocked and readLoop's "cur == tc", *)
(* transport_tcp.go:207-219, 297-304).                                       *)
TableExact ==
  \A n \in Node, c \in Conn :
    conn[c].end[n] = "up" <=> \E p \in Node : conns[n][p] = c

(* No readLoop is left to send on incoming once Close has closed it, although *)
(* setupConn may be waiting for a handshake while Close runs                  *)
(* (transport_tcp.go:172-176, 189-192, 367-370).                              *)
NoSendOnClosed ==
  \A n \in Node, c \in Conn : phase[n] = "closed" => ~Reading(n, c)

(* To its node the transport is a network that loses and delays messages but *)
(* delivers none twice, whatever connections are replaced or break           *)
(* (transport_tcp.go:25-33).                                                 *)
ImplementsNetwork == Net!Spec

(* Any two open nodes end up with one connection that both have registered,  *)
(* although they dial each other at the same time and decide alone which of  *)
(* the connections to keep (transport_tcp.go:204-206), provided that no node *)
(* is dialled at an address it does not advertise (Alias is empty).          *)
Converges ==
  <>[](\A n, p \in Node :
         n < p /\ phase[n] = "open" /\ phase[p] = "open" =>
           conns[n][p] # None /\ conns[n][p] = conns[p][n])

(* Close returns: every loop it waits for ends (transport_tcp.go:367-370). *)
CloseTerminates == []<>(\A n \in Node : phase[n] # "closing")
=============================================================================
