---------------------------- MODULE Forwarding -----------------------------
(***************************************************************************)
(* The data plane (SRC/main.c: handle_receive_from_server,                 *)
(* handle_receive_data_msg) while Updates goes on: packets are on their    *)
(* way while cables break, leaves restart and the tables they are          *)
(* forwarded by change between two hops.                                   *)
(*                                                                         *)
(* Which of the available ports the hash of the addresses picks, and which *)
(* port comes first in the accepted table, is left open.  A packet may     *)
(* overtake another, or an update, that waits at the same port.            *)
(***************************************************************************)
EXTENDS Updates

CONSTANTS
  Packet,  \* the packets that servers send
  Src,     \* the leaf that serves the sender of each packet
  Dest,    \* the third octet of each packet's destination
  MaxSent  \* bound on the packets sent

ASSUME PacketAssumption == Src \in [Packet -> Leaf] /\ Dest \in [Packet -> Nat]
ASSUME SentAssumption == MaxSent \in Nat

VARIABLES
  sent,       \* the packets that servers have sent
  flight,     \* the frames that wait to be received on a port
  delivered,  \* which packet was given to the servers of which leaf
  dropped,    \* the packets that got lost
  calm        \* history: those sent when all was quiet, with nothing since

data == <<sent, flight, delivered, dropped, calm>>
allVars == <<vars, data>>

(* A copy of packet k waits on a port, after so many cables.               *)
Frame == [id : Packet, port : Port, hops : Nat]

Ids(frames) == {f.id : f \in frames}

(* Another leaf serves the destination of packet k.                        *)
HasLeaf(k) == \E n \in Leaf : n # Src[k] /\ Root[n] = Dest[k]

DataInit ==
  /\ sent = {} /\ flight = {} /\ delivered = {} /\ dropped = {} /\ calm = {}

(* Packet k leaves through port p; a cut cable loses it.                   *)
Transmit(k, p, hops, rest) ==
  IF p \in cut
  THEN /\ flight' = rest
       /\ dropped' = dropped \cup {k}
  ELSE /\ flight' = rest \cup {[id |-> k, port |-> Peer[p], hops |-> hops]}
       /\ dropped' = dropped

Drop(k, rest) ==
  /\ flight' = rest
  /\ dropped' = dropped \cup {k}

(* Variant: data leave through every available port.                       *)
FromServer_EveryPort(k) ==
  LET ports == Available(Src[k], Dest[k])
  IN  /\ k \notin sent /\ Cardinality(sent) < MaxSent
      /\ sent' = sent \cup {k}
      /\ flight' = flight \cup {[id |-> k, port |-> Peer[p], hops |-> 1] : p \in ports \ cut}
      /\ dropped' = IF ports \subseteq cut THEN dropped \cup {k} ELSE dropped
      /\ calm' = IF Quiet /\ ports # {} /\ HasLeaf(k) THEN calm \cup {k} ELSE calm
      /\ UNCHANGED <<vars, delivered>>

(* handle_receive_from_server on a leaf: up on an available port.          *)
FromServer(k) ==
  LET ports == Available(Src[k], Dest[k])
  IN  /\ k \notin sent /\ Cardinality(sent) < MaxSent
      /\ sent' = sent \cup {k}
      /\ \/ ports = {} /\ Drop(k, flight)
         \/ \E p \in ports : Transmit(k, p, 1, flight)
      /\ calm' = IF Quiet /\ ports # {} /\ HasLeaf(k) THEN calm \cup {k} ELSE calm
      /\ UNCHANGED <<vars, delivered>>

(* handle_receive_data_msg on a leaf: whatever arrives goes to the servers.*)
ToServer(f) ==
  LET n == NodeOf(f.port)
  IN  /\ n \in Leaf
      /\ delivered' = delivered \cup {<<f.id, n>>}
      /\ flight' = flight \ {f}
      /\ UNCHANGED <<vars, sent, dropped, calm>>

(* Variant: data from above may go up again.                               *)
Forward_UpAgain(f) ==
  LET n == NodeOf(f.port)
      k == f.id
      ports == NextHops(n, Dest[k]) \cup Available(n, Dest[k])
  IN  /\ n \notin Leaf
      /\ \/ ports = {} /\ Drop(k, flight \ {f})
         \/ \E p \in ports :
              IF up[p] THEN Transmit(k, p, f.hops + 1, flight \ {f})
                       ELSE Drop(k, flight \ {f})
      /\ UNCHANGED <<vars, sent, delivered, calm>>

(* Variant: data for a root below that no port in use leads to are kept.   *)
Forward_Waits(f) ==
  LET n == NodeOf(f.port)
      k == f.id
  IN  /\ n \notin Leaf
      /\ \E p \in Up(NextHops(n, Dest[k]), up) :
           Transmit(k, p, f.hops + 1, flight \ {f})
      /\ UNCHANGED <<vars, sent, delivered, calm>>

(* handle_receive_data_msg on a spine: on the port that leads down to the  *)
(* destination if there is one, up if there is none, away if the port is   *)
(* down or no port is available.                                           *)
Forward(f) ==
  LET n == NodeOf(f.port)
      k == f.id
      ports == NextHops(n, Dest[k])
  IN  /\ n \notin Leaf
      /\ \/ ports = {} /\ Drop(k, flight \ {f})
         \/ \E p \in ports :
              IF up[p] THEN Transmit(k, p, f.hops + 1, flight \ {f})
                       ELSE Drop(k, flight \ {f})
      /\ UNCHANGED <<vars, sent, delivered, calm>>

(* A restarted leaf loses the frames that wait in its socket, and what was *)
(* calm is no longer so when something breaks or is mended.                *)
Disturb ==
  /\ \/ /\ \E p \in Port : Cut(p) \/ Mend(p)
        /\ UNCHANGED <<flight, dropped>>
     \/ \E n \in Leaf :
          /\ Restart(n)
          /\ flight' = {f \in flight : NodeOf(f.port) # n}
          /\ dropped' = dropped \cup Ids(flight \ flight')
  /\ calm' = calm \ Ids(flight)
  /\ UNCHANGED <<sent, delivered>>

Handle == \E f \in flight : ToServer(f) \/ Forward(f)

DataNext ==
  \/ (\E n \in Node : Loop(n)) /\ UNCHANGED data
  \/ Disturb
  \/ \E k \in Packet : FromServer(k)
  \/ Handle

DataSpec == Init /\ DataInit /\ [][DataNext]_allVars

(* A switch takes the frames that wait in its socket.                      *)
DataFairSpec == DataSpec /\ WF_allVars(Handle)

-----------------------------------------------------------------------------

DataTypeOK ==
  /\ sent \subseteq Packet
  /\ flight \subseteq Frame
  /\ delivered \subseteq Packet \X Leaf
  /\ dropped \subseteq Packet
  /\ calm \subseteq Packet

(* Whatever the tables say meanwhile, data reach the servers of no leaf    *)
(* but their own; a leaf does not look at the destination of what arrives. *)
RightLeaf == \A d \in delivered : Root[d[2]] = Dest[d[1]]

(* Data never go round: they climb, and once they descend they do not      *)
(* climb again, so they cross at most the cables up to some switch and     *)
(* back down.                                                              *)
NoLoop == \A f \in flight : \E t \in Node : f.hops <= 2 * (Tier[t] - 1)

(* Data that are let in while all is quiet arrive, unless something breaks *)
(* or is mended while they are on their way, with the exceptions that      *)
(* NoBlackHole makes.                                                      *)
CalmArrives ==
  \A k \in calm \cap dropped :
    \/ Dest[k] = 0
    \/ \E n \in Leaf : Root[n] = Dest[k] /\ {Src[k], n} \subseteq restarted

(* The fabric keeps its promise to the servers: a packet leaves the fabric *)
(* once, and where it belongs.  Data for root 0 belong nowhere.            *)
Service ==
  INSTANCE DataService WITH
    Routable <- {k \in Packet : Dest[k] \in RootVID \ {0}},
    inFlight <- Ids(flight),
    arrived  <- {d[1] : d \in delivered},
    lost     <- dropped

ImplementsDataService == Service!Spec

(* No packet stays in the fabric for ever.                                 *)
EveryPacketEnds == \A k \in Packet : k \in Ids(flight) ~> k \notin Ids(flight)
=============================================================================
