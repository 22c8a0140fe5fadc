---------------------------- MODULE DataService ----------------------------
(***************************************************************************)
(* What a CMTP fabric promises to the servers, whatever breaks: a packet   *)
(* is delivered to the network of its destination at most once, or lost;   *)
(* it is never made twice of, and none is made up.                         *)
(***************************************************************************)
CONSTANTS
  Packet,   \* the packets that servers send
  Routable  \* those of them that some leaf serves and the switches can find

VARIABLES
  inFlight,  \* the packets on their way
  arrived,   \* those that were delivered where they belong
  lost       \* those that were dropped

service == <<inFlight, arrived, lost>>

Init == inFlight = {} /\ arrived = {} /\ lost = {}

(* The packet k enters the fabric, or is dropped at once.                  *)
Accept(k) ==
  /\ k \notin inFlight \cup arrived \cup lost
  /\ \/ /\ inFlight' = inFlight \cup {k}
        /\ lost' = lost
     \/ /\ lost' = lost \cup {k}
        /\ inFlight' = inFlight
  /\ arrived' = arrived

Deliver(k) ==
  /\ k \in inFlight \cap Routable
  /\ inFlight' = inFlight \ {k}
  /\ arrived' = arrived \cup {k}
  /\ lost' = lost

(* Packets are lost, several at once when a leaf stops.                    *)
Lose(K) ==
  /\ inFlight' = inFlight \ K
  /\ lost' = lost \cup K
  /\ arrived' = arrived

Next ==
  \/ \E k \in Packet : Accept(k) \/ Deliver(k)
  \/ \E K \in SUBSET inFlight : Lose(K)

Spec == Init /\ [][Next]_service
=============================================================================
