------------------------------- MODULE Trees -------------------------------
(***************************************************************************)
(* The meshed trees of VIDs: who has which VID, which VIDs a switch may    *)
(* hand to its neighbour, and what makes the trees usable.  MeshedTree     *)
(* specifies how they grow, and Join how CMTP's messages grow them.        *)
(***************************************************************************)
EXTENDS Fabric

(* granted[q] is the set of all the VIDs that port q has ever accepted.    *)
(* It is never taken back: a switch that restarts forgets its tables, but  *)
(* the frames that carry its old VIDs may still be around.                 *)
VARIABLE granted

(* The VIDs a switch has, or had before it was restarted.                  *)
Held(n) ==
  (IF n \in Leaf THEN {<<Root[n]>>} ELSE {})
    \cup UNION {granted[q] : q \in PortsOf(n)}

(* What the switch behind port q may hand to it.                           *)
Extensions(q) == {Extend(v, Peer[q]) : v \in Held(NodeOf(Peer[q]))}

(* Port q is granted the VIDs V, some of what is behind it.                *)
Grant(q, V) ==
  /\ LooksDown(q)
  /\ V \subseteq Extensions(q)
  /\ granted' = [granted EXCEPT ![q] = @ \cup V]

-----------------------------------------------------------------------------

GrantedTypeOK == granted \in [Port -> SUBSET VID]

(* A VID names one switch, and one port of it: no VID is ever accepted on  *)
(* two ports, and no root VID is ever accepted at all.  The data plane     *)
(* finds the way to a VID by that name alone (handle_receive_data_msg).    *)
UniqueVID ==
  /\ \A q, r \in Port : granted[q] \cap granted[r] # {} => q = r
  /\ \A q \in Port, n \in Leaf : <<Root[n]>> \notin granted[q]

(* A VID has as many octets as its switch's tier, so the tier that a       *)
(* HelloNR claims (get_tier_from_hello_message counts dots) is the         *)
(* sender's configured tier.                                               *)
TierIsDepth ==
  \A q \in Port : \A v \in granted[q] : TierOf(v) = Tier[NodeOf(q)]
=============================================================================
