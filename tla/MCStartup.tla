----------------------------- MODULE MCStartup -----------------------------
(* Startup with every file of up to three lines, in every order, and with    *)
(* machines that have no, one or two networks to serve.                      *)
EXTENDS Startup

Line(key, word, num) == [key |-> key, value |-> [word |-> word, num |-> num]]

Lines == { Line("tier", "other", 1), Line("tier", "other", 2),
           Line("tier", "other", 257),
           Line("isLeaf", "true", 0), Line("isLeaf", "True", 0),
           Line("isTopSpine", "True", 0), Line("isTopSpine", "other", 0) }

FilesOfThree == UNION {[1 .. n -> Lines] : n \in 0 .. 3}

Link(name, up) == [name |-> name, family |-> "PACKET", isUp |-> up, octet |-> 0]
Inet(name, octet) == [name |-> name, family |-> "INET", isUp |-> TRUE, octet |-> octet]

(* The kernel lists the links before the addresses.                        *)
Machine == <<Link("lo", TRUE), Link("eth0", TRUE), Link("eth1", TRUE),
             Link("eth2", FALSE), Link("eth3", TRUE)>>
Machines ==
  { Machine \o <<Inet("lo", 0), Inet("eth0", 5)>> \o served :
      served \in { <<>>,
                   <<Inet("eth1", 0)>>, <<Inet("eth1", 7)>>, <<Inet("eth3", 10)>>,
                   <<Inet("eth1", 121), Inet("eth1", 12)>>,
                   <<Inet("eth1", 1), Inet("eth3", 12)>> } }
=============================================================================
