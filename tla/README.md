# A verification of CMTP

CMTP is a C implementation of the Meshed Tree Protocol for data centre networks:
every switch of a folded-Clos fabric runs one program that builds trees of
virtual identifiers (VIDs) rooted at the leaves, watches its cables with
keep-alives, tells its neighbours about failures, and forwards data by VID. This
directory models that program in TLA+, checks the models with TLC on small
fabrics, and proves their main safety properties with TLAPS for every fabric.

All source paths below are relative to `src/SRC/`.

## 1. The system

Each switch is one sequential process (`main.c:232-427`). A turn of its loop takes at
most one MTP frame, on a leaf also one IP frame from a server, and then checks every
control port; a frame on the management interface eth0 ends the turn before the check.
There are no threads; concurrency is between switches, which share
nothing but cables.

| Component | Where | State | Operations | Interacts by |
|---|---|---|---|---|
| configuration and start-up | `config.c`, `main.c:146-213`, `mtp_utils.c:47-74` | tier, isLeaf, isTopSpine, compute and control interfaces, root VID | read the file, sort the interfaces, make and announce the root VID | what the rest starts from |
| join handshake | `main.c:206-213, 456-541`, `mtp_struct.c:350-399, 495-546` | accepted table (`vap`), offered table (`vop`), `isUP`/`start` of ports | HelloNR, JoinReq, JoinRes, JoinAck, StartHello | messages; opens ports for the keep-alives |
| keep-alives and port check | `main.c:308-426, 634-697` | `isUP`, `start`, `fail_type`, `continue_count`, two time stamps per port | send, receive, miss, interface down/back, recover | messages and clock; triggers updates |
| failure and recovery updates | `main.c:327-357, 381-412, 655-691, 699-837` | unreachable (`ut`) and reachable (`rt`) table per port | tell on failure, tell on recovery, handle from below / from above | messages; read by the data plane |
| data plane | `main.c:544-632, 839-878`, `mtp_struct.c:405-433, 548-570` | none of its own; refreshes the time stamps | forward down by accepted VID, or up by hash | reads all tables |
| VID text | `mtp_utils.c:77-142` | none | append a port, cut at a dot, count dots, number to text, find by prefix | called by all handlers |
| hash | `mtp_utils.c` | none | Jenkins hash of two addresses | picks one of the available ports |
| compute interfaces | `config.c`, `mtp_struct.c`, `mtp_send.c:40` | list of compute interfaces | add, send to the first | data plane of a leaf |
| frames, scratch arrays | `mtp_build.c`, `mtp_utils.c:97-109`, `main.c:131-144` | `temp_2d_array` | encode, decode | used by all handlers |
| sockets, clock | `mtp_send.c`, `mtp_utils.c` | | send, receive, time | I/O |
| notification table | `mtp_struct.c:600-664` | | | called by nobody |
| logger, printing, stop log | `logger.c`, `print_*`, `main.c:431-454` | | | output only |

### What is hard about it, and what makes it correct

* **Join.** Every VID takes a four-message handshake on every cable, each message is sent
  once and never repeated, and handshakes of many VIDs cross. A restart leaves frames and
  neighbours' tables from an earlier life around. Correct: a VID names one port of one
  switch and shows its tier (the protocol decides by both); the two ends of a cable agree
  on what was offered; all the trees are complete in the end if no frame is lost.
* **Keep-alives.** Two ends judge each other by silence, with losses, delays, data that
  stand in for keep-alives, and two kinds of failure with one counter. Correct: no
  false alarm within the margin of the timers, a dead peer is noticed, a port that was shut
  down can recover. Each VID that is joined later sends a StartHello that opens the upper end anew,
  whatever is on record of it. The code has two states that a cable does not leave by itself; they are
  characterised (`Silent`, `HalfOpen`) and everything else is shown to settle.
* **Updates.** A switch turns what its ports tell it into what it tells other ports, in any
  order. Correct: when the updates are through, data are neither lost in a black hole nor
  dropped while there is a way, tables are empty when the fabric is whole, and updates do
  not go round in circles.
* **Data plane.** Packets are forwarded by tables that change between two hops. Correct:
  whatever the tables say, a packet is in one place, does not go round, and reaches no leaf
  but its own; if nothing happens meanwhile it arrives.
* **Restart of a leaf in a running fabric.** It joins again without the updates that a
  failure brings. Correct: the others can still reach it and it them, except where the code
  keeps what was said of its earlier life (section 4).
* **Text and configuration.** Numbers become text and back, with boundaries such as a VID 0;
  lines of the file override each other; an interface must not be both a server's and a
  switch's.

PROJECT.json lists each hazard at its line with the properties that address it.

## 2. Modules

| Module | Models | State and actions against the code |
|---|---|---|
| `Fabric` | the wiring and VIDs | constants with assumptions; a port is `<<switch, k>>` for "eth k", a VID the sequence of its octets |
| `Trees` | who may have which VID | `granted`: all VIDs a port has ever accepted; `UniqueVID`, `TierIsDepth` |
| `MeshedTree` | the abstract promise of the join | one step: a port is granted extensions of VIDs held below it |
| `Join` | the handshake, start-up, SIGINT, lost frames | `accepted` = `vap`, `offered` = `vop`, `started` = `isUP` and `start` (always set together here); one action per handler |
| `KeepAlive` | the two control ports of one cable, with time | fields of `struct control_port`; `Take`.. = a receive, `Check` = the port check with its branches `DetectFail`, `MissFail`, `SendKeepAlive`, `SendNothing`; `ReceiveJoinRes`, `ReceiveJoinAck`, `ReceiveStartHello` = the end of a further handshake, as far as the ports go |
| `Updates` | failures, recoveries and updates in a meshed fabric, restarts of leaves | `up` = `isUP`, `ut`, `rt`; `PortFails`, `PortRecovers`, one action per handler and direction; the data plane as functions of the tables, where `Listed` is what becomes of a lookup by the text of `int_to_str` |
| `DataService` | the abstract promise of the data plane | a packet is accepted, then delivered where it belongs once, or lost |
| `Forwarding` | packets on their way while `Updates` goes on | `FromServer` = `handle_receive_from_server`, `ToServer` and `Forward` = `handle_receive_data_msg` on a leaf and on a spine |
| `VIDText` | the text of VIDs and the payload of frames, character by character | one operator per function |
| `Startup` | the start of one switch, and the climb of its VID | one action per line of mtp.conf and per address of `getifaddrs`; `GetRootVID`, `Climb` |
| `MCJoin`, `MCUpdates`, `MCForwarding`, `MCStartup` | fabrics and machines for TLC | Diamond, Stem; Pods, Twin; Square; files and lists of addresses |
| `TreesProofs`, `JoinProofs`, `KeepAliveProofs`, `UpdatesProofs`, `ForwardingProofs`, `StartupProofs` | theorems about the module of that name | section 5 |
| `JoinRestProofs` | why a fabric at rest is meshed; extends `JoinProofs` | section 5 |
| `OneFaultProofs` | why failures one at a time do no harm; extends `UpdatesProofs`, and `ForwardingProofs` extends it | section 5 |

`MeshedTree` and `Join` extend `Trees`, which extends `Fabric`; `Updates` extends `Fabric`,
`Forwarding` extends `Updates` and composes with it: its steps are those of `Updates` with the
packets unchanged, and packets' own; `Startup` extends `VIDText`; `KeepAlive` stands alone.
`Join` instantiates `MeshedTree` for the refinement: the history variable `granted` is shared,
so the mapping is the identity on it. `Forwarding` instantiates `DataService` with what is in
flight, delivered (forgetting at which leaf) and dropped; its history variable `calm` collects
the packets that are sent in a quiet fabric and not disturbed since. The models hand over
to each other at states the code reaches: `Startup` ends with the loop and a VID that climbs,
`Join` starts with every switch about to start its loop, `KeepAlive` when the lower end has
handled its JoinAck, `Updates` when the fabric is `Meshed`. What one model takes as a constant
another establishes: the assumptions of `Fabric` on VIDs as sequences of numbers are
`TextIsVID`, and that failures are noticed and mended as `Updates` has it is
`DeadPeerNoticed` and `Settles`.

Abstractions common to all: a list kept in a table is a set (the add functions skip what is
there, and no handler depends on the order except the choice of the first port in
`handle_receive_data_msg`, for which `Arrives` demands every choice to be good); frames are
records; the frames that wait at a port are one FIFO sequence per port, so that frames of
different ports are handled in any order; printing is left out. Definitions whose name
carries a suffix after an underscore and whose comment starts with "Variant" are
deliberately wrong versions, used to show that a property notices the mistake.

What the models leave open and assume:

* `Join`: links do not fail during the handshake (`KeepAlive` takes over when they open).
  A frame sent to a switch that does not run counts as lost.
* `KeepAlive`: a switch's loop is fast compared with a tick; time does not pass while a check
  has something to do or a frame has waited `MaxDelay` ticks. The exception is eth0: its
  frames may keep a switch from its check for `MaxBusy` ticks in all. The port is examined
  with a receive in between too, since a leaf looks for IPv4 frames of eth0 after a handler.
  Of the handshakes that follow the first (`MaxJoins`) only the frames that reach a port are there: a
  JoinRes makes the upper end answer, the JoinAck makes the lower end send a StartHello
  (`main.c:531`), and that opens the upper end and leaves `fail_type` (`main.c:538-540`), whether the
  reason is a second VID or a lower switch that was restarted. The restart itself, which begins with
  fresh ports, is not in the model: to the other end it is a silence and one more handshake.
* `Updates`: a cable that fails and comes back is one that `KeepAlive` recovers, i.e. the
  interface of one end was down. Where both ends miss each other no keep-alive is sent again, so
  that the lower end stays down; the StartHello of a later handshake puts the upper end into use
  again but does not end the silence (`SilenceLasts` in `KeepAlive`), and `Updates` leaves this case out.
  `TakeStartHello` may open a port that has a miss on record, which the next keep-alive clears; the port
  check passes over it until then, so a cable that fails within that time fails unnoticed. This is
  `DeadPeerNoticed`'s exception in `KeepAlive`; `Updates` cuts a cable only after it.
  An update on a cut cable is lost. VIDs are their roots, as `get_all_VIDs` cuts them; a
  destination is looked up by the text of `int_to_str`, which is empty for 0, so that root 0 is never
  found among the accepted VIDs nor in a reachable or unreachable table (`Listed`).
  A leaf that restarts has empty tables; `joined` holds its ports that have offered its VID
  again, and the ports across that hear it again. The handshake of a cable, which `Join` has
  in full, is one step (`TakeJoinAck`) and its StartHello another (`TakeStartHello`); the
  spine may or may not give the port up in between, by how long the leaf takes. Cables are
  cut only when no handshake is under way, and a leaf is restarted when its cables are whole.
* `Forwarding`: the port that the hash picks, the first of several ports in the accepted table
  and the order of a port's data and updates are left open, so every choice must be right. At most
  `MaxSent` of the packets are sent.
* `VIDText`: a frame has at most the ten VIDs that `temp_2d_array` has slots for (`Slots`). The code
  writes a longer list past them; what comes of that is not modelled.
* `Startup`: the file exists and each line has a key and a value. That an address is missing
  for the compute interface is a choice of any octet.

## 3. Runs

| Run | Fabric and bounds | Shows |
|---|---|---|
| `MCJoin` | Diamond; no loss, 1 switch stopped; fair | `UniqueVID`, `RestIsMeshed`, `Converges`: a top spine obtains two VIDs of one root over two ways, in every order of handshakes, and again after a leaf was restarted at any moment |
| `MCJoinFaults` | Stem; 1 frame lost, 1 switch stopped | types, `TierIsDepth`, `OfferedIsAccepted`, `OneVIDPerFrame`, `UpperOpensLast`, `ImplementsMeshedTree` |
| `MCKeepAlive` | Hello 2, Dead 5 ticks (100 and 250 ms), 4 losses, 1 outage, 1 further handshake, no eth0, no data; fair | types, `RecoveryArmed`, `FailedLowerIsDown`, `NoFalseAlarm`, `SilenceLasts`, `DeadPeerNoticed`, `Settles` |
| `MCKeepAliveData` | Hello 1, Dead 4, data, delay of a tick, 2 losses, 1 tick of eth0, 1 further handshake | `NoFalseAlarm` when data replace keep-alives; the margin has room for one loss, or for the tick of eth0 |
| `MCThreeInARow` | as `MCKeepAlive` | a violation, see section 6 |
| `MCUpdates` | Pods, leaf B with root 0; 2 faults, a cut or a restart of leaf A or C, a restart when all cables are whole and all is settled, a cut when no restart has left anything blocked either (a mend may come at any time) | `NoBlackHole`, `NoNeedlessDrop`, `HealedIsClean` |
| `MCUpdatesOverlap` | Twin; 2 faults that overlap freely, cuts or a restart of C with updates under way; fair | types, `ReachableIsBelow`, `UpdatesWearOff`, `Quietens` |
| `MCForwarding` | Square, leaf A with root 0; a packet from A to C or from C to A, a cut or a restart of C; fair | `RightLeaf`, `NoLoop`, `CalmArrives`, `ImplementsDataService`, `EveryPacketEnds` |
| `MCStartup` | files of up to three lines, machines with no, one or two IPv4 interfaces, octets 0 to 121, ports 2 and 10, three tiers | types, `LastLineCounts`, `OneNetwork`, `TextIsVID`, `DataFindTheirRoot`, `FramesCarry` |
| `MCDumpsUnreachable`, `MCBlockedGoesDown` | Twin; 1 cut, 2 cuts | violations, see section 6 |
| `MCAppropriateServer` | as `MCStartup` | a violation, see section 6 |

Why the bounds are enough to be interesting: three tiers are the least at which a VID is
extended twice and a spine is both above and below; the Diamond has two ways between a root
and a top spine, the Stem two roots on a port, Pods two ways between leaves and spines that
can be cut off, Twin a spine with a choice of uplinks, Square two spines that hear of each
other's failures from above while a packet is on its way. Packets do not meet in the code, so
one is enough, and root 0 is the one that the tables are never found to have. Octets with one, two and three digits, and 0, are the cases `int_to_str`
distinguishes; 1, 12 and 121 are prefixes of each other, 10 is a port with two digits. Files of three
lines have a line isLeaf before, between and after lines tier, and repeat lines. A leaf
that restarts with another one restarted before is the least case in which something
remembered is forgotten, which takes both faults of `MCUpdates`. The dead timer forgives one
lost keep-alive, so four losses are the least at which both ends can miss each other; the outage or a miss before
the further handshake is the least with which a StartHello finds a failure on record. The
mutants, one per property and run, show that the case each property guards against happens.
`MCJoin`, `MCUpdates` and `MCForwarding` also state, as assumptions that TLC evaluates, which
premises of the theorems their fabrics satisfy.

`CHECK_DEADLOCK FALSE` is set where the system rightly comes to rest: a meshed fabric with no
frames under way, and a fabric with all cuts used up. `KeepAlive` never rests and is checked
for deadlock.

### Fairness

A program polls its sockets without blocking in an endless loop, so a frame that waits is
taken and a check that is due is made. In `KeepAlive` each end's receive and check, and time,
are weakly fair. The other models need less: in `Join` and `Updates` some switch takes a step
while some switch can, in `Forwarding` some waiting packet is handled. This is less than what
a loop on every switch provides. Losses, cuts, mends, stops, restarts of leaves in `Updates`,
interfaces, eth0 and data are never fair: nothing obliges them to happen. (The start of a
stopped program in `Join` is part of the fair work, since a switch that stays off cannot mesh.)

## 4. Conditions on properties, and why

* `Converges` asks for no lost frame and no stopped spine: with either the code has no way to
  complete the tree (HelloNR is sent once, and a spine announces nothing when it starts). A
  leaf that restarts starts the climb again.
* `UpperOpensLast` and half of `OfferedIsAccepted` ask that the switch (or every switch) was
  never stopped: a JoinAck from before a restart makes the lower end send a StartHello which
  opens the restarted upper end without any VID.
* `NoFalseAlarm` asks for `Hello * (lost + 1) + MaxDelay + busy < Dead`; with 100 and 250 ms that
  is one lost frame, or 100 ms in which eth0 keeps a switch from its checks.
* `FailedLowerIsDown` says that a lower end with a failure on record is out of use. An upper end may be in
  use with one, as a later StartHello opens it and leaves the failure. The port check then goes
  by such a port (`main.c:367`) before it looks at the dead timer. So if the neighbour dies before its
  next keep-alive, which would clear the record, nobody notices, and `DeadPeerNoticed` makes an exception of a
  port with a miss on record. For the same reason `SilenceLasts` lets one step end the mutual silence:
  the interface of a port that was put back into use fails, which replaces the miss on record by a
  failure that the return of the interface clears.
* `Settles` admits that a cable ends `Silent` or `HalfOpen`: nothing but a fault or a further handshake ends
  these.
* `Settles` is checked without data. With data it fails: data refresh `last_sent_time`, so an end
  with steady traffic sends no keep-alive, and a peer whose port is down needs three of them.
* `NoBlackHole`, `NoNeedlessDrop` and `HealedIsClean` are about failures one at a time. With
  overlapping failures they fail for reasons the code shows plainly: an update that could not be
  sent on a port that was down is not kept (the calls that would store it are commented out,
  `main.c:673, 686`), a port that is down counts as clean (`mtp_struct.c:469`), and a list of
  reachable roots does not clear the unreachable table (`main.c:733` is commented out).
* The same three make exceptions for leaves that were restarted. If the leaf takes so long that
  its port across is given up, the fabric is told that its root is unreachable; the StartHello
  that opens the port again tells nobody (`main.c:533-541`), so what is blocked on the way to the
  leaf stays blocked (`NoNeedlessDrop`, `HealedIsClean`). A leaf that restarts also forgets
  what is blocked, so it may send data towards a leaf restarted before it (`NoBlackHole`,
  `CalmArrives`).
* What stays blocked after such a restart also adds to the next failure. On Twin, if a leaf was
  given up while it restarted and later a cable to another one is cut, each of two spines may be
  blocked for a reason of its own, and a leaf finds a black hole or drops data that had a way. So
  one at a time means (`NothingLeft`) that after a restart a cable is cut only when nothing is
  blocked; without that `NoBlackHole` and `NoNeedlessDrop` fail with four faults on Twin. Further
  leaves may restart on top of what is left.
* They also ask for the shape of a folded Clos, in which the spines of a pod do not share a top
  spine (Pods). Where they do (Square), a spine hears of the other's failure from above and
  tells its leaves to block a root it can reach directly, so `NoNeedlessDrop` fails with a single
  cut; `MCForwarding` therefore checks what does not depend on it.
* `Arrives` and `HasWay`, by which these properties speak of data, are stated by sets of switches:
  data arrive if they stay within a set none of whose members loses them, and there is a way
  unless they are confined to a set without the leaf of the root. That data do not go round
  within such a set is `NoLoop`.
* `CalmArrives` is about packets sent in a quiet fabric and not disturbed on their way: data
  that meet an update may be dropped.
* `DataFindTheirRoot` makes an exception of root 0: `int_to_str` yields the empty text for it, so
  such data find no VID at all. They are sent up until a top spine, which has no offered port,
  drops them. So `NoBlackHole`, `NoNeedlessDrop` and `CalmArrives` are about destinations other than 0,
  in fabrics where a leaf may well have that root. `RightLeaf`, `NoLoop` and `ImplementsDataService` make no
  exception: such data are lost, and nothing worse.
* `LastLineCounts` describes what a file means when its lines contradict each other: the line tier
  decides isLeaf again, so a line isLeaf counts only after the last line tier, and then even a switch
  of tier 2 may take itself for a leaf.
* `FramesCarry` is about lists of up to ten VIDs, the slots of the receiver.
* `OneNetwork` is about leaves with one IPv4 interface besides eth0 and lo. With two, the first
  is also a control interface and gets the data, the last one gives the root VID (section 6).

## 5. Theorems

All theorems hold for every value of the constants that satisfies the assumptions stated in
`Fabric`, `Join`, `KeepAlive`, `Updates`, `Forwarding` and `Startup`: any number of switches, tiers,
ports and leaves with distinct roots, any timers with Hello < Dead, any bounds on faults, any
packets, any files and any addresses. `Startup` bounds how far a VID climbs: its text has to fit
the 64 characters of `VID_LEN` (`VIDsFit`, `mtp_utils.h:49`), which the code does not check. Where a theorem asks for more, the table says so:

* *top last*: `TopIsLast`, top spines have nobody above them;
* *Clos*: `FoldedClos`, there are three tiers, of which the top spines are the third, at most one
  cable joins two switches, and no spine is without an uplink;
* *tops reach all*: `TopsReachAll`, every top spine leads down to every leaf;
* *planes*: `PlanesApart`, spines below one top spine lead to different leaves;
* *one at a time*: `OneAtATime`, a leaf is restarted when all cables are whole and everything is
  settled, and a cable is cut when, besides, no restart has left anything blocked (section 4).

| Theorem | Statement | Asks for |
|---|---|---|
| `JoinProofs!TypeCorrect` | `Spec => []TypeOK` | |
| `JoinProofs!VIDsName`, `TierShown` | `Spec => []UniqueVID`, `Spec => []TierIsDepth` | |
| `JoinProofs!EndsAgree` | `Spec => []OfferedIsAccepted` | |
| `JoinProofs!UpperLast` | `Spec => []UpperOpensLast` | |
| `JoinProofs!OneVID` | `Spec => []OneVIDPerFrame` | |
| `JoinProofs!Refinement` | `Spec => ImplementsMeshedTree` | |
| `JoinRestProofs!RestMeshes` | `Spec => []RestIsMeshed` | top last |
| `JoinRestProofs!HandsOver` | `Spec => []RestLeadsDown` | top last |
| `KeepAliveProofs!TypeCorrect`, `CanRecover`, `FailedLowerOutOfUse` | `TypeOK`, `RecoveryArmed`, `FailedLowerIsDown` | |
| `KeepAliveProofs!NobodyMissesAWorkingCable` | `Spec => []NoFalseAlarm` | |
| `KeepAliveProofs!NobodySpeaksAgain` | `Spec => SilenceLasts` | |
| `UpdatesProofs!TypeCorrect`, `ListsNameWhatIsBelow` | `TypeOK`, `ReachableIsBelow` | |
| `UpdatesProofs!NothingCircles` | `Spec => UpdatesWearOff` | |
| `OneFaultProofs!OneFaultInvariance` | `Spec => []OneFault` | Clos, one at a time |
| `OneFaultProofs!NothingStaysBlocked` | `Spec => []HealedIsClean` | Clos, one at a time |
| `OneFaultProofs!NoPickIsLost` | `Spec => []NoBlackHole` | Clos, tops reach all, one at a time |
| `OneFaultProofs!NoNeedlessBlock` | `Spec => []NoNeedlessDrop` | Clos, tops reach all, planes, one at a time |
| `ForwardingProofs!DataReachTheirLeaf` | `DataSpec => []RightLeaf` | |
| `ForwardingProofs!DataNeverLoop` | `DataSpec => []NoLoop` | |
| `ForwardingProofs!DataRefinement` | `DataSpec => ImplementsDataService` | |
| `ForwardingProofs!DataLeaveTheTablesAlone` | `DataSpec => Spec` | |
| `ForwardingProofs!CalmDataArrive` | `DataSpec /\ []NoBlackHole => []CalmArrives` | |
| `ForwardingProofs!CalmDataArriveInAClos` | `DataSpec => []CalmArrives` | Clos, tops reach all, one at a time |
| `StartupProofs!TypeCorrect`, `LastLineWins`, `ServersApart` | `TypeOK`, `LastLineCounts`, `OneNetwork` | |
| `StartupProofs!FrameInvariance` | `Spec => []VIDInFrame` | |
| `StartupProofs!TextsRead`, `RootsFound`, `FramesCarryThem` | `TextIsVID`, `DataFindTheirRoot`, `FramesCarry` | |

### Arguments

**Join.** None of the invariants is inductive alone, because handlers trust what
frames say. `IInv` adds `FramesOK`, which says of each kind of frame under way what its sender
knew: a HelloNR carries a VID its sender holds, a JoinReq one that the receiver holds if it comes
from above, a JoinRes an extension, a JoinAck what the upper end has been granted. It also adds
`TreesApart` (in `TreesProofs`): every granted VID extends, by the port number across the cable, a
VID held below. Uniqueness follows since the last octet and the rest of a VID determine port
and switch, by the tier. A step either leaves `granted` alone or is a `Grant`, which gives the
refinement.

**Rest.** The handshake of a VID on a cable is a token that is handed from frame to frame
(`Handshake`): announced, asked for, extended, accepted, recorded at both ends. `RestInv` says that
every VID of a running switch is somewhere along it on every cable to above (`OnItsWay`); each
handler that takes one frame of a handshake away sends the next or has recorded it. When no
frame is left only the last stage is, so the tables of both ends are full. This needs *top last*:
a top spine announces nothing, so a switch above one would never hear of its VIDs. `HandsOver`
says of such a state what `Updates` takes for granted at its start (`RootsAssumption`, and all
ports up and joined), so that the two models meet at states proved to exist.

**KeepAlive.** `IInv` is the types, `RecoveryArmed`, `FailedLowerIsDown` and `Placed`: a StartHello is
only ever on its way to the upper end, and a JoinAck to the lower one, so that no handshake opens
a lower end that was shut down. A port that was never open has nothing on record and was never
heard, which is why `FailedLowerIsDown` also says of a failure that the port had started and was heard.
For `NoFalseAlarm` a second invariant, `AInv`, bounds ages. The age of what an end last heard is at
most Hello for each frame lost or sign of life (keep-alive or data, `Sign`) still on the way, plus the
ticks that eth0 has cost, plus the time since the peer last sent (`Explained`); and while a frame waits,
at most Hello for each frame lost and one more, plus those ticks, plus the time the frame has
waited (`Expected`). The frames of a handshake wait in the same queue but are no signs of life,
so the signs are counted by the `Cardinality` of their places (`Waiting`). The first bounds the
age when no sign waits, as a peer sends within Hello ticks, the second when something does; both stay
below Dead within the margin of section 4. A failure on record would break the first, as an end
that has missed the other is silent, so that there is none (`Timely`) is part of the invariant.

**Updates.** `IInv` adds that every list of reachable roots under way names roots below its
sender (`SoundInbox`); a list is only built by a switch from its own accepted ports, since updates
that are passed on change their option; and that the set of restarted leaves is finite, which
the count of faults needs. `UpdatesWearOff` needs no invariant but the types. It is what makes
updates end: the order `Outranks` on ports is well founded (first by direction, then by tier), a
handler takes one update and adds some that are lower, and a multiset that shrinks so cannot
shrink for ever. That last step, from each move to the end of all, is liveness and stays on paper;
TLC checks `Quietens`.

**One fault.** A fault is a wave from the two ends of its cable `q` (`Wave(q)`). Who speaks of it, on
which ports, is fixed by the fabric: the switch of the upper end on all its other ports (`Source`),
top spines above that one to the other spines below them (`Relay`), any other spine to its leaves
(`Spread`), the lower end with a list of what it still reaches (`LowerEnd`). So every port hears of the
fault from one speaker only. What a speaker has to say at the moment is a function of `up` and the
unreachable tables (`Warns`, `News`). The invariant is that the last update that waits at a
port, or the table if none waits, agrees with it (`Heard`). It is inductive because each
handler tells its news on every port on which they change: where the code stays silent, at a spine
that still has a clean uplink, they do not. When all is quiet no update waits, so the tables are `News` of the cable as it is:
if it is whole, they are empty (`NothingStaysBlocked`). If it is cut, data for a root below the cable
stay within the switches other than its upper end and the top spines above that one, and each
of these has the next hop (`BelowArrives`); other data pass round a lower end that has no other
uplink (`ElsewhereArrives`). A leaf has no port for data only if all its uplinks say so, and then the
switches it could send to are confined (`NoWayOut`). The premises: with two cables between two
switches a port would hear of one fault from two speakers; where a top spine does not reach every leaf, an
uplink that is clean may still lead nowhere; and where spines of one leaf share a top spine, each hears
of the other's failure although it does not concern its own way (section 4), which is why
`NoNeedlessBlock` alone asks for *planes*. That data have their next hop rests on their root being
found in the tables (`Listed`), which root 0 is not: the statements except it, not the fabric.

A restarted leaf is no wave: its ports come back one by one, several leaves may have been restarted
before, and what was said of them stays. The other half of `OneFault`, `Rejoining`, therefore does not
say what the tables hold but what bounds them: only ports of the cables of restarted leaves are
closed (`AtRestarted`), nobody blocks or speaks of roots other than theirs (`Forgotten`, `Rejoins`),
and there is no list of reachable roots, because no spine loses an uplink. This is enough for data
to a leaf that was not restarted. For data from such a leaf to one that was, `Told` says that if a
spine has no uplink left for a root that is not below it, the leaves below it that were not restarted
block the root, or will when they have handled what waits for them (`WillBlock`). It is kept because
a spine tells its leaves when its last uplink is blocked, and takes it back only if one is
clean again or the root is gone from the table of one. `HealedWave` and `CleanIsRejoined` join the
halves: a wave that is over leaves a clean fabric, and a cut finds one.

**Forwarding.** `DataInv` adds to the types that a packet is in one
place (`OnePlace`: in flight once, or delivered, or dropped, and sent in any case) and that every
frame is on course (`OnCourse`): it is `Climbing`, received from below after as many cables as the
tier of the switch it waits at, less one; or `Descending`, its destination is among the roots of
that switch and its cables are those up to some switch and down again. A spine that has the
destination among its roots sends down, any other up, whatever the unreachable and
reachable tables hold, so no fact about `Updates` other than its types is needed: loops and wrong
deliveries are excluded by the accepted table alone. The refinement follows from `OnePlace`, and
from `Descending` at a leaf, which has one root. For `CalmArrives`, `CalmInv` says that a calm packet is
in flight only while all is quiet, and that data for its root arrive from where it is (`Arrives`); in
a quiet fabric no switch moves (`QuietIsStill`), and cuts and restarts end the calm. So the property
follows from `NoBlackHole` at the edge, with its exceptions for restarts (`CalmDataArrive`).

**Startup.** `SInv` adds to the types how far each loop has come (`Shape`), that each flag is what the
last of the lines read so far says of it (`FlagsAsRead`, over `LastRead`), and, for each interface, what
the lists hold if it is the only one served (`OneServed`). A line that is read is the last of its kind
and leaves the last of the other kinds as it was (`OneMoreRead`).

**Text of VIDs.** The invariant is `VIDInFrame`: the payload is the one that `BuildPayload` makes of
a text which `Spells` the numbers of `vid`, i.e. their decimals with dots between, each no wider
than `VIDsFit` allows. A hop takes the text out (`PayloadOfOne`), adds a dot and a number (`SpellsMore`)
and puts it back, so that the invariant is kept; the length that the payload shows in one byte is
right because the text is shorter than `VID_LEN`. The properties follow: the
dots cut the text into the decimals it was made of, so `Numbers` yields `vid`, and the first
cut is the decimal of the root; `IntToStr`, which makes its digits from the last to the first and
then turns them round by swaps, yields the same decimal for the numbers from 1 to 999. (All its swaps
go through the first place, which is right for up to three digits; destinations are octets.) Two decimals are equal
only if the numbers are. These are facts about functions that are recursive over numbers, for every
number. The rule of induction in the library is of no use here, as it takes a predicate; `Induction`
states it for a set, and follows from `Least` (a set of numbers has a least element), which
follows from the library's theorem that the subsets of a finite set are well founded by inclusion.
`Recursion` shows from it that a function defined by recursion exists, which is what lets a recursive
definition be unfolded.

### Only model-checked

Every invariant and every action property that a run checks is stated by a theorem, some under
the premises of the table. What is left to TLC is liveness, which is beyond
the prover: `Converges`, `DeadPeerNoticed`, `Settles`, `Quietens`, `EveryPacketEnds`. `RestIsMeshed` and
`UpdatesWearOff` are the parts of `Converges` and `Quietens` that are safety, and these are proved.

## 6. Where the code and its own words disagree

* `ThreeInARow` (`main.c:646-650`): the comment says "received three consecutive on time keep
  alive", but a late keep-alive does not reset the count.
* `DumpsUnreachable` (`main.c:590-591`): the unreachable table of a downstream port is asked
  for the name of the port instead of the VID, so data for an unreachable VID are never
  dumped there.
* `BlockedGoesDown` (`main.c:346-352, 400-407`): the message says that blocked VIDs are sent from
  downstream ports, the loop runs over the upstream ports.
* `AppropriateServer` (`main.c:556`, `mtp_send.c:40`, `config.c:104-106`): the comment says that
  the interface `computeIntfName` is used for data to servers. That is the last IPv4 interface;
  the function that sends ignores the name and takes the first of the list.

## 7. Plan

1. Done: `Fabric`, `Trees`, `MeshedTree`, `Join`, `KeepAlive` (with eth0), `Updates` (with
   restarts of leaves), `Forwarding` with `DataService`, `VIDText`, `Startup`, their runs and the
   theorems above.
2. Proofs: four tiers. There a spine with a single uplink to a spine that is cut off
   hears a list of reachable roots, which it tells nobody below, so `NoBlackHole` is not expected to hold
   as it stands.
3. What still holds of `NoBlackHole` when failures overlap, and with restarts of spines.
4. Lists of VIDs in updates against the ten slots of `temp_2d_array`; handshake frames
   carry one VID (`OneVIDPerFrame`), so that the slots matter for updates only.

### Not modelled

* Sockets, Ethernet headers and the clock, except for whether and when a frame arrives.
* The value of the hash: every port it could pick is allowed.
* Printing, the logger, and the log that is written when the program ends: output only.
* The notification table and the functions on it: nobody calls them.
* The configuration test (`tests/configuration/main.c`), which repeats the start and prints it.
* A missing mtp.conf or a line without a value: the fields keep what they had.
* Addresses of servers: a leaf broadcasts on the network of its compute interface.
