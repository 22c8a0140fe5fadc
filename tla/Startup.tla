------------------------------ MODULE Startup ------------------------------
(***************************************************************************)
(* The start of one switch (SRC/main.c, config.c): it reads mtp.conf line  *)
(* by line, sorts the interfaces of the machine into compute and control   *)
(* interfaces, and a leaf makes its root VID from the address of a compute *)
(* interface and announces it.  Then the VID climbs: each switch on its    *)
(* way up hands it on with the number of a port after it.                  *)
(***************************************************************************)
EXTENDS VIDText

CONSTANTS
  Files,      \* contents of mtp.conf: sequences of lines
  Addresses,  \* what getifaddrs may list: sequences of addresses
  Octet,      \* the third octets that addresses have
  PortNum,    \* numbers of the ports through which VIDs are handed up
  MaxTier     \* bound on the climb

(* A line is a key and a value.  A value is a word or a number.            *)
Key   == {"isLeaf", "isTopSpine", "tier"}
Word  == {"true", "True", "other"}
Value == [word : Word, num : Nat]

(* An address belongs to an interface: an IPv4 address or the link itself. *)
Family  == {"INET", "PACKET"}
Address == [name : STRING, family : Family, isUp : BOOLEAN, octet : Octet]

ASSUME FilesAssumption == Files \subseteq Seq([key : Key, value : Value])

ASSUME OctetAssumption == Octet \subseteq 0 .. 255

ASSUME AddressesAssumption == Addresses \subseteq Seq(Address)

ASSUME ClimbAssumption == PortNum \subseteq Nat /\ MaxTier \in Nat \ {0}

(* VID_name of struct VID is that long, its NUL included, and              *)
(* append_port_number_after_VID relies on it: the octet and the numbers of *)
(* the ports, each after a dot, fit.                                       *)
VID_LEN == 64

ASSUME VIDsFit ==
  \E width \in 0 .. VID_LEN :
    /\ 3 + (MaxTier - 1) * (width + 1) < VID_LEN
    /\ \A k \in PortNum : Len(Decimal[k]) <= width

VARIABLES
  file, ifaddr,    \* mtp.conf and the list of addresses
  stage,           \* what main is about to do
  pos,             \* how many lines, or addresses, it has been through
  isLeaf, isTopSpine, tier,  \* mtpConfig
  computeIntfName, \* its last field
  compute,         \* the list of compute interfaces
  control,         \* the list of control interfaces
  frame,           \* the payload with the VID, as last sent
  vid              \* the numbers the VID stands for

config == <<isLeaf, isTopSpine, tier>>
vars == <<file, ifaddr, stage, pos, config, computeIntfName, compute, control,
          frame, vid>>

-----------------------------------------------------------------------------

Init ==
  /\ file \in Files
  /\ ifaddr \in Addresses
  /\ stage = "readConfigurationFile"
  /\ pos = 0
  /\ isLeaf = FALSE /\ isTopSpine = FALSE /\ tier = 0
  /\ computeIntfName = ""
  /\ compute = <<>> /\ control = <<>>
  /\ frame = <<>> /\ vid = <<>>

(* The next line, or the next address, of the loop.                        *)
NextOf(s) == /\ pos < Len(s)
             /\ pos' = pos + 1

(* The loop is at its end, and main goes on.                               *)
EndOf(s, next) == /\ pos = Len(s)
                  /\ pos' = 0
                  /\ stage' = next

(* Variant: the line tier does not decide isLeaf.                          *)
ReadLine_TierOnly ==
  LET line == file[pos + 1]
  IN  /\ stage = "readConfigurationFile"
      /\ NextOf(file)
      /\ isLeaf' = IF line.key = "isLeaf" THEN line.value.word = "true" ELSE isLeaf
      /\ isTopSpine' = IF line.key = "isTopSpine" THEN line.value.word = "True"
                                                  ELSE isTopSpine
      /\ tier' = IF line.key = "tier" THEN line.value.num % 256 ELSE tier
      /\ UNCHANGED <<file, ifaddr, stage, computeIntfName, compute, control, frame, vid>>

(* Variant: the tier is not cut to a byte.                                 *)
ReadLine_Wide ==
  LET line == file[pos + 1]
      num  == line.value.num
  IN  /\ stage = "readConfigurationFile"
      /\ NextOf(file)
      /\ isLeaf' = CASE line.key = "isLeaf" -> line.value.word = "true"
                     [] line.key = "tier"   -> num = 1
                     [] OTHER               -> isLeaf
      /\ isTopSpine' = IF line.key = "isTopSpine" THEN line.value.word = "True"
                                                  ELSE isTopSpine
      /\ tier' = IF line.key = "tier" THEN num ELSE tier
      /\ UNCHANGED <<file, ifaddr, stage, computeIntfName, compute, control, frame, vid>>

(* The true of isLeaf is small, the True of isTopSpine is not.  A tier is  *)
(* cut to a byte, and decides isLeaf over.                                 *)
ReadLine ==
  LET line == file[pos + 1]
      num  == line.value.num % 256
  IN  /\ stage = "readConfigurationFile"
      /\ NextOf(file)
      /\ isLeaf' = CASE line.key = "isLeaf" -> line.value.word = "true"
                     [] line.key = "tier"   -> num = 1
                     [] OTHER               -> isLeaf
      /\ isTopSpine' = IF line.key = "isTopSpine" THEN line.value.word = "True"
                                                  ELSE isTopSpine
      /\ tier' = IF line.key = "tier" THEN num ELSE tier
      /\ UNCHANGED <<file, ifaddr, stage, computeIntfName, compute, control, frame, vid>>

(* A spine has no compute interface.                                       *)
CloseFile ==
  /\ stage = "readConfigurationFile"
  /\ EndOf(file, IF isLeaf THEN "setComputeInterfaces" ELSE "setControlInterfaces")
  /\ computeIntfName' = IF isLeaf THEN computeIntfName ELSE "None"
  /\ UNCHANGED <<file, ifaddr, config, compute, control, frame, vid>>

(* The interface of an address is up, and neither of the two to leave out. *)
Usable(a) == a.isUp /\ a.name \notin {"eth0", "lo"}

(* addComputeInteface, add_to_control_port_table.                          *)
AddTo(list, name) == IF Contains(list, name) THEN list ELSE Append(list, name)

(* Each interface with an IPv4 address is a compute interface, and the     *)
(* last one is the one that is called so.                                  *)
TakeCompute ==
  LET a == ifaddr[pos + 1]
      taken == a.family = "INET" /\ Usable(a)
  IN  /\ stage = "setComputeInterfaces"
      /\ NextOf(ifaddr)
      /\ compute' = IF taken THEN AddTo(compute, a.name) ELSE compute
      /\ computeIntfName' = IF taken THEN a.name ELSE computeIntfName
      /\ UNCHANGED <<file, ifaddr, stage, config, control, frame, vid>>

EndCompute ==
  /\ stage = "setComputeInterfaces"
  /\ EndOf(ifaddr, "setControlInterfaces")
  /\ UNCHANGED <<file, ifaddr, config, computeIntfName, compute, control, frame, vid>>

(* Variant: what has an IPv4 address may be a control interface as well.   *)
TakeControl_Compute ==
  LET a == ifaddr[pos + 1]
  IN  /\ stage = "setControlInterfaces"
      /\ NextOf(ifaddr)
      /\ control' = IF a.family = "PACKET" /\ Usable(a) THEN AddTo(control, a.name)
                                                        ELSE control
      /\ UNCHANGED <<file, ifaddr, stage, config, computeIntfName, compute, frame, vid>>

(* Each other interface that is up is a control interface.                 *)
TakeControl ==
  LET a == ifaddr[pos + 1]
      taken == /\ a.family = "PACKET" /\ Usable(a)
               /\ ~(isLeaf /\ a.name = computeIntfName)
  IN  /\ stage = "setControlInterfaces"
      /\ NextOf(ifaddr)
      /\ control' = IF taken THEN AddTo(control, a.name) ELSE control
      /\ UNCHANGED <<file, ifaddr, stage, config, computeIntfName, compute, frame, vid>>

EndControl ==
  /\ stage = "setControlInterfaces"
  /\ EndOf(ifaddr, IF isLeaf THEN "getRootVID" ELSE "loop")
  /\ UNCHANGED <<file, ifaddr, config, computeIntfName, compute, control, frame, vid>>

(* The address that SIOCGIFADDR gives of an interface is its first one;    *)
(* without an interface the octet is whatever the memory holds.            *)
OctetsOf(name) ==
  LET own == {i \in DOMAIN ifaddr : ifaddr[i].name = name /\ ifaddr[i].family = "INET"}
      first == {i \in own : \A j \in own : i <= j}
  IN  IF own = {} THEN Octet ELSE {ifaddr[i].octet : i \in first}

(* getRootVID copies the third number of the address as inet_ntoa spells   *)
(* it, and the leaf announces that on each of its control interfaces.      *)
GetRootVID ==
  /\ stage = "getRootVID"
  /\ \E octet \in OctetsOf(computeIntfName) :
       /\ vid' = <<octet>>
       /\ frame' = BuildPayload(<<Decimal[octet]>>)
  /\ stage' = "loop"
  /\ UNCHANGED <<file, ifaddr, pos, config, computeIntfName, compute, control>>

(* The leaf, and later some spine, is asked for its VID through port k     *)
(* (handle_receive_join_req); what it answers is announced further up.     *)
Climb(k) ==
  /\ stage = "loop" /\ isLeaf
  /\ Len(vid) < MaxTier
  /\ vid' = Append(vid, k)
  /\ LET texts == ExtractVIDs(frame)
     IN  frame' = BuildPayload([i \in DOMAIN texts |-> AppendPortNumber(texts[i], k)])
  /\ UNCHANGED <<file, ifaddr, stage, pos, config, computeIntfName, compute, control>>

Next ==
  \/ ReadLine \/ CloseFile
  \/ TakeCompute \/ EndCompute
  \/ TakeControl \/ EndControl
  \/ GetRootVID
  \/ \E k \in PortNum : Climb(k)

Spec == Init /\ [][Next]_vars

-----------------------------------------------------------------------------
(* What the file and the machine say, to compare with what becomes of it.  *)

LinesOf(keys) == {i \in DOMAIN file : file[i].key \in keys}

(* The last of these lines; no line when the file has none of them.        *)
LastOf(keys) == {i \in LinesOf(keys) : \A j \in LinesOf(keys) : j <= i}

(* The interfaces that serve a network of their own.                       *)
Served == {a.name : a \in {b \in ToSet(ifaddr) : b.family = "INET" /\ Usable(b)}}

Links == {a.name : a \in {b \in ToSet(ifaddr) : b.family = "PACKET" /\ Usable(b)}}

(* The text of the VID under way.                                          *)
Text == Head(ExtractVIDs(frame))

(* Reading a text back: the numbers between its dots.                      *)
Numbers(text) ==
  LET read[i \in 0 .. Len(text)] ==
        IF i = 0 THEN <<0>>
        ELSE IF text[i] = Dot THEN Append(read[i - 1], 0)
        ELSE [read[i - 1] EXCEPT ![Len(read[i - 1])] = 10 * @ + text[i]]
  IN  read[Len(text)]

TypeOK ==
  /\ file \in Files /\ ifaddr \in Addresses
  /\ stage \in {"readConfigurationFile", "setComputeInterfaces",
                "setControlInterfaces", "getRootVID", "loop"}
  /\ pos \in 0 .. Len(file) \cup 0 .. Len(ifaddr)
  /\ isLeaf \in BOOLEAN /\ isTopSpine \in BOOLEAN /\ tier \in 0 .. 255
  /\ computeIntfName \in Served \cup {"", "None"}
  /\ ToSet(compute) \subseteq Served /\ ToSet(control) \subseteq Links
  /\ vid \in Seq(Nat)

(* Whatever lines mtp.conf repeats, and in whatever order, the last of     *)
(* those that set a flag decides it.  Since the lines isLeaf and tier set  *)
(* the same flag, a switch is a leaf in tier 1 and nowhere else, unless a  *)
(* line isLeaf after every line tier says otherwise.                       *)
LastLineCounts ==
  stage # "readConfigurationFile" =>
    /\ isTopSpine <=> \E i \in LastOf({"isTopSpine"}) : file[i].value.word = "True"
    /\ LET deciding == LastOf({"isLeaf", "tier"})
       IN  isLeaf <=> \/ deciding \subseteq LinesOf({"tier"}) /\ tier = 1
                      \/ \E i \in deciding \cap LinesOf({"isLeaf"}) :
                           file[i].value.word = "true"

(* Servers and switches are kept apart when a leaf serves one network:     *)
(* what servers hear is no control interface, every other link is one, and *)
(* the root VID names the network that the data are sent out to.           *)
OneNetwork ==
  stage = "loop" /\ isLeaf /\ (\E name \in Served : Served = {name}) =>
    /\ ToSet(control) = Links \ Served
    /\ {Head(compute)} = Served
    /\ vid[1] \in OctetsOf(Head(compute))

(* "Currently, the manually-set computeIntfName is used because only one   *)
(* compute interface is used for testing" (main.c,                         *)
(* handle_receive_data_msg): computeSend is given that name and takes the  *)
(* first compute interface.                                                *)
AppropriateServer ==
  stage = "loop" /\ compute # <<>> => Head(compute) = computeIntfName

(* The text of a VID reads as the numbers it is made of, so that different *)
(* VIDs have different texts, and a HelloNR shows the tier of its sender.  *)
TextIsVID ==
  vid # <<>> =>
    /\ Len(ExtractVIDs(frame)) = 1
    /\ Numbers(Text) = vid
    /\ TierFromHello(frame) = Len(vid)

(* Data name their destination by an octet.  Among the VIDs of spines, and *)
(* among the roots that updates name, they find exactly those of that root *)
(* unless the root is 0, whose text int_to_str leaves empty.               *)
DataFindTheirRoot ==
  vid # <<>> =>
    \A dest \in 0 .. 255 :
      LET found == dest = vid[1] /\ dest # 0
      IN  /\ CopyPrefix(Text) = IntToStr(dest) <=> found
          /\ Len(vid) > 1 => (FoundByVID(Text, IntToStr(dest)) <=> found)

(* This many of three texts in turn.                                       *)
InTurn(three, n, first) == [i \in 1 .. n |-> three[((first + i) % 3) + 1]]

(* A frame consists of bytes, and what one switch puts into a frame is     *)
(* what the next one takes out: up to as many VIDs as it has slots for,    *)
(* longer and shorter ones in turn.                                        *)
FramesCarry ==
  /\ frame \in Seq(0 .. 255)
  /\ vid # <<>> =>
    \A n \in 0 .. Slots, first \in 0 .. 2 :
      LET texts == InTurn(<<CopyPrefix(Text), Text, Decimal[255]>>, n, first)
      IN  ExtractVIDs(BuildPayload(texts)) = texts
=============================================================================
