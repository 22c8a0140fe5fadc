--------------------------- MODULE StartupProofs ----------------------------
(***************************************************************************)
(* Proofs about Startup, for every configuration file and every list of    *)
(* addresses: types, that the last line of mtp.conf about a flag counts,   *)
(* that a leaf that serves one network tells servers and switches apart,   *)
(* and what the texts of VIDs and the frames that carry them hold.         *)
(***************************************************************************)
EXTENDS Startup, SequenceTheorems, FiniteSetTheorems, TLAPS

(* How far main is, and what it has made so far.                           *)
Shape ==
  /\ TypeOK
  /\ stage = "readConfigurationFile" =>
       pos <= Len(file) /\ compute = <<>> /\ control = <<>>
  /\ stage = "setComputeInterfaces" => pos <= Len(ifaddr) /\ control = <<>>
  /\ stage = "setControlInterfaces" => pos <= Len(ifaddr)
  /\ compute \in Seq(Served) /\ control \in Seq(Links)

(* The lines that have been read.                                          *)
Read == IF stage = "readConfigurationFile" THEN 1 .. pos ELSE DOMAIN file

(* The last line with one of these keys among those that have been read.   *)
ReadOf(keys) == {i \in Read : file[i].key \in keys}

LastRead(keys) == {i \in ReadOf(keys) : \A j \in ReadOf(keys) : j <= i}

(* What the lines say of the two flags when these are the last.            *)
TopAsSaid(lines) ==
  isTopSpine <=> \E i \in lines : file[i].value.word = "True"

LeafAsSaid(lines) ==
  isLeaf <=> \/ /\ \A i \in lines : file[i].key = "tier"
                /\ tier = 1
             \/ \E i \in lines : file[i].key = "isLeaf" /\ file[i].value.word = "true"

(* The two flags say what the last line read says.                         *)
FlagsAsRead ==
  /\ TopAsSaid(LastRead({"isTopSpine"}))
  /\ LeafAsSaid(LastRead({"isLeaf", "tier"}))

(* The addresses that the loops over compute and over control interfaces   *)
(* have been through.                                                      *)
ComputeSeen ==
  CASE stage = "readConfigurationFile" -> {}
    [] stage = "setComputeInterfaces"  -> 1 .. pos
    [] OTHER                           -> DOMAIN ifaddr

ControlSeen ==
  CASE stage \in {"readConfigurationFile", "setComputeInterfaces"} -> {}
    [] stage = "setControlInterfaces" -> 1 .. pos
    [] OTHER                          -> DOMAIN ifaddr

Serves(i)   == ifaddr[i].family = "INET" /\ Usable(ifaddr[i])
Connects(i) == ifaddr[i].family = "PACKET" /\ Usable(ifaddr[i])

(* A leaf whose only served network is behind interface x.                 *)
OnlyServes(x) ==
  isLeaf =>
    /\ compute = IF \E i \in ComputeSeen : Serves(i) THEN <<x>> ELSE <<>>
    /\ compute # <<>> => computeIntfName = x
    /\ ToSet(control) = {ifaddr[i].name : i \in {j \in ControlSeen : Connects(j)}} \ {x}
    /\ stage = "loop" => vid # <<>> /\ vid[1] \in OctetsOf(x)

OneServed == \A x : Served = {x} => OnlyServes(x)

SInv == Shape /\ FlagsAsRead /\ OneServed

-----------------------------------------------------------------------------
(* Adding a name to a list without repetition adds it to its set.          *)
LEMMA AddToAdds ==
  ASSUME NEW S, NEW list \in Seq(S), NEW name \in S
  PROVE  /\ AddTo(list, name) \in Seq(S)
         /\ ToSet(AddTo(list, name)) = ToSet(list) \cup {name}
<1>1. CASE Contains(list, name)
  BY <1>1 DEF AddTo, Contains, ToSet
<1>2. CASE ~Contains(list, name)
  <2>1. AddTo(list, name) = Append(list, name)
    BY <1>2 DEF AddTo
  <2>2. /\ Append(list, name) \in Seq(S)
        /\ Len(Append(list, name)) = Len(list) + 1
        /\ \A i \in 1 .. Len(list) : Append(list, name)[i] = list[i]
        /\ Append(list, name)[Len(list) + 1] = name
    BY AppendProperties
  <2>3. /\ DOMAIN list = 1 .. Len(list) /\ Len(list) \in Nat
        /\ DOMAIN Append(list, name) = 1 .. (Len(list) + 1)
    BY <2>2, LenProperties
  <2>4. ToSet(Append(list, name)) = ToSet(list) \cup {name}
    BY <2>2, <2>3 DEF ToSet
  <2> QED
    BY <2>1, <2>2, <2>4
<1> QED
  BY <1>1, <1>2

(* A single name added to nothing or to itself is a list of one.           *)
LEMMA AddToOne ==
  ASSUME NEW x
  PROVE  /\ AddTo(<<>>, x) = <<x>> /\ AddTo(<<x>>, x) = <<x>>
         /\ ToSet(<<x>>) = {x} /\ ToSet(<<>>) = {}
<1>1. ~Contains(<<>>, x) /\ Contains(<<x>>, x)
  BY DEF Contains
<1>2. Append(<<>>, x) = <<x>>
  OBVIOUS
<1>3. ToSet(<<x>>) = {x} /\ ToSet(<<>>) = {}
  BY DEF ToSet
<1> QED
  BY <1>1, <1>2, <1>3 DEF AddTo

(* The lines of a file and the addresses of a machine.                     *)
LEMMA LinesAndAddresses ==
  ASSUME TypeOK
  PROVE  /\ Len(file) \in Nat /\ DOMAIN file = 1 .. Len(file)
         /\ \A i \in 1 .. Len(file) :
              /\ file[i].key \in Key
              /\ file[i].value.num \in Nat
         /\ Len(ifaddr) \in Nat /\ DOMAIN ifaddr = 1 .. Len(ifaddr)
         /\ \A i \in 1 .. Len(ifaddr) :
              /\ Serves(i) => ifaddr[i].name \in Served
              /\ Connects(i) => ifaddr[i].name \in Links
         /\ Served = {ifaddr[i].name : i \in {j \in 1 .. Len(ifaddr) : Serves(j)}}
         /\ Links = {ifaddr[i].name : i \in {j \in 1 .. Len(ifaddr) : Connects(j)}}
<1>1. file \in Seq([key : Key, value : Value]) /\ ifaddr \in Seq(Address)
  BY FilesAssumption, AddressesAssumption DEF TypeOK
<1>2. /\ Len(file) \in Nat /\ DOMAIN file = 1 .. Len(file)
      /\ Len(ifaddr) \in Nat /\ DOMAIN ifaddr = 1 .. Len(ifaddr)
  BY <1>1, LenProperties
<1>3. ASSUME NEW i \in 1 .. Len(file)
      PROVE  file[i].key \in Key /\ file[i].value.num \in Nat
  <2>1. file[i] \in [key : Key, value : Value]
    BY <1>1, ElementOfSeq
  <2> QED
    BY <2>1 DEF Value
<1>4. Served = {ifaddr[i].name : i \in {j \in 1 .. Len(ifaddr) : Serves(j)}}
  <2>1. ASSUME NEW name \in Served
        PROVE  \E i \in 1 .. Len(ifaddr) : Serves(i) /\ name = ifaddr[i].name
    BY <1>2 DEF Served, ToSet, Serves
  <2>2. ASSUME NEW i \in 1 .. Len(ifaddr), Serves(i)
        PROVE  ifaddr[i].name \in Served
    BY <1>2, <2>2 DEF Served, ToSet, Serves
  <2> QED
    BY <2>1, <2>2
<1>5. Links = {ifaddr[i].name : i \in {j \in 1 .. Len(ifaddr) : Connects(j)}}
  <2>1. ASSUME NEW name \in Links
        PROVE  \E i \in 1 .. Len(ifaddr) : Connects(i) /\ name = ifaddr[i].name
    BY <1>2 DEF Links, ToSet, Connects
  <2>2. ASSUME NEW i \in 1 .. Len(ifaddr), Connects(i)
        PROVE  ifaddr[i].name \in Links
    BY <1>2, <2>2 DEF Links, ToSet, Connects
  <2> QED
    BY <2>1, <2>2
<1> QED
  BY <1>2, <1>3, <1>4, <1>5

(* What depends on the file and the machine alone never changes.           *)
LEMMA GivenStays ==
  ASSUME UNCHANGED <<file, ifaddr>>
  PROVE  /\ Served' = Served /\ Links' = Links
         /\ \A name : OctetsOf(name)' = OctetsOf(name)
BY DEF Served, Links, OctetsOf, ToSet, Usable

LEMMA InitSInv == Init => SInv
<1> SUFFICES ASSUME Init PROVE SInv
  OBVIOUS
<1>1. file \in Seq([key : Key, value : Value]) /\ ifaddr \in Seq(Address)
  BY FilesAssumption, AddressesAssumption DEF Init
<1>2. Len(file) \in Nat /\ Len(ifaddr) \in Nat /\ DOMAIN file = 1 .. Len(file)
  BY <1>1, LenProperties
<1>3. \A S : <<>> \in Seq(S)
  BY EmptySeq
<1>4. Shape
  <2>1. ToSet(compute) = {} /\ ToSet(control) = {}
    <3>1. ToSet(<<>>) = {}
      BY DEF ToSet
    <3> QED
      BY <3>1 DEF Init
  <2>2. compute \in Seq(Served) /\ control \in Seq(Links) /\ vid \in Seq(Nat)
    BY <1>3 DEF Init
  <2>3. 0 \in 0 .. Len(file) /\ 0 \in 0 .. 255
    BY <1>2
  <2>4. TypeOK
    BY <2>1, <2>2, <2>3 DEF Init, TypeOK
  <2>5. 0 <= Len(file)
    BY <1>2
  <2>6. stage = "readConfigurationFile" /\ pos = 0 /\ compute = <<>> /\ control = <<>>
    BY DEF Init
  <2> QED
    BY <2>2, <2>4, <2>5, <2>6 DEF Shape
<1>5. FlagsAsRead
  <2>1. Read = {}
    <3>1. 1 .. 0 = {}
      OBVIOUS
    <3> QED
      BY <3>1 DEF Init, Read
  <2>2. \A keys : LastRead(keys) = {}
    BY <2>1 DEF LastRead, ReadOf
  <2>3. isLeaf = FALSE /\ isTopSpine = FALSE /\ tier = 0
    BY DEF Init
  <2> QED
    BY <2>2, <2>3 DEF FlagsAsRead, TopAsSaid, LeafAsSaid
<1>6. OneServed
  BY DEF Init, OneServed, OnlyServes
<1> QED
  BY <1>4, <1>5, <1>6 DEF SInv

(* What the loop over the lines leaves behind, no later step touches.      *)
LEMMA FlagsStay ==
  ASSUME FlagsAsRead, UNCHANGED <<file, isLeaf, isTopSpine, tier>>, Read' = Read
  PROVE  FlagsAsRead'
BY DEF FlagsAsRead, TopAsSaid, LeafAsSaid, LastRead, ReadOf

(* One more line is the last of its kind, and does not matter to others.   *)
LEMMA OneMoreRead ==
  ASSUME NEW keys, pos \in Nat, stage = "readConfigurationFile", stage' = stage,
         file' = file, pos' = pos + 1
  PROVE  LastRead(keys)' = IF file[pos + 1].key \in keys THEN {pos + 1}
                                                         ELSE LastRead(keys)
<1>1. 1 .. pos + 1 = 1 .. pos \cup {pos + 1}
  OBVIOUS
<1>2. Read = 1 .. pos /\ Read' = 1 .. pos \cup {pos + 1}
  BY <1>1 DEF Read
<1>3. CASE file[pos + 1].key \in keys
  <2>1. ReadOf(keys)' = ReadOf(keys) \cup {pos + 1}
    BY <1>2, <1>3 DEF ReadOf
  <2>2. ReadOf(keys) \subseteq 1 .. pos
    BY <1>2 DEF ReadOf
  <2>3. \A i \in 1 .. pos : i <= pos + 1 /\ ~(pos + 1 <= i)
    OBVIOUS
  <2>4. pos + 1 <= pos + 1
    OBVIOUS
  <2>5. LastRead(keys)' = {i \in ReadOf(keys)' : \A j \in ReadOf(keys)' : j <= i}
    BY DEF LastRead
  <2> QED
    BY <1>3, <2>1, <2>2, <2>3, <2>4, <2>5
<1>4. CASE file[pos + 1].key \notin keys
  <2>1. ReadOf(keys)' = ReadOf(keys)
    BY <1>2, <1>4 DEF ReadOf
  <2> QED
    BY <1>4, <2>1 DEF LastRead
<1> QED
  BY <1>3, <1>4

(* One more line is read: the flag it is about is what it says.            *)
LEMMA ReadLineKeepsSInv ==
  ASSUME SInv, ReadLine
  PROVE  SInv'
<1> DEFINE line == file[pos + 1]
           num  == line.value.num % 256
<1>1. /\ stage = "readConfigurationFile" /\ stage' = stage
      /\ pos < Len(file) /\ pos' = pos + 1
      /\ isLeaf' = CASE line.key = "isLeaf" -> line.value.word = "true"
                     [] line.key = "tier"   -> num = 1
                     [] OTHER               -> isLeaf
      /\ isTopSpine' = IF line.key = "isTopSpine" THEN line.value.word = "True"
                                                  ELSE isTopSpine
      /\ tier' = IF line.key = "tier" THEN num ELSE tier
      /\ UNCHANGED <<file, ifaddr, computeIntfName, compute, control, frame, vid>>
  BY DEF ReadLine, NextOf
<1>2. /\ Len(file) \in Nat /\ DOMAIN file = 1 .. Len(file)
      /\ \A i \in 1 .. Len(file) : file[i].key \in Key /\ file[i].value.num \in Nat
      /\ pos \in Nat
  <2>1. TypeOK
    BY DEF SInv, Shape
  <2>2. /\ Len(file) \in Nat /\ DOMAIN file = 1 .. Len(file)
        /\ \A i \in 1 .. Len(file) : file[i].key \in Key /\ file[i].value.num \in Nat
        /\ Len(ifaddr) \in Nat
    BY <2>1, LinesAndAddresses
  <2>3. pos \in 0 .. Len(file) \cup 0 .. Len(ifaddr)
    BY <2>1 DEF TypeOK
  <2>4. pos \in Nat
    BY <2>2, <2>3
  <2> QED
    BY <2>2, <2>4
<1>3. pos + 1 \in 1 .. Len(file)
  BY <1>1, <1>2
<1>4. num \in 0 .. 255 /\ line.key \in Key
  <2>1. line.value.num \in Nat /\ line.key \in Key
    BY <1>2, <1>3
  <2> HIDE DEF line
  <2> QED
    BY <2>1
<1>5. Served' = Served /\ Links' = Links
  BY <1>1, GivenStays
<1> HIDE DEF num
<1>6. Shape'
  <2>1. isLeaf' \in BOOLEAN /\ isTopSpine' \in BOOLEAN /\ tier' \in 0 .. 255
    BY <1>1, <1>4 DEF SInv, Shape, TypeOK, Key
  <2>2. pos + 1 \in 0 .. Len(file) /\ pos + 1 <= Len(file)
    BY <1>2, <1>3
  <2>3. TypeOK'
    BY <1>1, <1>5, <2>1, <2>2 DEF SInv, Shape, TypeOK, ToSet
  <2> QED
    BY <1>1, <1>5, <2>2, <2>3 DEF SInv, Shape
<1>7. FlagsAsRead'
  <2> DEFINE top  == LastRead({"isTopSpine"})
             leaf == LastRead({"isLeaf", "tier"})
  <2>1. /\ top' = IF line.key = "isTopSpine" THEN {pos + 1} ELSE top
        /\ leaf' = IF line.key \in {"isLeaf", "tier"} THEN {pos + 1} ELSE leaf
    BY <1>1, <1>2, OneMoreRead
  <2>2. TopAsSaid(top) /\ LeafAsSaid(leaf)
    BY DEF SInv, FlagsAsRead
  <2>3. file' = file /\ file[pos + 1] = line
    BY <1>1
  <2> HIDE DEF top, leaf, line
  <2>4. isTopSpine' <=> \E i \in top' : file[i].value.word = "True"
    <3>1. CASE line.key = "isTopSpine"
      BY <1>1, <2>1, <2>3, <3>1
    <3>2. CASE line.key # "isTopSpine"
      BY <1>1, <2>1, <2>2, <3>2 DEF TopAsSaid
    <3> QED
      BY <3>1, <3>2
  <2>5. isLeaf' <=> \/ /\ \A i \in leaf' : file[i].key = "tier"
                       /\ tier' = 1
                    \/ \E i \in leaf' : /\ file[i].key = "isLeaf"
                                        /\ file[i].value.word = "true"
    <3>1. CASE line.key = "tier"
      <4>1. isLeaf' = (num = 1) /\ tier' = num /\ leaf' = {pos + 1}
        BY <1>1, <2>1, <3>1
      <4> QED
        BY <2>3, <3>1, <4>1
    <3>2. CASE line.key = "isLeaf"
      <4>1. isLeaf' = (line.value.word = "true") /\ leaf' = {pos + 1}
        BY <1>1, <2>1, <3>2
      <4> QED
        BY <2>3, <3>2, <4>1
    <3>3. CASE line.key \notin {"isLeaf", "tier"}
      <4>1. isLeaf' = isLeaf /\ tier' = tier /\ leaf' = leaf
        BY <1>1, <2>1, <3>3
      <4> QED
        BY <2>2, <4>1 DEF LeafAsSaid
    <3> QED
      BY <3>1, <3>2, <3>3
  <2>6. TopAsSaid(top)' /\ LeafAsSaid(leaf)'
    BY <2>3, <2>4, <2>5 DEF TopAsSaid, LeafAsSaid
  <2> QED
    BY <2>6 DEF FlagsAsRead, top, leaf
<1>8. OneServed'
  <2>1. ~(\E i \in {} : Serves(i)') /\ ToSet(control') = {}
    BY <1>1, AddToOne DEF SInv, Shape
  <2>2. ComputeSeen' = {} /\ ControlSeen' = {}
    BY <1>1 DEF ComputeSeen, ControlSeen
  <2>3. compute' = <<>> /\ stage' # "loop"
    BY <1>1 DEF SInv, Shape
  <2>4. ASSUME NEW x PROVE OnlyServes(x)'
    BY <2>1, <2>2, <2>3 DEF OnlyServes
  <2> QED
    BY <2>4 DEF OneServed
<1> QED
  BY <1>6, <1>7, <1>8 DEF SInv

-----------------------------------------------------------------------------
(* The loops over the addresses.                                           *)

LEMMA Bounds ==
  ASSUME Shape
  PROVE  /\ TypeOK /\ pos \in Nat
         /\ Len(file) \in Nat /\ DOMAIN file = 1 .. Len(file)
         /\ Len(ifaddr) \in Nat /\ DOMAIN ifaddr = 1 .. Len(ifaddr)
<1>1. TypeOK
  BY DEF Shape
<1>2. /\ Len(file) \in Nat /\ DOMAIN file = 1 .. Len(file)
      /\ Len(ifaddr) \in Nat /\ DOMAIN ifaddr = 1 .. Len(ifaddr)
  BY <1>1, LinesAndAddresses
<1>3. pos \in 0 .. Len(file) \cup 0 .. Len(ifaddr)
  BY <1>1 DEF TypeOK
<1>4. pos \in Nat
  BY <1>2, <1>3
<1> QED
  BY <1>1, <1>2, <1>4

(* One address more.                                                       *)
LEMMA OneMoreSeen ==
  ASSUME Shape, pos < Len(ifaddr)
  PROVE  /\ pos + 1 \in 1 .. Len(ifaddr) /\ pos + 1 <= Len(ifaddr)
         /\ pos + 1 \in 0 .. Len(ifaddr)
         /\ 1 .. (pos + 1) = 1 .. pos \cup {pos + 1}
BY Bounds

LEMMA CloseFileKeepsSInv ==
  ASSUME SInv, CloseFile
  PROVE  SInv'
<1>1. /\ stage = "readConfigurationFile" /\ pos = Len(file) /\ pos' = 0
      /\ stage' = IF isLeaf THEN "setComputeInterfaces" ELSE "setControlInterfaces"
      /\ computeIntfName' = IF isLeaf THEN computeIntfName ELSE "None"
      /\ UNCHANGED <<file, ifaddr, config, compute, control, frame, vid>>
  BY DEF CloseFile, EndOf
<1>2. UNCHANGED <<isLeaf, isTopSpine, tier>>
  BY <1>1 DEF config
<1>3. /\ Shape /\ Len(ifaddr) \in Nat /\ DOMAIN file = 1 .. Len(file)
  BY Bounds DEF SInv
<1>4. Served' = Served /\ Links' = Links
  BY <1>1, GivenStays
<1>5. 0 <= Len(ifaddr) /\ 0 \in 0 .. Len(ifaddr)
  BY <1>3
<1>6. compute = <<>> /\ control = <<>> /\ stage' # "readConfigurationFile"
  BY <1>1, <1>3 DEF Shape
<1>7. TypeOK'
  <2>1. TypeOK
    BY <1>3 DEF Shape
  <2>2. /\ stage' \in {"setComputeInterfaces", "setControlInterfaces"}
        /\ computeIntfName' \in Served \cup {"", "None"}
    BY <1>1, <2>1 DEF TypeOK
  <2>3. ToSet(compute)' = ToSet(compute) /\ ToSet(control)' = ToSet(control)
    BY <1>1
  <2> QED
    BY <1>1, <1>2, <1>4, <1>5, <2>1, <2>2, <2>3 DEF TypeOK
<1>8. Shape'
  BY <1>1, <1>3, <1>4, <1>5, <1>6, <1>7 DEF Shape
<1>9. FlagsAsRead'
  BY <1>1, <1>2, <1>3, <1>6, FlagsStay DEF SInv, Read
<1>10. OneServed'
  <2> SUFFICES ASSUME NEW x, isLeaf PROVE OnlyServes(x)'
    BY <1>2 DEF OneServed, OnlyServes
  <2>1. 1 .. 0 = {} /\ ToSet(<<>>) = {}
    BY DEF ToSet
  <2>2. ComputeSeen' = {} /\ ControlSeen' = {} /\ stage' # "loop"
    BY <1>1, <2>1 DEF ComputeSeen, ControlSeen
  <2>3. compute' = <<>> /\ ToSet(control') = {}
    BY <1>1, <1>6, <2>1
  <2> QED
    BY <2>2, <2>3 DEF OnlyServes
<1> QED
  BY <1>8, <1>9, <1>10 DEF SInv

LEMMA TakeComputeKeepsSInv ==
  ASSUME SInv, TakeCompute
  PROVE  SInv'
<1> DEFINE a == ifaddr[pos + 1]
<1>1. /\ stage = "setComputeInterfaces" /\ stage' = stage
      /\ pos < Len(ifaddr) /\ pos' = pos + 1
      /\ compute' = IF Serves(pos + 1) THEN AddTo(compute, a.name) ELSE compute
      /\ computeIntfName' = IF Serves(pos + 1) THEN a.name ELSE computeIntfName
      /\ UNCHANGED <<file, ifaddr, config, control, frame, vid>>
  BY DEF TakeCompute, NextOf, Serves
<1>2. UNCHANGED <<isLeaf, isTopSpine, tier>>
  BY <1>1 DEF config
<1>3. /\ Shape /\ TypeOK
      /\ pos + 1 \in 1 .. Len(ifaddr) /\ pos + 1 <= Len(ifaddr)
      /\ pos + 1 \in 0 .. Len(ifaddr)
      /\ 1 .. (pos + 1) = 1 .. pos \cup {pos + 1}
  BY <1>1, OneMoreSeen, Bounds DEF SInv
<1>4. Served' = Served /\ Links' = Links
  BY <1>1, GivenStays
<1>5. Serves(pos + 1) => a.name \in Served
  BY <1>3, LinesAndAddresses
<1> HIDE DEF a
<1>6. compute' \in Seq(Served) /\ ToSet(compute') \subseteq Served
  <2>1. compute \in Seq(Served) /\ ToSet(compute) \subseteq Served
    BY <1>3 DEF Shape, TypeOK
  <2>2. CASE Serves(pos + 1)
    BY <1>1, <1>5, <2>1, <2>2, AddToAdds
  <2>3. CASE ~Serves(pos + 1)
    BY <1>1, <2>1, <2>3
  <2> QED
    BY <2>2, <2>3
<1>7. computeIntfName' \in Served \cup {"", "None"}
  BY <1>1, <1>3, <1>5 DEF TypeOK
<1>8. TypeOK'
  BY <1>1, <1>2, <1>3, <1>4, <1>6, <1>7 DEF TypeOK, ToSet
<1>9. Shape'
  BY <1>1, <1>3, <1>4, <1>6, <1>8 DEF Shape
<1>10. FlagsAsRead'
  BY <1>1, <1>2, FlagsStay DEF SInv, Read
<1>11. OneServed'
  <2> SUFFICES ASSUME NEW x, Served = {x}, isLeaf PROVE OnlyServes(x)'
    BY <1>2, <1>4 DEF OneServed, OnlyServes
  <2>1. OnlyServes(x)
    BY DEF SInv, OneServed
  <2>2. /\ ComputeSeen = 1 .. pos /\ ComputeSeen' = 1 .. pos \cup {pos + 1}
        /\ ControlSeen = {} /\ ControlSeen' = {}
    BY <1>1, <1>3 DEF ComputeSeen, ControlSeen
  <2>3. compute \in {<<>>, <<x>>}
    BY <2>1 DEF OnlyServes
  <2>4. /\ compute' = IF \E i \in 1 .. pos \cup {pos + 1} : Serves(i) THEN <<x>> ELSE <<>>
        /\ compute' # <<>> => computeIntfName' = x
    <3>1. CASE Serves(pos + 1)
      <4>1. a.name = x
        BY <1>5, <3>1
      <4>2. AddTo(compute, x) = <<x>>
        BY <2>3, AddToOne
      <4> QED
        BY <1>1, <3>1, <4>1, <4>2
    <3>2. CASE ~Serves(pos + 1)
      BY <1>1, <2>1, <2>2, <3>2 DEF OnlyServes
    <3> QED
      BY <3>1, <3>2
  <2>5. \A i : Serves(i)' = Serves(i)
    BY <1>1 DEF Serves, Usable
  <2>6. ToSet(control') = {}
    BY <1>1, <1>3, AddToOne DEF Shape
  <2>7. /\ compute' = IF \E i \in ComputeSeen' : Serves(i)' THEN <<x>> ELSE <<>>
        /\ stage' # "loop"
    BY <1>1, <2>2, <2>4, <2>5
  <2> QED
    BY <2>2, <2>4, <2>6, <2>7 DEF OnlyServes
<1> QED
  BY <1>9, <1>10, <1>11 DEF SInv

LEMMA EndComputeKeepsSInv ==
  ASSUME SInv, EndCompute
  PROVE  SInv'
<1>1. /\ stage = "setComputeInterfaces" /\ stage' = "setControlInterfaces"
      /\ pos = Len(ifaddr) /\ pos' = 0
      /\ UNCHANGED <<file, ifaddr, config, computeIntfName, compute, control, frame, vid>>
  BY DEF EndCompute, EndOf
<1>2. UNCHANGED <<isLeaf, isTopSpine, tier>>
  BY <1>1 DEF config
<1>3. /\ Shape /\ TypeOK /\ Len(ifaddr) \in Nat /\ DOMAIN ifaddr = 1 .. Len(ifaddr)
  BY Bounds DEF SInv
<1>4. Served' = Served /\ Links' = Links
  BY <1>1, GivenStays
<1>5. 0 <= Len(ifaddr) /\ 0 \in 0 .. Len(ifaddr)
  BY <1>3
<1>6. TypeOK'
  BY <1>1, <1>2, <1>3, <1>4, <1>5 DEF TypeOK, ToSet
<1>7. Shape'
  BY <1>1, <1>3, <1>4, <1>5, <1>6 DEF Shape
<1>8. FlagsAsRead'
  BY <1>1, <1>2, FlagsStay DEF SInv, Read
<1>9. OneServed'
  <2> SUFFICES ASSUME NEW x, Served = {x}, isLeaf PROVE OnlyServes(x)'
    BY <1>2, <1>4 DEF OneServed, OnlyServes
  <2>1. OnlyServes(x)
    BY DEF SInv, OneServed
  <2>2. 1 .. 0 = {}
    OBVIOUS
  <2>3. /\ ComputeSeen' = ComputeSeen
        /\ ControlSeen = {} /\ ControlSeen' = {}
    BY <1>1, <1>3, <2>2 DEF ComputeSeen, ControlSeen
  <2>4. \A i : Serves(i)' = Serves(i)
    BY <1>1 DEF Serves, Usable
  <2>5. ToSet(control') = {}
    BY <1>1, <1>3, AddToOne DEF Shape
  <2>6. /\ compute' = IF \E i \in ComputeSeen' : Serves(i)' THEN <<x>> ELSE <<>>
        /\ compute' # <<>> => computeIntfName' = x
        /\ stage' # "loop"
    BY <1>1, <2>1, <2>3, <2>4 DEF OnlyServes
  <2> QED
    BY <2>3, <2>5, <2>6 DEF OnlyServes
<1> QED
  BY <1>7, <1>8, <1>9 DEF SInv

LEMMA TakeControlKeepsSInv ==
  ASSUME SInv, TakeControl
  PROVE  SInv'
<1> DEFINE a == ifaddr[pos + 1]
           taken == Connects(pos + 1) /\ ~(isLeaf /\ a.name = computeIntfName)
<1>1. /\ stage = "setControlInterfaces" /\ stage' = stage
      /\ pos < Len(ifaddr) /\ pos' = pos + 1
      /\ control' = IF taken THEN AddTo(control, a.name) ELSE control
      /\ UNCHANGED <<file, ifaddr, config, computeIntfName, compute, frame, vid>>
  BY DEF TakeControl, NextOf, Connects
<1>2. UNCHANGED <<isLeaf, isTopSpine, tier>>
  BY <1>1 DEF config
<1>3. /\ Shape /\ TypeOK
      /\ Len(ifaddr) \in Nat /\ DOMAIN ifaddr = 1 .. Len(ifaddr)
      /\ pos + 1 \in 1 .. Len(ifaddr) /\ pos + 1 <= Len(ifaddr)
      /\ pos + 1 \in 0 .. Len(ifaddr)
      /\ 1 .. (pos + 1) = 1 .. pos \cup {pos + 1}
  BY <1>1, OneMoreSeen, Bounds DEF SInv
<1>4. Served' = Served /\ Links' = Links
  BY <1>1, GivenStays
<1>5. taken => a.name \in Links
  BY <1>3, LinesAndAddresses
<1> HIDE DEF a
<1>6. /\ control' \in Seq(Links) /\ ToSet(control') \subseteq Links
      /\ ToSet(control') = IF taken THEN ToSet(control) \cup {a.name} ELSE ToSet(control)
  <2>1. control \in Seq(Links) /\ ToSet(control) \subseteq Links
    BY <1>3 DEF Shape, TypeOK
  <2>2. CASE taken
    BY <1>1, <1>5, <2>1, <2>2, AddToAdds
  <2>3. CASE ~taken
    BY <1>1, <2>1, <2>3
  <2> QED
    BY <2>2, <2>3
<1>7. TypeOK'
  <2>1. ToSet(compute)' = ToSet(compute) /\ ToSet(control)' = ToSet(control')
    BY <1>1
  <2> QED
    BY <1>1, <1>2, <1>3, <1>4, <1>6, <2>1 DEF TypeOK
<1>8. Shape'
  BY <1>1, <1>3, <1>4, <1>6, <1>7 DEF Shape
<1>9. FlagsAsRead'
  BY <1>1, <1>2, FlagsStay DEF SInv, Read
<1>10. OneServed'
  <2> SUFFICES ASSUME NEW x, Served = {x}, isLeaf PROVE OnlyServes(x)'
    BY <1>2, <1>4 DEF OneServed, OnlyServes
  <2>1. OnlyServes(x)
    BY DEF SInv, OneServed
  <2>2. /\ ComputeSeen = DOMAIN ifaddr /\ ComputeSeen' = DOMAIN ifaddr
        /\ ControlSeen = 1 .. pos /\ ControlSeen' = 1 .. pos \cup {pos + 1}
    BY <1>1, <1>3 DEF ComputeSeen, ControlSeen
  <2>3. \A i : Serves(i)' = Serves(i) /\ Connects(i)' = Connects(i)
    BY <1>1 DEF Serves, Connects, Usable
  <2>4. computeIntfName = x
    <3>1. \E i \in ComputeSeen : Serves(i)
      BY <1>3, <2>2, LinesAndAddresses
    <3>2. <<x>> # <<>>
      OBVIOUS
    <3> QED
      BY <2>1, <3>1, <3>2 DEF OnlyServes
  <2>5. ToSet(control') =
          {ifaddr[i].name : i \in {j \in 1 .. pos \cup {pos + 1} : Connects(j)}} \ {x}
    <3>1. ToSet(control) = {ifaddr[i].name : i \in {j \in 1 .. pos : Connects(j)}} \ {x}
      BY <2>1, <2>2 DEF OnlyServes
    <3>2. taken <=> Connects(pos + 1) /\ a.name # x
      BY <2>4
    <3> HIDE DEF taken
    <3> QED
      BY <1>6, <3>1, <3>2 DEF a
  <2>6. ToSet(control)' =
          {ifaddr'[i].name : i \in {j \in ControlSeen' : Connects(j)'}} \ {x}
    BY <1>1, <2>2, <2>3, <2>5
  <2>7. /\ compute' = IF \E i \in ComputeSeen' : Serves(i)' THEN <<x>> ELSE <<>>
        /\ compute' # <<>> => computeIntfName' = x
        /\ stage' # "loop"
    BY <1>1, <2>1, <2>2, <2>3, <2>4 DEF OnlyServes
  <2> QED
    BY <2>6, <2>7 DEF OnlyServes
<1> QED
  BY <1>8, <1>9, <1>10 DEF SInv

(* After the loops: what they made stays as it is.                         *)
LEMMA ListsStay ==
  ASSUME SInv, UNCHANGED <<file, ifaddr, isLeaf, isTopSpine, computeIntfName,
                           compute, control>>,
         ComputeSeen' = ComputeSeen, ControlSeen' = ControlSeen,
         NEW x, Served = {x}, isLeaf
  PROVE  /\ compute' = IF \E i \in ComputeSeen' : Serves(i)' THEN <<x>> ELSE <<>>
         /\ compute' # <<>> => computeIntfName' = x
         /\ ToSet(control)' =
              {ifaddr'[i].name : i \in {j \in ControlSeen' : Connects(j)'}} \ {x}
<1>1. OnlyServes(x)
  BY DEF SInv, OneServed
<1>2. \A i : Serves(i)' = Serves(i) /\ Connects(i)' = Connects(i)
  BY DEF Serves, Connects, Usable
<1> QED
  BY <1>1, <1>2 DEF OnlyServes

LEMMA EndControlKeepsSInv ==
  ASSUME SInv, EndControl
  PROVE  SInv'
<1>1. /\ stage = "setControlInterfaces" /\ pos = Len(ifaddr) /\ pos' = 0
      /\ stage' = IF isLeaf THEN "getRootVID" ELSE "loop"
      /\ UNCHANGED <<file, ifaddr, config, computeIntfName, compute, control, frame, vid>>
  BY DEF EndControl, EndOf
<1>2. UNCHANGED <<isLeaf, isTopSpine, tier>>
  BY <1>1 DEF config
<1>3. /\ Shape /\ TypeOK /\ Len(ifaddr) \in Nat /\ DOMAIN ifaddr = 1 .. Len(ifaddr)
  BY Bounds DEF SInv
<1>4. Served' = Served /\ Links' = Links
  BY <1>1, GivenStays
<1>5. 0 \in 0 .. Len(ifaddr) /\ stage' \in {"getRootVID", "loop"}
  BY <1>1, <1>3
<1>6. TypeOK'
  <2>1. ToSet(compute)' = ToSet(compute) /\ ToSet(control)' = ToSet(control)
    BY <1>1
  <2> QED
    BY <1>1, <1>2, <1>3, <1>4, <1>5, <2>1 DEF TypeOK
<1>7. Shape'
  BY <1>1, <1>3, <1>4, <1>5, <1>6 DEF Shape
<1>8. FlagsAsRead'
  BY <1>1, <1>2, <1>5, FlagsStay DEF SInv, Read
<1>9. OneServed'
  <2> SUFFICES ASSUME NEW x, Served = {x}, isLeaf PROVE OnlyServes(x)'
    BY <1>2, <1>4 DEF OneServed, OnlyServes
  <2>1. ComputeSeen' = ComputeSeen /\ ControlSeen' = ControlSeen
    BY <1>1, <1>3 DEF ComputeSeen, ControlSeen
  <2>2. stage' # "loop"
    BY <1>1
  <2> QED
    BY <1>1, <1>2, <2>1, <2>2, ListsStay DEF OnlyServes
<1> QED
  BY <1>7, <1>8, <1>9 DEF SInv

(* The octets a root VID may be made of are bytes.                         *)
LEMMA OctetsAreNumbers ==
  ASSUME TypeOK, NEW name
  PROVE  OctetsOf(name) \subseteq 0 .. 255 /\ OctetsOf(name) \subseteq Nat
<1>1. ifaddr \in Seq(Address)
  BY AddressesAssumption DEF TypeOK
<1>2. ASSUME NEW i \in DOMAIN ifaddr
      PROVE  ifaddr[i].octet \in Octet
  <2>1. ifaddr[i] \in Address
    BY <1>1, <1>2, ElementOfSeq, LenProperties
  <2> QED
    BY <2>1 DEF Address
<1>3. OctetsOf(name) \subseteq Octet
  BY <1>2 DEF OctetsOf
<1>4. 0 .. 255 \subseteq Nat
  OBVIOUS
<1> QED
  BY <1>3, <1>4, OctetAssumption

LEMMA GetRootVIDKeepsSInv ==
  ASSUME SInv, GetRootVID
  PROVE  SInv'
<1>1. /\ stage = "getRootVID" /\ stage' = "loop"
      /\ UNCHANGED <<file, ifaddr, pos, config, computeIntfName, compute, control>>
  BY DEF GetRootVID
<1>2. PICK octet \in OctetsOf(computeIntfName) : vid' = <<octet>>
  BY DEF GetRootVID
<1>3. UNCHANGED <<isLeaf, isTopSpine, tier>>
  BY <1>1 DEF config
<1>4. /\ Shape /\ TypeOK /\ Len(ifaddr) \in Nat /\ DOMAIN ifaddr = 1 .. Len(ifaddr)
  BY Bounds DEF SInv
<1>5. Served' = Served /\ Links' = Links
      /\ \A name : OctetsOf(name)' = OctetsOf(name)
  BY <1>1, GivenStays
<1>6. vid' \in Seq(Nat) /\ vid' # <<>> /\ vid'[1] = octet
  <2>1. octet \in Nat
    BY <1>2, <1>4, OctetsAreNumbers
  <2> QED
    BY <1>2, <2>1
<1>7. TypeOK'
  <2>1. ToSet(compute)' = ToSet(compute) /\ ToSet(control)' = ToSet(control)
    BY <1>1
  <2> QED
    BY <1>1, <1>3, <1>4, <1>5, <1>6, <2>1 DEF TypeOK
<1>8. Shape'
  BY <1>1, <1>4, <1>5, <1>7 DEF Shape
<1>9. FlagsAsRead'
  BY <1>1, <1>3, FlagsStay DEF SInv, Read
<1>10. OneServed'
  <2> SUFFICES ASSUME NEW x, Served = {x}, isLeaf PROVE OnlyServes(x)'
    BY <1>3, <1>5 DEF OneServed, OnlyServes
  <2>1. ComputeSeen' = ComputeSeen /\ ControlSeen' = ControlSeen
        /\ ComputeSeen = DOMAIN ifaddr
    BY <1>1 DEF ComputeSeen, ControlSeen
  <2>2. computeIntfName = x
    <3>1. \E i \in ComputeSeen : Serves(i)
      BY <1>4, <2>1, LinesAndAddresses
    <3>2. <<x>> # <<>>
      OBVIOUS
    <3> QED
      BY <3>1, <3>2 DEF OnlyServes, SInv, OneServed
  <2>3. vid'[1] \in OctetsOf(x)'
    BY <1>2, <1>5, <1>6, <2>2
  <2> QED
    BY <1>1, <1>3, <1>6, <2>1, <2>3, ListsStay DEF OnlyServes
<1> QED
  BY <1>8, <1>9, <1>10 DEF SInv

LEMMA ClimbKeepsSInv ==
  ASSUME SInv, NEW k \in PortNum, Climb(k)
  PROVE  SInv'
<1>1. /\ stage = "loop" /\ isLeaf /\ vid' = Append(vid, k)
      /\ UNCHANGED <<file, ifaddr, stage, pos, config, computeIntfName, compute, control>>
  BY DEF Climb
<1>2. UNCHANGED <<isLeaf, isTopSpine, tier>>
  BY <1>1 DEF config
<1>3. Shape /\ TypeOK
  BY Bounds DEF SInv
<1>4. Served' = Served /\ Links' = Links
      /\ \A name : OctetsOf(name)' = OctetsOf(name)
  BY <1>1, GivenStays
<1>5. /\ vid' \in Seq(Nat) /\ vid' # <<>>
      /\ vid # <<>> => vid'[1] = vid[1]
  <2>1. vid \in Seq(Nat) /\ k \in Nat
    BY <1>3, ClimbAssumption DEF TypeOK
  <2>2. /\ Append(vid, k) \in Seq(Nat) /\ Append(vid, k) # <<>>
        /\ \A i \in 1 .. Len(vid) : Append(vid, k)[i] = vid[i]
    BY <2>1, AppendProperties
  <2>3. vid # <<>> => 1 \in 1 .. Len(vid)
    BY <2>1, EmptySeq, LenProperties
  <2> QED
    BY <1>1, <2>2, <2>3
<1>6. TypeOK'
  <2>1. ToSet(compute)' = ToSet(compute) /\ ToSet(control)' = ToSet(control)
    BY <1>1
  <2> QED
    BY <1>1, <1>2, <1>3, <1>4, <1>5, <2>1 DEF TypeOK
<1>7. Shape'
  BY <1>1, <1>3, <1>4, <1>6 DEF Shape
<1>8. FlagsAsRead'
  BY <1>1, <1>2, FlagsStay DEF SInv, Read
<1>9. OneServed'
  <2> SUFFICES ASSUME NEW x, Served = {x} PROVE OnlyServes(x)'
    BY <1>4 DEF OneServed
  <2>1. ComputeSeen' = ComputeSeen /\ ControlSeen' = ControlSeen
    BY <1>1 DEF ComputeSeen, ControlSeen
  <2>2. vid # <<>> /\ vid[1] \in OctetsOf(x)
    BY <1>1 DEF SInv, OneServed, OnlyServes
  <2> QED
    BY <1>1, <1>2, <1>4, <1>5, <2>1, <2>2, ListsStay DEF OnlyServes
<1> QED
  BY <1>7, <1>8, <1>9 DEF SInv

-----------------------------------------------------------------------------

THEOREM Invariance == Spec => []SInv
<1>1. SInv /\ [Next]_vars => SInv'
  <2> SUFFICES ASSUME SInv, [Next]_vars PROVE SInv'
    OBVIOUS
  <2>1. CASE Next
    BY <2>1, ReadLineKeepsSInv, CloseFileKeepsSInv, TakeComputeKeepsSInv,
       EndComputeKeepsSInv, TakeControlKeepsSInv, EndControlKeepsSInv,
       GetRootVIDKeepsSInv, ClimbKeepsSInv DEF Next
  <2>2. CASE UNCHANGED vars
    <3>1. UNCHANGED <<file, ifaddr, stage, pos, isLeaf, isTopSpine, tier,
                      computeIntfName, compute, control, vid>>
      BY <2>2 DEF vars, config
    <3>2. Served' = Served /\ Links' = Links
          /\ \A name : OctetsOf(name)' = OctetsOf(name)
      BY <3>1, GivenStays
    <3>3. TypeOK'
      BY <3>1, <3>2 DEF SInv, Shape, TypeOK, ToSet
    <3>4. Shape'
      BY <3>1, <3>2, <3>3 DEF SInv, Shape
    <3>5. FlagsAsRead'
      BY <3>1, FlagsStay DEF SInv, Read
    <3>6. ComputeSeen' = ComputeSeen /\ ControlSeen' = ControlSeen
      BY <3>1 DEF ComputeSeen, ControlSeen
    <3>7. OneServed'
      <4> SUFFICES ASSUME NEW x, Served = {x}, isLeaf PROVE OnlyServes(x)'
        BY <3>1, <3>2 DEF OneServed, OnlyServes
      <4>1. stage' = "loop" => vid' # <<>> /\ vid'[1] \in OctetsOf(x)'
        BY <3>1, <3>2 DEF SInv, OneServed, OnlyServes
      <4> QED
        BY <3>1, <3>6, <4>1, ListsStay DEF OnlyServes
    <3> QED
      BY <3>4, <3>5, <3>7 DEF SInv
  <2> QED
    BY <2>1, <2>2
<1> QED
  BY <1>1, InitSInv, PTL DEF Spec

(* Whatever the file and the machine hold, the configuration has its type: *)
(* the tier is a byte, and interfaces are listed only where they belong.   *)
THEOREM TypeCorrect == Spec => []TypeOK
<1>1. SInv => TypeOK
  BY DEF SInv, Shape
<1> QED
  BY <1>1, Invariance, PTL

(* However many lines mtp.conf has, the last ones about the flags count:   *)
(* only a line isLeaf after every line tier can tell a switch of tier 1    *)
(* from a leaf.                                                            *)
THEOREM LastLineWins == Spec => []LastLineCounts
<1>1. SInv => LastLineCounts
  <2> SUFFICES ASSUME SInv, stage # "readConfigurationFile"
               PROVE  LastLineCounts
    BY DEF LastLineCounts
  <2>1. \A keys : LastRead(keys) = LastOf(keys)
    BY DEF Read, ReadOf, LastRead, LinesOf, LastOf
  <2>2. TopAsSaid(LastOf({"isTopSpine"})) /\ LeafAsSaid(LastOf({"isLeaf", "tier"}))
    BY <2>1 DEF SInv, FlagsAsRead
  <2>3. \A keys : LastOf(keys) \subseteq DOMAIN file
    BY DEF LastOf, LinesOf
  <2> QED
    BY <2>2, <2>3 DEF LastLineCounts, TopAsSaid, LeafAsSaid, LinesOf
<1> QED
  BY <1>1, Invariance, PTL

(* A leaf that serves one network keeps it apart from its control links,   *)
(* and its root VID names that network, however many interfaces and        *)
(* addresses it has.                                                       *)
THEOREM ServersApart == Spec => []OneNetwork
<1>1. SInv => OneNetwork
  <2> SUFFICES ASSUME SInv, stage = "loop", isLeaf,
                      NEW x \in Served, Served = {x}
               PROVE  /\ ToSet(control) = Links \ Served
                      /\ {Head(compute)} = Served
                      /\ vid[1] \in OctetsOf(Head(compute))
    BY DEF OneNetwork
  <2>1. OnlyServes(x) /\ TypeOK
    BY DEF SInv, OneServed, Shape
  <2>2. ComputeSeen = DOMAIN ifaddr /\ ControlSeen = DOMAIN ifaddr
    BY DEF ComputeSeen, ControlSeen
  <2>3. compute = <<x>>
    BY <2>1, <2>2, LinesAndAddresses DEF OnlyServes
  <2>4. Head(compute) = x
    BY <2>3
  <2>5. ToSet(control) = Links \ Served
    BY <2>1, <2>2, LinesAndAddresses DEF OnlyServes
  <2> QED
    BY <2>1, <2>4, <2>5 DEF OnlyServes
<1> QED
  BY <1>1, Invariance, PTL
-----------------------------------------------------------------------------
(* Every inhabited set of natural numbers has a least element.             *)
LEMMA Least ==
  ASSUME NEW T \in SUBSET Nat, T # {}
  PROVE  \E m \in T : \A k \in T : m <= k
<1>1. PICK n \in T : TRUE
  OBVIOUS
<1> DEFINE S == 1 .. n
           C == {1 .. k : k \in {i \in T : i <= n}}
           R == StrictSubsetOrdering(S)
<1>2. IsFiniteSet(S)
  BY FS_Interval, <1>1
<1>3. C \subseteq FiniteSubsetsOf(S) /\ C # {}
  <2>1. \A k \in T : k <= n => 1 .. k \subseteq 1 .. n
    BY <1>1
  <2>2. \A k \in T : k <= n => 1 .. k \in SUBSET S
    BY <2>1
  <2> QED
    BY <2>2, <1>1, <1>2, FS_FiniteSubsetsOfFinite
<1>4. IsWellFoundedOn(R, FiniteSubsetsOf(S))
  BY FS_StrictSubsetOrderingWellFounded
<1>5. \E x \in C : \A y \in C : ~ (<<y, x>> \in R)
  <2> HIDE DEF C, R
  <2> QED
  BY <1>3, <1>4, WFMin
<1>6. PICK m \in T : m <= n /\ \A y \in C : ~(<<y, 1 .. m>> \in R)
  BY <1>5
<1>7. ASSUME NEW k \in T, k < m PROVE FALSE
  <2>1. 1 .. k \in C /\ 1 .. m \in C /\ 1 .. k \subseteq 1 .. m
    BY <1>6, <1>7
  <2>2. m \in 1 .. m /\ m \notin 1 .. k
    BY <1>6, <1>7
  <2>3. <<1 .. k, 1 .. m>> \in (SUBSET S) \X (SUBSET S)
    BY <2>1, <1>3 DEF FiniteSubsetsOf
  <2>4. <<1 .. k, 1 .. m>> \in R
    BY <2>1, <2>2, <2>3 DEF StrictSubsetOrdering
  <2> QED
    BY <1>6, <2>1, <2>4
<1> QED
  BY <1>6, <1>7

(* Induction: a set that holds a number when it holds all smaller ones.    *)
LEMMA Induction ==
  ASSUME NEW S, \A n \in Nat : (\A k \in 0 .. n - 1 : k \in S) => n \in S
  PROVE  Nat \subseteq S
<1> SUFFICES ASSUME Nat \ S # {} PROVE FALSE
  OBVIOUS
<1>1. PICK m \in Nat \ S : \A k \in Nat \ S : m <= k
  BY Least
<1>2. \A k \in 0 .. m - 1 : k \in S
  BY <1>1
<1> QED
  BY <1>1, <1>2

(* A function f on the natural numbers with f[n] = b[n] for n in B and     *)
(* f[n] = G[n, f[d[n]]] elsewhere.                                         *)
Recursive(V, B, b, d, G) ==
  \E f \in [Nat -> V] : \A n \in Nat :
    /\ n \in B => f[n] = b[n]
    /\ n \notin B => f[n] = G[<<n, f[d[n]]>>]

(* Functions on the natural numbers may be defined by recursion: at n from *)
(* the value at some d[n] < n, or outright.                                *)
LEMMA Recursion ==
  ASSUME NEW V, NEW B, NEW b \in [Nat -> V], NEW d \in [Nat -> Nat],
         NEW G \in [Nat \X V -> V],
         \A n \in Nat \ B : d[n] < n
  PROVE  Recursive(V, B, b, d, G)
<1> DEFINE Upto(g, N) == /\ g \in [0 .. N -> V]
                         /\ \A n \in 0 .. N :
                              g[n] = IF n \in B THEN b[n] ELSE G[<<n, g[d[n]]>>]
<1>1. ASSUME NEW g, NEW h, NEW N \in Nat, NEW M \in Nat, Upto(g, N), Upto(h, M)
      PROVE  \A n \in Nat : n <= N /\ n <= M => g[n] = h[n]
  <2> DEFINE S == {n \in Nat : n <= N /\ n <= M => g[n] = h[n]}
  <2>1. ASSUME NEW n \in Nat, \A k \in 0 .. n - 1 : k \in S
        PROVE  n \in S
    <3> SUFFICES ASSUME n <= N, n <= M PROVE g[n] = h[n]
      OBVIOUS
    <3>1. n \in 0 .. N /\ n \in 0 .. M
      OBVIOUS
    <3>2. CASE n \in B
      BY <1>1, <3>1, <3>2
    <3>3. CASE n \notin B
      <4>1. d[n] \in 0 .. n - 1
        BY <3>3
      <4>2. g[d[n]] = h[d[n]]
        BY <2>1, <4>1
      <4> QED
        BY <1>1, <3>1, <3>3, <4>2
    <3> QED
      BY <3>2, <3>3
  <2>2. Nat \subseteq S
    <3> HIDE DEF S
    <3> QED
      BY <2>1, Induction
  <2> QED
    BY <2>2
<1>2. \A N \in Nat : \E g : Upto(g, N)
  <2> DEFINE S == {N \in Nat : \E g : Upto(g, N)}
  <2>1. ASSUME NEW N \in Nat, \A k \in 0 .. N - 1 : k \in S
        PROVE  N \in S
    <3>1. CASE N \in B
      <4>1. CASE N = 0
        <5> DEFINE g == [n \in 0 .. 0 |-> b[n]]
        <5>1. 0 .. 0 = {0} /\ 0 \in B
          BY <3>1, <4>1
        <5>2. g \in [0 .. 0 -> V] /\ g[0] = b[0]
          BY <5>1
        <5>3. Upto(g, 0)
          <6> HIDE DEF g
          <6> QED
            BY <5>1, <5>2
        <5> QED
          BY <4>1, <5>3
      <4>2. CASE N # 0
        <5>1. PICK h : Upto(h, N - 1)
          <6>1. N - 1 \in 0 .. N - 1
            BY <4>2
          <6> QED
            BY <2>1, <6>1
        <5> DEFINE g == [n \in 0 .. N |-> IF n = N THEN b[N] ELSE h[n]]
        <5>2. \A n \in 0 .. N - 1 : n \notin B => d[n] \in 0 .. N - 1
          OBVIOUS
        <5>3. \A n \in 0 .. N - 1 : g[n] = h[n]
          OBVIOUS
        <5>4. g \in [0 .. N -> V] /\ g[N] = b[N]
          BY <5>1
        <5>5. 0 .. N = 0 .. N - 1 \cup {N}
          BY <4>2
        <5>6. ASSUME NEW n \in 0 .. N - 1
              PROVE  g[n] = IF n \in B THEN b[n] ELSE G[<<n, g[d[n]]>>]
          <6> HIDE DEF g
          <6> QED
            BY <5>1, <5>2, <5>3
        <5>7. Upto(g, N)
          <6> HIDE DEF g
          <6> QED
            BY <3>1, <5>4, <5>5, <5>6
        <5> QED
          BY <5>7
      <4> QED
        BY <4>1, <4>2
    <3>2. CASE N \notin B
      <4>1. d[N] \in 0 .. N - 1 /\ N - 1 \in 0 .. N - 1
        BY <3>2
      <4>2. PICK h : Upto(h, N - 1)
        BY <2>1, <4>1
      <4> DEFINE g == [n \in 0 .. N |-> IF n = N THEN G[<<N, h[d[N]]>>] ELSE h[n]]
      <4>3. \A n \in 0 .. N : n \notin B => d[n] \in 0 .. N - 1
        OBVIOUS
      <4>4. \A n \in 0 .. N - 1 : g[n] = h[n]
        OBVIOUS
      <4>5. h[d[N]] \in V
        BY <4>1, <4>2
      <4>6. g \in [0 .. N -> V]
        <5>1. G[<<N, h[d[N]]>>] \in V
          BY <4>5
        <5>2. \A n \in 0 .. N : n # N => n \in 0 .. N - 1
          OBVIOUS
        <5> QED
          BY <4>2, <5>1, <5>2
      <4>7. g[N] = G[<<N, g[d[N]]>>]
        <5>1. g[d[N]] = h[d[N]] /\ g[N] = G[<<N, h[d[N]]>>]
          BY <4>1, <4>4
        <5> HIDE DEF g
        <5> QED
          BY <5>1
      <4>8. ASSUME NEW n \in 0 .. N - 1
            PROVE  g[n] = IF n \in B THEN b[n] ELSE G[<<n, g[d[n]]>>]
        <5>1. n \notin B => d[n] \in 0 .. N - 1
          OBVIOUS
        <5> HIDE DEF g
        <5> QED
          BY <4>2, <4>4, <5>1
      <4>9. Upto(g, N)
        <5>1. 0 .. N = 0 .. N - 1 \cup {N}
          BY <3>2
        <5> HIDE DEF g
        <5> QED
          BY <3>2, <4>6, <4>7, <4>8, <5>1
      <4> QED
        BY <4>9
    <3> QED
      BY <3>1, <3>2
  <2>2. Nat \subseteq S
    <3> HIDE DEF S
    <3> QED
      BY <2>1, Induction
  <2> QED
    BY <2>2
<1>3. PICK at : \A N \in Nat : Upto(at[N], N)
  <2> DEFINE at == [N \in Nat |-> CHOOSE g : Upto(g, N)]
  <2>1. \A N \in Nat : Upto(at[N], N)
    <3>1. ASSUME NEW N \in Nat PROVE Upto(at[N], N)
      <4>1. at[N] = CHOOSE g : Upto(g, N)
        OBVIOUS
      <4>2. \E g : Upto(g, N)
        BY <1>2
      <4> HIDE DEF at, Upto
      <4> QED
        BY <4>1, <4>2
    <3> QED
      BY <3>1
  <2> HIDE DEF at, Upto
  <2> QED
    BY <2>1, Zenon
<1> DEFINE f == [n \in Nat |-> at[n][n]]
<1>4. f \in [Nat -> V]
  BY <1>3
<1>5. ASSUME NEW n \in Nat
      PROVE  f[n] = IF n \in B THEN b[n] ELSE G[<<n, f[d[n]]>>]
  <2>1. n \in 0 .. n /\ Upto(at[n], n)
    BY <1>3
  <2>2. ASSUME n \notin B PROVE at[n][d[n]] = f[d[n]]
    <3>1. d[n] \in Nat /\ d[n] <= n /\ d[n] <= d[n]
      BY <2>2
    <3>2. Upto(at[d[n]], d[n])
      BY <1>3, <3>1
    <3>3. at[n][d[n]] = at[d[n]][d[n]]
      <4> HIDE DEF Upto
      <4> QED
        BY <1>1, <2>1, <3>1, <3>2
    <3> QED
      BY <3>1, <3>3
  <2> QED
    BY <2>1, <2>2
<1> QED
  <2> HIDE DEF f
  <2> QED
    BY <1>4, <1>5 DEF Recursive

-----------------------------------------------------------------------------
(* The last digit of a number and what comes before it.                    *)
LEMMA Split ==
  /\ \A n \in Nat : n \div 10 \in Nat /\ n % 10 \in Digit /\ n = 10 * (n \div 10) + (n % 10)
  /\ \A n \in Nat \ Digit : n \div 10 < n /\ n \div 10 # 0
  /\ \A n \in Nat \ {0} : n \div 10 < n
  /\ \A m \in Nat : \A c \in Digit :
       (10 * m + c) \div 10 = m /\ (10 * m + c) % 10 = c
  /\ \A m \in Nat \ {0} : \A c \in Digit : 10 * m + c \in Nat \ Digit
  /\ Digit \subseteq Nat
BY DEF Digit

(* The digits of a number.                                                 *)
LEMMA DecimalDigits ==
  /\ \A n \in Digit : Decimal[n] = <<n>>
  /\ \A n \in Nat \ Digit : Decimal[n] = Append(Decimal[n \div 10], n % 10)
  /\ \A n \in Nat : Decimal[n] \in Seq(Digit)
<1> DEFINE V == Seq(Digit)
           b == [n \in Nat |-> IF n \in Digit THEN <<n>> ELSE <<>>]
           d == [n \in Nat |-> n \div 10]
           G == [p \in Nat \X V |-> Append(p[2], p[1] % 10)]
           Is(g) == g = [n \in Nat |-> IF n \in Digit THEN <<n>>
                                       ELSE Append(g[n \div 10], n % 10)]
<1>1. b \in [Nat -> V]
  OBVIOUS
<1>2. d \in [Nat -> Nat] /\ \A n \in Nat \ Digit : d[n] < n
  BY Split
<1>3. G \in [Nat \X V -> V]
  BY Split, AppendProperties
<1>4. PICK f \in [Nat -> V] : \A n \in Nat :
           /\ n \in Digit => f[n] = b[n]
           /\ n \notin Digit => f[n] = G[<<n, f[d[n]]>>]
  <2> HIDE DEF V, b, d, G
  <2>1. Recursive(V, Digit, b, d, G)
    BY <1>1, <1>2, <1>3, Recursion
  <2> QED
    BY <2>1 DEF Recursive
<1>5. ASSUME NEW n \in Nat
      PROVE  f[n] = IF n \in Digit THEN <<n>> ELSE Append(f[n \div 10], n % 10)
  <2>1. f[d[n]] \in V /\ d[n] = n \div 10
    BY <1>2
  <2>2. G[<<n, f[d[n]]>>] = Append(f[d[n]], n % 10)
    BY <2>1
  <2>3. n \in Digit => b[n] = <<n>>
    OBVIOUS
  <2> HIDE DEF G, d, b
  <2> QED
    BY <1>4, <2>1, <2>2, <2>3
<1>6. Is(f)
  BY <1>5
<1>7. Is(Decimal)
  <2>1. Decimal = CHOOSE g : Is(g)
    BY DEF Decimal
  <2> HIDE DEF Is
  <2> QED
    BY <1>6, <2>1
<1>8. /\ \A n \in Digit : Decimal[n] = <<n>>
      /\ \A n \in Nat \ Digit : Decimal[n] = Append(Decimal[n \div 10], n % 10)
  BY <1>7, Split
<1> DEFINE S == {n \in Nat : Decimal[n] \in Seq(Digit)}
<1>9. ASSUME NEW n \in Nat, \A k \in 0 .. n - 1 : k \in S
      PROVE  n \in S
  <2>1. CASE n \in Digit
    <3>1. <<n>> \in Seq(Digit)
      BY <2>1
    <3> QED
      BY <1>8, <2>1, <3>1
  <2>2. CASE n \notin Digit
    <3>1. n \div 10 \in 0 .. n - 1 /\ n % 10 \in Digit
      BY <2>2, Split
    <3>2. Decimal[n \div 10] \in Seq(Digit)
      BY <1>9, <3>1
    <3>3. Append(Decimal[n \div 10], n % 10) \in Seq(Digit)
      BY <3>1, <3>2, AppendProperties
    <3> QED
      BY <1>8, <2>2, <3>3
  <2> QED
    BY <2>1, <2>2
<1>10. Nat \subseteq S
  <2> HIDE DEF S
  <2> QED
    BY <1>9, Induction
<1> QED
  BY <1>8, <1>10

(* int_to_str takes the digits from the last to the first, none of 0.      *)
LEMMA LastFirstDigits ==
  /\ LastFirst[0] = <<>>
  /\ \A n \in Nat \ {0} : LastFirst[n] = <<n % 10>> \o LastFirst[n \div 10]
<1> DEFINE V == Seq(Digit)
           b == [n \in Nat |-> <<>>]
           d == [n \in Nat |-> n \div 10]
           G == [p \in Nat \X V |-> <<p[1] % 10>> \o p[2]]
           Is(g) == g = [n \in Nat |-> IF n = 0 THEN <<>>
                                       ELSE <<n % 10>> \o g[n \div 10]]
<1>1. b \in [Nat -> V]
  OBVIOUS
<1>2. d \in [Nat -> Nat] /\ \A n \in Nat \ {0} : d[n] < n
  BY Split
<1>3. G \in [Nat \X V -> V]
  <2>1. \A n \in Nat : <<n % 10>> \in V
    BY Split
  <2> QED
    BY <2>1, ConcatProperties
<1>4. PICK f \in [Nat -> V] : \A n \in Nat :
           /\ n \in {0} => f[n] = b[n]
           /\ n \notin {0} => f[n] = G[<<n, f[d[n]]>>]
  <2> HIDE DEF V, b, d, G
  <2>1. Recursive(V, {0}, b, d, G)
    BY <1>1, <1>2, <1>3, Recursion
  <2> QED
    BY <2>1 DEF Recursive
<1>5. ASSUME NEW n \in Nat
      PROVE  f[n] = IF n = 0 THEN <<>> ELSE <<n % 10>> \o f[n \div 10]
  <2>1. f[d[n]] \in V /\ d[n] = n \div 10
    BY <1>2
  <2>2. G[<<n, f[d[n]]>>] = <<n % 10>> \o f[d[n]]
    BY <2>1
  <2>3. b[n] = <<>>
    OBVIOUS
  <2> HIDE DEF G, d, b
  <2> QED
    BY <1>4, <2>1, <2>2, <2>3
<1>6. Is(f)
  BY <1>5
<1>7. Is(LastFirst)
  <2>1. LastFirst = CHOOSE g : Is(g)
    BY DEF LastFirst
  <2> HIDE DEF Is
  <2> QED
    BY <1>6, <2>1
<1> QED
  BY <1>7

(* A digit more at the end.                                                *)
LEMMA DigitMore ==
  ASSUME NEW m \in Nat \ {0}, NEW c \in Digit
  PROVE  /\ Decimal[10 * m + c] = Append(Decimal[m], c)
         /\ LastFirst[10 * m + c] = <<c>> \o LastFirst[m]
<1>1. /\ 10 * m + c \in Nat \ Digit /\ 10 * m + c \in Nat \ {0}
      /\ (10 * m + c) \div 10 = m /\ (10 * m + c) % 10 = c
  BY Split DEF Digit
<1> QED
  BY <1>1, DecimalDigits, LastFirstDigits

(* The digits of a number below ten.                                       *)
LEMMA OneDigit ==
  ASSUME NEW c \in Digit
  PROVE  Decimal[c] = <<c>> /\ LastFirst[c] = IF c = 0 THEN <<>> ELSE <<c>>
<1>1. Decimal[c] = <<c>>
  BY DecimalDigits
<1>2. CASE c = 0
  BY <1>1, <1>2, LastFirstDigits
<1>3. CASE c # 0
  <2>1. c \in Nat \ {0} /\ c % 10 = c /\ c \div 10 = 0
    BY <1>3 DEF Digit
  <2>2. LastFirst[c] = <<c>> \o <<>>
    BY <2>1, LastFirstDigits
  <2> QED
    BY <1>1, <1>3, <2>2
<1> QED
  BY <1>2, <1>3

(* Short sequences element by element.                                     *)
LEMMA Pairs ==
  ASSUME NEW a, NEW b
  PROVE  Append(<<a>>, b) = <<a, b>> /\ <<a>> \o <<b>> = <<a, b>> /\ Len(<<a, b>>) = 2
<1> DEFINE S == {a, b}
           t == Append(<<a>>, b)
<1>1. <<a>> \in Seq(S) /\ b \in S /\ <<a, b>> \in Seq(S) /\ Len(<<a>>) = 1 /\ Len(<<a, b>>) = 2
  OBVIOUS
<1>2. <<a>>[1] = a /\ <<a, b>>[1] = a /\ <<a, b>>[2] = b /\ 1 .. 2 = {1, 2}
  OBVIOUS
<1> HIDE DEF S
<1>3. t \in Seq(S) /\ Len(t) = 2 /\ t[1] = a /\ t[2] = b
  BY <1>1, <1>2, AppendProperties
<1>4. t = <<a>> \o <<b>>
  BY <1>1, AppendIsConcat
<1> HIDE DEF t
<1>5. t = <<a, b>>
  BY <1>1, <1>2, <1>3, SeqEqual
<1> QED
  BY <1>1, <1>4, <1>5 DEF t

(* The same with three elements.                                           *)
LEMMA Triples ==
  ASSUME NEW a, NEW b, NEW c
  PROVE  /\ Append(<<a, b>>, c) = <<a, b, c>> /\ <<a>> \o <<b, c>> = <<a, b, c>>
         /\ Len(<<a, b, c>>) = 3
<1> DEFINE S == {a, b, c}
           t == Append(<<a, b>>, c)
<1>1. /\ <<a>> \in Seq(S) /\ <<b>> \in Seq(S) /\ <<c>> \in Seq(S) /\ c \in S
      /\ <<a, b>> \in Seq(S) /\ <<a, b, c>> \in Seq(S)
      /\ Len(<<a, b>>) = 2 /\ Len(<<a, b, c>>) = 3
  OBVIOUS
<1>2. /\ <<a, b>>[1] = a /\ <<a, b>>[2] = b /\ 1 .. 3 = {1, 2, 3}
      /\ <<a, b, c>>[1] = a /\ <<a, b, c>>[2] = b /\ <<a, b, c>>[3] = c
  OBVIOUS
<1> HIDE DEF S
<1>3. t \in Seq(S) /\ Len(t) = 3 /\ t[1] = a /\ t[2] = b /\ t[3] = c
  BY <1>1, <1>2, AppendProperties
<1>4. t = <<a, b>> \o <<c>>
  BY <1>1, AppendIsConcat
<1>5. (<<a>> \o <<b>>) \o <<c>> = <<a>> \o (<<b>> \o <<c>>)
  BY <1>1, ConcatAssociative
<1>6. <<a>> \o <<b>> = <<a, b>> /\ <<b>> \o <<c>> = <<b, c>>
  BY Pairs
<1> HIDE DEF t
<1>7. t = <<a, b, c>>
  BY <1>1, <1>2, <1>3, SeqEqual
<1> QED
  BY <1>1, <1>4, <1>5, <1>6, <1>7 DEF t

(* Up to three characters, the swaps turn them around.                     *)
LEMMA ShortSwaps ==
  ASSUME NEW n \in Nat, LastFirst[n] \in Seq(Digit), Len(LastFirst[n]) \in 0 .. 3
  PROVE  IntToStr(n) = IF Len(LastFirst[n]) <= 1 THEN LastFirst[n]
                       ELSE Swap(LastFirst[n], 1, Len(LastFirst[n]))
<1> DEFINE s == LastFirst[n]
           half == Len(s) \div 2
           Is(g) == g = [i \in 0 .. half |->
                          IF i = 0 THEN s ELSE Swap(g[i - 1], 1, Len(s) + 1 - i)]
           after == CHOOSE g : Is(g)
<1>1. IntToStr(n) = after[half]
  BY DEF IntToStr
<1>2. \A x \in 0 .. 3 : x \div 2 = IF x <= 1 THEN 0 ELSE 1
  OBVIOUS
<1>3. half = IF Len(s) <= 1 THEN 0 ELSE 1
  BY <1>2
<1> HIDE DEF s, half
<1>4. \E g : Is(g)
  <2> DEFINE h == [i \in 0 .. half |-> IF i = 0 THEN s ELSE Swap(s, 1, Len(s) + 1 - i)]
  <2>1. 0 \in 0 .. half /\ \A i \in 0 .. half : i # 0 => i - 1 = 0
    BY <1>3
  <2>2. h[0] = s
    BY <2>1
  <2>3. Is(h)
    BY <2>1, <2>2
  <2> QED
    BY <2>3
<1>5. Is(after)
  <2> HIDE DEF Is
  <2> QED
    BY <1>4
<1> HIDE DEF after
<1>6. after[0] = s
  BY <1>3, <1>5
<1>7. CASE Len(s) <= 1
  BY <1>1, <1>3, <1>6, <1>7 DEF s
<1>8. CASE ~(Len(s) <= 1)
  <2>1. half = 1 /\ 1 \in 0 .. half /\ 1 - 1 = 0 /\ Len(s) + 1 - 1 = Len(s)
    BY <1>3, <1>8 DEF s
  <2>2. after[1] = Swap(after[1 - 1], 1, Len(s) + 1 - 1)
    BY <1>5, <2>1
  <2> QED
    BY <1>1, <1>6, <1>8, <2>1, <2>2 DEF s
<1> QED
  BY <1>7, <1>8

(* int_to_str spells a byte as inet_ntoa does, but 0 not at all.           *)
LEMMA ShortNumbers ==
  ASSUME NEW n \in 0 .. 255
  PROVE  /\ IntToStr(n) = IF n = 0 THEN <<>> ELSE Decimal[n]
         /\ Len(Decimal[n]) \in 1 .. 3
<1>1. CASE n \in Digit
  <2>1. Decimal[n] = <<n>> /\ LastFirst[n] = IF n = 0 THEN <<>> ELSE <<n>>
    BY <1>1, OneDigit
  <2>2. LastFirst[n] \in Seq(Digit) /\ Len(LastFirst[n]) \in 0 .. 1 /\ Len(<<n>>) = 1
    BY <1>1, <2>1
  <2>3. IntToStr(n) = LastFirst[n]
    BY <2>2, ShortSwaps
  <2> QED
    BY <2>1, <2>2, <2>3
<1>2. CASE n \notin Digit
  <2>1. PICK m \in 1 .. 25, c \in Digit : n = 10 * m + c
    <3>1. n \div 10 \in 1 .. 25 /\ n % 10 \in Digit /\ n = 10 * (n \div 10) + (n % 10)
      BY <1>2 DEF Digit
    <3> QED
      BY <3>1
  <2>2. Decimal[n] = Append(Decimal[m], c) /\ LastFirst[n] = <<c>> \o LastFirst[m]
    <3>1. m \in Nat \ {0}
      OBVIOUS
    <3> QED
      BY <2>1, <3>1, DigitMore
  <2>3. CASE m \in Digit
    <3>1. Decimal[m] = <<m>> /\ LastFirst[m] = <<m>>
      <4>1. m # 0
        OBVIOUS
      <4> QED
        BY <2>3, <4>1, OneDigit
    <3>2. Decimal[n] = <<m, c>> /\ LastFirst[n] = <<c, m>>
      <4>1. Append(<<m>>, c) = <<m, c>> /\ <<c>> \o <<m>> = <<c, m>>
        BY Pairs, Triples
      <4> QED
        BY <2>2, <3>1, <4>1
    <3>3. IntToStr(n) = Swap(<<c, m>>, 1, 2)
      <4>1. <<c, m>> \in Seq(Digit) /\ Len(<<c, m>>) = 2 /\ n \in Nat
        BY <2>3
      <4>2. LastFirst[n] \in Seq(Digit) /\ Len(LastFirst[n]) = 2
        BY <3>2, <4>1
      <4>3. Len(LastFirst[n]) \in 0 .. 3 /\ ~(Len(LastFirst[n]) <= 1)
        BY <4>2
      <4>4. IntToStr(n) = Swap(LastFirst[n], 1, Len(LastFirst[n]))
        BY <4>1, <4>2, <4>3, ShortSwaps
      <4> QED
        BY <3>2, <4>2, <4>4
    <3>4. Swap(<<c, m>>, 1, 2) = <<m, c>> /\ Len(<<m, c>>) = 2
      BY DEF Swap
    <3> QED
      BY <1>2, <3>2, <3>3, <3>4 DEF Digit
  <2>4. CASE m \notin Digit
    <3>1. PICK k \in 1 .. 2, e \in Digit : m = 10 * k + e
      <4>1. m \div 10 \in 1 .. 2 /\ m % 10 \in Digit /\ m = 10 * (m \div 10) + (m % 10)
        BY <2>4 DEF Digit
      <4> QED
        BY <4>1
    <3>2. Decimal[m] = Append(Decimal[k], e) /\ LastFirst[m] = <<e>> \o LastFirst[k]
      <4>1. k \in Nat \ {0}
        OBVIOUS
      <4> QED
        BY <3>1, <4>1, DigitMore
    <3>3. Decimal[k] = <<k>> /\ LastFirst[k] = <<k>> /\ k \in Digit
      <4>1. k \in Digit /\ k # 0
        BY DEF Digit
      <4> QED
        BY <4>1, OneDigit
    <3>4. Decimal[n] = <<k, e, c>> /\ LastFirst[n] = <<c, e, k>>
      <4>1. /\ Append(<<k>>, e) = <<k, e>> /\ <<e>> \o <<k>> = <<e, k>>
            /\ Append(<<k, e>>, c) = <<k, e, c>> /\ <<c>> \o <<e, k>> = <<c, e, k>>
        BY Pairs, Triples
      <4> QED
        BY <2>2, <3>2, <3>3, <4>1
    <3>5. IntToStr(n) = Swap(<<c, e, k>>, 1, 3)
      <4>1. <<c, e, k>> \in Seq(Digit) /\ Len(<<c, e, k>>) = 3 /\ n \in Nat
        BY <3>3
      <4>2. LastFirst[n] \in Seq(Digit) /\ Len(LastFirst[n]) = 3
        BY <3>4, <4>1
      <4>3. Len(LastFirst[n]) \in 0 .. 3 /\ ~(Len(LastFirst[n]) <= 1)
        BY <4>2
      <4>4. IntToStr(n) = Swap(LastFirst[n], 1, Len(LastFirst[n]))
        BY <4>1, <4>2, <4>3, ShortSwaps
      <4> QED
        BY <3>4, <4>2, <4>4
    <3>6. Swap(<<c, e, k>>, 1, 3) = <<k, e, c>> /\ Len(<<k, e, c>>) = 3
      BY DEF Swap
    <3> QED
      BY <1>2, <3>4, <3>5, <3>6 DEF Digit
  <2> QED
    BY <2>3, <2>4
<1> QED
  BY <1>1, <1>2


-----------------------------------------------------------------------------
(* Reading a text back, character by character.                            *)

Character == Digit \cup {Dot}
Chain     == Seq(Nat) \ {<<>>}

(* One more character of a text of which numbers has been read so far.     *)
Step(numbers, c) ==
  IF c = Dot THEN Append(numbers, 0)
             ELSE [numbers EXCEPT ![Len(numbers)] = 10 * @ + c]

(* What has been read of text after each of its characters.                *)
IsRead(text, read) ==
  /\ read \in [0 .. Len(text) -> Chain]
  /\ read[0] = <<0>>
  /\ \A i \in 1 .. Len(text) : read[i] = Step(read[i - 1], text[i])

(* A digit is added to the last number.                                    *)
LEMMA DigitStep ==
  ASSUME NEW numbers \in Seq(Nat), NEW k \in Nat, NEW c \in Digit
  PROVE  Step(Append(numbers, k), c) = Append(numbers, 10 * k + c)
<1> DEFINE s == Append(numbers, k)
           t == [s EXCEPT ![Len(s)] = 10 * s[Len(s)] + c]
           u == Append(numbers, 10 * k + c)
<1>1. c # Dot /\ 10 * k + c \in Nat
  BY DEF Digit, Dot
<1>2. /\ s \in Seq(Nat) /\ Len(s) = Len(numbers) + 1 /\ Len(numbers) \in Nat
      /\ s[Len(s)] = k /\ \A i \in 1 .. Len(numbers) : s[i] = numbers[i]
  BY AppendProperties, LenProperties
<1>3. /\ u \in Seq(Nat) /\ Len(u) = Len(numbers) + 1
      /\ u[Len(u)] = 10 * k + c /\ \A i \in 1 .. Len(numbers) : u[i] = numbers[i]
  BY <1>1, AppendProperties
<1>4. Step(s, c) = t
  BY <1>1 DEF Step
<1> HIDE DEF s, u
<1>5. /\ t \in Seq(Nat) /\ Len(t) = Len(s)
      /\ \A i \in 1 .. Len(s) : t[i] = IF i = Len(s) THEN 10 * k + c ELSE s[i]
  <2>1. Len(s) \in 1 .. Len(s)
    BY <1>2
  <2> QED
    BY <1>1, <1>2, <2>1, ExceptSeq
<1> HIDE DEF t
<1>6. ASSUME NEW i \in 1 .. Len(t) PROVE t[i] = u[i]
  <2>1. CASE i = Len(s)
    BY <1>2, <1>3, <1>5, <2>1
  <2>2. CASE i # Len(s)
    <3>1. i \in 1 .. Len(numbers) /\ i \in 1 .. Len(s)
      BY <1>2, <1>5, <2>2
    <3> QED
      BY <1>2, <1>3, <1>5, <2>2, <3>1
  <2> QED
    BY <2>1, <2>2
<1>7. t = u
  BY <1>2, <1>3, <1>5, <1>6, SeqEqual
<1> QED
  BY <1>4, <1>7 DEF s, u

(* What is read stays a sequence of numbers.                               *)
LEMMA StepChain ==
  ASSUME NEW numbers \in Chain, NEW c \in Character
  PROVE  Step(numbers, c) \in Chain
<1>1. CASE c = Dot
  <2>1. Append(numbers, 0) \in Seq(Nat) /\ Append(numbers, 0) # <<>>
    BY AppendProperties DEF Chain
  <2> QED
    BY <1>1, <2>1 DEF Step, Chain
<1>2. CASE c # Dot
  <2>1. c \in Digit
    BY <1>2 DEF Character
  <2>2. PICK s \in Seq(Nat), k \in Nat : numbers = Append(s, k)
    BY SequenceEmptyOrAppend DEF Chain
  <2>3. Step(numbers, c) = Append(s, 10 * k + c) /\ 10 * k + c \in Nat
    <3>1. Step(Append(s, k), c) = Append(s, 10 * k + c)
      BY <2>1, DigitStep
    <3>2. 10 * k + c \in Nat
      BY <2>1 DEF Digit
    <3> QED
      BY <2>2, <3>1, <3>2
  <2>4. Append(s, 10 * k + c) \in Seq(Nat) /\ Append(s, 10 * k + c) # <<>>
    BY <2>3, AppendProperties
  <2> QED
    BY <2>3, <2>4 DEF Chain
<1> QED
  BY <1>1, <1>2

(* Such a reading exists.                                                  *)
LEMMA EveryTextIsRead ==
  ASSUME NEW text \in Seq(Character)
  PROVE  \E read : IsRead(text, read)
<1> DEFINE V == Chain
           b == [n \in Nat |-> <<0>>]
           d == [n \in Nat |-> IF n = 0 THEN 0 ELSE n - 1]
           G == [p \in Nat \X V |-> IF p[1] \in 1 .. Len(text)
                                    THEN Step(p[2], text[p[1]]) ELSE <<0>>]
<1>1. <<0>> \in V
  BY DEF Chain
<1>2. b \in [Nat -> V]
  BY <1>1
<1>3. d \in [Nat -> Nat] /\ \A n \in Nat \ {0} : d[n] < n
  OBVIOUS
<1>4. G \in [Nat \X V -> V]
  <2>1. ASSUME NEW n \in Nat, NEW s \in V, n \in 1 .. Len(text)
        PROVE  Step(s, text[n]) \in V
    <3>1. text[n] \in Character
      BY <2>1, ElementOfSeq
    <3> QED
      BY <3>1, StepChain
  <2> QED
    BY <1>1, <2>1
<1>5. PICK f \in [Nat -> V] : \A n \in Nat :
           /\ n \in {0} => f[n] = b[n]
           /\ n \notin {0} => f[n] = G[<<n, f[d[n]]>>]
  <2> HIDE DEF V, b, d, G
  <2>1. Recursive(V, {0}, b, d, G)
    BY <1>2, <1>3, <1>4, Recursion
  <2> QED
    BY <2>1 DEF Recursive
<1> DEFINE read == [i \in 0 .. Len(text) |-> f[i]]
<1>6. Len(text) \in Nat
  BY LenProperties
<1>7. f[0] = <<0>>
  BY <1>5
<1>8. ASSUME NEW i \in 1 .. Len(text)
      PROVE  f[i] = Step(f[i - 1], text[i])
  <2>1. i \in Nat /\ i # 0 /\ d[i] = i - 1 /\ i - 1 \in Nat
    BY <1>6
  <2>2. f[i] = G[<<i, f[i - 1]>>]
    <3> HIDE DEF G, d, b
    <3> QED
      BY <1>5, <2>1
  <2> QED
    BY <2>1, <2>2
<1>9. IsRead(text, read)
  <2>1. \A i \in 1 .. Len(text) : i - 1 \in 0 .. Len(text) /\ i \in 0 .. Len(text)
    BY <1>6
  <2>2. read \in [0 .. Len(text) -> Chain] /\ 0 \in 0 .. Len(text)
    BY <1>6
  <2> QED
    BY <1>7, <1>8, <2>1, <2>2 DEF IsRead
<1> QED
  BY <1>9

(* Numbers is what has been read after the last character.                 *)
LEMMA NumbersRead ==
  ASSUME NEW text \in Seq(Character), NEW read, IsRead(text, read)
  PROVE  Numbers(text) = read[Len(text)]
<1> DEFINE Is(g) == g = [i \in 0 .. Len(text) |->
                          IF i = 0 THEN <<0>>
                          ELSE IF text[i] = Dot THEN Append(g[i - 1], 0)
                          ELSE [g[i - 1] EXCEPT ![Len(g[i - 1])] = 10 * @ + text[i]]]
           g0 == CHOOSE g : Is(g)
<1>1. Len(text) \in Nat
  BY LenProperties
<1>2. Numbers(text) = g0[Len(text)]
  BY DEF Numbers
<1>3. Is(read)
  <2>1. ASSUME NEW i \in 0 .. Len(text), i # 0
        PROVE  i \in 1 .. Len(text)
    BY <1>1, <2>1
  <2> QED
    BY <2>1 DEF IsRead, Step
<1>4. Is(g0)
  <2> HIDE DEF Is
  <2> QED
    BY <1>3
<1>5. \A i \in 0 .. Len(text) : g0[i] = IF i = 0 THEN <<0>> ELSE Step(g0[i - 1], text[i])
  BY <1>4 DEF Step
<1> HIDE DEF g0
<1> DEFINE S == {i \in Nat : i <= Len(text) => g0[i] = read[i]}
<1>6. ASSUME NEW i \in Nat, \A k \in 0 .. i - 1 : k \in S
      PROVE  i \in S
  <2> SUFFICES ASSUME i <= Len(text) PROVE g0[i] = read[i]
    OBVIOUS
  <2>1. CASE i = 0
    BY <1>1, <1>5, <2>1 DEF IsRead
  <2>2. CASE i # 0
    <3>1. i - 1 \in 0 .. i - 1 /\ i - 1 <= Len(text) /\ i \in 1 .. Len(text) /\ i \in 0 .. Len(text)
      BY <1>1, <2>2
    <3>2. g0[i - 1] = read[i - 1]
      BY <1>6, <3>1
    <3> QED
      BY <1>5, <2>2, <3>1, <3>2 DEF IsRead
  <2> QED
    BY <2>1, <2>2
<1>7. Nat \subseteq S
  <2> HIDE DEF S
  <2> QED
    BY <1>6, Induction
<1> QED
  BY <1>1, <1>2, <1>7

(* A text is read by reading all but its last character first.             *)
LEMMA NumbersAppend ==
  ASSUME NEW text \in Seq(Character), NEW c \in Character
  PROVE  Numbers(text) \in Chain /\ Numbers(Append(text, c)) = Step(Numbers(text), c)
<1>1. PICK read : IsRead(text, read)
  BY EveryTextIsRead
<1> DEFINE t == Append(text, c)
           more == [i \in 0 .. Len(t) |-> IF i <= Len(text) THEN read[i]
                                          ELSE Step(read[Len(text)], c)]
<1>2. /\ t \in Seq(Character) /\ Len(t) = Len(text) + 1 /\ Len(text) \in Nat
      /\ t[Len(t)] = c /\ \A i \in 1 .. Len(text) : t[i] = text[i]
  BY AppendProperties, LenProperties
<1> HIDE DEF t
<1>3. Numbers(text) = read[Len(text)] /\ read[Len(text)] \in Chain
  BY <1>1, <1>2, NumbersRead DEF IsRead
<1>4. Step(read[Len(text)], c) \in Chain
  BY <1>3, StepChain
<1>5. IsRead(t, more)
  <2>1. more \in [0 .. Len(t) -> Chain]
    <3>1. \A i \in 0 .. Len(t) : i <= Len(text) => i \in 0 .. Len(text)
      BY <1>2
    <3>2. \A i \in 0 .. Len(text) : read[i] \in Chain
      BY <1>1 DEF IsRead
    <3> QED
      BY <1>4, <3>1, <3>2
  <2>2. more[0] = <<0>>
    BY <1>1, <1>2 DEF IsRead
  <2>3. ASSUME NEW i \in 1 .. Len(t)
        PROVE  more[i] = Step(more[i - 1], t[i])
    <3>1. i - 1 \in 0 .. Len(t) /\ i - 1 <= Len(text) /\ i \in 0 .. Len(t)
      BY <1>2
    <3>2. more[i - 1] = read[i - 1]
      BY <3>1
    <3>3. CASE i <= Len(text)
      <4>1. i \in 1 .. Len(text)
        BY <1>2, <3>3
      <4>2. more[i] = read[i] /\ t[i] = text[i]
        BY <1>2, <3>1, <3>3, <4>1
      <4> HIDE DEF more
      <4> QED
        BY <1>1, <3>2, <4>1, <4>2 DEF IsRead
    <3>4. CASE ~(i <= Len(text))
      <4>1. i = Len(t) /\ i - 1 = Len(text)
        BY <1>2, <3>4
      <4>2. more[i] = Step(read[Len(text)], c)
        BY <3>1, <3>4
      <4> HIDE DEF more
      <4> QED
        BY <1>2, <3>2, <4>1, <4>2
    <3> QED
      BY <3>3, <3>4
  <2> HIDE DEF more
  <2> QED
    BY <2>1, <2>2, <2>3 DEF IsRead
<1>6. Numbers(t) = more[Len(t)]
  <2> HIDE DEF more
  <2> QED
    BY <1>2, <1>5, NumbersRead
<1>7. more[Len(t)] = Step(read[Len(text)], c)
  BY <1>2
<1> QED
  BY <1>3, <1>6, <1>7 DEF t

(* Nothing is read as a 0 that digits may follow.                          *)
LEMMA NumbersOfNothing == Numbers(<<>>) = <<0>>
<1>1. <<>> \in Seq(Character) /\ Len(<<>>) = 0
  BY EmptySeq
<1>2. PICK read : IsRead(<<>>, read)
  BY <1>1, EveryTextIsRead
<1> QED
  BY <1>1, <1>2, NumbersRead DEF IsRead

(* After numbers and a 0, the digits of k are read as the number k.        *)
LEMMA DigitsRead ==
  ASSUME NEW text \in Seq(Character), NEW numbers \in Seq(Nat),
         Numbers(text) = Append(numbers, 0)
  PROVE  \A k \in Nat : /\ text \o Decimal[k] \in Seq(Character)
                        /\ Numbers(text \o Decimal[k]) = Append(numbers, k)
<1> DEFINE S == {k \in Nat : Numbers(text \o Decimal[k]) = Append(numbers, k)}
<1>1. \A k \in Nat : Decimal[k] \in Seq(Character)
  <2>1. Digit \subseteq Character
    BY DEF Character
  <2> QED
    BY <2>1, DecimalDigits, SeqMonotonic
<1>2. \A k \in Nat : text \o Decimal[k] \in Seq(Character)
  BY <1>1, ConcatProperties
<1>3. ASSUME NEW k \in Nat, \A j \in 0 .. k - 1 : j \in S
      PROVE  k \in S
  <2>1. CASE k \in Digit
    <3>1. Decimal[k] = <<k>> /\ k \in Character
      BY <2>1, DecimalDigits DEF Character
    <3>2. text \o <<k>> = Append(text, k)
      BY <3>1, AppendIsConcat
    <3>3. Numbers(Append(text, k)) = Step(Append(numbers, 0), k)
      BY <3>1, NumbersAppend
    <3>4. Step(Append(numbers, 0), k) = Append(numbers, 10 * 0 + k) /\ 10 * 0 + k = k
      BY <2>1, DigitStep
    <3> QED
      BY <3>1, <3>2, <3>3, <3>4
  <2>2. CASE k \notin Digit
    <3> DEFINE m == k \div 10
               c == k % 10
               s == Decimal[m]
    <3>1. m \in Nat /\ m \in 0 .. k - 1 /\ c \in Digit /\ 10 * m + c = k /\ Decimal[k] = Append(s, c)
      BY <2>2, Split, DecimalDigits
    <3>2. Numbers(text \o s) = Append(numbers, m) /\ s \in Seq(Character)
          /\ text \o s \in Seq(Character) /\ c \in Character
      BY <1>1, <1>2, <1>3, <3>1 DEF Character
    <3> HIDE DEF m, c, s
    <3>3. text \o Append(s, c) = Append(text \o s, c)
      <4>1. <<c>> \in Seq(Character)
        BY <3>2
      <4>2. Append(s, c) = s \o <<c>> /\ Append(text \o s, c) = (text \o s) \o <<c>>
        BY <3>2, AppendIsConcat
      <4> QED
        BY <3>2, <4>1, <4>2, ConcatAssociative
    <3>4. Numbers(Append(text \o s, c)) = Step(Append(numbers, m), c)
      BY <3>2, NumbersAppend
    <3>5. Step(Append(numbers, m), c) = Append(numbers, k)
      BY <3>1, DigitStep
    <3> QED
      BY <3>1, <3>3, <3>4, <3>5
  <2> QED
    BY <2>1, <2>2
<1>4. Nat \subseteq S
  <2> HIDE DEF S
  <2> QED
    BY <1>3, Induction
<1> QED
  BY <1>2, <1>4

(* The digits of a number are read as it, and a port number after a dot    *)
(* is read as one number more.                                             *)
LEMMA NumbersOfDecimal ==
  ASSUME NEW n \in Nat
  PROVE  Decimal[n] \in Seq(Character) /\ Numbers(Decimal[n]) = <<n>>
<1>1. <<>> \in Seq(Character) /\ <<>> \in Seq(Nat)
  BY EmptySeq
<1>2. \A k : Append(<<>>, k) = <<k>>
  OBVIOUS
<1>3. Numbers(<<>>) = Append(<<>>, 0)
  BY <1>2, NumbersOfNothing
<1>4. Decimal[n] \in Seq(Character)
  <2>1. Digit \subseteq Character
    BY DEF Character
  <2> QED
    BY <2>1, DecimalDigits, SeqMonotonic
<1>5. <<>> \o Decimal[n] = Decimal[n]
  BY <1>4, ConcatEmptySeq
<1>6. Numbers(<<>> \o Decimal[n]) = Append(<<>>, n)
  BY <1>1, <1>3, DigitsRead
<1> QED
  BY <1>2, <1>4, <1>5, <1>6

(* append_port_number_after_VID adds its number and no other.              *)
LEMMA NumbersOfMore ==
  ASSUME NEW text \in Seq(Character), NEW k \in Nat
  PROVE  /\ AppendPortNumber(text, k) \in Seq(Character)
         /\ Numbers(AppendPortNumber(text, k)) = Append(Numbers(text), k)
<1>1. Numbers(text) \in Seq(Nat) /\ Dot \in Character
  BY NumbersAppend DEF Chain, Character
<1>2. text \o <<Dot>> = Append(text, Dot) /\ Append(text, Dot) \in Seq(Character)
  BY <1>1, AppendIsConcat, AppendProperties
<1>3. Numbers(Append(text, Dot)) = Append(Numbers(text), 0)
  BY <1>1, NumbersAppend DEF Step
<1> QED
  BY <1>1, <1>2, <1>3, DigitsRead DEF AppendPortNumber


-----------------------------------------------------------------------------
(* The payload of a frame.                                                 *)

Byte == 0 .. 255

(* parts[1] \o ... \o parts[i], for every i.                               *)
IsJoined(parts, upto) ==
  /\ upto \in [0 .. Len(parts) -> Seq(Byte)]
  /\ upto[0] = <<>>
  /\ \A i \in 1 .. Len(parts) : upto[i] = upto[i - 1] \o parts[i]

(* Such a joining exists.                                                  *)
LEMMA EverythingIsJoined ==
  ASSUME NEW parts \in Seq(Seq(Byte))
  PROVE  \E upto : IsJoined(parts, upto)
<1> DEFINE V == Seq(Byte)
           b == [n \in Nat |-> <<>>]
           d == [n \in Nat |-> IF n = 0 THEN 0 ELSE n - 1]
           G == [p \in Nat \X V |-> IF p[1] \in 1 .. Len(parts)
                                    THEN p[2] \o parts[p[1]] ELSE <<>>]
<1>1. <<>> \in V /\ Len(parts) \in Nat
  BY EmptySeq, LenProperties
<1>2. b \in [Nat -> V]
  BY <1>1
<1>3. d \in [Nat -> Nat] /\ \A n \in Nat \ {0} : d[n] < n
  OBVIOUS
<1>4. G \in [Nat \X V -> V]
  <2>1. ASSUME NEW n \in 1 .. Len(parts), NEW s \in V
        PROVE  s \o parts[n] \in V
    <3>1. parts[n] \in Seq(Byte)
      BY ElementOfSeq
    <3> QED
      BY <3>1, ConcatProperties
  <2> QED
    BY <1>1, <2>1
<1>5. PICK f \in [Nat -> V] : \A n \in Nat :
           /\ n \in {0} => f[n] = b[n]
           /\ n \notin {0} => f[n] = G[<<n, f[d[n]]>>]
  <2> HIDE DEF V, b, d, G
  <2>1. Recursive(V, {0}, b, d, G)
    BY <1>2, <1>3, <1>4, Recursion
  <2> QED
    BY <2>1 DEF Recursive
<1> DEFINE upto == [i \in 0 .. Len(parts) |-> f[i]]
<1>6. f[0] = <<>>
  BY <1>5
<1>7. ASSUME NEW i \in 1 .. Len(parts)
      PROVE  f[i] = f[i - 1] \o parts[i]
  <2>1. i \in Nat /\ i # 0 /\ d[i] = i - 1 /\ i - 1 \in Nat
    BY <1>1
  <2>2. f[i] = G[<<i, f[i - 1]>>]
    <3> HIDE DEF G, d, b
    <3> QED
      BY <1>5, <2>1
  <2> QED
    BY <2>1, <2>2
<1>8. IsJoined(parts, upto)
  <2>1. \A i \in 1 .. Len(parts) : i - 1 \in 0 .. Len(parts) /\ i \in 0 .. Len(parts)
    BY <1>1
  <2>2. upto \in [0 .. Len(parts) -> Seq(Byte)] /\ 0 \in 0 .. Len(parts)
    BY <1>1
  <2> QED
    BY <1>6, <1>7, <2>1, <2>2 DEF IsJoined
<1> QED
  BY <1>8

(* FlattenSeq of the community modules joins all the parts.                *)
LEMMA FlattenJoins ==
  ASSUME NEW parts \in Seq(Seq(Byte)), NEW upto, IsJoined(parts, upto)
  PROVE  FlattenSeq(parts) = upto[Len(parts)]
<1>1. Len(parts) \in Nat
  BY LenProperties
<1>2. CASE Len(parts) = 0
  <2>1. parts = <<>>
    BY <1>2, EmptySeq
  <2> QED
    BY <1>2, <2>1 DEF FlattenSeq, IsJoined
<1>3. CASE Len(parts) # 0
  <2> DEFINE Is(g) == g = [i \in 1 .. Len(parts) |->
                            IF i = 1 THEN parts[i] ELSE g[i - 1] \o parts[i]]
             g0 == CHOOSE g : Is(g)
             h  == [i \in 1 .. Len(parts) |-> upto[i]]
  <2>1. FlattenSeq(parts) = g0[Len(parts)]
    BY <1>3 DEF FlattenSeq
  <2>2. 1 \in 1 .. Len(parts) /\ Len(parts) \in 1 .. Len(parts)
    BY <1>1, <1>3
  <2>3. upto[1] = parts[1]
    <3>1. upto[1] = <<>> \o parts[1]
      <4>1. \A i \in 1 .. Len(parts) : upto[i] = upto[i - 1] \o parts[i]
        BY DEF IsJoined
      <4>2. upto[1] = upto[1 - 1] \o parts[1]
        BY <2>2, <4>1
      <4>3. upto[1 - 1] = <<>>
        BY DEF IsJoined
      <4> QED
        BY <4>2, <4>3
    <3>2. parts[1] \in Seq(Byte)
      BY <2>2, ElementOfSeq
    <3> QED
      BY <3>1, <3>2, ConcatEmptySeq
  <2>4. \A i \in 1 .. Len(parts) : i # 1 => i - 1 \in 1 .. Len(parts)
    BY <1>1
  <2>5. Is(h)
    BY <2>3, <2>4 DEF IsJoined
  <2>6. Is(g0)
    <3> HIDE DEF Is, h
    <3> QED
      BY <2>5
  <2>7. \A i \in 1 .. Len(parts) : g0[i] = IF i = 1 THEN parts[i] ELSE g0[i - 1] \o parts[i]
    BY <2>6
  <2> HIDE DEF g0
  <2> DEFINE S == {i \in Nat : i \in 1 .. Len(parts) => g0[i] = upto[i]}
  <2>8. ASSUME NEW i \in Nat, \A k \in 0 .. i - 1 : k \in S
        PROVE  i \in S
    <3> SUFFICES ASSUME i \in 1 .. Len(parts) PROVE g0[i] = upto[i]
      OBVIOUS
    <3>1. CASE i = 1
      BY <2>2, <2>3, <2>7, <3>1
    <3>2. CASE i # 1
      <4>1. i - 1 \in 0 .. i - 1 /\ i - 1 \in 1 .. Len(parts)
        BY <2>4, <3>2
      <4>2. g0[i - 1] = upto[i - 1]
        BY <2>8, <4>1
      <4> QED
        BY <2>7, <3>2, <4>2 DEF IsJoined
    <3> QED
      BY <3>1, <3>2
  <2>9. Nat \subseteq S
    <3> HIDE DEF S
    <3> QED
      BY <2>8, Induction
  <2> QED
    BY <2>1, <2>2, <2>9
<1> QED
  BY <1>2, <1>3

(* Two sequences one after the other.                                      *)
LEMMA Joint ==
  ASSUME NEW S, NEW s \in Seq(S), NEW t \in Seq(S),
         NEW m \in Nat, m = Len(s), NEW n \in Nat, n = Len(t)
  PROVE  /\ s \o t \in Seq(S) /\ Len(s \o t) = m + n
         /\ \A k \in 1 .. m : (s \o t)[k] = s[k]
         /\ \A k \in 1 .. n : (s \o t)[m + k] = t[k]
<1> DEFINE u == s \o t
<1>1. /\ u \in Seq(S) /\ Len(u) = m + n
      /\ \A k \in 1 .. m + n : u[k] = IF k <= m THEN s[k] ELSE t[k - m]
  BY ConcatProperties
<1> HIDE DEF u
<1>2. ASSUME NEW k \in 1 .. m PROVE u[k] = s[k]
  <2>1. k \in 1 .. m + n /\ k <= m
    OBVIOUS
  <2> QED
    BY <1>1, <2>1
<1>3. ASSUME NEW k \in 1 .. n PROVE u[m + k] = t[k]
  <2>1. m + k \in 1 .. m + n /\ ~(m + k <= m) /\ (m + k) - m = k
    OBVIOUS
  <2> QED
    BY <1>1, <2>1
<1> QED
  BY <1>1, <1>2, <1>3 DEF u

(* What has been joined stays in front of what is joined later, and where  *)
(* the i-th part is found in the whole.                                    *)
Parted(N, whole, parts) ==
  \E off \in [0 .. N -> Nat] : \E size \in [1 .. N -> Nat] :
    /\ off[0] = 0 /\ Len(whole) = off[N]
    /\ \A i \in 1 .. N :
         /\ size[i] = Len(parts[i]) /\ off[i] = off[i - 1] + size[i]
         /\ off[i] <= off[N]
         /\ \A k \in 1 .. size[i] : whole[off[i - 1] + k] = parts[i][k]

(* Everything that is joined is made of its parts.                         *)
LEMMA PartOfWhole ==
  ASSUME NEW N \in Nat, NEW parts \in Seq(Seq(Byte)), Len(parts) = N,
         NEW upto, IsJoined(parts, upto)
  PROVE  Parted(N, upto[N], parts)
<1> DEFINE off == [j \in 0 .. N |-> Len(upto[j])]
           size == [j \in 1 .. N |-> Len(parts[j])]
<1>1. /\ \A j \in 0 .. N : upto[j] \in Seq(Byte)
      /\ upto[0] = <<>> /\ \A j \in 1 .. N : upto[j] = upto[j - 1] \o parts[j]
  BY DEF IsJoined
<1>2. \A j \in 1 .. N : parts[j] \in Seq(Byte) /\ j - 1 \in 0 .. N /\ j \in 0 .. N
  BY ElementOfSeq
<1>3. off \in [0 .. N -> Nat] /\ size \in [1 .. N -> Nat]
  BY <1>1, <1>2, LenProperties
<1>4. /\ \A j \in 0 .. N : off[j] = Len(upto[j])
      /\ \A j \in 1 .. N : size[j] = Len(parts[j])
  OBVIOUS
<1> HIDE DEF off, size
<1>5. ASSUME NEW j \in 1 .. N
      PROVE  /\ off[j] = off[j - 1] + size[j]
             /\ \A k \in 1 .. off[j - 1] : upto[j][k] = upto[j - 1][k]
             /\ \A k \in 1 .. size[j] : upto[j][off[j - 1] + k] = parts[j][k]
  <2> DEFINE s == upto[j - 1]  t == parts[j]  m == off[j - 1]  n == size[j]
  <2>1. /\ s \in Seq(Byte) /\ t \in Seq(Byte) /\ m \in Nat /\ m = Len(s)
        /\ n \in Nat /\ n = Len(t) /\ upto[j] = s \o t /\ off[j] = Len(upto[j])
    BY <1>1, <1>2, <1>3, <1>4
  <2> HIDE DEF s, t, m, n
  <2>2. /\ Len(s \o t) = m + n
        /\ \A k \in 1 .. m : (s \o t)[k] = s[k]
        /\ \A k \in 1 .. n : (s \o t)[m + k] = t[k]
    BY <2>1, Joint
  <2>3. /\ off[j] = m + n
        /\ \A k \in 1 .. m : upto[j][k] = s[k]
        /\ \A k \in 1 .. n : upto[j][m + k] = t[k]
    BY <2>1, <2>2
  <2> QED
    BY <2>3 DEF s, t, m, n
<1> DEFINE S == {j \in Nat : j <= N => \A i \in 0 .. j :
                   /\ off[i] <= off[j]
                   /\ \A k \in 1 .. off[i] : upto[j][k] = upto[i][k]}
<1>6. ASSUME NEW j \in Nat, \A k \in 0 .. j - 1 : k \in S
      PROVE  j \in S
  <2> SUFFICES ASSUME j <= N, NEW i \in 0 .. j
               PROVE  /\ off[i] <= off[j]
                      /\ \A k \in 1 .. off[i] : upto[j][k] = upto[i][k]
    OBVIOUS
  <2>0. off[i] \in Nat /\ off[j] \in Nat
    BY <1>3
  <2>1. CASE i = j
    BY <2>0, <2>1
  <2>2. CASE i # j
    <3>1. j - 1 \in 0 .. j - 1 /\ j - 1 <= N /\ j \in 1 .. N /\ j - 1 \in 0 .. N
          /\ i \in 0 .. j - 1
      BY <2>2
    <3>2. /\ off[i] <= off[j - 1]
          /\ \A k \in 1 .. off[i] : upto[j - 1][k] = upto[i][k]
      BY <1>6, <3>1
    <3>3. off[j - 1] \in Nat /\ size[j] \in Nat /\ off[j] = off[j - 1] + size[j]
      BY <1>3, <1>5, <3>1
    <3>4. off[i] <= off[j]
      BY <2>0, <3>2, <3>3
    <3>5. ASSUME NEW k \in 1 .. off[i] PROVE upto[j][k] = upto[i][k]
      <4>1. k \in 1 .. off[j - 1]
        BY <2>0, <3>2, <3>3
      <4> QED
        BY <1>5, <3>1, <3>2, <4>1
    <3> QED
      BY <3>4, <3>5
  <2> QED
    BY <2>1, <2>2
<1>7. Nat \subseteq S
  <2> HIDE DEF S
  <2> QED
    BY <1>6, Induction
<1>8. N \in S /\ \A i \in 1 .. N : i \in 0 .. N
  BY <1>7
<1>9. ASSUME NEW i \in 1 .. N, NEW k \in 1 .. size[i]
      PROVE  upto[N][off[i - 1] + k] = parts[i][k]
  <2>1. off[i - 1] \in Nat /\ size[i] \in Nat /\ off[i] = off[i - 1] + size[i]
    BY <1>2, <1>3, <1>5
  <2>2. off[i - 1] + k \in 1 .. off[i]
    BY <2>1
  <2>3. upto[N][off[i - 1] + k] = upto[i][off[i - 1] + k]
    BY <1>8, <2>2
  <2> QED
    BY <1>5, <2>3
<1>10. off[0] = 0
  <2>1. Len(<<>>) = 0 /\ 0 \in 0 .. N
    OBVIOUS
  <2> QED
    BY <1>1, <1>4, <2>1
<1>11. Len(upto[N]) = off[N] /\ \A i \in 1 .. N : off[i] <= off[N]
  BY <1>4, <1>8
<1> QED
  BY <1>3, <1>4, <1>5, <1>9, <1>10, <1>11 DEF Parted

(* The same, of sequences whose length is known.                           *)
OfLength(S, n) == {s \in Seq(S) : Len(s) = n}

Jointed(S, s, t, m, n, u) ==
  /\ u \in OfLength(S, m + n)
  /\ \A k \in 1 .. m : u[k] = s[k]
  /\ \A k \in 1 .. n : u[m + k] = t[k]

(* Lengths add up.                                                         *)
LEMMA JointOfLength ==
  ASSUME NEW S, NEW m \in Nat, NEW n \in Nat,
         NEW s \in OfLength(S, m), NEW t \in OfLength(S, n)
  PROVE  Jointed(S, s, t, m, n, s \o t)
<1>1. s \in Seq(S) /\ t \in Seq(S) /\ m = Len(s) /\ n = Len(t)
  BY DEF OfLength
<1>2. /\ s \o t \in Seq(S) /\ Len(s \o t) = m + n
      /\ \A k \in 1 .. m : (s \o t)[k] = s[k]
      /\ \A k \in 1 .. n : (s \o t)[m + k] = t[k]
  BY <1>1, Joint
<1> QED
  BY <1>2 DEF OfLength, Jointed

(* A sequence cut out of another one.                                      *)
Stands(s, n, u, o) == \A k \in 1 .. n : u[o + k] = s[k]

(* SubSeq cuts it out again.                                               *)
LEMMA CutOut ==
  ASSUME NEW S, NEW m \in Nat, NEW n \in Nat, NEW o \in Nat, o + n <= m,
         NEW u \in OfLength(S, m), NEW s \in OfLength(S, n), Stands(s, n, u, o)
  PROVE  SubSeq(u, o + 1, o + n) = s
<1>1. u \in Seq(S) /\ s \in Seq(S) /\ Len(u) = m /\ Len(s) = n
  BY DEF OfLength
<1> DEFINE c == SubSeq(u, o + 1, o + n)
<1>2. /\ c \in Seq(S)
      /\ Len(c) = IF o + 1 <= o + n THEN (o + n) - (o + 1) + 1 ELSE 0
      /\ \A k \in 1 .. (o + n) - (o + 1) + 1 : c[k] = u[o + 1 + k - 1]
  <2>1. \A k \in o + 1 .. o + n : k \in 1 .. m
    OBVIOUS
  <2>2. \A k \in o + 1 .. o + n : u[k] \in S
    BY <1>1, <2>1, ElementOfSeq
  <2>3. o + 1 \in Int /\ o + n \in Int
    OBVIOUS
  <2> HIDE DEF c
  <2> QED
    BY <2>2, <2>3, SubSeqProperties DEF c
<1> HIDE DEF c
<1>3. Len(c) = n
  BY <1>2
<1>4. ASSUME NEW k \in 1 .. n PROVE c[k] = s[k]
  <2>1. k \in 1 .. (o + n) - (o + 1) + 1 /\ o + 1 + k - 1 = o + k
    OBVIOUS
  <2> QED
    BY <1>2, <2>1 DEF Stands
<1> QED
  BY <1>1, <1>2, <1>3, <1>4, SeqEqual DEF c

(* A number in two bytes.                                                  *)
LEMMA TwoBytes ==
  ASSUME NEW N \in Nat, N < 65536
  PROVE  N % 256 \in Byte /\ N \div 256 \in Byte /\ (N % 256) + 256 * (N \div 256) = N
BY DEF Byte

(* The place after that of the length in front of a VID of n characters.   *)
Following(p, n) == p + 1 + n

(* place[i] is the i-th of these places.                                   *)
Chained(N, width, place) ==
  place = [i \in 1 .. N |-> IF i = 1 THEN 3 ELSE Following(place[i - 1], width[i - 1])]

(* After the number of VIDs, each in its place: its length width[i] in       *)
(* front, and the place of the next one after its characters.              *)
LaidOut(N, payload, width, place) ==
  /\ payload[1] + 256 * payload[2] = N
  /\ Chained(N, width, place)
  /\ \A i \in 1 .. N : payload[place[i]] = width[i]

(* Where extract_VID_from_receive_buff finds the VIDs.                     *)
LEMMA Places ==
  ASSUME NEW N \in Nat, NEW payload, NEW width, NEW place,
         LaidOut(N, payload, width, place)
  PROVE  ExtractVIDs(payload) =
           [i \in 1 .. N |-> SubSeq(payload, place[i] + 1, place[i] + width[i])]
<1> DEFINE Is(g) == g = [i \in 1 .. N |-> IF i = 1 THEN 3
                                          ELSE Following(g[i - 1], payload[g[i - 1]])]
           at == CHOOSE g : Is(g)
<1>1. ExtractVIDs(payload) =
        [i \in 1 .. N |-> SubSeq(payload, at[i] + 1, at[i] + payload[at[i]])]
  <2> DEFINE n == payload[1] + 256 * payload[2]
             Was(g) == g = [i \in 1 .. n |-> IF i = 1 THEN 3
                                             ELSE Following(g[i - 1], payload[g[i - 1]])]
             was == CHOOSE g : Was(g)
  <2>1. ExtractVIDs(payload) =
          [i \in 1 .. n |-> SubSeq(payload, was[i] + 1, was[i] + payload[was[i]])]
    BY DEF ExtractVIDs, Following
  <2>2. n = N
    BY DEF LaidOut
  <2>3. was = at
    <3> HIDE DEF n
    <3> QED
      BY <2>2
  <2> HIDE DEF n, was, at
  <2> QED
    BY <2>1, <2>2, <2>3
<1>2. \A i \in 1 .. N : i # 1 => i - 1 \in 1 .. N
  OBVIOUS
<1>3. \A i \in 1 .. N : payload[place[i]] = width[i]
  BY DEF LaidOut
<1>4. Is(place)
  <2>1. place = [i \in 1 .. N |-> IF i = 1 THEN 3 ELSE Following(place[i - 1], width[i - 1])]
    BY DEF LaidOut, Chained
  <2>2. \A i \in 1 .. N : i # 1 => width[i - 1] = payload[place[i - 1]]
    BY <1>2, <1>3
  <2>3. [i \in 1 .. N |-> IF i = 1 THEN 3 ELSE Following(place[i - 1], width[i - 1])] =
        [i \in 1 .. N |-> IF i = 1 THEN 3 ELSE Following(place[i - 1], payload[place[i - 1]])]
    BY <2>2
  <2> QED
    BY <2>1, <2>3
<1>5. Is(at)
  <2> HIDE DEF Is
  <2> QED
    BY <1>4
<1> HIDE DEF at
<1>6. ASSUME NEW i \in 1 .. N
      PROVE  /\ at[i] = IF i = 1 THEN 3 ELSE Following(at[i - 1], payload[at[i - 1]])
             /\ place[i] = IF i = 1 THEN 3 ELSE Following(place[i - 1], payload[place[i - 1]])
  BY <1>4, <1>5
<1> HIDE DEF Is
<1> DEFINE S == {i \in Nat : i \in 1 .. N => at[i] = place[i]}
<1>7. ASSUME NEW i \in Nat, \A k \in 0 .. i - 1 : k \in S
      PROVE  i \in S
  <2> SUFFICES ASSUME i \in 1 .. N PROVE at[i] = place[i]
    OBVIOUS
  <2>1. CASE i = 1
    BY <1>6, <2>1
  <2>2. CASE i # 1
    <3>1. i - 1 \in 0 .. i - 1 /\ i - 1 \in 1 .. N
      BY <2>2
    <3>2. at[i - 1] = place[i - 1]
      BY <1>7, <3>1
    <3> QED
      BY <1>6, <2>2, <3>2
  <2> QED
    BY <2>1, <2>2
<1>8. Nat \subseteq S
  <2> HIDE DEF S
  <2> QED
    BY <1>7, Induction
<1>9. \A i \in 1 .. N : at[i] = place[i] /\ payload[at[i]] = width[i]
  BY <1>3, <1>8
<1> QED
  BY <1>1, <1>9

ShortText == {t \in Seq(Character) : Len(t) < 256}

(* A length below 256 is what its byte says.                               *)
LEMMA OneByte ==
  ASSUME NEW n \in Nat, n < 256
  PROVE  n % 256 = n /\ n \in Byte
<1>1. n % 256 = n
  OBVIOUS
<1>2. n \in 0 .. 255
  OBVIOUS
<1> QED
  BY <1>1, <1>2 DEF Byte

(* N texts and their lengths.                                              *)
Sized(N, texts, width) ==
  /\ texts \in Seq(ShortText) /\ N = Len(texts) /\ width \in [1 .. N -> Byte]
  /\ \A i \in 1 .. N : width[i] = Len(texts[i])

(* They are bytes.                                                         *)
LEMMA SizedTexts ==
  ASSUME NEW N \in Nat, NEW texts, NEW width, Sized(N, texts, width)
  PROVE  /\ texts = [i \in 1 .. N |-> texts[i]]
         /\ width \in [1 .. N -> Byte] /\ width \in [1 .. N -> Nat]
         /\ \A i \in 1 .. N : texts[i] \in OfLength(Byte, width[i])
<1>1. texts = [i \in 1 .. N |-> texts[i]]
  BY DEF Sized
<1>2. width \in [1 .. N -> Byte]
  BY DEF Sized
<1>3. width \in [1 .. N -> Nat]
  <2>1. Byte \subseteq Nat
    BY DEF Byte
  <2> QED
    BY <1>2, <2>1
<1>4. Character \subseteq Byte
  BY DEF Character, Digit, Dot, Byte
<1>5. ASSUME NEW i \in 1 .. N
      PROVE  texts[i] \in OfLength(Byte, width[i])
  <2>1. texts \in Seq(ShortText) /\ i \in 1 .. Len(texts)
    BY DEF Sized
  <2>2. texts[i] \in ShortText
    BY <2>1, ElementOfSeq
  <2>3. texts[i] \in Seq(Byte)
    BY <1>4, <2>2 DEF ShortText
  <2>4. width[i] = Len(texts[i])
    BY DEF Sized
  <2> QED
    BY <2>3, <2>4 DEF OfLength
<1> QED
  BY <1>1, <1>2, <1>3, <1>5

(* The parts of the payload: the length of a text and then the text.       *)
Carrier(text, n) == <<n>> \o text

Carried(text, n) ==
  /\ Carrier(text, n) \in OfLength(Byte, 1 + n)
  /\ Carrier(text, n)[1] = n
  /\ \A k \in 1 .. n : Carrier(text, n)[1 + k] = text[k]

(* Its length is found first, and then the text.                           *)
LEMMA CarrierOf ==
  ASSUME NEW n \in Byte, NEW text \in OfLength(Byte, n)
  PROVE  Carried(text, n)
<1>1. <<n>> \in OfLength(Byte, 1) /\ <<n>>[1] = n
  BY DEF OfLength
<1>2. n \in Nat /\ 1 \in Nat /\ 1 \in 1 .. 1
  BY DEF Byte
<1>3. Jointed(Byte, <<n>>, text, 1, n, <<n>> \o text)
  BY <1>1, <1>2, JointOfLength
<1>4. (<<n>> \o text)[1] = n
  BY <1>1, <1>2, <1>3 DEF Jointed
<1> QED
  BY <1>3, <1>4 DEF Carrier, Carried, Jointed

(* The payload is made of these parts.                                     *)
LEMMA PartsOfPayload ==
  ASSUME NEW N \in Nat, NEW texts, NEW width, Sized(N, texts, width)
  PROVE  BuildPayload(texts) =
           <<N % 256, N \div 256>>
             \o FlattenSeq([i \in 1 .. N |-> Carrier(texts[i], width[i])])
<1>1. DOMAIN texts = 1 .. N /\ Len(texts) = N
  BY DEF Sized
<1>2. ASSUME NEW i \in 1 .. N
      PROVE  <<Len(texts[i]) % 256>> \o texts[i] = Carrier(texts[i], width[i])
  <2> DEFINE n == width[i]
  <2>1. n = Len(texts[i]) /\ n \in Byte
    BY DEF Sized
  <2> HIDE DEF n
  <2>2. n % 256 = n
    <3>1. \A b \in Byte : b \in Nat /\ b < 256
      BY DEF Byte
    <3>2. \A b \in Byte : b % 256 = b
      BY <3>1, OneByte
    <3> QED
      BY <2>1, <3>2
  <2>3. Len(texts[i]) % 256 = n
    BY <2>1, <2>2
  <2> QED
    BY <2>3 DEF Carrier, n
<1>3. [i \in DOMAIN texts |-> <<Len(texts[i]) % 256>> \o texts[i]] =
      [i \in 1 .. N |-> Carrier(texts[i], width[i])]
  BY <1>1, <1>2
<1> QED
  BY <1>1, <1>3 DEF BuildPayload

Spread(N, body, texts, width, off) ==
  /\ off[0] = 0 /\ body \in OfLength(Byte, off[N])
  /\ \A i \in 1 .. N :
       /\ off[i] = off[i - 1] + (1 + width[i]) /\ off[i] <= off[N]
       /\ \A k \in 1 .. 1 + width[i] : body[off[i - 1] + k] = Carrier(texts[i], width[i])[k]

Carries(N, body, texts, width) == \E off \in [0 .. N -> Nat] : Spread(N, body, texts, width, off)

(* And they are found in it, one after the other.                          *)
LEMMA PartsInPayload ==
  ASSUME NEW N \in Nat, NEW texts, NEW width, Sized(N, texts, width)
  PROVE  Carries(N, FlattenSeq([i \in 1 .. N |-> Carrier(texts[i], width[i])]), texts, width)
<1> DEFINE parts == [i \in 1 .. N |-> Carrier(texts[i], width[i])]
<1>1. ASSUME NEW i \in 1 .. N
      PROVE  parts[i] \in OfLength(Byte, 1 + width[i])
  <2>1. parts[i] = Carrier(texts[i], width[i])
    OBVIOUS
  <2>2. width[i] \in Byte /\ texts[i] \in OfLength(Byte, width[i])
    BY SizedTexts
  <2> HIDE DEF parts
  <2>3. Carried(texts[i], width[i])
    BY <2>2, CarrierOf
  <2> QED
    BY <2>1, <2>3 DEF Carried
<1>2. parts = [i \in 1 .. N |-> parts[i]]
  OBVIOUS
<1>3. \A i \in 1 .. N : parts[i] = Carrier(texts[i], width[i])
  OBVIOUS
<1> HIDE DEF parts
<1>4. \A i \in 1 .. N : parts[i] \in Seq(Byte) /\ Len(parts[i]) = 1 + width[i]
  BY <1>1 DEF OfLength
<1>5. parts \in Seq(Seq(Byte)) /\ Len(parts) = N
  <2>1. \A i \in 1 .. N : parts[i] \in Seq(Byte)
    BY <1>4
  <2>2. parts \in [1 .. N -> Seq(Byte)]
    BY <1>2, <2>1
  <2> QED
    BY <2>2
<1>6. PICK upto : IsJoined(parts, upto)
  BY <1>5, EverythingIsJoined
<1>7. Parted(N, upto[N], parts)
  BY <1>5, <1>6, PartOfWhole
<1>8. FlattenSeq(parts) = upto[N] /\ upto[N] \in Seq(Byte)
  <2>1. N \in 0 .. N
    OBVIOUS
  <2> QED
    BY <1>5, <1>6, <2>1, FlattenJoins DEF IsJoined
<1>9. PICK off \in [0 .. N -> Nat] : \E size \in [1 .. N -> Nat] :
        /\ off[0] = 0 /\ Len(upto[N]) = off[N]
        /\ \A i \in 1 .. N :
             /\ size[i] = Len(parts[i]) /\ off[i] = off[i - 1] + size[i]
             /\ off[i] <= off[N]
             /\ \A k \in 1 .. size[i] : upto[N][off[i - 1] + k] = parts[i][k]
  BY <1>7 DEF Parted
<1>10. FlattenSeq(parts) \in OfLength(Byte, off[N])
  <2>1. Len(upto[N]) = off[N]
    BY <1>9
  <2> QED
    BY <1>8, <2>1 DEF OfLength
<1>11. ASSUME NEW i \in 1 .. N
       PROVE  /\ off[i] = off[i - 1] + (1 + width[i])
              /\ off[i] <= off[N]
              /\ \A k \in 1 .. 1 + width[i] :
                   FlattenSeq(parts)[off[i - 1] + k] = Carrier(texts[i], width[i])[k]
  <2>1. PICK size \in [1 .. N -> Nat] :
             /\ size[i] = Len(parts[i]) /\ off[i] = off[i - 1] + size[i]
             /\ off[i] <= off[N]
             /\ \A k \in 1 .. size[i] : upto[N][off[i - 1] + k] = parts[i][k]
    BY <1>9
  <2>2. size[i] = 1 + width[i]
    BY <1>4, <2>1
  <2> QED
    BY <1>3, <1>8, <2>1, <2>2
<1>12. off[0] = 0
  BY <1>9
<1> QED
  BY <1>10, <1>11, <1>12 DEF parts, Carries, Spread

(* What the places of N texts of these widths are, in the M bytes after    *)
(* the number of VIDs.                                                     *)
Place(N, off) == [j \in 1 .. N |-> 3 + off[j - 1]]

Sums(N, width, off) ==
  off[0] = 0 /\ \A i \in 1 .. N : off[i] = off[i - 1] + (1 + width[i])

(* These are the places of the texts.                                      *)
LEMMA Placed ==
  ASSUME NEW N \in Nat, NEW width \in [1 .. N -> Nat], NEW off \in [0 .. N -> Nat],
         Sums(N, width, off)
  PROVE  Chained(N, width, Place(N, off))
<1> DEFINE place == [j \in 1 .. N |-> 3 + off[j - 1]]
<1> SUFFICES place = [i \in 1 .. N |-> IF i = 1 THEN 3 ELSE Following(place[i - 1], width[i - 1])]
  BY DEF Chained, Place
<1> SUFFICES ASSUME NEW i \in 1 .. N
             PROVE  3 + off[i - 1] = IF i = 1 THEN 3 ELSE Following(place[i - 1], width[i - 1])
  OBVIOUS
<1>1. CASE i = 1
  <2>1. i - 1 = 0
    BY <1>1
  <2> QED
    BY <1>1, <2>1 DEF Sums
<1>2. CASE i # 1
  <2>1. PICK j \in 1 .. N : j = i - 1 /\ j - 1 \in 0 .. N /\ j \in 0 .. N
    BY <1>2
  <2>2. place[j] = 3 + off[j - 1]
    OBVIOUS
  <2>3. off[j] = off[j - 1] + (1 + width[j])
    BY DEF Sums
  <2>4. off[j] \in Nat /\ off[j - 1] \in Nat /\ width[j] \in Nat
    BY <2>1
  <2> HIDE DEF place
  <2>5. 3 + off[j] = Following(place[j], width[j])
    BY <2>2, <2>3, <2>4 DEF Following
  <2> QED
    BY <1>2, <2>1, <2>5
<1> QED
  BY <1>1, <1>2

(* The first text and its length.                                          *)
FirstPlaced(texts, width, payload) ==
  payload[3] = width[1] /\ Stands(texts[1], width[1], payload, 3)

(* Payloads are bytes, and extract_VID_from_receive_buff undoes them.      *)
LEMMA CarriesAll ==
  ASSUME NEW N \in Nat, N < 65536, NEW texts, NEW width, Sized(N, texts, width)
  PROVE  /\ BuildPayload(texts) \in Seq(Byte)
         /\ ExtractVIDs(BuildPayload(texts)) = texts
         /\ N # 0 => FirstPlaced(texts, width, BuildPayload(texts))
<1> DEFINE parts == [i \in 1 .. N |-> Carrier(texts[i], width[i])]
           head == <<N % 256, N \div 256>>
           body == FlattenSeq(parts)
           payload == head \o body
<1>1. BuildPayload(texts) = payload
  BY PartsOfPayload
<1>2. /\ texts = [i \in 1 .. N |-> texts[i]]
      /\ width \in [1 .. N -> Byte] /\ width \in [1 .. N -> Nat]
      /\ \A i \in 1 .. N : texts[i] \in OfLength(Byte, width[i])
  BY SizedTexts
<1>3. PICK off \in [0 .. N -> Nat] : Spread(N, body, texts, width, off)
  BY PartsInPayload DEF Carries
<1>4. /\ head \in OfLength(Byte, 2)
      /\ head[1] = N % 256 /\ head[2] = N \div 256
  <2>1. N % 256 \in Byte /\ N \div 256 \in Byte
    BY TwoBytes
  <2> QED
    BY <2>1 DEF OfLength
<1> HIDE DEF head, body
<1>5. PICK M \in Nat : M = off[N]
  OBVIOUS
<1>6. /\ payload \in OfLength(Byte, 2 + M)
      /\ \A k \in 1 .. 2 : payload[k] = head[k]
      /\ \A k \in 1 .. M : payload[2 + k] = body[k]
  <2>1. body \in OfLength(Byte, M) /\ 2 \in Nat
    BY <1>3, <1>5 DEF Spread
  <2>2. Jointed(Byte, head, body, 2, M, payload)
    BY <1>4, <2>1, JointOfLength
  <2> HIDE DEF payload
  <2> QED
    BY <2>2 DEF Jointed
<1> HIDE DEF payload
<1>7. payload[1] + 256 * payload[2] = N
  <2>1. payload[1] = N % 256 /\ payload[2] = N \div 256
    BY <1>4, <1>6
  <2>2. (N % 256) + 256 * (N \div 256) = N
    BY TwoBytes
  <2> QED
    BY <2>1, <2>2
<1>8. ASSUME NEW i \in 1 .. N
      PROVE  /\ payload[3 + off[i - 1]] = width[i]
             /\ Stands(texts[i], width[i], payload, 3 + off[i - 1])
             /\ SubSeq(payload, (3 + off[i - 1]) + 1, (3 + off[i - 1]) + width[i]) = texts[i]
  <2>1. PICK n \in Nat : n = width[i]
    BY <1>2
  <2>2. PICK o \in Nat : o = off[i - 1] /\ o + (1 + n) <= M
    <3>1. i - 1 \in 0 .. N /\ off[i] = off[i - 1] + (1 + width[i]) /\ off[i] <= off[N]
      BY <1>3 DEF Spread
    <3> QED
      BY <1>5, <2>1, <3>1
  <2>3. \A k \in 1 .. 1 + n : body[o + k] = Carrier(texts[i], n)[k]
    BY <1>3, <2>1, <2>2 DEF Spread
  <2>4. n \in Byte /\ texts[i] \in OfLength(Byte, n)
    BY <1>2, <2>1
  <2>5. /\ Carrier(texts[i], n)[1] = n
        /\ \A k \in 1 .. n : Carrier(texts[i], n)[1 + k] = texts[i][k]
    <3>1. Carried(texts[i], n)
      BY <2>4, CarrierOf
    <3> QED
      BY <3>1 DEF Carried
  <2>6. ASSUME NEW k \in 1 .. 1 + n
        PROVE  payload[2 + (o + k)] = Carrier(texts[i], n)[k]
    <3>1. o + k \in 1 .. M
      BY <2>2
    <3> QED
      BY <1>6, <2>3, <3>1
  <2>7. payload[3 + o] = n
    <3>1. 1 \in 1 .. 1 + n /\ 2 + (o + 1) = 3 + o
      OBVIOUS
    <3> QED
      BY <2>5, <2>6, <3>1
  <2>8. ASSUME NEW k \in 1 .. n
        PROVE  payload[(3 + o) + k] = texts[i][k]
    <3>1. 1 + k \in 1 .. 1 + n /\ 2 + (o + (1 + k)) = (3 + o) + k
      OBVIOUS
    <3> QED
      BY <2>5, <2>6, <3>1
  <2>9. 3 + o \in Nat /\ 2 + M \in Nat /\ (3 + o) + n <= 2 + M
    BY <2>2
  <2>11. Stands(texts[i], n, payload, 3 + o)
    BY <2>8 DEF Stands
  <2>10. SubSeq(payload, (3 + o) + 1, (3 + o) + n) = texts[i]
    <3>2. \E m \in Nat : m = 3 + o
      BY <2>9
    <3> QED
      BY <1>6, <2>4, <2>9, <2>11, <3>2, CutOut
  <2> QED
    BY <2>1, <2>2, <2>7, <2>11, <2>10
<1> DEFINE place == [i \in 1 .. N |-> 3 + off[i - 1]]
<1>9. LaidOut(N, payload, width, place)
  <2>1. Chained(N, width, place)
    <3>1. Sums(N, width, off)
      BY <1>3 DEF Sums, Spread
    <3>2. Chained(N, width, Place(N, off))
      BY <1>2, <3>1, Placed
    <3> QED
      BY <3>2 DEF Place
  <2>2. \A i \in 1 .. N : payload[place[i]] = width[i]
    BY <1>8
  <2> HIDE DEF place
  <2> QED
    BY <1>7, <2>1, <2>2 DEF LaidOut
<1>10. \A i \in 1 .. N : SubSeq(payload, place[i] + 1, place[i] + width[i]) = texts[i]
  BY <1>8
<1> HIDE DEF place
<1>11. ExtractVIDs(payload) =
         [i \in 1 .. N |-> SubSeq(payload, place[i] + 1, place[i] + width[i])]
  BY <1>9, Places
<1>12. ExtractVIDs(payload) = texts
  BY <1>2, <1>10, <1>11
<1>13. payload \in Seq(Byte)
  BY <1>6 DEF OfLength
<1>14. ASSUME N # 0
       PROVE  FirstPlaced(texts, width, payload)
  <2>1. 1 \in 1 .. N /\ off[1 - 1] = 0
    BY <1>3, <1>14 DEF Spread
  <2>2. 3 + off[1 - 1] = 3
    BY <2>1
  <2>3. payload[3 + off[1 - 1]] = width[1] /\ Stands(texts[1], width[1], payload, 3 + off[1 - 1])
    BY <1>8, <2>1
  <2>4. payload[3] = width[1] /\ Stands(texts[1], width[1], payload, 3)
    BY <2>2, <2>3
  <2> QED
    BY <2>4 DEF FirstPlaced
<1> QED
  BY <1>1, <1>12, <1>13, <1>14

(* The payload of a frame is bytes, and the VIDs found in it are those put *)
(* into it.                                                                *)
LEMMA PayloadCarries ==
  ASSUME NEW texts \in Seq(ShortText), Len(texts) < 65536
  PROVE  /\ BuildPayload(texts) \in Seq(Byte)
         /\ ExtractVIDs(BuildPayload(texts)) = texts
<1> DEFINE width == [i \in 1 .. Len(texts) |-> Len(texts[i])]
<1>1. Len(texts) \in Nat
  BY LenProperties
<1>2. ASSUME NEW i \in 1 .. Len(texts) PROVE Len(texts[i]) \in Byte
  <2>1. texts[i] \in ShortText
    BY ElementOfSeq
  <2>2. Len(texts[i]) \in Nat /\ Len(texts[i]) < 256
    BY <2>1, LenProperties DEF ShortText
  <2> QED
    BY <2>2, OneByte
<1>3. width \in [1 .. Len(texts) -> Byte] /\ \A i \in 1 .. Len(texts) : width[i] = Len(texts[i])
  BY <1>2
<1> HIDE DEF width
<1>4. Sized(Len(texts), texts, width)
  BY <1>3 DEF Sized
<1> QED
  BY <1>1, <1>4, CarriesAll

(* A payload with one VID.                                                 *)
LEMMA PayloadOfOne ==
  ASSUME NEW text \in ShortText
  PROVE  /\ BuildPayload(<<text>>) \in Seq(Byte)
         /\ ExtractVIDs(BuildPayload(<<text>>)) = <<text>>
         /\ BuildPayload(<<text>>)[3] = Len(text)
         /\ Stands(text, Len(text), BuildPayload(<<text>>), 3)
<1> DEFINE texts == <<text>>
           width == <<Len(text)>>
<1>1. Len(text) \in Byte
  <2>1. Len(text) \in Nat /\ Len(text) < 256
    BY LenProperties DEF ShortText
  <2> QED
    BY <2>1, OneByte
<1>2. texts \in Seq(ShortText) /\ Len(texts) = 1 /\ texts[1] = text
  OBVIOUS
<1>3. width \in [1 .. 1 -> Byte] /\ width[1] = Len(text)
  BY <1>1
<1>4. \A i \in 1 .. 1 : i = 1
  OBVIOUS
<1> HIDE DEF texts, width
<1>5. Sized(1, texts, width)
  BY <1>2, <1>3, <1>4 DEF Sized
<1>6. /\ BuildPayload(texts) \in Seq(Byte) /\ ExtractVIDs(BuildPayload(texts)) = texts
      /\ FirstPlaced(texts, width, BuildPayload(texts))
  <2>1. 1 \in Nat /\ 1 < 65536 /\ 1 # 0
    OBVIOUS
  <2> QED
    BY <1>5, <2>1, CarriesAll
<1>7. BuildPayload(texts)[3] = Len(text) /\ Stands(text, Len(text), BuildPayload(texts), 3)
  BY <1>2, <1>3, <1>6 DEF FirstPlaced
<1> QED
  BY <1>6, <1>7 DEF texts


-----------------------------------------------------------------------------
(* The text of a VID, and the payload it is alone in.                      *)

(* Where its dots are, in a payload whose VID starts at the fourth byte.   *)
Dots(text) == {i \in 4 .. 3 + Len(text) : text[i - 3] = Dot}

(* How long the texts of VIDs of n numbers get with ports of that width.   *)
Room(n, width) == 3 + (n - 1) * (width + 1)

(* With every number there is room for a dot and the number.               *)
LEMMA RoomGrows ==
  ASSUME NEW width \in Nat
  PROVE  /\ Room(1, width) = 3
         /\ \A n \in Nat : Room(n + 1, width) = Room(n, width) + (1 + width)
         /\ \A n \in Nat, d \in Nat : Room(n, width) <= Room(n + d, width) /\ Room(n, width) \in Int
<1>1. Room(1, width) = 3
  BY DEF Room
<1>2. ASSUME NEW n \in Nat
      PROVE  Room(n + 1, width) = Room(n, width) + (1 + width)
  BY DEF Room
<1>3. ASSUME NEW n \in Nat, NEW d \in Nat
      PROVE  Room(n, width) <= Room(n + d, width) /\ Room(n, width) \in Int
  <2>1. /\ (n - 1) * (width + 1) \in Int /\ d * (width + 1) \in Nat
        /\ ((n + d) - 1) * (width + 1) = (n - 1) * (width + 1) + d * (width + 1)
    OBVIOUS
  <2> DEFINE a == (n - 1) * (width + 1)
             b == d * (width + 1)
             c == ((n + d) - 1) * (width + 1)
  <2>2. a \in Int /\ b \in Nat /\ c = a + b
    BY <2>1
  <2>3. Room(n, width) = 3 + a /\ Room(n + d, width) = 3 + c
    BY DEF Room
  <2> HIDE DEF a, b, c
  <2> QED
    BY <2>2, <2>3
<1> QED
  BY <1>1, <1>2, <1>3

(* The first number of the VID in front, then nothing or a dot.            *)
Leads(text, v) ==
  IF Len(v) = 1 THEN text = Decimal[v[1]]
  ELSE \E rest \in Seq(Character) : text = Append(Decimal[v[1]], Dot) \o rest

Spells(text, v, width) ==
  /\ text \in Seq(Character) /\ v \in Seq(Nat) /\ Len(v) \in 1 .. MaxTier
  /\ Numbers(text) = v
  /\ v[1] \in 0 .. 255 /\ Leads(text, v)
  /\ IsFiniteSet(Dots(text)) /\ Cardinality(Dots(text)) + 1 = Len(v)
  /\ Len(text) <= Room(Len(v), width)

(* The text of a number has no dot.                                        *)
LEMMA DecimalText ==
  ASSUME NEW k \in Nat
  PROVE  /\ Decimal[k] \in Seq(Digit) /\ Decimal[k] \in Seq(Character)
         /\ \A i \in 1 .. Len(Decimal[k]) : Decimal[k][i] # Dot
<1>1. Decimal[k] \in Seq(Digit) /\ Decimal[k] \in Seq(Character)
  BY DecimalDigits, NumbersOfDecimal
<1>2. ASSUME NEW i \in 1 .. Len(Decimal[k]) PROVE Decimal[k][i] # Dot
  <2>1. Decimal[k][i] \in Digit
    BY <1>1, ElementOfSeq
  <2> QED
    BY <2>1 DEF Digit, Dot
<1> QED
  BY <1>1, <1>2

(* A dot more, or digits.                                                  *)
LEMMA DotsOfMore ==
  ASSUME NEW text \in Seq(Character), NEW k \in Nat
  PROVE  Dots(AppendPortNumber(text, k)) = Dots(text) \cup {4 + Len(text)}
<1> DEFINE A == Append(text, Dot)  D == Decimal[k]  B == A \o D
<1>1. PICK m \in Nat : m = Len(text)
  BY LenProperties
<1>2. /\ A \in Seq(Character) /\ Len(A) = m + 1 /\ A[m + 1] = Dot
      /\ \A i \in 1 .. m : A[i] = text[i]
  BY <1>1, AppendProperties DEF Character
<1>3. D \in Seq(Character) /\ \A i \in 1 .. Len(D) : D[i] # Dot
  BY DecimalText
<1>4. PICK n \in Nat : n = Len(D)
  BY <1>3, LenProperties
<1>5. AppendPortNumber(text, k) = B
  <2>1. text \o <<Dot>> = A
    BY AppendIsConcat DEF Character
  <2> QED
    BY <2>1 DEF AppendPortNumber
<1> HIDE DEF A, D
<1>6. /\ Len(B) = (m + 1) + n
      /\ \A i \in 1 .. m + 1 : B[i] = A[i]
      /\ \A i \in 1 .. n : B[(m + 1) + i] = D[i]
  <2>1. m + 1 \in Nat /\ A \in OfLength(Character, m + 1) /\ D \in OfLength(Character, n)
    BY <1>2, <1>3, <1>4 DEF OfLength
  <2>2. Jointed(Character, A, D, m + 1, n, B)
    BY <2>1, JointOfLength
  <2> HIDE DEF B
  <2> QED
    BY <2>2 DEF Jointed, OfLength
<1> HIDE DEF B
<1>7. \A i \in 1 .. m : B[i] = text[i]
  BY <1>2, <1>6
<1>8. B[m + 1] = Dot
  BY <1>2, <1>6
<1>9. \A i \in 1 .. n : B[(m + 1) + i] # Dot
  BY <1>3, <1>4, <1>6
<1>10. Dots(B) = {i \in 4 .. 3 + ((m + 1) + n) : B[i - 3] = Dot}
  BY <1>6 DEF Dots
<1>11. Dots(text) = {i \in 4 .. 3 + m : text[i - 3] = Dot}
  BY <1>1 DEF Dots
<1>12. ASSUME NEW i \in 4 .. 3 + ((m + 1) + n)
       PROVE  B[i - 3] = Dot <=> (i \in 4 .. 3 + m /\ text[i - 3] = Dot) \/ i = 4 + m
  <2>1. CASE i - 3 \in 1 .. m
    <3>1. i \in 4 .. 3 + m /\ i # 4 + m
      BY <2>1
    <3> QED
      BY <1>7, <2>1, <3>1
  <2>2. CASE i - 3 = m + 1
    <3>1. i = 4 + m
      BY <2>2
    <3> QED
      BY <1>8, <2>2, <3>1
  <2>3. CASE i - 3 \in (m + 1) + 1 .. (m + 1) + n
    <3>1. PICK j \in 1 .. n : i - 3 = (m + 1) + j
      <4>1. (i - 3) - (m + 1) \in 1 .. n /\ i - 3 = (m + 1) + ((i - 3) - (m + 1))
        BY <2>3
      <4> QED
        BY <4>1
    <3>2. i \notin 4 .. 3 + m /\ i # 4 + m
      BY <2>3
    <3> QED
      BY <1>9, <3>1, <3>2
  <2> QED
    BY <2>1, <2>2, <2>3
<1>13. \A i : i \in 4 .. 3 + m \/ i = 4 + m => i \in 4 .. 3 + ((m + 1) + n)
  OBVIOUS
<1>14. Dots(B) = Dots(text) \cup {4 + m}
  BY <1>10, <1>11, <1>12, <1>13
<1> QED
  BY <1>1, <1>5, <1>14

(* No dots.                                                                *)
LEMMA DotsOfDecimal ==
  ASSUME NEW k \in Nat
  PROVE  Dots(Decimal[k]) = {}
<1>1. Len(Decimal[k]) \in Nat /\ \A i \in 1 .. Len(Decimal[k]) : Decimal[k][i] # Dot
  BY DecimalText, LenProperties
<1>2. \A i \in 4 .. 3 + Len(Decimal[k]) : i - 3 \in 1 .. Len(Decimal[k])
  BY <1>1
<1> QED
  BY <1>1, <1>2 DEF Dots

(* The text that getRootVID makes.                                         *)
LEMMA SpellsRoot ==
  ASSUME NEW octet \in 0 .. 255, NEW width \in Nat
  PROVE  Spells(Decimal[octet], <<octet>>, width)
<1>1. octet \in Nat
  OBVIOUS
<1>2. <<octet>> \in Seq(Nat) /\ Len(<<octet>>) = 1 /\ <<octet>>[1] = octet
  BY <1>1
<1>3. 1 \in 1 .. MaxTier
  BY ClimbAssumption
<1>4. Decimal[octet] \in Seq(Character) /\ Numbers(Decimal[octet]) = <<octet>>
  BY <1>1, NumbersOfDecimal
<1>5. IsFiniteSet(Dots(Decimal[octet])) /\ Cardinality(Dots(Decimal[octet])) = 0
  BY <1>1, DotsOfDecimal, FS_EmptySet
<1>6. Len(Decimal[octet]) <= Room(1, width)
  <2>1. PICK n \in 1 .. 3 : n = Len(Decimal[octet])
    BY ShortNumbers
  <2>2. Room(1, width) = 3
    BY RoomGrows
  <2>3. n <= Room(1, width)
    BY <2>2
  <2> QED
    BY <2>1, <2>3
<1>7. Leads(Decimal[octet], <<octet>>)
  BY <1>2 DEF Leads
<1> QED
  BY <1>2, <1>3, <1>4, <1>5, <1>6, <1>7 DEF Spells

(* What comes after a dot may be put together first.                       *)
Regroups(S, a, b, c, d) ==
  /\ (b \o c) \o d \in Seq(S)
  /\ ((a \o b) \o c) \o d = a \o ((b \o c) \o d)

(* Both ways it is the same.                                               *)
LEMMA Regroup ==
  ASSUME NEW S, NEW a \in Seq(S), NEW b \in Seq(S), NEW c \in Seq(S), NEW d \in Seq(S)
  PROVE  Regroups(S, a, b, c, d)
<1>1. b \o c \in Seq(S) /\ (b \o c) \o d \in Seq(S)
  BY ConcatProperties
<1>2. (a \o b) \o c = a \o (b \o c)
  BY ConcatAssociative
<1>3. (a \o (b \o c)) \o d = a \o ((b \o c) \o d)
  BY <1>1, ConcatAssociative
<1> QED
  BY <1>1, <1>2, <1>3 DEF Regroups

(* The number of a port fits, and the VID may grow.                        *)
Narrow(k, width) == Len(Decimal[k]) <= width
Grows(v)         == Len(v) < MaxTier

(* The text that append_port_number_after_VID makes.                       *)
LEMMA SpellsMore ==
  ASSUME NEW width \in Nat, NEW text, NEW v, Spells(text, v, width), Grows(v),
         NEW k \in Nat, Narrow(k, width)
  PROVE  Spells(AppendPortNumber(text, k), Append(v, k), width)
<1> DEFINE more == AppendPortNumber(text, k)  w == Append(v, k)
<1>1. /\ text \in Seq(Character) /\ v \in Seq(Nat) /\ Numbers(text) = v
      /\ v[1] \in 0 .. 255 /\ Leads(text, v)
      /\ IsFiniteSet(Dots(text)) /\ Cardinality(Dots(text)) + 1 = Len(v)
  BY DEF Spells
<1>2. PICK n \in 1 .. MaxTier : n = Len(v) /\ n < MaxTier /\ n \in Nat
  BY ClimbAssumption DEF Spells, Grows
<1>3. w \in Seq(Nat) /\ Len(w) = n + 1 /\ w[1] = v[1]
  BY <1>1, <1>2, AppendProperties
<1>4. more \in Seq(Character) /\ Numbers(more) = w
  BY <1>1, NumbersOfMore
<1>5. IsFiniteSet(Dots(more)) /\ Cardinality(Dots(more)) = Cardinality(Dots(text)) + 1
  <2>1. Dots(more) = Dots(text) \cup {4 + Len(text)}
    BY <1>1, DotsOfMore
  <2>2. 4 + Len(text) \notin Dots(text)
    <3>1. PICK m \in Nat : m = Len(text)
      BY <1>1, LenProperties
    <3>2. 4 + m \notin 4 .. 3 + m
      OBVIOUS
    <3> QED
      BY <3>1, <3>2 DEF Dots
  <2> HIDE DEF more
  <2> QED
    BY <1>1, <2>1, <2>2, FS_AddElement
<1>6. n + 1 \in 1 .. MaxTier /\ Len(w) # 1
  BY <1>2, <1>3, ClimbAssumption
<1>7. PICK m \in Nat, d \in Nat : m = Len(text) /\ d = Len(Decimal[k]) /\ d <= width
  BY <1>1, DecimalText, LenProperties DEF Narrow
<1>8. text \o <<Dot>> \in Seq(Character) /\ Len(text \o <<Dot>>) = m + 1
  BY <1>1, <1>7 DEF Character
<1>9. Len(more) = (m + 1) + d
  <2>1. Decimal[k] \in Seq(Character)
    BY DecimalText
  <2> QED
    BY <1>7, <1>8, <2>1, ConcatProperties DEF AppendPortNumber
<1>10. Len(more) <= Room(Len(w), width)
  <2>1. m <= Room(n, width)
    BY <1>2, <1>7 DEF Spells
  <2>2. PICK r \in Int : r = Room(n, width)
    BY <1>2, RoomGrows
  <2>3. Room(n + 1, width) = r + (1 + width)
    BY <1>2, <2>2, RoomGrows
  <2>4. (m + 1) + d <= r + (1 + width)
    <3>1. m <= r /\ d <= width
      BY <1>7, <2>1, <2>2
    <3> QED
      BY <3>1
  <2> HIDE DEF more, w
  <2> QED
    BY <1>3, <1>9, <2>3, <2>4
<1>11. Leads(more, w)
  <2> DEFINE first == Decimal[v[1]]  D == <<Dot>>  last == Decimal[k]
  <2>1. Dot \in Character
    BY DEF Character
  <2>2. D \in Seq(Character)
    BY <2>1
  <2>3. first \in Seq(Character)
    <3>1. v[1] \in Nat
      <4>1. v[1] \in 0 .. 255 /\ \A o \in 0 .. 255 : o \in Nat
        BY <1>1
      <4> QED
        BY <4>1
    <3> QED
      BY <3>1, DecimalText
  <2>4. last \in Seq(Character)
    BY DecimalText
  <2>5. more = (text \o D) \o last
    BY DEF AppendPortNumber
  <2>6. Append(first, Dot) = first \o D
    BY <2>1, <2>3, AppendIsConcat
  <2>7. CASE n = 1
    <3>1. text = first
      BY <1>1, <1>2, <2>7 DEF Leads
    <3>2. more = Append(first, Dot) \o last
      BY <2>5, <2>6, <3>1
    <3> HIDE DEF more, w, first, last
    <3> QED
      BY <1>3, <1>6, <2>4, <3>2 DEF Leads, first
  <2>8. CASE n # 1
    <3>1. PICK rest \in Seq(Character) : text = Append(first, Dot) \o rest
      BY <1>1, <1>2, <2>8 DEF Leads
    <3> DEFINE A == Append(first, Dot)  tail == (rest \o D) \o last
    <3>2. A \in Seq(Character)
      BY <2>1, <2>3, AppendProperties
    <3>3. more = ((A \o rest) \o D) \o last
      BY <2>5, <3>1
    <3> HIDE DEF A, first, last, D, more
    <3>4. tail \in Seq(Character) /\ ((A \o rest) \o D) \o last = A \o tail
      <4>1. Regroups(Character, A, rest, D, last)
        BY <2>2, <2>4, <3>2, Regroup
      <4> QED
        BY <4>1 DEF Regroups
    <3>5. more = A \o tail
      BY <3>3, <3>4
    <3> HIDE DEF w, tail
    <3> QED
      BY <1>3, <1>6, <3>4, <3>5 DEF Leads, A, first
  <2> QED
    BY <2>7, <2>8
<1> QED
  BY <1>1, <1>2, <1>3, <1>4, <1>5, <1>6, <1>10, <1>11 DEF Spells


-----------------------------------------------------------------------------
(* What is looked up in the text of a VID.                                 *)

(* The number of dots is what a HelloNR tells.                             *)
LEMMA TierOfOne ==
  ASSUME NEW text \in ShortText
  PROVE  TierFromHello(BuildPayload(<<text>>)) = 1 + Cardinality(Dots(text))
<1> DEFINE payload == BuildPayload(<<text>>)
<1>1. payload[3] = Len(text) /\ Stands(text, Len(text), payload, 3)
  BY PayloadOfOne
<1>2. PICK n \in Nat : n = Len(text)
  BY LenProperties DEF ShortText
<1> HIDE DEF payload
<1>3. \A k \in 1 .. n : payload[3 + k] = text[k]
  BY <1>1, <1>2 DEF Stands
<1>4. ASSUME NEW i \in 4 .. 3 + n PROVE payload[i] = text[i - 3]
  <2>1. i - 3 \in 1 .. n /\ 3 + (i - 3) = i
    BY <1>2
  <2> QED
    BY <1>3, <2>1
<1>5. {i \in 4 .. 3 + payload[3] : payload[i] = Dot} = Dots(text)
  <2>1. payload[3] = n
    BY <1>1, <1>2
  <2> QED
    BY <1>2, <1>4, <2>1 DEF Dots
<1> QED
  BY <1>5 DEF TierFromHello, payload

(* Without dots, followed by nothing or by a dot.                          *)
Undotted(s) == s \in Seq(Character) /\ \A i \in 1 .. Len(s) : s[i] # Dot

Ends(text, s) == \/ text = s
                 \/ \E rest \in Seq(Character) : text = Append(s, Dot) \o rest

(* What is known of such a text.                                           *)
LEMMA EndsAt ==
  ASSUME NEW s, Undotted(s), NEW text, Ends(text, s), NEW n \in Nat, n = Len(s)
  PROVE  /\ text \in Seq(Character) /\ Append(text, Dot) \in Seq(Character)
         /\ n + 1 <= Len(Append(text, Dot)) /\ n <= Len(text)
         /\ \A i \in 1 .. n : text[i] = s[i] /\ s[i] # Dot /\ Append(text, Dot)[i] = s[i]
         /\ Append(text, Dot)[n + 1] = Dot
         /\ text # s => n + 1 <= Len(text) /\ text[n + 1] = Dot
<1>1. s \in Seq(Character) /\ Dot \in Character /\ \A i \in 1 .. n : s[i] # Dot
  BY DEF Undotted, Character
<1> DEFINE t == Append(text, Dot)
<1>2. CASE text = s
  <2>1. /\ t \in Seq(Character) /\ Len(t) = n + 1 /\ t[n + 1] = Dot
        /\ \A i \in 1 .. n : t[i] = s[i]
    BY <1>1, <1>2, AppendProperties
  <2> HIDE DEF t
  <2>2. n + 1 <= Len(t) /\ n <= Len(text)
    BY <1>2, <2>1
  <2> QED
    BY <1>1, <1>2, <2>1, <2>2 DEF t
<1>3. CASE text # s
  <2>1. PICK rest \in Seq(Character) : text = Append(s, Dot) \o rest
    BY <1>3 DEF Ends
  <2>2. /\ Append(s, Dot) \in Seq(Character) /\ Len(Append(s, Dot)) = n + 1
        /\ Append(s, Dot)[n + 1] = Dot /\ \A i \in 1 .. n : Append(s, Dot)[i] = s[i]
    BY <1>1, AppendProperties
  <2>3. PICK m \in Nat : m = Len(rest)
    BY LenProperties
  <2> DEFINE a == Append(s, Dot)
  <2>4. Jointed(Character, a, rest, n + 1, m, text)
    <3>1. n + 1 \in Nat /\ a \in OfLength(Character, n + 1) /\ rest \in OfLength(Character, m)
      BY <2>2, <2>3 DEF OfLength
    <3> HIDE DEF a
    <3> QED
      BY <2>1, <3>1, JointOfLength DEF a
  <2>5. a[n + 1] = Dot /\ \A i \in 1 .. n : a[i] = s[i]
    BY <2>2
  <2> HIDE DEF a
  <2>6. text \in Seq(Character) /\ Len(text) = (n + 1) + m
    BY <2>4 DEF Jointed, OfLength
  <2>7. \A i \in 1 .. n + 1 : text[i] = a[i]
    BY <2>4 DEF Jointed
  <2>8. PICK l \in Nat : l = Len(text) /\ n + 1 <= l
    BY <2>3, <2>6
  <2>9. t \in Seq(Character) /\ Len(t) = l + 1 /\ \A i \in 1 .. l : t[i] = text[i]
    BY <1>1, <2>6, <2>8, AppendProperties
  <2> HIDE DEF t
  <2>10. text[n + 1] = Dot /\ t[n + 1] = Dot
    <3>1. n + 1 \in 1 .. n + 1 /\ n + 1 \in 1 .. l
      BY <2>8
    <3> QED
      BY <2>5, <2>7, <2>9, <3>1
  <2>11. ASSUME NEW i \in 1 .. n PROVE text[i] = s[i] /\ t[i] = s[i]
    <3>1. i \in 1 .. n + 1 /\ i \in 1 .. l
      BY <2>8
    <3> QED
      BY <2>5, <2>7, <2>9, <3>1
  <2>12. n + 1 <= Len(t) /\ n <= Len(text) /\ n + 1 <= Len(text)
    BY <2>8, <2>9
  <2> QED
    BY <1>1, <2>6, <2>9, <2>10, <2>11, <2>12 DEF t
<1> QED
  BY <1>2, <1>3

(* copy_VID_prefix cuts at the first dot.                                  *)
LEMMA PrefixCut ==
  ASSUME NEW s, Undotted(s), NEW text, Ends(text, s)
  PROVE  CopyPrefix(text) = s
<1>1. PICK n \in Nat : n = Len(s)
  BY LenProperties DEF Undotted
<1> DEFINE t == Append(text, Dot)
<1>2. /\ text \in Seq(Character) /\ t \in Seq(Character)
      /\ n + 1 <= Len(t) /\ n <= Len(text)
      /\ \A i \in 1 .. n : text[i] = s[i] /\ s[i] # Dot /\ t[i] = s[i]
      /\ t[n + 1] = Dot
  BY <1>1, EndsAt
<1>3. PICK l \in Nat : l = Len(t)
  BY <1>2, LenProperties
<1> DEFINE I == {i \in 1 .. Len(t) : t[i] = Dot}
<1>4. UntilDot(text) = (IF I # {} THEN Min(I) ELSE 0) - 1
  BY DEF UntilDot, SelectInSeq
<1> HIDE DEF t
<1>5. n + 1 \in I
  BY <1>2, <1>3
<1>6. ASSUME NEW i \in I PROVE i \in Nat /\ n + 1 <= i
  <2>1. i \in 1 .. l /\ t[i] = Dot
    BY <1>3
  <2>2. CASE i \in 1 .. n
    BY <1>2, <2>1, <2>2
  <2>3. CASE i \notin 1 .. n
    BY <2>1, <2>3
  <2> QED
    BY <2>2, <2>3
<1> HIDE DEF I
<1>7. Min(I) = n + 1
  <2>1. Min(I) \in I /\ \A i \in I : Min(I) <= i
    BY <1>5, <1>6 DEF Min
  <2>2. Min(I) \in Nat /\ n + 1 <= Min(I) /\ Min(I) <= n + 1
    BY <1>5, <1>6, <2>1
  <2> QED
    BY <2>2
<1>8. UntilDot(text) = n
  BY <1>4, <1>5, <1>7
<1>9. SubSeq(text, 0 + 1, 0 + n) = s
  <2>1. PICK m \in Nat : m = Len(text)
    BY <1>2, LenProperties
  <2>2. text \in OfLength(Character, m) /\ s \in OfLength(Character, n)
    BY <1>1, <1>2, <2>1 DEF OfLength, Undotted
  <2>3. Stands(s, n, text, 0)
    BY <1>2 DEF Stands
  <2>4. 0 \in Nat /\ 0 + n <= m
    BY <1>2, <2>1
  <2> QED
    BY <2>2, <2>3, <2>4, CutOut
<1>10. 0 + 1 = 1 /\ 0 + n = n
  OBVIOUS
<1> QED
  BY <1>8, <1>9, <1>10 DEF CopyPrefix

(* Where a text starts with another one.                                   *)
LEMMA PrefixIs ==
  ASSUME NEW a \in Seq(Character), NEW b \in Seq(Character),
         NEW m \in Nat, m = Len(a), NEW n \in Nat, n = Len(b)
  PROVE  IsPrefix(a, b) <=> m <= n /\ \A i \in 1 .. m : a[i] = b[i]
<1> DEFINE c == SubSeq(b, 1, m)
<1>1. SubSeq(a, 1, m) = a
  <2>1. a \in OfLength(Character, m) /\ Stands(a, m, a, 0) /\ 0 \in Nat /\ 0 + m <= m
    BY DEF OfLength, Stands
  <2>2. SubSeq(a, 0 + 1, 0 + m) = a
    BY <2>1, CutOut
  <2>3. 0 + 1 = 1 /\ 0 + m = m
    OBVIOUS
  <2> QED
    BY <2>2, <2>3
<1>2. ASSUME m <= n
      PROVE  c = a <=> \A i \in 1 .. m : a[i] = b[i]
  <2>1. ASSUME \A i \in 1 .. m : a[i] = b[i]
        PROVE  c = a
    <3>1. a \in OfLength(Character, m) /\ b \in OfLength(Character, n) /\ Stands(a, m, b, 0)
          /\ 0 \in Nat /\ 0 + m <= n
      BY <1>2, <2>1 DEF OfLength, Stands
    <3>2. SubSeq(b, 0 + 1, 0 + m) = a
      BY <3>1, CutOut
    <3>3. 0 + 1 = 1 /\ 0 + m = m
      OBVIOUS
    <3> QED
      BY <3>2, <3>3
  <2>2. ASSUME c = a, NEW i \in 1 .. m
        PROVE  a[i] = b[i]
    <3>1. \A j \in 1 .. m : j \in 1 .. n
      BY <1>2
    <3>2. \A j \in 1 .. m : b[j] \in Character
      BY <3>1, ElementOfSeq
    <3>3. \A j \in 1 .. (m - 1) + 1 : c[j] = b[(1 + j) - 1]
      BY <3>2, SubSeqProperties
    <3>4. i \in 1 .. (m - 1) + 1 /\ (1 + i) - 1 = i
      OBVIOUS
    <3> HIDE DEF c
    <3>5. c[i] = b[i]
      BY <3>3, <3>4
    <3> QED
      BY <2>2, <3>5
  <2> QED
    BY <2>1, <2>2
<1>3. IsPrefix(a, b) <=> m <= n /\ SubSeq(a, 1, m) = c
  BY DEF IsPrefix
<1> HIDE DEF c
<1> QED
  BY <1>1, <1>2, <1>3

(* The scan for an octet finds the VIDs of spines that start with it.      *)
LEMMA ScanFinds ==
  ASSUME NEW s, Undotted(s), NEW text, Ends(text, s), text # s,
         NEW dest, Undotted(dest)
  PROVE  IsPrefix(Append(dest, Dot), text) <=> dest = s
<1>1. PICK n \in Nat, m \in Nat : n = Len(s) /\ m = Len(dest)
  BY LenProperties DEF Undotted
<1>2. /\ text \in Seq(Character)
      /\ \A i \in 1 .. n : text[i] = s[i] /\ s[i] # Dot
      /\ n + 1 <= Len(text) /\ text[n + 1] = Dot
  BY <1>1, EndsAt
<1> DEFINE a == Append(dest, Dot)
<1>3. /\ a \in Seq(Character) /\ Len(a) = m + 1 /\ a[m + 1] = Dot
      /\ \A i \in 1 .. m : a[i] = dest[i] /\ dest[i] # Dot
  BY <1>1, AppendProperties DEF Undotted, Character
<1>4. PICK l \in Nat : l = Len(text) /\ n + 1 <= l
  BY <1>2, LenProperties
<1> HIDE DEF a
<1>5. IsPrefix(a, text) <=> m + 1 <= l /\ \A i \in 1 .. m + 1 : a[i] = text[i]
  <2>1. m + 1 \in Nat /\ m + 1 = Len(a)
    BY <1>3
  <2> QED
    BY <1>2, <1>3, <1>4, <2>1, PrefixIs
<1>6. ASSUME m + 1 <= l, \A i \in 1 .. m + 1 : a[i] = text[i]
      PROVE  dest = s
  <2>1. CASE m < n
    <3>1. m + 1 \in 1 .. n /\ m + 1 \in 1 .. m + 1
      BY <2>1
    <3> QED
      BY <1>2, <1>3, <1>6, <3>1
  <2>2. CASE n < m
    <3>1. n + 1 \in 1 .. m /\ n + 1 \in 1 .. m + 1
      BY <2>2
    <3> QED
      BY <1>2, <1>3, <1>6, <3>1
  <2>3. CASE m = n
    <3>1. \A i \in 1 .. n : i \in 1 .. m /\ i \in 1 .. m + 1
      BY <2>3
    <3>2. \A i \in 1 .. n : dest[i] = s[i]
      BY <1>2, <1>3, <1>6, <3>1
    <3> QED
      BY <1>1, <2>3, <3>2, SeqEqual DEF Undotted
  <2> QED
    BY <2>1, <2>2, <2>3
<1>7. ASSUME dest = s
      PROVE  m + 1 <= l /\ \A i \in 1 .. m + 1 : a[i] = text[i]
  <2>1. m = n
    BY <1>1, <1>7
  <2>2. ASSUME NEW i \in 1 .. m + 1 PROVE a[i] = text[i]
    <3>1. CASE i = m + 1
      BY <1>2, <1>3, <2>1, <3>1
    <3>2. CASE i # m + 1
      <4>1. i \in 1 .. m /\ i \in 1 .. n
        BY <2>1, <3>2
      <4> QED
        BY <1>2, <1>3, <1>7, <4>1
    <3> QED
      BY <3>1, <3>2
  <2> QED
    BY <1>4, <2>1, <2>2
<1> QED
  BY <1>5, <1>6, <1>7 DEF a


-----------------------------------------------------------------------------
(* The VID under way and the frame that carries it.                        *)

(* A width that the numbers of all ports fit.                              *)
Width == CHOOSE width \in 0 .. VID_LEN :
           /\ 3 + (MaxTier - 1) * (width + 1) < VID_LEN
           /\ \A k \in PortNum : Len(Decimal[k]) <= width

(* And there is one.                                                       *)
LEMMA WidthFits ==
  /\ Width \in Nat /\ Room(MaxTier, Width) < VID_LEN
  /\ \A k \in PortNum : Narrow(k, Width)
<1>1. /\ Width \in 0 .. VID_LEN /\ 3 + (MaxTier - 1) * (Width + 1) < VID_LEN
      /\ \A k \in PortNum : Len(Decimal[k]) <= Width
  BY VIDsFit DEF Width
<1>2. Width \in Nat
  BY <1>1 DEF VID_LEN
<1> QED
  BY <1>1, <1>2 DEF Room, Narrow

(* The text fits VID_name, and its length fits a byte.                     *)
LEMMA SpelledFits ==
  ASSUME NEW text, NEW v, Spells(text, v, Width)
  PROVE  text \in ShortText
<1>1. text \in Seq(Character) /\ Len(v) \in 1 .. MaxTier /\ Len(text) <= Room(Len(v), Width)
  BY DEF Spells
<1>2. PICK n \in Nat : n = Len(v) /\ n <= MaxTier
  BY <1>1, ClimbAssumption
<1>3. PICK d \in Nat : MaxTier = n + d
  <2>1. MaxTier - n \in Nat /\ MaxTier = n + (MaxTier - n)
    BY <1>2, ClimbAssumption
  <2> QED
    BY <2>1
<1>4. PICK m \in Nat : m = Len(text)
  BY <1>1, LenProperties
<1>5. PICK r \in Int : r = Room(n, Width)
  BY <1>2, RoomGrows, WidthFits
<1>6. Room(n, Width) <= Room(n + d, Width) /\ Room(n + d, Width) \in Int
  <2>1. n + d \in Nat /\ 0 \in Nat
    OBVIOUS
  <2> QED
    BY <2>1, RoomGrows, WidthFits
<1>7. Room(n + d, Width) < VID_LEN
  BY <1>3, WidthFits
<1>8. m <= Room(n, Width)
  BY <1>1, <1>2, <1>4
<1>9. m < 256
  <2> DEFINE a == Room(n, Width)  b == Room(n + d, Width)
  <2>1. a \in Int /\ b \in Int /\ m <= a /\ a <= b /\ b < 64
    BY <1>5, <1>6, <1>7, <1>8 DEF VID_LEN
  <2> HIDE DEF a, b
  <2> QED
    BY <2>1
<1> QED
  BY <1>1, <1>4, <1>9 DEF ShortText

(* Until the leaf has a root VID no frame has been sent; afterwards the    *)
(* last frame carries the text of the VID, and nothing else.               *)
CarriedAs(text) == Spells(text, vid, Width) /\ frame = BuildPayload(<<text>>)

VIDInFrame ==
  /\ stage = "loop" /\ isLeaf => vid # <<>>
  /\ vid = <<>> => frame = <<>>
  /\ vid # <<>> => \E text : CarriedAs(text)

(* getRootVID puts the text of the root VID into the frame.                *)
LEMMA RootInFrame ==
  ASSUME SInv, GetRootVID
  PROVE  VIDInFrame'
<1>1. PICK octet \in OctetsOf(computeIntfName) :
           vid' = <<octet>> /\ frame' = BuildPayload(<<Decimal[octet]>>)
  BY DEF GetRootVID
<1>2. octet \in 0 .. 255
  BY <1>1, OctetsAreNumbers DEF SInv, Shape
<1>3. Spells(Decimal[octet], <<octet>>, Width)
  BY <1>2, SpellsRoot, WidthFits
<1>4. CarriedAs(Decimal[octet])'
  BY <1>1, <1>3 DEF CarriedAs
<1>5. vid' # <<>>
  BY <1>1
<1> QED
  BY <1>4, <1>5 DEF VIDInFrame

(* The next hop takes the text out, adds its port and puts it back.        *)
LEMMA MoreInFrame ==
  ASSUME VIDInFrame, NEW k \in PortNum, Climb(k)
  PROVE  VIDInFrame'
<1>1. vid # <<>> /\ Grows(vid) /\ vid' = Append(vid, k)
  BY DEF VIDInFrame, Climb, Grows
<1>2. PICK text : Spells(text, vid, Width) /\ frame = BuildPayload(<<text>>)
  BY <1>1 DEF VIDInFrame, CarriedAs
<1>3. text \in ShortText
  BY <1>2, SpelledFits
<1>4. ExtractVIDs(frame) = <<text>>
  BY <1>2, <1>3, PayloadOfOne
<1> DEFINE more == AppendPortNumber(text, k)
<1>5. frame' = BuildPayload(<<more>>)
  <2>1. frame' = BuildPayload([i \in DOMAIN <<text>> |-> AppendPortNumber(<<text>>[i], k)])
    BY <1>4 DEF Climb
  <2>2. [i \in DOMAIN <<text>> |-> AppendPortNumber(<<text>>[i], k)] = <<more>>
    <3>1. DOMAIN <<text>> = 1 .. 1 /\ \A i \in 1 .. 1 : <<text>>[i] = text
      OBVIOUS
    <3> HIDE DEF more
    <3>2. <<more>> = [i \in 1 .. 1 |-> more]
      OBVIOUS
    <3> QED
      BY <3>1, <3>2 DEF more
  <2> QED
    BY <2>1, <2>2
<1>6. k \in Nat /\ Narrow(k, Width) /\ Width \in Nat
  BY ClimbAssumption, WidthFits
<1>7. Spells(more, Append(vid, k), Width)
  BY <1>1, <1>2, <1>6, SpellsMore
<1> HIDE DEF more
<1>8. CarriedAs(more)'
  BY <1>1, <1>5, <1>7 DEF CarriedAs
<1>9. vid' # <<>>
  <2>1. vid \in Seq(Nat)
    BY <1>2 DEF Spells
  <2> QED
    BY <1>1, <1>6, <2>1, AppendProperties
<1> QED
  BY <1>8, <1>9 DEF VIDInFrame

(* No other step touches the VID or the frame, and none but the one that   *)
(* makes the root VID brings a leaf to the loop.                           *)
LEMMA FrameStays ==
  ASSUME VIDInFrame, UNCHANGED <<frame, vid>>,
         stage' = "loop" /\ isLeaf' => stage = "loop" /\ isLeaf
  PROVE  VIDInFrame'
BY DEF VIDInFrame, CarriedAs

LEMMA OthersKeepFrame ==
  ASSUME SInv, VIDInFrame,
         \/ ReadLine \/ CloseFile \/ TakeCompute \/ EndCompute \/ TakeControl
         \/ EndControl \/ UNCHANGED vars
  PROVE  VIDInFrame'
<1>1. CASE ReadLine
  BY <1>1, FrameStays DEF ReadLine
<1>2. CASE CloseFile
  BY <1>2, FrameStays DEF CloseFile, EndOf
<1>3. CASE TakeCompute
  BY <1>3, FrameStays DEF TakeCompute
<1>4. CASE EndCompute
  BY <1>4, FrameStays DEF EndCompute, EndOf
<1>5. CASE TakeControl
  BY <1>5, FrameStays DEF TakeControl
<1>6. CASE EndControl
  <2>1. stage' = (IF isLeaf THEN "getRootVID" ELSE "loop") /\ UNCHANGED <<frame, vid, isLeaf>>
    BY <1>6 DEF EndControl, EndOf, config
  <2> QED
    BY <2>1, FrameStays
<1>7. CASE UNCHANGED vars
  BY <1>7, FrameStays DEF vars, config
<1> QED
  BY <1>1, <1>2, <1>3, <1>4, <1>5, <1>6, <1>7

(* Every frame carries exactly the VID under way, spelled out.             *)
THEOREM FrameInvariance == Spec => []VIDInFrame
<1>1. Init => VIDInFrame
  BY DEF Init, VIDInFrame
<1>2. SInv /\ VIDInFrame /\ [Next]_vars => VIDInFrame'
  BY RootInFrame, MoreInFrame, OthersKeepFrame DEF Next
<1> QED
  BY <1>1, <1>2, Invariance, PTL DEF Spec

(* The text of a VID is short, reads back as the VID, and has one dot less *)
(* than the VID has numbers, whatever the octet and the ports.             *)
THEOREM TextsRead == Spec => []TextIsVID
<1>1. VIDInFrame => TextIsVID
  <2> SUFFICES ASSUME VIDInFrame, vid # <<>>
               PROVE  /\ Len(ExtractVIDs(frame)) = 1
                      /\ Numbers(Text) = vid
                      /\ TierFromHello(frame) = Len(vid)
    BY DEF TextIsVID
  <2>1. PICK text : Spells(text, vid, Width) /\ frame = BuildPayload(<<text>>)
    BY DEF VIDInFrame, CarriedAs
  <2>2. text \in ShortText
    BY <2>1, SpelledFits
  <2>3. ExtractVIDs(frame) = <<text>>
    BY <2>1, <2>2, PayloadOfOne
  <2>4. Text = text /\ Len(ExtractVIDs(frame)) = 1
    BY <2>3 DEF Text
  <2>5. Numbers(text) = vid /\ IsFiniteSet(Dots(text)) /\ Cardinality(Dots(text)) + 1 = Len(vid)
    BY <2>1 DEF Spells
  <2>6. TierFromHello(frame) = 1 + Cardinality(Dots(text))
    BY <2>1, <2>2, TierOfOne
  <2>7. TierFromHello(frame) = Len(vid)
    <3>1. PICK c \in Nat : c = Cardinality(Dots(text))
      BY <2>5, FS_CardinalityType
    <3> QED
      BY <2>5, <2>6, <3>1
  <2> QED
    BY <2>4, <2>5, <2>7
<1> QED
  BY <1>1, FrameInvariance, PTL

(* The octets 0 .. 255 have different texts.                               *)
LEMMA TextOfOctet ==
  ASSUME NEW r \in 0 .. 255, NEW dest \in 0 .. 255
  PROVE  /\ Undotted(Decimal[r])
         /\ IntToStr(dest) = IF dest = 0 THEN <<>> ELSE Decimal[dest]
         /\ Decimal[r] # <<>>
         /\ Decimal[dest] = Decimal[r] => dest = r
<1>1. r \in Nat /\ dest \in Nat
  OBVIOUS
<1>2. Undotted(Decimal[r])
  BY <1>1, DecimalText DEF Undotted
<1>3. IntToStr(dest) = IF dest = 0 THEN <<>> ELSE Decimal[dest]
  BY ShortNumbers
<1>4. Decimal[r] # <<>>
  <2>1. Len(Decimal[r]) \in 1 .. 3 /\ Len(<<>>) = 0
    BY ShortNumbers
  <2> QED
    BY <2>1
<1>5. ASSUME Decimal[dest] = Decimal[r] PROVE dest = r
  <2>1. Numbers(Decimal[dest]) = <<dest>> /\ Numbers(Decimal[r]) = <<r>>
    BY <1>1, NumbersOfDecimal
  <2>2. <<dest>> = <<r>>
    BY <1>5, <2>1
  <2> QED
    BY <2>2
<1> QED
  BY <1>2, <1>3, <1>4, <1>5

(* The number of a network finds the VIDs of its root and no others,       *)
(* whatever the octet and the ports; 0 finds none.                         *)
THEOREM RootsFound == Spec => []DataFindTheirRoot
<1>1. VIDInFrame => DataFindTheirRoot
  <2> SUFFICES ASSUME VIDInFrame, vid # <<>>, NEW dest \in 0 .. 255
               PROVE  LET found == dest = vid[1] /\ dest # 0
                      IN  /\ CopyPrefix(Text) = IntToStr(dest) <=> found
                          /\ Len(vid) > 1 => (FoundByVID(Text, IntToStr(dest)) <=> found)
    BY DEF DataFindTheirRoot
  <2>1. PICK text : Spells(text, vid, Width) /\ frame = BuildPayload(<<text>>)
    BY DEF VIDInFrame, CarriedAs
  <2>2. Text = text
    <3>1. ExtractVIDs(frame) = <<text>>
      BY <2>1, SpelledFits, PayloadOfOne
    <3> QED
      BY <3>1 DEF Text
  <2> DEFINE r == vid[1]  s == Decimal[r]
  <2>3. r \in 0 .. 255 /\ Leads(text, vid)
    BY <2>1 DEF Spells
  <2>4. /\ Undotted(s) /\ s # <<>>
        /\ IntToStr(dest) = IF dest = 0 THEN <<>> ELSE Decimal[dest]
        /\ Decimal[dest] = s => dest = r
    BY <2>3, TextOfOctet
  <2>5. Ends(text, s)
    BY <2>3 DEF Leads, Ends
  <2>6. IntToStr(dest) = s <=> dest = r /\ dest # 0
    BY <2>4
  <2>7. CopyPrefix(text) = s
    <3> HIDE DEF s
    <3> QED
      BY <2>4, <2>5, PrefixCut
  <2>8. ASSUME Len(vid) > 1
        PROVE  FoundByVID(text, IntToStr(dest)) <=> dest = r /\ dest # 0
    <3>1. text # s
      <4>1. Numbers(text) = vid /\ r \in Nat
        BY <2>1, <2>3 DEF Spells
      <4>2. Numbers(s) = <<r>> /\ Len(<<r>>) = 1
        BY <4>1, NumbersOfDecimal
      <4>3. Len(vid) # 1
        <5>1. PICK n \in Nat : n = Len(vid)
          BY <2>1, LenProperties DEF Spells
        <5>2. n > 1
          BY <2>8, <5>1
        <5>3. n # 1
          BY <5>2
        <5> QED
          BY <5>1, <5>3
      <4> QED
        BY <4>1, <4>2, <4>3
    <3>2. CASE dest = 0
      BY <2>4, <3>2 DEF FoundByVID
    <3>3. CASE dest # 0
      <4>1. Undotted(IntToStr(dest)) /\ IntToStr(dest) # <<>>
        BY <3>3, TextOfOctet
      <4>2. IsPrefix(Append(IntToStr(dest), Dot), text) <=> IntToStr(dest) = s
        <5> HIDE DEF s
        <5> QED
          BY <2>4, <2>5, <3>1, <4>1, ScanFinds
      <4> QED
        BY <2>6, <3>3, <4>1, <4>2 DEF FoundByVID
    <3> QED
      BY <3>2, <3>3
  <2> QED
    BY <2>2, <2>6, <2>7, <2>8
<1> QED
  BY <1>1, FrameInvariance, PTL

(* Texts whose number fits two bytes.                                      *)
Few(texts) == texts \in Seq(ShortText) /\ Len(texts) < 65536

(* Frames consist of bytes, and carry the texts put into them, as many as  *)
(* the receiver has slots for.                                             *)
THEOREM FramesCarryThem == Spec => []FramesCarry
<1>1. VIDInFrame => FramesCarry
  <2> SUFFICES ASSUME VIDInFrame
               PROVE  /\ frame \in Seq(0 .. 255)
                      /\ vid # <<>> =>
                           \A n \in 0 .. Slots, first \in 0 .. 2 :
                             LET texts == InTurn(<<CopyPrefix(Text), Text, Decimal[255]>>,
                                                 n, first)
                             IN  ExtractVIDs(BuildPayload(texts)) = texts
    BY DEF FramesCarry
  <2>1. CASE vid = <<>>
    <3>1. frame = <<>>
      BY <2>1 DEF VIDInFrame
    <3> QED
      BY <2>1, <3>1, EmptySeq
  <2>2. CASE vid # <<>>
    <3>1. PICK text : Spells(text, vid, Width) /\ frame = BuildPayload(<<text>>)
      BY <2>2 DEF VIDInFrame, CarriedAs
    <3>2. text \in ShortText
      BY <3>1, SpelledFits
    <3>3. Text = text /\ frame \in Seq(0 .. 255)
      <4>1. ExtractVIDs(frame) = <<text>> /\ frame \in Seq(Byte)
        BY <3>1, <3>2, PayloadOfOne
      <4> QED
        BY <4>1 DEF Text, Byte
    <3> DEFINE s == Decimal[vid[1]]  t == Decimal[255]
    <3>4. vid[1] \in 0 .. 255 /\ Leads(text, vid)
      BY <3>1 DEF Spells
    <3>5. ASSUME NEW n \in 0 .. 255 PROVE Decimal[n] \in ShortText
      <4>1. n \in Nat
        OBVIOUS
      <4>2. Decimal[n] \in Seq(Character)
        BY <4>1, DecimalText
      <4>3. PICK m \in 1 .. 3 : m = Len(Decimal[n])
        BY ShortNumbers
      <4>4. m < 256
        OBVIOUS
      <4> QED
        BY <4>2, <4>3, <4>4 DEF ShortText
    <3>6. s \in ShortText /\ t \in ShortText
      <4>1. 255 \in 0 .. 255
        OBVIOUS
      <4> QED
        BY <3>4, <3>5, <4>1
    <3>7. CopyPrefix(text) = s
      <4>1. Undotted(s)
        BY <3>4, TextOfOctet
      <4>2. Ends(text, s)
        BY <3>4 DEF Leads, Ends
      <4> HIDE DEF s
      <4> QED
        BY <4>1, <4>2, PrefixCut
    <3> HIDE DEF s, t
    <3> DEFINE some == <<s, text, t>>
    <3>8. \A k \in 1 .. 3 : some[k] \in ShortText
      BY <3>2, <3>6
    <3>9. some = <<CopyPrefix(Text), Text, Decimal[255]>>
      BY <3>3, <3>7 DEF t
    <3> HIDE DEF some
    <3>10. ASSUME NEW n \in 0 .. Slots, NEW first \in 0 .. 2
           PROVE  LET texts == InTurn(<<CopyPrefix(Text), Text, Decimal[255]>>, n, first)
                  IN  ExtractVIDs(BuildPayload(texts)) = texts
      <4> DEFINE texts == InTurn(some, n, first)
      <4>1. n \in Nat /\ n <= 10
        BY DEF Slots
      <4>2. ASSUME NEW i \in 1 .. n PROVE some[((first + i) % 3) + 1] \in ShortText
        <5>1. ((first + i) % 3) + 1 \in 1 .. 3
          BY <4>1
        <5> QED
          BY <3>8, <5>1
      <4>3. texts \in Seq(ShortText) /\ Len(texts) = n
        BY <4>1, <4>2, SeqDef DEF InTurn
      <4>4. Few(texts)
        BY <4>1, <4>3 DEF Few
      <4>5. ExtractVIDs(BuildPayload(texts)) = texts
        BY <4>4, PayloadCarries DEF Few
      <4> QED
        BY <3>9, <4>5
    <3> QED
      BY <3>3, <3>10
  <2> QED
    BY <2>1, <2>2
<1> QED
  BY <1>1, FrameInvariance, PTL
=============================================================================
