-------------------------- MODULE KeepAliveProofs ---------------------------
(***************************************************************************)
(* Proofs about KeepAlive, for every timer value, delay and number of      *)
(* faults and of further handshakes, with data traffic or without: types,  *)
(* that a port that was shut down can come back, that a failed port is out *)
(* of use at the lower end, how long mutual silence lasts, and that a      *)
(* working cable is never given up.                                        *)
(***************************************************************************)
EXTENDS KeepAlive, FiniteSets, SequenceTheorems, FiniteSetTheorems, TLAPS

(* Frames of a handshake that are on the way are on their way to the end   *)
(* that handles them: only the upper end is opened by a StartHello.        *)
Placed(frames) ==
  \A e \in End : \A i \in 1 .. Len(frames[e]) :
    /\ frames[e][i] = "StartHello" => e = "upper"
    /\ frames[e][i] = "JoinAck" => e = "lower"

IInv == TypeOK /\ Placed(chan) /\ RecoveryArmed /\ FailedLowerIsDown

-----------------------------------------------------------------------------

LEMMA Ends ==
  /\ "lower" \in End /\ "upper" \in End
  /\ \A e \in End : Other(e) \in End /\ Other(e) # e
  /\ Other("lower") = "upper" /\ Other("upper") = "lower"
BY DEF End, Other

LEMMA InitIInv == Init => IInv
<1> SUFFICES ASSUME Init PROVE IInv
  OBVIOUS
<1>1. Dead \in 0 .. Dead /\ Hello \in 0 .. Hello /\ 0 \in 0 .. MaxDelay
      /\ 0 \in 0 .. MaxLoss /\ 0 \in 0 .. MaxFlap /\ 0 \in 0 .. MaxBusy
      /\ 0 \in 0 .. MaxJoins /\ 0 \in 0 .. Threshold /\ Threshold \in 0 .. Threshold
  BY TimerAssumption, BoundAssumption DEF Threshold
<1>2. chan \in [End -> Seq(Frame)]
  BY DEF Init, Frame, End
<1>3. TypeOK
  BY <1>1, <1>2 DEF Init, TypeOK
<1>4. Placed(chan)
  <2>1. chan["upper"] = <<"StartHello">> /\ chan["lower"] = <<>>
    BY Ends DEF Init
  <2>2. Len(chan["upper"]) = 1 /\ Len(chan["lower"]) = 0
    BY <2>1
  <2>3. \A e \in End : e = "lower" \/ e = "upper"
    BY DEF End
  <2> QED
    BY <2>1, <2>2, <2>3 DEF Placed
<1>5. RecoveryArmed /\ FailedLowerIsDown
  BY DEF Init, RecoveryArmed, FailedLowerIsDown
<1> QED
  BY <1>3, <1>4, <1>5 DEF IInv

(* What is left when the first frame to e is gone was on the way before.   *)
LEMMA RestKeeps ==
  ASSUME IInv, NEW e \in End, chan[e] # <<>>
  PROVE  /\ Rest(e) \in [End -> Seq(Frame)] /\ Placed(Rest(e))
         /\ Head(chan[e]) = chan[e][1] /\ 1 \in 1 .. Len(chan[e])
         /\ Head(chan[e]) \in Frame
         /\ Rest(e)[e] = Tail(chan[e])
         /\ \A f \in End : f # e => Rest(e)[f] = chan[f]
         /\ \A f \in End : \A i \in 1 .. Len(Rest(e)[f]) :
              \E j \in 1 .. Len(chan[f]) : chan[f][j] = Rest(e)[f][i]
<1>1. chan \in [End -> Seq(Frame)]
  BY DEF IInv, TypeOK
<1>2. /\ Tail(chan[e]) \in Seq(Frame)
      /\ Head(chan[e]) = chan[e][1] /\ Head(chan[e]) \in Frame
      /\ Len(Tail(chan[e])) = Len(chan[e]) - 1
      /\ \A i \in 1 .. Len(Tail(chan[e])) : Tail(chan[e])[i] = chan[e][i + 1]
      /\ Len(chan[e]) \in Nat \ {0}
  BY <1>1, HeadTailProperties, EmptySeq
<1>3. Rest(e) \in [End -> Seq(Frame)]
  BY <1>1, <1>2 DEF Rest
<1>4. Rest(e)[e] = Tail(chan[e]) /\ \A f \in End : f # e => Rest(e)[f] = chan[f]
  BY <1>1 DEF Rest
<1>5. ASSUME NEW f \in End, NEW i \in 1 .. Len(Rest(e)[f])
      PROVE  \E j \in 1 .. Len(chan[f]) : chan[f][j] = Rest(e)[f][i]
  <2>1. CASE f = e
    <3>1. i \in 1 .. Len(Tail(chan[e])) /\ Rest(e)[e][i] = Tail(chan[e])[i]
      BY <1>4, <1>5, <2>1
    <3>2. i + 1 \in 1 .. Len(chan[e]) /\ chan[e][i + 1] = Rest(e)[e][i]
      BY <1>2, <3>1
    <3> QED
      BY <2>1, <3>2
  <2>2. CASE f # e
    BY <1>4, <1>5, <2>2
  <2> QED
    BY <2>1, <2>2
<1>6. Placed(Rest(e))
  BY <1>5 DEF IInv, Placed
<1>7. 1 \in 1 .. Len(chan[e])
  BY <1>2
<1> QED
  BY <1>2, <1>3, <1>4, <1>5, <1>6, <1>7

(* A frame that is sent joins those on the way to the other end.           *)
LEMMA SentKeeps ==
  ASSUME NEW frames \in [End -> Seq(Frame)], Placed(frames),
         NEW e \in End, NEW frame \in Frame,
         frame = "StartHello" => e = "lower", frame = "JoinAck" => e = "upper"
  PROVE  /\ Sent(e, frame, frames) \in [End -> Seq(Frame)]
         /\ Placed(Sent(e, frame, frames))
         /\ Sent(e, frame, frames)[e] = frames[e]
         /\ Sent(e, frame, frames)[Other(e)] =
              IF alive[e] /\ alive[Other(e)]
              THEN Append(frames[Other(e)], frame)
              ELSE frames[Other(e)]
         /\ \A f \in End : \A i \in 1 .. Len(Sent(e, frame, frames)[f]) :
              \/ f = Other(e) /\ Sent(e, frame, frames)[f][i] = frame
              \/ \E j \in 1 .. Len(frames[f]) : frames[f][j] = Sent(e, frame, frames)[f][i]
<1> DEFINE o == Other(e)
           new == Sent(e, frame, frames)
<1>1. o \in End /\ o # e
  BY Ends
<1>2. CASE ~(alive[e] /\ alive[o])
  <2>1. new = frames
    BY <1>2 DEF Sent
  <2> QED
    BY <1>1, <1>2, <2>1
<1>3. CASE alive[e] /\ alive[o]
  <2>1. new = [frames EXCEPT ![o] = Append(@, frame)]
    BY <1>3 DEF Sent
  <2>2. /\ Append(frames[o], frame) \in Seq(Frame)
        /\ Len(Append(frames[o], frame)) = Len(frames[o]) + 1
        /\ \A i \in 1 .. Len(frames[o]) : Append(frames[o], frame)[i] = frames[o][i]
        /\ Append(frames[o], frame)[Len(frames[o]) + 1] = frame
        /\ Len(frames[o]) \in Nat
    BY <1>1, AppendProperties, LenProperties
  <2> HIDE DEF o, new
  <2>3. /\ new \in [End -> Seq(Frame)] /\ new[o] = Append(frames[o], frame)
        /\ new[e] = frames[e] /\ \A f \in End : f # o => new[f] = frames[f]
    BY <1>1, <2>1, <2>2
  <2>4. ASSUME NEW f \in End, NEW i \in 1 .. Len(new[f])
        PROVE  \/ f = o /\ new[f][i] = frame
               \/ \E j \in 1 .. Len(frames[f]) : frames[f][j] = new[f][i]
    <3>1. CASE f = o
      <4>1. i \in 1 .. Len(frames[o]) \/ i = Len(frames[o]) + 1
        BY <2>2, <2>3, <2>4, <3>1
      <4> QED
        BY <2>2, <2>3, <3>1, <4>1
    <3>2. CASE f # o
      BY <2>3, <2>4, <3>2
    <3> QED
      BY <3>1, <3>2
  <2>5. Placed(new)
    <3>1. (frame = "StartHello" => o = "upper") /\ (frame = "JoinAck" => o = "lower")
      BY Ends DEF o
    <3> QED
      BY <2>4, <3>1 DEF Placed
  <2> QED
    BY <1>3, <2>3, <2>4, <2>5 DEF o, new
<1> QED
  BY <1>2, <1>3

LEMMA SmallerInRange ==
  ASSUME NEW n \in Nat, NEW a \in 0 .. n
  PROVE  Smaller(a + 1, n) \in 0 .. n
BY DEF Smaller

-----------------------------------------------------------------------------
(* Each action keeps the invariant.                                        *)

(* Hearing a frame is a move of the loop.                                  *)
LEMMA HearsKeeps ==
  ASSUME IInv, NEW e \in End, NEW frame, Hears(e, frame)
  PROVE  /\ phase' \in [End -> {"receive", "check"}]
         /\ late' \in [End -> 0 .. MaxDelay]
         /\ UNCHANGED <<sentAge, alive, talked, lost, flaps, busy, joins>>
         /\ chan[e] # <<>> /\ frame = Head(chan[e]) /\ frame \in Frame
         /\ frame = "StartHello" => e = "upper"
         /\ frame = "JoinAck" => e = "lower"
<1>1. /\ chan[e] # <<>> /\ frame = Head(chan[e])
      /\ late' = [late EXCEPT ![e] = IF Tail(chan[e]) = <<>> THEN 0 ELSE @]
      /\ phase' = [phase EXCEPT ![e] = "check"] \/ phase' = phase
      /\ UNCHANGED <<sentAge, alive, talked, lost, flaps, busy, joins>>
  BY DEF Hears, faults
<1>2. 0 \in 0 .. MaxDelay
  BY BoundAssumption
<1>3. late' \in [End -> 0 .. MaxDelay] /\ phase' \in [End -> {"receive", "check"}]
  BY <1>1, <1>2 DEF IInv, TypeOK
<1>4. chan[e][1] = frame /\ 1 \in 1 .. Len(chan[e]) /\ frame \in Frame
  BY <1>1, RestKeeps
<1> QED
  BY <1>1, <1>3, <1>4 DEF IInv, Placed

LEMMA ReceiveKeepsIInv ==
  ASSUME IInv, NEW e \in End, Receive(e)
  PROVE  IInv'
<1> USE DEF Threshold
<1>1. PICK frame : Hears(e, frame)
                   /\ \/ ReceiveJoinAck(e) /\ frame = "JoinAck"
                      \/ Take(e, frame) /\ ReceiveStartHello(e) /\ frame = "StartHello"
                      \/ Take(e, frame) /\ ReceiveData(e) /\ frame = "Data"
                      \/ Take(e, frame) /\ ReceiveKeepAlive(e) /\ frame = "KeepAlive"
  BY DEF Receive, ReceiveJoinAck, ReceiveStartHello, ReceiveData, ReceiveKeepAlive, Take
<1>2. /\ phase' \in [End -> {"receive", "check"}] /\ late' \in [End -> 0 .. MaxDelay]
      /\ UNCHANGED <<sentAge, alive, talked, lost, flaps, busy, joins>>
      /\ chan[e] # <<>>
      /\ frame = "StartHello" => e = "upper"
      /\ frame = "JoinAck" => e = "lower"
  BY <1>1, HearsKeeps
<1>3. chan' \in [End -> Seq(Frame)] /\ Placed(chan')
  <2>1. Rest(e) \in [End -> Seq(Frame)] /\ Placed(Rest(e))
    BY <1>2, RestKeeps
  <2>2. CASE Take(e, frame)
    BY <2>1, <2>2 DEF Take
  <2>3. CASE ReceiveJoinAck(e) /\ frame = "JoinAck"
    <3>1. chan' = Sent(e, "StartHello", Rest(e)) /\ e = "lower" /\ "StartHello" \in Frame
      BY <1>2, <2>3 DEF ReceiveJoinAck, Frame
    <3> QED
      BY <2>1, <3>1, SentKeeps
  <2> QED
    BY <1>1, <2>2, <2>3
<1>4. CASE ReceiveJoinAck(e)
  <2>1. UNCHANGED <<start, up, fail, count, heard, rcvAge, onTime>>
    BY <1>4 DEF ReceiveJoinAck, port
  <2>2. TypeOK' /\ RecoveryArmed' /\ FailedLowerIsDown'
    BY <1>2, <1>3, <2>1 DEF IInv, TypeOK, RecoveryArmed, FailedLowerIsDown
  <2> QED
    BY <1>3, <2>2 DEF IInv
<1>5. CASE ReceiveStartHello(e) /\ frame = "StartHello"
  <2>1. /\ start' = [start EXCEPT ![e] = TRUE] /\ up' = [up EXCEPT ![e] = TRUE]
        /\ onTime' = [onTime EXCEPT ![e] = 0]
        /\ UNCHANGED <<fail, count, heard, rcvAge>>
        /\ e = "upper"
    BY <1>2, <1>5 DEF ReceiveStartHello
  <2>2. TypeOK'
    BY <1>2, <1>3, <2>1 DEF IInv, TypeOK
  <2>3. RecoveryArmed' /\ FailedLowerIsDown'
    BY <2>1 DEF RecoveryArmed, FailedLowerIsDown, IInv, TypeOK
  <2> QED
    BY <1>3, <2>2, <2>3 DEF IInv
<1>6. CASE ReceiveData(e)
  <2>1. /\ heard' = [heard EXCEPT ![e] = TRUE] /\ rcvAge' = [rcvAge EXCEPT ![e] = 0]
        /\ UNCHANGED <<start, up, fail, count, onTime>>
        /\ 0 \in 0 .. Dead
    BY <1>6, TimerAssumption DEF ReceiveData
  <2>2. TypeOK'
    BY <1>2, <1>3, <2>1 DEF IInv, TypeOK
  <2>3. RecoveryArmed' /\ FailedLowerIsDown'
    BY <2>1 DEF RecoveryArmed, FailedLowerIsDown, IInv, TypeOK
  <2> QED
    BY <1>3, <2>2, <2>3 DEF IInv
<1>7. CASE ReceiveKeepAlive(e) /\ fail[e] = "DETECT"
  <2>1. UNCHANGED <<start, up, fail, count, heard, rcvAge, onTime>>
    BY <1>7 DEF ReceiveKeepAlive, port
  <2>2. TypeOK' /\ RecoveryArmed' /\ FailedLowerIsDown'
    BY <1>2, <1>3, <2>1 DEF RecoveryArmed, FailedLowerIsDown, IInv, TypeOK
  <2> QED
    BY <1>3, <2>2 DEF IInv
<1>8. CASE ReceiveKeepAlive(e) /\ fail[e] # "DETECT"
  <2>1. /\ fail' = [fail EXCEPT ![e] = "NONE"]
        /\ count' = [count EXCEPT ![e] = IF Counts(e) THEN @ + 1 ELSE @]
        /\ up' = [up EXCEPT ![e] = @ \/ (Counts(e) /\ count[e] = Threshold - 1)]
        /\ heard' = [heard EXCEPT ![e] = TRUE]
        /\ rcvAge' = [rcvAge EXCEPT ![e] = 0]
        /\ onTime' = [onTime EXCEPT ![e] =
                        IF IsOnTime(e) /\ ~up'[e] THEN Smaller(@ + 1, Threshold) ELSE 0]
        /\ start' = start
    BY <1>8 DEF ReceiveKeepAlive
  <2>2. /\ count[e] \in 0 .. Threshold
        /\ Counts(e) => ~up[e] /\ count[e] < Threshold
        /\ 0 \in 0 .. Dead /\ 0 \in 0 .. Threshold
        /\ Smaller(onTime[e] + 1, Threshold) \in 0 .. Threshold
    <3>1. count[e] \in 0 .. Threshold /\ onTime[e] \in 0 .. Threshold
          /\ (Counts(e) => ~up[e] /\ count[e] < Threshold)
      BY DEF Counts, IInv, TypeOK
    <3>2. 0 \in 0 .. Dead /\ 0 \in 0 .. Threshold /\ Threshold \in Nat
      BY TimerAssumption
    <3>3. Smaller(onTime[e] + 1, Threshold) \in 0 .. Threshold
      BY <3>1, <3>2, SmallerInRange
    <3> QED
      BY <3>1, <3>2, <3>3
  <2>3. count'[e] = (IF Counts(e) THEN count[e] + 1 ELSE count[e])
        /\ count' \in [End -> 0 .. Threshold]
    BY <2>1, <2>2 DEF IInv, TypeOK
  <2>4. up' \in [End -> BOOLEAN] /\ onTime' \in [End -> 0 .. Threshold]
        /\ rcvAge' \in [End -> 0 .. Dead]
    BY <2>1, <2>2 DEF IInv, TypeOK
  <2>5. TypeOK'
    BY <1>2, <1>3, <2>1, <2>3, <2>4 DEF IInv, TypeOK
  <2>6. ASSUME start[e], ~up'[e]
        PROVE  count'[e] < Threshold
    <3>1. ~up[e] /\ ~(Counts(e) /\ count[e] = Threshold - 1)
      BY <2>1, <2>6 DEF IInv, TypeOK
    <3>2. count[e] < Threshold
      BY <2>6, <3>1 DEF IInv, RecoveryArmed
    <3> QED
      BY <2>2, <2>3, <3>1, <3>2
  <2>7. RecoveryArmed'
    <3> SUFFICES ASSUME NEW f \in End, start'[f], ~up'[f]
                 PROVE  count'[f] < Threshold
      BY DEF RecoveryArmed
    <3>1. CASE f = e
      BY <2>1, <2>6, <3>1
    <3>2. CASE f # e
      BY <2>1, <3>2 DEF IInv, RecoveryArmed, TypeOK
    <3> QED
      BY <3>1, <3>2
  <2>8. FailedLowerIsDown'
    BY <2>1 DEF FailedLowerIsDown, IInv, TypeOK
  <2> QED
    BY <1>3, <2>5, <2>7, <2>8 DEF IInv
<1> QED
  BY <1>1, <1>4, <1>5, <1>6, <1>7, <1>8

(* What is sent leaves the invariant's wire in order.                      *)
LEMMA SendKeepsWire ==
  ASSUME IInv, NEW e \in End, NEW frame \in {"JoinAck", "KeepAlive", "Data"},
         frame = "JoinAck" => e = "upper", Send(e, frame)
  PROVE  chan' \in [End -> Seq(Frame)] /\ late' = late /\ Placed(chan')
<1>1. chan \in [End -> Seq(Frame)] /\ Placed(chan) /\ frame \in Frame /\ frame # "StartHello"
  BY DEF IInv, TypeOK, Frame
<1> QED
  BY <1>1, SentKeeps DEF Send

LEMMA CheckKeepsIInv ==
  ASSUME IInv, NEW e \in End, Check(e)
  PROVE  IInv'
<1> USE DEF Threshold
<1>1. /\ phase' = [phase EXCEPT ![e] = "receive"]
      /\ UNCHANGED <<alive, talked, lost, flaps, busy, joins>>
      /\ phase' \in [End -> {"receive", "check"}]
  BY DEF Check, faults, IInv, TypeOK
<1>2. ASSUME NEW why \in {"DETECT", "MISS"}, ShutDown(e, why), start[e], heard[e]
      PROVE  IInv'
  <2>1. /\ up' = [up EXCEPT ![e] = FALSE] /\ fail' = [fail EXCEPT ![e] = why]
        /\ count' = [count EXCEPT ![e] = 0] /\ onTime' = [onTime EXCEPT ![e] = 0]
        /\ UNCHANGED <<start, heard, rcvAge, sentAge, chan, late>>
    BY <1>2 DEF ShutDown, wire
  <2>2. TypeOK'
    BY <1>1, <2>1 DEF IInv, TypeOK
  <2>3. RecoveryArmed' /\ FailedLowerIsDown' /\ Placed(chan')
    BY <1>2, <2>1 DEF RecoveryArmed, FailedLowerIsDown, IInv, TypeOK
  <2> QED
    BY <2>2, <2>3 DEF IInv
<1>3. ASSUME fail' = [fail EXCEPT ![e] = FailAfterBack(e)],
             UNCHANGED <<start, up, count, heard, rcvAge, onTime>>,
             sentAge' \in [End -> 0 .. Hello],
             chan' \in [End -> Seq(Frame)], late' = late, Placed(chan')
      PROVE  IInv'
  <2>1. FailAfterBack(e) \in {fail[e], "NONE"}
    BY DEF FailAfterBack
  <2>2. TypeOK'
    BY <1>1, <1>3, <2>1 DEF IInv, TypeOK
  <2>3. RecoveryArmed' /\ FailedLowerIsDown'
    BY <1>3, <2>1 DEF RecoveryArmed, FailedLowerIsDown, IInv, TypeOK
  <2> QED
    BY <1>3, <2>2, <2>3 DEF IInv
<1>4. CASE DetectFail(e)
  BY <1>2, <1>4 DEF DetectFail, InterfaceFails
<1>5. CASE MissFail(e)
  BY <1>2, <1>5 DEF MissFail, Misses
<1>6. CASE SendKeepAlive(e)
  <2>1. sentAge' \in [End -> 0 .. Hello]
    <3>1. 0 \in 0 .. Hello
      BY TimerAssumption
    <3> QED
      BY <1>6, <3>1 DEF SendKeepAlive, IInv, TypeOK
  <2>2. Send(e, "KeepAlive")
    BY <1>6 DEF SendKeepAlive
  <2>3. chan' \in [End -> Seq(Frame)] /\ late' = late /\ Placed(chan')
    BY <2>2, SendKeepsWire
  <2> QED
    BY <1>3, <1>6, <2>1, <2>3 DEF SendKeepAlive
<1>7. CASE SendNothing(e)
  <2>1. chan' = chan /\ late' = late /\ sentAge' = sentAge
    BY <1>7 DEF SendNothing, wire
  <2>2. Placed(chan') /\ chan' \in [End -> Seq(Frame)]
        /\ sentAge' \in [End -> 0 .. Hello]
    BY <2>1 DEF IInv, TypeOK
  <2> QED
    BY <1>3, <1>7, <2>1, <2>2 DEF SendNothing
<1> QED
  BY <1>4, <1>5, <1>6, <1>7 DEF Check

(* Data is sent on a port in use, so it disturbs nothing but the wire.     *)
LEMMA SendDataKeepsIInv ==
  ASSUME IInv, NEW e \in End, SendData(e)
  PROVE  IInv'
<1>1. /\ phase' = [phase EXCEPT ![e] = "check"]
      /\ talked' = [talked EXCEPT ![e] = TRUE]
      /\ sentAge' = [sentAge EXCEPT ![e] = 0]
      /\ UNCHANGED <<start, up, fail, count, heard, rcvAge, alive, onTime, lost, flaps,
                     busy, joins>>
      /\ Send(e, "Data")
  BY DEF SendData, port, faults
<1>2. 0 \in 0 .. Hello
  BY TimerAssumption
<1>3. chan' \in [End -> Seq(Frame)] /\ late' = late /\ Placed(chan')
  BY <1>1, SendKeepsWire
<1>4. TypeOK'
  BY <1>1, <1>2, <1>3 DEF IInv, TypeOK
<1>5. RecoveryArmed' /\ FailedLowerIsDown'
  BY <1>1 DEF RecoveryArmed, FailedLowerIsDown, IInv
<1> QED
  BY <1>3, <1>4, <1>5 DEF IInv

(* The further handshake begins whatever has become of the port.           *)
LEMMA ReceiveJoinResKeepsIInv ==
  ASSUME IInv, NEW e \in End, ReceiveJoinRes(e)
  PROVE  IInv'
<1>1. /\ phase' = [phase EXCEPT ![e] = "check"] /\ joins' = joins + 1 /\ joins < MaxJoins
      /\ UNCHANGED <<start, up, fail, count, heard, rcvAge, sentAge, alive, talked,
                     onTime, lost, flaps, busy>>
      /\ Send(e, "JoinAck") /\ e = "upper"
  BY DEF ReceiveJoinRes, port, faults
<1>2. joins' \in 0 .. MaxJoins
  BY <1>1, BoundAssumption DEF IInv, TypeOK
<1>3. chan' \in [End -> Seq(Frame)] /\ late' = late /\ Placed(chan')
  BY <1>1, SendKeepsWire
<1>4. TypeOK'
  BY <1>1, <1>2, <1>3 DEF IInv, TypeOK
<1>5. RecoveryArmed' /\ FailedLowerIsDown'
  BY <1>1 DEF RecoveryArmed, FailedLowerIsDown, IInv
<1> QED
  BY <1>3, <1>4, <1>5 DEF IInv

LEMMA LoseKeepsIInv ==
  ASSUME IInv, NEW e \in End, Lose(e)
  PROVE  IInv'
<1>1. /\ lost < MaxLoss /\ lost' = lost + 1 /\ chan[e] # <<>>
      /\ chan' = Rest(e)
      /\ late' = [late EXCEPT ![e] = IF Tail(chan[e]) = <<>> THEN 0 ELSE @]
      /\ UNCHANGED <<start, up, fail, count, heard, rcvAge, sentAge, alive,
                     phase, talked, onTime, flaps, busy, joins>>
  BY DEF Lose, port, Rest
<1>2. chan' \in [End -> Seq(Frame)] /\ Placed(chan')
  BY <1>1, RestKeeps
<1>3. 0 \in 0 .. MaxDelay
  BY BoundAssumption
<1>4. late' \in [End -> 0 .. MaxDelay] /\ lost' \in 0 .. MaxLoss
  <2>1. late' \in [End -> 0 .. MaxDelay]
    BY <1>1, <1>3 DEF IInv, TypeOK
  <2>2. lost' \in 0 .. MaxLoss
    BY <1>1, BoundAssumption DEF IInv, TypeOK
  <2> QED
    BY <2>1, <2>2
<1>5. TypeOK'
  BY <1>1, <1>2, <1>4 DEF IInv, TypeOK
<1>6. RecoveryArmed' /\ FailedLowerIsDown'
  BY <1>1 DEF RecoveryArmed, FailedLowerIsDown, IInv
<1> QED
  BY <1>2, <1>5, <1>6 DEF IInv

LEMMA InterfaceKeepsIInv ==
  ASSUME IInv, NEW e \in End, InterfaceDown(e) \/ InterfaceUp(e)
  PROVE  IInv'
<1>1. /\ alive' \in [End -> BOOLEAN]
      /\ flaps' \in 0 .. MaxFlap
      /\ UNCHANGED <<start, up, fail, count, heard, rcvAge, sentAge, phase,
                     chan, late, talked, onTime, lost, busy, joins>>
  <2>1. CASE InterfaceDown(e)
    BY <2>1, BoundAssumption DEF InterfaceDown, port, wire, IInv, TypeOK
  <2>2. CASE InterfaceUp(e)
    BY <2>2 DEF InterfaceUp, port, wire, faults, IInv, TypeOK
  <2> QED
    BY <2>1, <2>2
<1>2. TypeOK' /\ Placed(chan') /\ RecoveryArmed' /\ FailedLowerIsDown'
  BY <1>1 DEF IInv, TypeOK, RecoveryArmed, FailedLowerIsDown
<1> QED
  BY <1>2 DEF IInv

LEMMA TickKeepsIInv ==
  ASSUME IInv, Tick
  PROVE  IInv'
<1>1. /\ \A e \in End : chan[e] # <<>> => late[e] < MaxDelay
      /\ rcvAge' = [e \in End |-> Smaller(rcvAge[e] + 1, Dead)]
      /\ sentAge' = [e \in End |-> Smaller(sentAge[e] + 1, Hello)]
      /\ late' = [e \in End |-> IF chan[e] = <<>> THEN 0 ELSE late[e] + 1]
      /\ talked' = [e \in End |-> FALSE]
      /\ UNCHANGED <<start, up, fail, count, heard, alive, phase, chan, onTime,
                     lost, flaps, joins>>
      /\ busy' = busy \/ (busy < MaxBusy /\ busy' = busy + 1)
  BY DEF Tick, HeldUp
<1>2. Dead \in Nat /\ Hello \in Nat
  BY TimerAssumption
<1>3. \A e \in End : rcvAge[e] \in 0 .. Dead /\ sentAge[e] \in 0 .. Hello
  BY DEF IInv, TypeOK
<1>4. \A e \in End : /\ Smaller(rcvAge[e] + 1, Dead) \in 0 .. Dead
                     /\ Smaller(sentAge[e] + 1, Hello) \in 0 .. Hello
  BY <1>2, <1>3, SmallerInRange
<1>5. \A e \in End : (IF chan[e] = <<>> THEN 0 ELSE late[e] + 1) \in 0 .. MaxDelay
  BY <1>1, BoundAssumption DEF IInv, TypeOK
<1>6. busy' \in 0 .. MaxBusy
  BY <1>1, BoundAssumption DEF IInv, TypeOK
<1>7. TypeOK'
  BY <1>1, <1>4, <1>5, <1>6 DEF IInv, TypeOK
<1>8. Placed(chan') /\ RecoveryArmed' /\ FailedLowerIsDown'
  BY <1>1 DEF IInv, RecoveryArmed, FailedLowerIsDown
<1> QED
  BY <1>7, <1>8 DEF IInv

-----------------------------------------------------------------------------

(* The inductive invariant: it keeps TypeOK, RecoveryArmed and             *)
(* FailedLowerIsDown with the one fact they lean on, that no StartHello    *)
(* comes to the lower end.                                                 *)
THEOREM Invariance == Spec => []IInv
<1>1. Init => IInv
  BY InitIInv
<1>2. IInv /\ [Next]_vars => IInv'
  <2> SUFFICES ASSUME IInv, [Next]_vars PROVE IInv'
    OBVIOUS
  <2>1. CASE Tick
    BY <2>1, TickKeepsIInv
  <2>2. ASSUME NEW e \in End, Receive(e) PROVE IInv'
    BY <2>2, ReceiveKeepsIInv
  <2>3. ASSUME NEW e \in End, Check(e) PROVE IInv'
    BY <2>3, CheckKeepsIInv
  <2>4. ASSUME NEW e \in End, SendData(e) PROVE IInv'
    BY <2>4, SendDataKeepsIInv
  <2>5. ASSUME NEW e \in End, Lose(e) PROVE IInv'
    BY <2>5, LoseKeepsIInv
  <2>6. ASSUME NEW e \in End, InterfaceDown(e) \/ InterfaceUp(e) PROVE IInv'
    BY <2>6, InterfaceKeepsIInv
  <2>7. ASSUME NEW e \in End, ReceiveJoinRes(e) PROVE IInv'
    BY <2>7, ReceiveJoinResKeepsIInv
  <2>8. CASE UNCHANGED vars
    BY <2>8 DEF vars, port, wire, faults, IInv, TypeOK, RecoveryArmed, FailedLowerIsDown
  <2> QED
    BY <2>1, <2>2, <2>3, <2>4, <2>5, <2>6, <2>7, <2>8 DEF Next
<1> QED
  BY <1>1, <1>2, PTL DEF Spec

(* Every field of the two ports stays in its range, counters, ages and the *)
(* frames on the wire included.                                            *)
THEOREM TypeCorrect == Spec => []TypeOK
<1>1. IInv => TypeOK
  BY DEF IInv
<1> QED
  BY <1>1, Invariance, PTL

(* A port that the loop has shut down can be turned on again.              *)
THEOREM CanRecover == Spec => []RecoveryArmed
<1>1. IInv => RecoveryArmed
  BY DEF IInv
<1> QED
  BY <1>1, Invariance, PTL

(* A failure is on record only at a port that was in use and was heard,    *)
(* and a lower end with one carries nothing, whatever is joined meanwhile. *)
THEOREM FailedLowerOutOfUse == Spec => []FailedLowerIsDown
<1>1. IInv => FailedLowerIsDown
  BY DEF IInv
<1> QED
  BY <1>1, Invariance, PTL

-----------------------------------------------------------------------------

(* Once both ends have a missed keep-alive on record and none is on the    *)
(* way, neither ever sends one again, but for a port that was opened anew  *)
(* and loses its interface: a port with a miss on record is passed over    *)
(* before its keep-alive is sent, and only a keep-alive clears the record. *)
THEOREM NobodySpeaksAgain == Spec => SilenceLasts
<1>1. IInv /\ [Next]_vars => (Silent => Silent' \/ \E e \in End : InterfaceFails(e))
  <2> SUFFICES ASSUME IInv, [Next]_vars, Silent, \A e \in End : ~InterfaceFails(e)
               PROVE  Silent'
    OBVIOUS
  <2>1. /\ \A e \in End : fail[e] = "MISS" /\ start[e] /\ heard[e]
        /\ \A e \in End : \A i \in 1 .. Len(chan[e]) : chan[e][i] # "KeepAlive"
    BY DEF IInv, TypeOK, FailedLowerIsDown, Silent
  <2>2. ASSUME fail' = fail, chan' \in [End -> Seq(Frame)],
               \A e \in End : \A i \in 1 .. Len(chan'[e]) : chan'[e][i] # "KeepAlive"
        PROVE  Silent'
    BY <2>1, <2>2 DEF Silent
  <2>3. ASSUME NEW e \in End, chan[e] # <<>>
        PROVE  /\ Rest(e) \in [End -> Seq(Frame)] /\ Placed(Rest(e))
               /\ \A f \in End : \A i \in 1 .. Len(Rest(e)[f]) : Rest(e)[f][i] # "KeepAlive"
               /\ Head(chan[e]) # "KeepAlive"
    <3>1. /\ Rest(e) \in [End -> Seq(Frame)] /\ Placed(Rest(e))
          /\ Head(chan[e]) = chan[e][1] /\ 1 \in 1 .. Len(chan[e])
          /\ \A f \in End : \A i \in 1 .. Len(Rest(e)[f]) :
               \E j \in 1 .. Len(chan[f]) : chan[f][j] = Rest(e)[f][i]
      BY <2>3, RestKeeps
    <3>2. ASSUME NEW f \in End, NEW i \in 1 .. Len(Rest(e)[f])
          PROVE  Rest(e)[f][i] # "KeepAlive"
      <4>1. PICK j \in 1 .. Len(chan[f]) : chan[f][j] = Rest(e)[f][i]
        BY <3>1, <3>2
      <4> QED
        BY <2>1, <4>1
    <3>3. Head(chan[e]) # "KeepAlive"
      BY <2>1, <3>1
    <3> QED
      BY <3>1, <3>2, <3>3
  <2>4. ASSUME NEW e \in End, NEW frame \in Frame \ {"KeepAlive"},
               frame = "StartHello" => e = "lower", frame = "JoinAck" => e = "upper",
               NEW frames \in [End -> Seq(Frame)], Placed(frames),
               \A f \in End : \A i \in 1 .. Len(frames[f]) : frames[f][i] # "KeepAlive"
        PROVE  /\ Sent(e, frame, frames) \in [End -> Seq(Frame)]
               /\ \A f \in End : \A i \in 1 .. Len(Sent(e, frame, frames)[f]) :
                    Sent(e, frame, frames)[f][i] # "KeepAlive"
    <3>1. /\ Sent(e, frame, frames) \in [End -> Seq(Frame)]
          /\ \A f \in End : \A i \in 1 .. Len(Sent(e, frame, frames)[f]) :
               \/ f = Other(e) /\ Sent(e, frame, frames)[f][i] = frame
               \/ \E j \in 1 .. Len(frames[f]) :
                    frames[f][j] = Sent(e, frame, frames)[f][i]
      BY <2>4, SentKeeps
    <3>2. ASSUME NEW f \in End, NEW i \in 1 .. Len(Sent(e, frame, frames)[f])
          PROVE  Sent(e, frame, frames)[f][i] # "KeepAlive"
      <4>1. CASE Sent(e, frame, frames)[f][i] = frame
        BY <4>1
      <4>2. CASE \E j \in 1 .. Len(frames[f]) : frames[f][j] = Sent(e, frame, frames)[f][i]
        BY <2>4, <3>2, <4>2
      <4> QED
        BY <3>1, <3>2, <4>1, <4>2
    <3> QED
      BY <3>1, <3>2
  <2>5. ASSUME NEW e \in End, Check(e) PROVE Silent'
    <3>1. FailAfterBack(e) = "MISS" /\ ~Misses(e) /\ ~SendDue(e)
      BY <2>1 DEF FailAfterBack, Misses, SendDue
    <3>2. SendNothing(e)
      BY <2>5, <3>1 DEF Check, DetectFail, MissFail, SendKeepAlive
    <3>3. chan' = chan /\ fail' = [fail EXCEPT ![e] = "MISS"]
      BY <3>1, <3>2 DEF SendNothing, wire
    <3> QED
      BY <2>1, <3>3 DEF Silent, IInv, TypeOK
  <2>6. ASSUME NEW e \in End, Receive(e) PROVE Silent'
    <3>1. PICK frame : Hears(e, frame)
                       /\ \/ ReceiveJoinAck(e) /\ frame = "JoinAck"
                          \/ Take(e, frame) /\ ReceiveStartHello(e)
                          \/ Take(e, frame) /\ ReceiveData(e)
                          \/ Take(e, frame) /\ ReceiveKeepAlive(e) /\ frame = "KeepAlive"
      BY <2>6 DEF Receive, ReceiveJoinAck, ReceiveStartHello, ReceiveData,
                  ReceiveKeepAlive, Take
    <3>2. chan[e] # <<>> /\ frame = Head(chan[e]) /\ (frame = "JoinAck" => e = "lower")
      BY <3>1, HearsKeeps
    <3>3. frame # "KeepAlive"
      BY <2>3, <3>2
    <3>4. CASE ReceiveJoinAck(e) /\ frame = "JoinAck"
      <4>1. chan' = Sent(e, "StartHello", Rest(e)) /\ fail' = fail /\ e = "lower"
        BY <3>2, <3>4 DEF ReceiveJoinAck, port
      <4>2. "StartHello" \in Frame \ {"KeepAlive"}
        BY DEF Frame
      <4>3. /\ chan' \in [End -> Seq(Frame)]
            /\ \A f \in End : \A i \in 1 .. Len(chan'[f]) : chan'[f][i] # "KeepAlive"
        BY <2>3, <2>4, <3>2, <4>1, <4>2
      <4> QED
        BY <2>2, <4>1, <4>3
    <3>5. CASE Take(e, frame) /\ (ReceiveStartHello(e) \/ ReceiveData(e))
      <4>1. chan' = Rest(e) /\ fail' = fail
        BY <3>5 DEF Take, ReceiveStartHello, ReceiveData
      <4> QED
        BY <2>2, <2>3, <3>2, <4>1
    <3> QED
      BY <3>1, <3>3, <3>4, <3>5
  <2>7. ASSUME NEW e \in End, SendData(e) \/ ReceiveJoinRes(e) PROVE Silent'
    <3>1. PICK frame \in {"Data", "JoinAck"} :
            /\ chan' = Sent(e, frame, chan) /\ fail' = fail
            /\ frame = "JoinAck" => e = "upper"
      BY <2>7 DEF SendData, ReceiveJoinRes, Send, port
    <3>2. frame \in Frame \ {"KeepAlive"} /\ frame # "StartHello"
      BY DEF Frame
    <3>3. chan \in [End -> Seq(Frame)] /\ Placed(chan)
      BY DEF IInv, TypeOK
    <3> QED
      BY <2>1, <2>2, <2>4, <3>1, <3>2, <3>3
  <2>8. ASSUME NEW e \in End, Lose(e) PROVE Silent'
    <3>1. chan' = Rest(e) /\ fail' = fail /\ chan[e] # <<>>
      BY <2>8 DEF Lose, Rest, port
    <3> QED
      BY <2>2, <2>3, <3>1
  <2>9. CASE \/ \E e \in End : InterfaceDown(e) \/ InterfaceUp(e)
             \/ Tick \/ UNCHANGED vars
    BY <2>9 DEF InterfaceDown, InterfaceUp, Tick, vars, port, wire, Silent
  <2> QED
    BY <2>5, <2>6, <2>7, <2>8, <2>9 DEF Next
<1> QED
  BY <1>1, Invariance, PTL DEF Spec, SilenceLasts

-----------------------------------------------------------------------------
(* Why a working cable is not given up.  What follows bounds the age of    *)
(* the last sign of life by what explains it: the keep-alives and data     *)
(* that were lost, those on the way, the time that eth0 took, the time     *)
(* since the peer last sent one, and the time that the frames on the way   *)
(* have waited.  The frames of a handshake are no sign of life, and their  *)
(* sending is not taken for one either.                                    *)

Sign == {"KeepAlive", "Data"}

SignsIn(s) == {i \in 1 .. Len(s) : s[i] \in Sign}

(* How many signs of life are on the way to e.                             *)
Waiting(e) == Cardinality(SignsIn(chan[e]))

(* How long k hello timers take.                                           *)
Silence == [k \in Nat |-> Hello * k]

(* The faults so far leave room in the dead timer.                         *)
Room == flaps = 0 /\ Silence[lost + 1] + MaxDelay + busy < Dead

AliveTillFlap == flaps = 0 => \A e \in End : alive[e]

(* Only a port that was opened is in use, or has keep-alives to count.     *)
UpIsStarted == \A e \in End : up[e] \/ count[e] # Threshold => start[e]

(* An end that is heard, or is about to be, is open.                       *)
HeardIsStarted ==
  \A e \in End :
    heard[e] \/ (\E i \in 1 .. Len(chan[e]) : chan[e][i] \in Sign) => start[Other(e)]

EmptyIsNotLate == \A e \in End : chan[e] = <<>> => late[e] = 0

(* Each sign of life on the way, and each frame that was lost, stands for  *)
(* one hello timer of silence at the most.                                 *)
Explained(e) ==
  rcvAge[e] <= Silence[lost + Waiting(e)] + busy + sentAge[Other(e)]

(* What waits in front was sent within a hello timer of the last sign that *)
(* arrived, the lost ones not counted.                                     *)
Expected(e) ==
  chan[e] # <<>> => rcvAge[e] <= Silence[lost + 1] + busy + late[e]

Timely ==
  Room => \A e \in End : /\ fail[e] = "NONE"
                         /\ heard[e] => Explained(e) /\ Expected(e)

AInv ==
  AliveTillFlap /\ UpIsStarted /\ HeardIsStarted /\ EmptyIsNotLate /\ Timely

LEMMA SilenceGrows ==
  \A k \in Nat : Silence[k] \in Nat /\ Silence[k + 1] = Silence[k] + Hello
<1>1. \A k \in Nat : Silence[k] = Hello * k /\ Silence[k + 1] = Hello * (k + 1)
  BY DEF Silence
<1> QED
  BY <1>1, TimerAssumption

LEMMA SignsAreFew ==
  ASSUME NEW s \in Seq(Frame)
  PROVE  IsFiniteSet(SignsIn(s)) /\ Cardinality(SignsIn(s)) \in Nat
<1>1. Len(s) \in Nat
  BY LenProperties
<1>2. IsFiniteSet(1 .. Len(s)) /\ SignsIn(s) \in SUBSET (1 .. Len(s))
  BY <1>1, FS_Interval DEF SignsIn
<1> QED
  BY <1>2, FS_Subset, FS_CardinalityType

LEMMA NoSigns == SignsIn(<<>>) = {} /\ Cardinality(SignsIn(<<>>)) = 0
<1>1. SignsIn(<<>>) = {}
  BY DEF SignsIn
<1> QED
  BY <1>1, FS_EmptySet

(* A sign that is sent is one more on the way.                             *)
LEMMA SignsOfAppend ==
  ASSUME NEW s \in Seq(Frame), NEW frame \in Frame
  PROVE  Cardinality(SignsIn(Append(s, frame))) =
           IF frame \in Sign THEN Cardinality(SignsIn(s)) + 1 ELSE Cardinality(SignsIn(s))
<1>1. /\ Len(s) \in Nat /\ Len(Append(s, frame)) = Len(s) + 1
      /\ \A i \in 1 .. Len(s) : Append(s, frame)[i] = s[i]
      /\ Append(s, frame)[Len(s) + 1] = frame
  BY AppendProperties, LenProperties
<1>2. \A i : i \in 1 .. (Len(s) + 1) <=> i \in 1 .. Len(s) \/ i = Len(s) + 1
  BY <1>1
<1>3. SignsIn(Append(s, frame)) =
        IF frame \in Sign THEN SignsIn(s) \cup {Len(s) + 1} ELSE SignsIn(s)
  BY <1>1, <1>2 DEF SignsIn
<1>4. Len(s) + 1 \notin SignsIn(s)
  BY <1>1 DEF SignsIn
<1>5. IsFiniteSet(SignsIn(s))
  BY SignsAreFew
<1> QED
  BY <1>3, <1>4, <1>5, FS_AddElement

(* A sign that is taken or lost is one less.                               *)
LEMMA SignsOfTail ==
  ASSUME NEW s \in Seq(Frame), s # <<>>
  PROVE  Cardinality(SignsIn(Tail(s))) =
           IF Head(s) \in Sign THEN Cardinality(SignsIn(s)) - 1 ELSE Cardinality(SignsIn(s))
<1> DEFINE S == SignsIn(s) \ {1}
           T == SignsIn(Tail(s))
           f == [i \in S |-> i - 1]
<1>1. /\ Len(s) \in Nat \ {0} /\ Head(s) = s[1] /\ Len(Tail(s)) = Len(s) - 1
      /\ \A i \in 1 .. Len(Tail(s)) : Tail(s)[i] = s[i + 1]
  BY HeadTailProperties, EmptySeq
<1>2. IsFiniteSet(SignsIn(s))
  BY SignsAreFew
<1>3. IsFiniteSet(S) /\ Cardinality(S) =
        IF 1 \in SignsIn(s) THEN Cardinality(SignsIn(s)) - 1 ELSE Cardinality(SignsIn(s))
  BY <1>2, FS_RemoveElement
<1>4. 1 \in SignsIn(s) <=> Head(s) \in Sign
  BY <1>1 DEF SignsIn
<1>5. ASSUME NEW i \in S
      PROVE  i - 1 \in T /\ i \in Nat
  <2>1. i \in 1 .. Len(s) /\ i # 1 /\ s[i] \in Sign
    BY DEF SignsIn
  <2>2. i - 1 \in 1 .. Len(Tail(s)) /\ (i - 1) + 1 = i
    BY <1>1, <2>1
  <2> QED
    BY <1>1, <2>1, <2>2 DEF SignsIn
<1>6. ASSUME NEW j \in T
      PROVE  j + 1 \in S /\ j \in Nat /\ (j + 1) - 1 = j
  <2>1. j \in 1 .. Len(Tail(s)) /\ s[j + 1] \in Sign
    BY <1>1 DEF SignsIn
  <2>2. j + 1 \in 1 .. Len(s) /\ j + 1 # 1 /\ j \in Nat /\ (j + 1) - 1 = j
    BY <1>1, <2>1
  <2> QED
    BY <2>1, <2>2 DEF SignsIn
<1> HIDE DEF S, T
<1>7. f \in [S -> T]
  BY <1>5
<1>8. \A i, j \in S : f[i] = f[j] => i = j
  BY <1>5
<1>9. \A j \in T : \E i \in S : f[i] = j
  BY <1>6
<1>10. f \in Bijection(S, T)
  BY <1>7, <1>8, <1>9 DEF Bijection, Injection, Surjection, IsInjective
<1>11. Cardinality(T) = Cardinality(S)
  BY <1>3, <1>10, FS_Bijection DEF ExistsBijection
<1> QED
  BY <1>3, <1>4, <1>11 DEF T

LEMMA Quantities ==
  ASSUME IInv
  PROVE  /\ lost \in Nat /\ busy \in Nat /\ flaps \in Nat
         /\ Hello \in Nat /\ Dead \in Nat /\ MaxDelay \in Nat
         /\ \A e \in End : /\ rcvAge[e] \in 0 .. Dead /\ sentAge[e] \in 0 .. Hello
                           /\ late[e] \in 0 .. MaxDelay /\ Waiting(e) \in Nat
                           /\ chan[e] \in Seq(Frame)
         /\ Silence[lost] \in Nat /\ Silence[lost + 1] = Silence[lost] + Hello
         /\ \A e \in End : Silence[lost + Waiting(e)] \in Nat
<1>1. lost \in Nat /\ busy \in Nat /\ flaps \in Nat
  BY BoundAssumption DEF IInv, TypeOK
<1>2. Hello \in Nat /\ Dead \in Nat /\ MaxDelay \in Nat
  BY TimerAssumption, BoundAssumption
<1>3. \A e \in End : /\ rcvAge[e] \in 0 .. Dead /\ sentAge[e] \in 0 .. Hello
                     /\ late[e] \in 0 .. MaxDelay /\ chan[e] \in Seq(Frame)
  BY DEF IInv, TypeOK
<1>4. \A e \in End : Waiting(e) \in Nat
  BY <1>3, SignsAreFew DEF Waiting
<1>5. \A e \in End : lost + Waiting(e) \in Nat
  BY <1>1, <1>4
<1> QED
  BY <1>1, <1>2, <1>3, <1>4, <1>5, SilenceGrows

(* What is explained while nothing is on the way is expected once          *)
(* something is.                                                           *)
LEMMA FirstIsExpected ==
  ASSUME IInv, NEW e \in End, chan[e] = <<>>, Explained(e)
  PROVE  rcvAge[e] <= Silence[lost + 1] + busy + late[e]
<1>1. Waiting(e) = 0 /\ lost + Waiting(e) = lost
  BY NoSigns, Quantities DEF Waiting
<1>2. rcvAge[e] <= Silence[lost] + busy + sentAge[Other(e)]
  BY <1>1 DEF Explained
<1>3. /\ sentAge[Other(e)] \in 0 .. Hello /\ rcvAge[e] \in Nat /\ late[e] \in Nat
      /\ Hello \in Nat /\ busy \in Nat
      /\ Silence[lost] \in Nat /\ Silence[lost + 1] = Silence[lost] + Hello
  BY Ends, Quantities
<1> QED
  BY <1>2, <1>3

LEMMA InitAInv == Init => AInv
<1> SUFFICES ASSUME Init PROVE AInv
  OBVIOUS
<1>1. /\ \A e \in End : ~heard[e] /\ alive[e] /\ fail[e] = "NONE" /\ late[e] = 0
      /\ \A e \in End : up[e] = start[e] /\ count[e] = Threshold
  BY DEF Init
<1>2. chan["upper"] = <<"StartHello">> /\ chan["lower"] = <<>>
  BY Ends DEF Init
<1>3. \A e \in End : \A i \in 1 .. Len(chan[e]) : chan[e][i] \notin Sign
  <2>1. Len(chan["upper"]) = 1 /\ Len(chan["lower"]) = 0
    BY <1>2
  <2> QED
    BY <1>2, <2>1 DEF End, Sign
<1> QED
  BY <1>1, <1>3 DEF AInv, AliveTillFlap, UpIsStarted, HeardIsStarted,
       EmptyIsNotLate, Timely

(* A frame leaves the wire, taken or lost.                                 *)
LEMMA WireShortened ==
  ASSUME IInv, AInv, NEW e \in End, chan[e] # <<>>, chan' = Rest(e),
         late' = [late EXCEPT ![e] = IF Tail(chan[e]) = <<>> THEN 0 ELSE @]
  PROVE  /\ Waiting(e) \in Nat /\ Waiting(e)' \in Nat
         /\ Waiting(e)' = IF Head(chan[e]) \in Sign THEN Waiting(e) - 1 ELSE Waiting(e)
         /\ \A f \in End : f # e => Waiting(f)' = Waiting(f)
         /\ chan'[e] # <<>> => late'[e] = late[e]
         /\ \A f \in End : f # e => chan'[f] = chan[f] /\ late'[f] = late[f]
         /\ \A f \in End : chan'[f] = <<>> => late'[f] = 0
         /\ \A f \in End : \A i \in 1 .. Len(chan'[f]) :
              \E j \in 1 .. Len(chan[f]) : chan[f][j] = chan'[f][i]
<1>1. /\ chan[e] \in Seq(Frame) /\ chan'[e] = Tail(chan[e]) /\ chan'[e] \in Seq(Frame)
      /\ \A f \in End : f # e => chan'[f] = chan[f]
      /\ \A f \in End : \A i \in 1 .. Len(chan'[f]) :
           \E j \in 1 .. Len(chan[f]) : chan[f][j] = chan'[f][i]
  BY RestKeeps, Quantities
<1>2. /\ late'[e] = (IF Tail(chan[e]) = <<>> THEN 0 ELSE late[e])
      /\ \A f \in End : f # e => late'[f] = late[f]
  BY DEF IInv, TypeOK
<1>3. \A f \in End : chan'[f] = <<>> => late'[f] = 0
  BY <1>1, <1>2 DEF AInv, EmptyIsNotLate
<1>4. /\ Waiting(e) \in Nat /\ Waiting(e)' \in Nat
      /\ Waiting(e)' = IF Head(chan[e]) \in Sign THEN Waiting(e) - 1 ELSE Waiting(e)
  BY <1>1, SignsOfTail, SignsAreFew DEF Waiting
<1>5. \A f \in End : f # e => Waiting(f)' = Waiting(f)
  BY <1>1 DEF Waiting
<1> QED
  BY <1>1, <1>2, <1>3, <1>4, <1>5

(* A frame joins the wire.                                                 *)
LEMMA WireExtended ==
  ASSUME IInv, NEW e \in End, NEW frame \in {"JoinAck", "KeepAlive", "Data"},
         frame = "JoinAck" => e = "upper", Send(e, frame)
  PROVE  /\ late' = late
         /\ chan'[e] = chan[e] /\ Waiting(e)' = Waiting(e)
         /\ \A i \in 1 .. Len(chan'[Other(e)]) :
              \/ chan'[Other(e)][i] = frame
              \/ \E j \in 1 .. Len(chan[Other(e)]) :
                   chan[Other(e)][j] = chan'[Other(e)][i]
         /\ frame \notin Sign => Waiting(Other(e))' = Waiting(Other(e))
         /\ frame \in Sign /\ alive[e] /\ alive[Other(e)] =>
              Waiting(Other(e))' = Waiting(Other(e)) + 1
         /\ chan'[Other(e)] = chan[Other(e)] \/ chan'[Other(e)] # <<>>
<1>1. /\ Other(e) \in End /\ Other(e) # e /\ frame \in Frame /\ frame # "StartHello"
      /\ late' = late
      /\ chan' = Sent(e, frame, chan) /\ Placed(chan) /\ chan \in [End -> Seq(Frame)]
  BY Ends DEF Send, IInv, TypeOK, Frame
<1>2. /\ chan'[e] = chan[e]
      /\ chan'[Other(e)] = IF alive[e] /\ alive[Other(e)]
                           THEN Append(chan[Other(e)], frame)
                           ELSE chan[Other(e)]
      /\ \A f \in End : \A i \in 1 .. Len(chan'[f]) :
           \/ f = Other(e) /\ chan'[f][i] = frame
           \/ \E j \in 1 .. Len(chan[f]) : chan[f][j] = chan'[f][i]
  BY <1>1, SentKeeps
<1>3. chan[Other(e)] \in Seq(Frame)
  BY <1>1
<1>4. /\ Append(chan[Other(e)], frame) # <<>>
      /\ Cardinality(SignsIn(Append(chan[Other(e)], frame))) =
           IF frame \in Sign THEN Waiting(Other(e)) + 1 ELSE Waiting(Other(e))
  BY <1>1, <1>3, AppendProperties, SignsOfAppend DEF Waiting
<1>5. Waiting(e)' = Waiting(e) /\ Waiting(Other(e))' = Cardinality(SignsIn(chan'[Other(e)]))
  BY <1>2 DEF Waiting
<1>6. /\ frame \notin Sign => Waiting(Other(e))' = Waiting(Other(e))
      /\ frame \in Sign /\ alive[e] /\ alive[Other(e)] =>
           Waiting(Other(e))' = Waiting(Other(e)) + 1
  BY <1>2, <1>4, <1>5 DEF Waiting
<1> QED
  BY <1>1, <1>2, <1>4, <1>5, <1>6

(* A sign of life starts the age anew.  The frames of a handshake leave it *)
(* as it is, and do not count among what is on the way.                    *)
LEMMA ReceiveKeepsAInv ==
  ASSUME IInv, AInv, NEW e \in End, Receive(e), ~ReceiveJoinAck(e)
  PROVE  AInv'
<1>1. PICK frame : Take(e, frame)
                   /\ \/ ReceiveStartHello(e) /\ frame = "StartHello"
                      \/ ReceiveData(e) /\ frame = "Data"
                      \/ ReceiveKeepAlive(e) /\ frame = "KeepAlive"
  BY DEF Receive, ReceiveStartHello, ReceiveData, ReceiveKeepAlive
<1>2. /\ Head(chan[e]) = frame /\ chan[e] # <<>> /\ chan' = Rest(e)
      /\ late' = [late EXCEPT ![e] = IF Tail(chan[e]) = <<>> THEN 0 ELSE @]
      /\ UNCHANGED <<sentAge, alive, lost, flaps, busy>>
  BY <1>1 DEF Take, Hears, faults
<1>3. /\ Waiting(e) \in Nat /\ Waiting(e)' \in Nat
      /\ Waiting(e)' = IF Head(chan[e]) \in Sign THEN Waiting(e) - 1 ELSE Waiting(e)
      /\ \A f \in End : f # e => Waiting(f)' = Waiting(f)
      /\ chan'[e] # <<>> => late'[e] = late[e]
      /\ \A f \in End : f # e => chan'[f] = chan[f] /\ late'[f] = late[f]
      /\ \A f \in End : chan'[f] = <<>> => late'[f] = 0
      /\ \A f \in End : \A i \in 1 .. Len(chan'[f]) :
           \E j \in 1 .. Len(chan[f]) : chan[f][j] = chan'[f][i]
  BY <1>2, WireShortened
<1>4. /\ \A f \in End : start[f] => start'[f]
      /\ \A f \in End : f # e => /\ heard'[f] = heard[f] /\ rcvAge'[f] = rcvAge[f]
                                 /\ up'[f] = up[f] /\ count'[f] = count[f]
                                 /\ fail'[f] = fail[f]
      /\ frame = "StartHello" => UNCHANGED <<heard, rcvAge, fail, count>> /\ start'[e]
      /\ frame # "StartHello" /\ fail[e] = "NONE" => rcvAge'[e] = 0 /\ fail'[e] = "NONE"
      /\ frame # "StartHello" => UNCHANGED start
  BY <1>1 DEF ReceiveStartHello, ReceiveData, ReceiveKeepAlive, port, IInv, TypeOK
<1>5. frame # "StartHello" => (up'[e] \/ count'[e] # Threshold => start[e])
  <2>1. CASE frame = "Data"
    BY <1>1, <2>1 DEF ReceiveData, AInv, UpIsStarted
  <2>2. CASE frame = "KeepAlive"
    <3>1. Counts(e) => count[e] # Threshold
      BY DEF Counts, Threshold, IInv, TypeOK
    <3> QED
      BY <1>1, <2>2, <3>1 DEF ReceiveKeepAlive, port, AInv, UpIsStarted, IInv, TypeOK
  <2> QED
    BY <1>1, <2>1, <2>2
<1>6. AliveTillFlap' /\ EmptyIsNotLate'
  BY <1>2, <1>3 DEF AInv, AliveTillFlap, EmptyIsNotLate
<1>7. UpIsStarted'
  BY <1>4, <1>5 DEF AInv, UpIsStarted
<1>8. HeardIsStarted'
  <2>1. 1 \in 1 .. Len(chan[e]) /\ chan[e][1] = frame
    BY <1>2, RestKeeps
  <2>2. frame # "StartHello" => start[Other(e)]
    <3>1. frame # "StartHello" => frame \in Sign
      BY <1>1 DEF Sign
    <3> QED
      BY <2>1, <3>1 DEF AInv, HeardIsStarted
  <2> SUFFICES ASSUME NEW f \in End,
                      heard'[f] \/ \E i \in 1 .. Len(chan'[f]) : chan'[f][i] \in Sign
               PROVE  start'[Other(f)]
    BY DEF HeardIsStarted
  <2>3. Other(f) \in End
    BY Ends
  <2>4. (\E i \in 1 .. Len(chan'[f]) : chan'[f][i] \in Sign) => start[Other(f)]
    BY <1>3 DEF AInv, HeardIsStarted
  <2>5. heard'[f] => start[Other(f)]
    BY <1>4, <2>2 DEF AInv, HeardIsStarted
  <2> QED
    BY <1>4, <2>3, <2>4, <2>5
<1>9. Timely'
  <2> SUFFICES ASSUME Room', NEW f \in End
               PROVE  fail'[f] = "NONE" /\ (heard'[f] => (Explained(f) /\ Expected(f))')
    BY DEF Timely
  <2>1. Room
    BY <1>2 DEF Room
  <2>2. fail[e] = "NONE" /\ fail[f] = "NONE"
    BY <2>1 DEF AInv, Timely
  <2>3. CASE f # e
    <3>1. /\ heard'[f] = heard[f] /\ rcvAge'[f] = rcvAge[f] /\ fail'[f] = fail[f]
          /\ chan'[f] = chan[f] /\ late'[f] = late[f] /\ Waiting(f)' = Waiting(f)
      BY <1>3, <1>4, <2>3
    <3> QED
      BY <1>2, <2>1, <3>1 DEF AInv, Timely, Explained, Expected
  <2>4. CASE f = e /\ frame = "StartHello"
    <3>1. Waiting(e)' = Waiting(e)
      BY <1>2, <1>3, <2>4 DEF Sign
    <3>2. UNCHANGED <<heard, rcvAge, fail, sentAge, lost, busy>>
      BY <1>2, <1>4, <2>4
    <3>3. heard[e] => Explained(e) /\ Expected(e)
      BY <2>1 DEF AInv, Timely
    <3>4. Explained(e) => Explained(e)'
      BY <3>1, <3>2 DEF Explained
    <3>5. Expected(e) => Expected(e)'
      BY <1>2, <1>3, <3>2 DEF Expected
    <3> QED
      BY <2>2, <2>4, <3>2, <3>3, <3>4, <3>5
  <2>5. CASE f = e /\ frame # "StartHello"
    <3>1. rcvAge'[e] = 0 /\ fail'[e] = "NONE"
      BY <1>4, <2>2, <2>5
    <3>2. lost + Waiting(e)' \in Nat /\ lost + 1 \in Nat
      <4>1. lost \in Nat
        BY Quantities
      <4> QED
        BY <1>3, <4>1
    <3>3. Silence[lost + Waiting(e)'] \in Nat /\ Silence[lost + 1] \in Nat
      BY <3>2, SilenceGrows
    <3>4. Explained(e)'
      <4>1. busy \in Nat /\ Other(e) \in End /\ \A g \in End : sentAge[g] \in 0 .. Hello
        BY Quantities, Ends
      <4>2. sentAge[Other(e)] \in 0 .. Hello /\ Hello \in Nat
        BY <4>1, TimerAssumption
      <4>3. 0 <= Silence[lost + Waiting(e)'] + busy + sentAge[Other(e)]
        BY <3>3, <4>1, <4>2
      <4> QED
        BY <1>2, <3>1, <4>3 DEF Explained
    <3>5. Expected(e)'
      <4>1. busy \in Nat /\ late[e] \in Nat
        <5>1. busy \in Nat /\ late[e] \in 0 .. MaxDelay
          BY Quantities
        <5> QED
          BY <5>1
      <4>2. 0 <= Silence[lost + 1] + busy + late[e]
        BY <3>3, <4>1
      <4> QED
        BY <1>2, <1>3, <3>1, <4>2 DEF Expected
    <3> QED
      BY <2>5, <3>1, <3>4, <3>5
  <2> QED
    BY <2>3, <2>4, <2>5
<1> QED
  BY <1>6, <1>7, <1>8, <1>9 DEF AInv

(* A JoinAck goes and a StartHello comes: no sign of life does either.     *)
LEMMA ReceiveJoinAckKeepsAInv ==
  ASSUME IInv, AInv, NEW e \in End, ReceiveJoinAck(e)
  PROVE  AInv'
<1> DEFINE o == Other(e)
<1>1. /\ chan[e] # <<>> /\ Head(chan[e]) = "JoinAck" /\ e = "lower"
      /\ chan' = Sent(e, "StartHello", Rest(e))
      /\ late' = [late EXCEPT ![e] = IF Tail(chan[e]) = <<>> THEN 0 ELSE @]
      /\ UNCHANGED <<start, up, fail, count, heard, rcvAge, sentAge, alive, lost, flaps, busy>>
  <2>1. Hears(e, "JoinAck")
    BY DEF ReceiveJoinAck
  <2> QED
    BY <2>1, HearsKeeps DEF ReceiveJoinAck, Hears, port, faults
<1>2. o \in End /\ o # e /\ Other(o) = e /\ \A f \in End : f = e \/ f = o
  BY DEF End, Other
<1>3. /\ Rest(e) \in [End -> Seq(Frame)] /\ Placed(Rest(e))
      /\ Rest(e)[e] = Tail(chan[e]) /\ Rest(e)[o] = chan[o]
      /\ \A f \in End : \A i \in 1 .. Len(Rest(e)[f]) :
           \E j \in 1 .. Len(chan[f]) : chan[f][j] = Rest(e)[f][i]
  BY <1>1, <1>2, RestKeeps
<1>4. "StartHello" \in Frame /\ "StartHello" \notin Sign /\ "JoinAck" \notin Sign
  BY DEF Frame, Sign
<1>5. /\ chan'[e] = Tail(chan[e])
      /\ chan'[o] = chan[o] \/ chan'[o] = Append(chan[o], "StartHello")
      /\ \A f \in End : \A i \in 1 .. Len(chan'[f]) :
           \/ chan'[f][i] = "StartHello"
           \/ \E j \in 1 .. Len(Rest(e)[f]) : Rest(e)[f][j] = chan'[f][i]
  <2>1. /\ Sent(e, "StartHello", Rest(e))[e] = Rest(e)[e]
        /\ Sent(e, "StartHello", Rest(e))[o] =
             IF alive[e] /\ alive[o] THEN Append(Rest(e)[o], "StartHello") ELSE Rest(e)[o]
        /\ \A f \in End : \A i \in 1 .. Len(Sent(e, "StartHello", Rest(e))[f]) :
             \/ f = o /\ Sent(e, "StartHello", Rest(e))[f][i] = "StartHello"
             \/ \E j \in 1 .. Len(Rest(e)[f]) :
                  Rest(e)[f][j] = Sent(e, "StartHello", Rest(e))[f][i]
    BY <1>1, <1>3, <1>4, SentKeeps
  <2> HIDE DEF o
  <2> QED
    BY <1>1, <1>3, <2>1
<1>6. chan[e] \in Seq(Frame) /\ chan[o] \in Seq(Frame)
  BY <1>2, Quantities
<1>7. Waiting(e)' = Waiting(e) /\ Waiting(o)' = Waiting(o)
  <2>1. Cardinality(SignsIn(Tail(chan[e]))) = Cardinality(SignsIn(chan[e]))
    BY <1>1, <1>4, <1>6, SignsOfTail
  <2>2. Cardinality(SignsIn(Append(chan[o], "StartHello"))) = Cardinality(SignsIn(chan[o]))
    BY <1>4, <1>6, SignsOfAppend
  <2>3. Waiting(e)' = Cardinality(SignsIn(chan'[e])) /\ Waiting(o)' = Cardinality(SignsIn(chan'[o]))
    BY DEF Waiting
  <2> QED
    BY <1>5, <2>1, <2>2, <2>3 DEF Waiting
<1>8. /\ late'[e] = (IF chan'[e] = <<>> THEN 0 ELSE late[e]) /\ late'[o] = late[o]
      /\ chan'[o] = <<>> => chan[o] = <<>>
  <2>1. Append(chan[o], "StartHello") # <<>>
    BY <1>4, <1>6, AppendProperties
  <2> QED
    BY <1>1, <1>2, <1>5, <2>1 DEF IInv, TypeOK
<1> HIDE DEF o
<1>9. AliveTillFlap' /\ UpIsStarted'
  BY <1>1 DEF AInv, AliveTillFlap, UpIsStarted
<1>10. EmptyIsNotLate'
  BY <1>2, <1>8 DEF AInv, EmptyIsNotLate
<1>11. HeardIsStarted'
  <2>1. ASSUME NEW f \in End, NEW i \in 1 .. Len(chan'[f]), chan'[f][i] \in Sign
        PROVE  \E j \in 1 .. Len(chan[f]) : chan[f][j] \in Sign
    <3>1. PICK j \in 1 .. Len(Rest(e)[f]) : Rest(e)[f][j] = chan'[f][i]
      BY <1>4, <1>5, <2>1
    <3> QED
      BY <1>3, <2>1, <3>1
  <2> QED
    BY <1>1, <2>1 DEF AInv, HeardIsStarted
<1>12. Timely'
  <2> SUFFICES ASSUME Room', NEW f \in End
               PROVE  fail'[f] = "NONE" /\ (heard'[f] => (Explained(f) /\ Expected(f))')
    BY DEF Timely
  <2>1. fail[f] = "NONE" /\ (heard[f] => Explained(f) /\ Expected(f))
    BY <1>1 DEF Room, AInv, Timely
  <2>2. Explained(f) => Explained(f)'
    BY <1>1, <1>2, <1>7 DEF Explained
  <2>3. Expected(f) /\ Explained(f) => Expected(f)'
    <3>1. CASE f = e
      BY <1>1, <1>5, <1>8, <3>1 DEF Expected
    <3>2. CASE f = o /\ chan[o] # <<>>
      BY <1>1, <1>8, <3>2 DEF Expected
    <3>3. CASE f = o /\ chan[o] = <<>>
      BY <1>1, <1>2, <1>8, <3>3, FirstIsExpected DEF Expected
    <3> QED
      BY <1>2, <3>1, <3>2, <3>3
  <2> QED
    BY <1>1, <2>1, <2>2, <2>3
<1> QED
  BY <1>9, <1>10, <1>11, <1>12 DEF AInv

LEMMA LoseKeepsAInv ==
  ASSUME IInv, AInv, NEW e \in End, Lose(e)
  PROVE  AInv'
<1>1. /\ lost' = lost + 1 /\ chan[e] # <<>>
      /\ chan' = Rest(e)
      /\ late' = [late EXCEPT ![e] = IF Tail(chan[e]) = <<>> THEN 0 ELSE @]
      /\ UNCHANGED <<start, up, fail, count, heard, rcvAge, sentAge, alive, flaps, busy>>
  BY DEF Lose, Rest, port
<1>2. /\ Waiting(e) \in Nat /\ Waiting(e)' \in Nat
      /\ Waiting(e)' = IF Head(chan[e]) \in Sign THEN Waiting(e) - 1 ELSE Waiting(e)
      /\ \A f \in End : f # e => Waiting(f)' = Waiting(f)
      /\ chan'[e] # <<>> => late'[e] = late[e]
      /\ \A f \in End : f # e => chan'[f] = chan[f] /\ late'[f] = late[f]
      /\ \A f \in End : chan'[f] = <<>> => late'[f] = 0
      /\ \A f \in End : \A i \in 1 .. Len(chan'[f]) :
           \E j \in 1 .. Len(chan[f]) : chan[f][j] = chan'[f][i]
  BY <1>1, WireShortened
<1>3. AliveTillFlap' /\ EmptyIsNotLate' /\ UpIsStarted'
  BY <1>1, <1>2 DEF AInv, AliveTillFlap, EmptyIsNotLate, UpIsStarted
<1>4. HeardIsStarted'
  BY <1>1, <1>2 DEF AInv, HeardIsStarted
<1>5. Timely'
  <2> SUFFICES ASSUME Room', NEW f \in End
               PROVE  fail'[f] = "NONE" /\ (heard'[f] => (Explained(f) /\ Expected(f))')
    BY DEF Timely
  <2>1. /\ lost \in Nat /\ Hello \in Nat /\ busy \in Nat /\ MaxDelay \in Nat /\ Dead \in Nat
        /\ \A g \in End : /\ rcvAge[g] \in Nat /\ sentAge[g] \in Nat /\ late[g] \in Nat
                          /\ Waiting(g) \in Nat
    BY Quantities
  <2>2. /\ Silence[(lost + 1) + 1] = Silence[lost + 1] + Hello
        /\ Silence[lost + 1] \in Nat
        /\ \A g \in End : /\ Silence[lost + Waiting(g)] \in Nat
                          /\ Silence[(lost + 1) + Waiting(g)] = Silence[lost + Waiting(g)] + Hello
    <3>1. lost + 1 \in Nat
      BY <2>1
    <3>2. \A g \in End : /\ lost + Waiting(g) \in Nat
                        /\ (lost + 1) + Waiting(g) = (lost + Waiting(g)) + 1
      BY <2>1
    <3> QED
      BY <3>1, <3>2, SilenceGrows
  <2>3. Room
    BY <1>1, <2>1, <2>2 DEF Room
  <2>4. fail[f] = "NONE" /\ (heard[f] => Explained(f) /\ Expected(f))
    BY <2>3 DEF AInv, Timely
  <2>5. CASE f = e
    <3>1. \/ (lost + 1) + Waiting(e)' = lost + Waiting(e)
          \/ Waiting(e)' = Waiting(e)
      BY <1>1, <1>2, <2>1
    <3>2. Explained(e) => Explained(e)'
      <4>1. rcvAge[e] <= Silence[lost + Waiting(e)] + busy + sentAge[Other(e)] =>
              rcvAge[e] <= Silence[(lost + 1) + Waiting(e)] + busy + sentAge[Other(e)]
        BY <2>1, <2>2, Ends
      <4>2. CASE (lost + 1) + Waiting(e)' = lost + Waiting(e)
        BY <1>1, <4>2 DEF Explained
      <4>3. CASE Waiting(e)' = Waiting(e)
        BY <1>1, <4>1, <4>3 DEF Explained
      <4> QED
        BY <3>1, <4>2, <4>3
    <3>3. Expected(e) => Expected(e)'
      <4>1. rcvAge[e] <= Silence[lost + 1] + busy + late[e] =>
              rcvAge[e] <= Silence[(lost + 1) + 1] + busy + late[e]
        BY <2>1, <2>2
      <4> QED
        BY <1>1, <1>2, <4>1 DEF Expected
    <3> QED
      BY <1>1, <2>4, <2>5, <3>2, <3>3
  <2>6. CASE f # e
    <3>1. /\ chan'[f] = chan[f] /\ late'[f] = late[f] /\ Other(f) \in End
          /\ Waiting(f)' = Waiting(f)
      BY <1>2, <2>6, Ends
    <3>2. Explained(f) => Explained(f)'
      <4>1. rcvAge[f] <= Silence[lost + Waiting(f)] + busy + sentAge[Other(f)] =>
              rcvAge[f] <= Silence[(lost + 1) + Waiting(f)] + busy + sentAge[Other(f)]
        BY <2>1, <2>2, <3>1
      <4> QED
        BY <1>1, <3>1, <4>1 DEF Explained
    <3>3. Expected(f) => Expected(f)'
      <4>1. rcvAge[f] <= Silence[lost + 1] + busy + late[f] =>
              rcvAge[f] <= Silence[(lost + 1) + 1] + busy + late[f]
        BY <2>1, <2>2
      <4> QED
        BY <1>1, <3>1, <4>1 DEF Expected
    <3> QED
      BY <1>1, <2>4, <3>2, <3>3
  <2> QED
    BY <2>5, <2>6
<1> QED
  BY <1>3, <1>4, <1>5 DEF AInv

(* A sign of life that is sent joins those on the way, and the time since  *)
(* the peer last sent, a hello timer at the most, turns into it.  What is  *)
(* no sign leaves all that as it is.                                       *)
LEMMA SendKeepsAInv ==
  ASSUME IInv, AInv, NEW e \in End, NEW frame \in {"JoinAck", "KeepAlive", "Data"},
         Send(e, frame), frame = "JoinAck" => e = "upper",
         frame \in Sign => start[e] /\ sentAge' = [sentAge EXCEPT ![e] = 0],
         frame \notin Sign => sentAge' = sentAge,
         fail' \in [End -> {"NONE", "DETECT", "MISS"}],
         \A f \in End : fail'[f] \in {fail[f], "NONE"},
         UNCHANGED <<start, up, count, heard, rcvAge, alive, lost, flaps, busy>>
  PROVE  AInv'
<1> DEFINE o == Other(e)
<1>1. o \in End /\ o # e /\ Other(o) = e /\ \A f \in End : f = e \/ f = o
  BY DEF End, Other
<1>2. /\ late' = late /\ chan'[e] = chan[e] /\ Waiting(e)' = Waiting(e)
      /\ \A i \in 1 .. Len(chan'[o]) :
           \/ chan'[o][i] = frame
           \/ \E j \in 1 .. Len(chan[o]) : chan[o][j] = chan'[o][i]
      /\ frame \notin Sign => Waiting(o)' = Waiting(o)
      /\ frame \in Sign /\ alive[e] /\ alive[o] => Waiting(o)' = Waiting(o) + 1
      /\ chan'[o] = chan[o] \/ chan'[o] # <<>>
  BY WireExtended
<1> HIDE DEF o
<1>3. AliveTillFlap' /\ EmptyIsNotLate' /\ UpIsStarted'
  BY <1>1, <1>2 DEF AInv, AliveTillFlap, EmptyIsNotLate, UpIsStarted
<1>4. HeardIsStarted'
  <2>1. (\E i \in 1 .. Len(chan'[o]) : chan'[o][i] \in Sign) => start[e]
    BY <1>1, <1>2 DEF AInv, HeardIsStarted
  <2>2. Other(e) = o
    BY DEF o
  <2>3. ASSUME NEW f \in End,
               heard'[f] \/ \E i \in 1 .. Len(chan'[f]) : chan'[f][i] \in Sign
        PROVE  start[Other(f)]
    BY <1>1, <1>2, <2>1, <2>2, <2>3 DEF AInv, HeardIsStarted
  <2> QED
    BY <2>3 DEF HeardIsStarted
<1>5. Timely'
  <2> SUFFICES ASSUME Room', NEW f \in End
               PROVE  fail'[f] = "NONE" /\ (heard'[f] => (Explained(f) /\ Expected(f))')
    BY DEF Timely
  <2>1. Room
    BY DEF Room
  <2>2. fail[f] = "NONE" /\ (heard[f] => Explained(f) /\ Expected(f)) /\ alive[e] /\ alive[o]
    BY <1>1, <2>1 DEF AInv, Timely, AliveTillFlap, Room
  <2>3. fail'[f] = "NONE"
    BY <2>2
  <2>4. /\ lost \in Nat /\ busy \in Nat /\ Hello \in Nat
        /\ \A g \in End : /\ rcvAge[g] \in Nat /\ sentAge[g] \in 0 .. Hello /\ late[g] \in Nat
                          /\ Waiting(g) \in Nat
    BY Quantities
  <2>5. /\ frame \in Sign => sentAge'[e] = 0
        /\ frame \notin Sign => sentAge'[e] = sentAge[e]
        /\ sentAge'[o] = sentAge[o]
    BY <1>1 DEF IInv, TypeOK
  <2>6. CASE f = e
    <3>1. Explained(e) => Explained(e)'
      BY <1>1, <1>2, <2>5 DEF Explained, o
    <3>2. Expected(e) => Expected(e)'
      BY <1>1, <1>2, <2>5 DEF Expected
    <3> QED
      BY <2>2, <2>3, <2>6, <3>1, <3>2
  <2>7. CASE f = o
    <3>1. Explained(o) => Explained(o)'
      <4>1. CASE frame \in Sign
        <5>1. Waiting(o)' = Waiting(o) + 1 /\ lost + Waiting(o) \in Nat
              /\ lost + (Waiting(o) + 1) = (lost + Waiting(o)) + 1
          BY <1>1, <1>2, <2>2, <2>4, <4>1
        <5>2. Silence[lost + Waiting(o)'] = Silence[lost + Waiting(o)] + Hello
              /\ Silence[lost + Waiting(o)] \in Nat
          BY <5>1, SilenceGrows
        <5> QED
          BY <1>1, <2>4, <2>5, <4>1, <5>2 DEF Explained
      <4>2. CASE frame \notin Sign
        BY <1>1, <1>2, <2>5, <4>2 DEF Explained
      <4> QED
        BY <4>1, <4>2
    <3>2. ASSUME Explained(o), Expected(o)
          PROVE  Expected(o)'
      <4>1. CASE chan[o] = <<>>
        BY <1>1, <1>2, <3>2, <4>1, FirstIsExpected DEF Expected
      <4>2. CASE chan[o] # <<>>
        BY <1>2, <3>2, <4>2 DEF Expected
      <4> QED
        BY <4>1, <4>2
    <3> QED
      BY <2>2, <2>3, <2>7, <3>1, <3>2
  <2> QED
    BY <1>1, <2>6, <2>7
<1> QED
  BY <1>3, <1>4, <1>5 DEF AInv

(* Neither end runs into its dead timer while there is room.               *)
LEMMA NoMissInRoom ==
  ASSUME IInv, AInv, Room, NEW e \in End
  PROVE  ~Misses(e) /\ ~InterfaceFails(e) /\ FailAfterBack(e) = "NONE" /\ fail[e] = "NONE"
<1>1. fail[e] = "NONE" /\ alive[e] /\ (heard[e] => Explained(e) /\ Expected(e))
  BY DEF AInv, Timely, AliveTillFlap, Room
<1>2. /\ lost \in Nat /\ busy \in Nat /\ Hello \in Nat /\ Dead \in Nat /\ MaxDelay \in Nat
      /\ rcvAge[e] \in Nat /\ sentAge[Other(e)] \in 0 .. Hello /\ late[e] \in 0 .. MaxDelay
      /\ chan[e] \in Seq(Frame)
  BY Ends, TimerAssumption, BoundAssumption DEF IInv, TypeOK, Frame
<1>3. Silence[lost + 1] = Silence[lost] + Hello /\ Silence[lost] \in Nat
  BY <1>2, SilenceGrows
<1>4. heard[e] => rcvAge[e] < Dead
  <2>1. CASE chan[e] = <<>>
    <3>1. heard[e] => rcvAge[e] <= Silence[lost + 1] + busy + late[e]
      BY <1>1, <2>1, FirstIsExpected
    <3>2. Silence[lost + 1] + MaxDelay + busy < Dead
      BY DEF Room
    <3> QED
      BY <1>2, <1>3, <3>1, <3>2
  <2>2. CASE chan[e] # <<>>
    <3>1. heard[e] => rcvAge[e] <= Silence[lost + 1] + busy + late[e]
      BY <1>1, <2>2 DEF Expected
    <3>2. Silence[lost + 1] + MaxDelay + busy < Dead
      BY DEF Room
    <3> QED
      BY <1>2, <1>3, <3>1, <3>2
  <2> QED
    BY <2>1, <2>2
<1>5. ~Misses(e)
  <2>1. Dead \in Nat /\ rcvAge[e] \in Nat
    BY <1>2
  <2> QED
    BY <1>4, <2>1 DEF Misses
<1> QED
  BY <1>1, <1>5 DEF InterfaceFails, FailAfterBack

LEMMA CheckKeepsAInv ==
  ASSUME IInv, AInv, NEW e \in End, Check(e)
  PROVE  AInv'
<1>1. UNCHANGED <<alive, lost, flaps, busy>>
  BY DEF Check, faults
<1>2. FailAfterBack(e) \in {fail[e], "NONE"}
  BY DEF FailAfterBack
<1>3. ASSUME NEW why \in {"DETECT", "MISS"}, ShutDown(e, why),
             InterfaceFails(e) \/ Misses(e)
      PROVE  AInv'
  <2>1. /\ up' = [up EXCEPT ![e] = FALSE] /\ count' = [count EXCEPT ![e] = 0]
        /\ UNCHANGED <<start, heard, rcvAge, sentAge, chan, late>> /\ start[e]
    BY <1>3 DEF ShutDown, wire, InterfaceFails, Misses
  <2>2. ~Room
    BY <1>3, NoMissInRoom
  <2>3. ~Room'
    BY <1>1, <2>2 DEF Room
  <2>4. UpIsStarted'
    BY <2>1 DEF AInv, UpIsStarted, IInv, TypeOK
  <2>5. AliveTillFlap' /\ HeardIsStarted' /\ EmptyIsNotLate'
    BY <1>1, <2>1 DEF AInv, AliveTillFlap, HeardIsStarted, EmptyIsNotLate
  <2> QED
    BY <2>3, <2>4, <2>5 DEF AInv, Timely
<1>4. CASE DetectFail(e)
  BY <1>3, <1>4 DEF DetectFail
<1>5. CASE MissFail(e)
  BY <1>3, <1>5 DEF MissFail
<1>6. CASE SendKeepAlive(e)
  <2>1. /\ fail' \in [End -> {"NONE", "DETECT", "MISS"}]
        /\ \A f \in End : fail'[f] \in {fail[f], "NONE"}
    BY <1>2, <1>6 DEF SendKeepAlive, IInv, TypeOK
  <2>2. /\ Send(e, "KeepAlive") /\ start[e] /\ sentAge' = [sentAge EXCEPT ![e] = 0]
        /\ UNCHANGED <<start, up, count, heard, rcvAge>>
    BY <1>6 DEF SendKeepAlive, SendDue
  <2>3. "KeepAlive" \in Sign
    BY DEF Sign
  <2> QED
    BY <1>1, <2>1, <2>2, <2>3, SendKeepsAInv
<1>7. CASE SendNothing(e)
  <2>1. UNCHANGED <<start, up, count, heard, rcvAge, sentAge, chan, late>>
    BY <1>7 DEF SendNothing, wire
  <2>2. \A f \in End : fail'[f] \in {fail[f], "NONE"}
    BY <1>2, <1>7 DEF SendNothing, IInv, TypeOK
  <2>3. AliveTillFlap' /\ UpIsStarted' /\ HeardIsStarted' /\ EmptyIsNotLate'
    BY <1>1, <2>1 DEF AInv, AliveTillFlap, UpIsStarted, HeardIsStarted, EmptyIsNotLate
  <2>4. Timely'
    BY <1>1, <2>1, <2>2 DEF AInv, Timely, Room, Explained, Expected, Waiting
  <2> QED
    BY <2>3, <2>4 DEF AInv
<1> QED
  BY <1>4, <1>5, <1>6, <1>7 DEF Check

LEMMA SendDataKeepsAInv ==
  ASSUME IInv, AInv, NEW e \in End, SendData(e)
  PROVE  AInv'
<1>1. /\ Send(e, "Data") /\ up[e] /\ sentAge' = [sentAge EXCEPT ![e] = 0]
      /\ UNCHANGED <<start, up, fail, count, heard, rcvAge, alive, lost, flaps, busy>>
  BY DEF SendData, port, faults
<1>2. start[e]
  BY <1>1 DEF AInv, UpIsStarted
<1>3. fail' \in [End -> {"NONE", "DETECT", "MISS"}]
      /\ \A f \in End : fail'[f] \in {fail[f], "NONE"}
  BY <1>1 DEF IInv, TypeOK
<1> QED
  BY <1>1, <1>2, <1>3, SendKeepsAInv DEF Sign

LEMMA ReceiveJoinResKeepsAInv ==
  ASSUME IInv, AInv, NEW e \in End, ReceiveJoinRes(e)
  PROVE  AInv'
<1>1. /\ Send(e, "JoinAck") /\ e = "upper" /\ "JoinAck" \notin Sign
      /\ UNCHANGED <<start, up, fail, count, heard, rcvAge, sentAge, alive, lost, flaps, busy>>
  BY DEF ReceiveJoinRes, port, faults, Sign
<1>2. fail' \in [End -> {"NONE", "DETECT", "MISS"}]
      /\ \A f \in End : fail'[f] \in {fail[f], "NONE"}
  BY <1>1 DEF IInv, TypeOK
<1> QED
  BY <1>1, <1>2, SendKeepsAInv

LEMMA InterfaceKeepsAInv ==
  ASSUME IInv, AInv, NEW e \in End, InterfaceDown(e) \/ InterfaceUp(e)
  PROVE  AInv'
<1>1. UNCHANGED <<start, up, fail, count, heard, rcvAge, sentAge, chan, late, lost, busy>>
  BY DEF InterfaceDown, InterfaceUp, port, wire, faults
<1>2. AliveTillFlap' /\ (Room' => Room)
  <2>1. CASE InterfaceDown(e)
    <3>1. flaps \in Nat /\ flaps' = flaps + 1
      BY <2>1, BoundAssumption DEF InterfaceDown, IInv, TypeOK
    <3> QED
      BY <3>1 DEF AliveTillFlap, Room
  <2>2. CASE InterfaceUp(e)
    BY <2>2 DEF InterfaceUp, faults, AInv, AliveTillFlap, Room, IInv, TypeOK
  <2> QED
    BY <2>1, <2>2
<1>3. UpIsStarted' /\ HeardIsStarted' /\ EmptyIsNotLate'
  BY <1>1 DEF AInv, UpIsStarted, HeardIsStarted, EmptyIsNotLate
<1>4. Timely'
  BY <1>1, <1>2 DEF AInv, Timely, Explained, Expected, Waiting
<1> QED
  BY <1>2, <1>3, <1>4 DEF AInv

(* While no check is due, an end that is open has sent within the hello    *)
(* timer, so that the time since then grows with the age of its peer.      *)
LEMMA TickKeepsAInv ==
  ASSUME IInv, AInv, Tick
  PROVE  AInv'
<1>1. /\ \/ (\A e \in End : ~CheckDue(e)) /\ busy' = busy
         \/ busy' = busy + 1
      /\ rcvAge' = [e \in End |-> Smaller(rcvAge[e] + 1, Dead)]
      /\ sentAge' = [e \in End |-> Smaller(sentAge[e] + 1, Hello)]
      /\ late' = [e \in End |-> IF chan[e] = <<>> THEN 0 ELSE late[e] + 1]
      /\ UNCHANGED <<start, up, fail, count, heard, alive, chan, lost, flaps>>
  BY DEF Tick
<1>2. AliveTillFlap' /\ UpIsStarted' /\ HeardIsStarted' /\ EmptyIsNotLate'
  BY <1>1 DEF AInv, AliveTillFlap, UpIsStarted, HeardIsStarted, EmptyIsNotLate
<1>3. Timely'
  <2> SUFFICES ASSUME Room', NEW e \in End
               PROVE  fail'[e] = "NONE" /\ (heard'[e] => (Explained(e) /\ Expected(e))')
    BY DEF Timely
  <2> DEFINE o == Other(e)
  <2>1. /\ lost \in Nat /\ busy \in Nat /\ Hello \in Nat /\ Dead \in Nat /\ MaxDelay \in Nat
        /\ rcvAge[e] \in Nat /\ late[e] \in Nat /\ o \in End /\ sentAge[o] \in 0 .. Hello
        /\ Silence[lost + 1] \in Nat /\ Silence[lost + Waiting(e)] \in Nat
    <3>1. /\ lost \in Nat /\ busy \in Nat /\ Hello \in Nat /\ Dead \in Nat /\ MaxDelay \in Nat
          /\ rcvAge[e] \in 0 .. Dead /\ late[e] \in 0 .. MaxDelay
          /\ \A g \in End : sentAge[g] \in 0 .. Hello
          /\ Silence[lost + Waiting(e)] \in Nat
      BY Quantities
    <3>2. o \in End /\ Silence[lost + 1] \in Nat
      BY <3>1, SilenceGrows, Ends
    <3> QED
      BY <3>1, <3>2
  <2>2. Waiting(e)' = Waiting(e)
    BY <1>1 DEF Waiting
  <2>3. Room
    <3>1. busy' = busy \/ busy' = busy + 1
      BY <1>1
    <3> QED
      BY <1>1, <2>1, <3>1 DEF Room
  <2>4. fail[e] = "NONE" /\ (heard[e] => Explained(e) /\ Expected(e))
    BY <2>3 DEF AInv, Timely
  <2>6. ASSUME heard[e]
        PROVE  \/ busy' = busy /\ sentAge'[o] = sentAge[o] + 1
               \/ busy' = busy + 1
    <3>1. CASE \A f \in End : ~CheckDue(f)
      <4>1. start[o] /\ alive[o]
        BY <2>1, <2>3, <2>6 DEF AInv, HeardIsStarted, AliveTillFlap, Room
      <4>2. ~SendDue(o) /\ ~Misses(o) /\ FailAfterBack(o) = "NONE"
        BY <2>1, <2>3, <3>1, NoMissInRoom DEF CheckDue
      <4>3. ~(sentAge[o] >= Hello)
        BY <4>1, <4>2 DEF SendDue
      <4>4. sentAge'[o] = sentAge[o] + 1
        BY <1>1, <2>1, <4>3 DEF Smaller
      <4> QED
        BY <1>1, <4>4
    <3>2. CASE busy' = busy + 1
      BY <3>2
    <3> QED
      BY <1>1, <3>1, <3>2
  <2>7. /\ rcvAge'[e] = Smaller(rcvAge[e] + 1, Dead)
        /\ Smaller(rcvAge[e] + 1, Dead) \in Nat
        /\ Smaller(rcvAge[e] + 1, Dead) <= rcvAge[e] + 1
    BY <1>1, <2>1 DEF Smaller
  <2> HIDE DEF o
  <2>8. ASSUME heard[e]
        PROVE  Explained(e)'
    <3>1. rcvAge[e] <= Silence[lost + Waiting(e)] + busy + sentAge[o]
      BY <2>4, <2>8 DEF Explained, o
    <3>2. CASE busy' = busy /\ sentAge'[o] = sentAge[o] + 1
      <4>1. Smaller(rcvAge[e] + 1, Dead) <= Silence[lost + Waiting(e)] + busy + (sentAge[o] + 1)
        BY <2>1, <2>7, <3>1
      <4> QED
        BY <1>1, <2>2, <2>7, <3>2, <4>1 DEF Explained, o
    <3>3. CASE busy' = busy + 1
      <4>1. Smaller(rcvAge[e] + 1, Dead) <=
              Silence[lost + Waiting(e)] + (busy + 1) + Smaller(sentAge[o] + 1, Hello)
        <5>1. Smaller(sentAge[o] + 1, Hello) \in Nat /\ Smaller(sentAge[o] + 1, Hello) >= sentAge[o]
          BY <2>1 DEF Smaller
        <5> QED
          BY <2>1, <2>7, <3>1, <5>1
      <4>2. sentAge'[o] = Smaller(sentAge[o] + 1, Hello)
        BY <1>1, <2>1
      <4> QED
        BY <1>1, <2>2, <2>7, <3>3, <4>1, <4>2 DEF Explained, o
    <3> QED
      BY <2>6, <2>8, <3>2, <3>3
  <2>9. ASSUME heard[e]
        PROVE  Expected(e)'
    <3> SUFFICES ASSUME chan[e] # <<>>
                 PROVE  rcvAge'[e] <= Silence[lost + 1] + busy' + late'[e]
      BY <1>1 DEF Expected
    <3>1. rcvAge[e] <= Silence[lost + 1] + busy + late[e] /\ late'[e] = late[e] + 1
      BY <1>1, <2>4, <2>9 DEF Expected
    <3>2. /\ Smaller(rcvAge[e] + 1, Dead) <= Silence[lost + 1] + busy + (late[e] + 1)
          /\ Smaller(rcvAge[e] + 1, Dead) <= Silence[lost + 1] + (busy + 1) + (late[e] + 1)
      <4>1. rcvAge[e] + 1 <= Silence[lost + 1] + busy + (late[e] + 1)
        BY <2>1, <3>1
      <4>2. Smaller(rcvAge[e] + 1, Dead) <= Silence[lost + 1] + busy + (late[e] + 1)
        BY <2>1, <2>7, <4>1
      <4> QED
        BY <2>1, <2>7, <4>2
    <3> QED
      BY <1>1, <2>7, <3>1, <3>2
  <2> QED
    BY <1>1, <2>4, <2>8, <2>9
<1> QED
  BY <1>2, <1>3 DEF AInv

(* A working cable is never given up, whatever the timers, the delay and   *)
(* the number of losses: as long as hello timers for the keep-alives that  *)
(* were lost and one more, the delay, and the time that eth0 took fit in   *)
(* the dead timer, the port check (main) finds no missed keep-alive.       *)
THEOREM NobodyMissesAWorkingCable == Spec => []NoFalseAlarm
<1>1. Init => AInv
  BY InitAInv
<1>2. IInv /\ AInv /\ [Next]_vars => AInv'
  <2> SUFFICES ASSUME IInv, AInv, [Next]_vars PROVE AInv'
    OBVIOUS
  <2>1. CASE Tick
    BY <2>1, TickKeepsAInv
  <2>2. ASSUME NEW e \in End, Receive(e) \/ ReceiveJoinRes(e) PROVE AInv'
    BY <2>2, ReceiveKeepsAInv, ReceiveJoinAckKeepsAInv, ReceiveJoinResKeepsAInv
  <2>3. ASSUME NEW e \in End, Check(e) PROVE AInv'
    BY <2>3, CheckKeepsAInv
  <2>4. ASSUME NEW e \in End, SendData(e) PROVE AInv'
    BY <2>4, SendDataKeepsAInv
  <2>5. ASSUME NEW e \in End, Lose(e) PROVE AInv'
    BY <2>5, LoseKeepsAInv
  <2>6. ASSUME NEW e \in End, InterfaceDown(e) \/ InterfaceUp(e) PROVE AInv'
    BY <2>6, InterfaceKeepsAInv
  <2>7. CASE UNCHANGED vars
    BY <2>7 DEF vars, port, wire, faults, AInv, AliveTillFlap, UpIsStarted, HeardIsStarted,
                EmptyIsNotLate, Timely, Room, Explained, Expected, Waiting
  <2> QED
    BY <2>1, <2>2, <2>3, <2>4, <2>5, <2>6, <2>7 DEF Next
<1>3. IInv /\ AInv => NoFalseAlarm
  <2> SUFFICES ASSUME IInv, AInv, flaps = 0, Hello * (lost + 1) + MaxDelay + busy < Dead
               PROVE  \A e \in End : fail[e] # "MISS"
    BY DEF NoFalseAlarm
  <2>1. Silence[lost + 1] = Hello * (lost + 1)
    <3>1. lost + 1 \in Nat
      BY Quantities
    <3> QED
      BY <3>1 DEF Silence
  <2> QED
    BY <2>1 DEF AInv, Timely, Room
<1> QED
  BY <1>1, <1>2, <1>3, Invariance, PTL DEF Spec
=============================================================================
