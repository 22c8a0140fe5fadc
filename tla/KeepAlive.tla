----------------------------- MODULE KeepAlive -----------------------------
(***************************************************************************)
(* The keep-alives on one cable: how each end of it (a control port of one *)
(* switch) tells that the other is gone, and when it trusts it again.      *)
(*                                                                         *)
(* The model starts when the lower end has handled the first JoinAck: it   *)
(* is open and its StartHello is on the way to the upper end.  Each switch *)
(* runs its loop (main): it takes at most one frame, then checks its port. *)
(*                                                                         *)
(* The handshake of the cable is repeated for each further VID of the      *)
(* lower switch, and by a lower switch that was restarted.  Its last two   *)
(* frames, the JoinAck down and the StartHello up, come at any time, among *)
(* the keep-alives: to the upper end, a StartHello opens its port anew.    *)
(*                                                                         *)
(* Time is counted in ticks.  Ages stand for now - last_received_time and  *)
(* now - last_sent_time and stop growing where the code stops telling them *)
(* apart.  The loop is much faster than a tick: time passes only when no   *)
(* check has anything left to do and no frame has waited MaxDelay ticks,   *)
(* except that frames on eth0, the management interface, end a turn of the *)
(* loop before the check and may keep a switch from it for MaxBusy ticks.  *)
(***************************************************************************)
EXTENDS Integers, Sequences

CONSTANTS
  Hello,      \* HELLO_TIMER, in ticks
  Dead,       \* DEAD_TIMER, in ticks
  MaxDelay,   \* how many ticks a frame may wait to be received
  MaxLoss,    \* bound on the frames the cable loses
  MaxFlap,    \* bound on the times an interface goes down
  MaxBusy,    \* bound on the ticks that pass while eth0 holds up a check
  MaxJoins,   \* bound on the handshakes that follow the first
  Traffic     \* are data frames sent on the cable?

ASSUME TimerAssumption == Hello \in Nat \ {0} /\ Dead \in Nat /\ Hello < Dead
ASSUME BoundAssumption == 
  /\ MaxDelay \in Nat /\ MaxLoss \in Nat /\ MaxFlap \in Nat
  /\ MaxBusy \in Nat /\ MaxJoins \in Nat
ASSUME TrafficAssumption == Traffic \in BOOLEAN

End == {"lower", "upper"}
Other(e) == IF e = "lower" THEN "upper" ELSE "lower"

Threshold == 3   \* keep-alives that turn a port on again

VARIABLES
  start, up, fail, count,  \* fields of the control port of each end
  heard,                   \* last_received_time is not zero
  rcvAge, sentAge,         \* ticks since it received, and sent
  alive,                   \* the interface is IFF_UP
  phase,                   \* where the loop is: about to receive or to check
  chan,                    \* the frames on the way to each end
  late,                    \* ticks the frames on the way have waited
  talked,                  \* the end has sent data since the last tick
  onTime,                  \* history: how many keep-alives in a row came in time
                           \* to a port that is down
  lost, flaps,             \* how many frames were lost, interfaces went down
  busy,                    \* ticks that passed while a check was due
  joins                    \* how many handshakes have followed the first

port == <<start, up, fail, count, heard, rcvAge>>
wire == <<chan, late>>
faults == <<lost, flaps, busy>>
vars == <<port, sentAge, alive, phase, wire, talked, onTime, faults, joins>>

Frame == {"JoinAck", "StartHello", "KeepAlive", "Data"}

Smaller(a, b) == IF a < b THEN a ELSE b

-----------------------------------------------------------------------------

(* The lower end as handle_receive_join_ack leaves it, the upper as        *)
(* build_control_port made it.                                             *)
Init ==
  /\ start = [e \in End |-> e = "lower"]
  /\ up = [e \in End |-> e = "lower"]
  /\ fail = [e \in End |-> "NONE"]
  /\ count = [e \in End |-> Threshold]
  /\ heard = [e \in End |-> FALSE]
  /\ rcvAge = [e \in End |-> Dead]
  /\ sentAge = [e \in End |-> Hello]
  /\ alive = [e \in End |-> TRUE]
  /\ phase = [e \in End |-> "receive"]
  /\ chan = [e \in End |-> IF e = "upper" THEN <<"StartHello">> ELSE <<>>]
  /\ late = [e \in End |-> 0]
  /\ talked = [e \in End |-> FALSE]
  /\ onTime = [e \in End |-> 0]
  /\ lost = 0
  /\ flaps = 0
  /\ busy = 0
  /\ joins = 0

(* dataSend: the frame joins those on the way to the other end if both     *)
(* interfaces are up.                                                      *)
Sent(e, frame, frames) ==
  IF alive[e] /\ alive[Other(e)]
  THEN [frames EXCEPT ![Other(e)] = Append(@, frame)]
  ELSE frames

Send(e, frame) == chan' = Sent(e, frame, chan) /\ UNCHANGED late

(* One receive of the loop: it takes the next frame, and goes on to the    *)
(* check.  A leaf, which is a lower end, looks for IPv4 frames in between  *)
(* and goes back to the next receive if it finds one of eth0.              *)
Hears(e, frame) ==
  /\ phase[e] = "receive"
  /\ chan[e] # <<>>
  /\ Head(chan[e]) = frame
  /\ \/ phase' = [phase EXCEPT ![e] = "check"]
     \/ e = "lower" /\ MaxBusy > 0 /\ phase' = phase
  /\ late' = [late EXCEPT ![e] = IF Tail(chan[e]) = <<>> THEN 0 ELSE @]
  /\ UNCHANGED <<sentAge, alive, talked, faults, joins>>

Rest(e) == [chan EXCEPT ![e] = Tail(@)]

Take(e, frame) == Hears(e, frame) /\ chan' = Rest(e)

(* handle_receive_join_res on the upper end, for one more VID: whatever    *)
(* has become of the port, it answers.  The frames of the handshake before *)
(* that touch neither port.                                                *)
ReceiveJoinRes(e) ==
  /\ e = "upper" /\ joins < MaxJoins
  /\ phase[e] = "receive"
  /\ phase' = [phase EXCEPT ![e] = "check"]
  /\ joins' = joins + 1
  /\ Send(e, "JoinAck")
  /\ UNCHANGED <<port, sentAge, alive, talked, onTime, faults>>

(* Variant: the port is opened for every VID that is accepted.             *)
ReceiveJoinAck_Opens(e) ==
  /\ Hears(e, "JoinAck")
  /\ chan' = Sent(e, "StartHello", Rest(e))
  /\ up' = [up EXCEPT ![e] = TRUE]
  /\ UNCHANGED <<start, fail, count, heard, rcvAge, onTime>>

(* handle_receive_join_ack: the port has been opened by the first.         *)
ReceiveJoinAck(e) ==
  /\ Hears(e, "JoinAck")
  /\ chan' = Sent(e, "StartHello", Rest(e))
  /\ UNCHANGED <<port, onTime>>

(* handle_receive_start_hello: opens the port whatever its state, and      *)
(* leaves the failure that is on record.                                   *)
ReceiveStartHello(e) ==
  /\ Take(e, "StartHello")
  /\ start' = [start EXCEPT ![e] = TRUE]
  /\ up' = [up EXCEPT ![e] = TRUE]
  /\ onTime' = [onTime EXCEPT ![e] = 0]
  /\ UNCHANGED <<fail, count, heard, rcvAge>>

(* Variant: data are no sign of life.                                      *)
ReceiveData_NoSign(e) ==
  /\ Take(e, "Data")
  /\ UNCHANGED <<port, onTime>>

(* handle_receive_data_msg, as far as the port is concerned: data count as *)
(* a sign of life, but neither clear a failure nor help to recover.        *)
ReceiveData(e) ==
  /\ Take(e, "Data")
  /\ heard' = [heard EXCEPT ![e] = TRUE]
  /\ rcvAge' = [rcvAge EXCEPT ![e] = 0]
  /\ UNCHANGED <<start, up, fail, count, onTime>>

(* Variant: on time is taken to be within the hello timer.                 *)
IsOnTime_Hello(e) == rcvAge[e] < Hello

(* The last sign of life is not older than the dead timer.                 *)
IsOnTime(e) == rcvAge[e] < Dead

(* Variant: a port counts past the threshold.                              *)
Counts_Forever(e) == IsOnTime(e)

(* A port that is down counts the keep-alives that come in time.           *)
Counts(e) == ~up[e] /\ IsOnTime(e) /\ count[e] < Threshold

(* handle_receive_keep_alive.  A port whose interface failed ignores it; a *)
(* miss is forgiven by the first, and a port that is down is turned on by  *)
(* the third that counts.                                                  *)
ReceiveKeepAlive(e) ==
  /\ Take(e, "KeepAlive")
  /\ \/ /\ fail[e] = "DETECT"
        /\ UNCHANGED <<port, onTime>>
     \/ /\ fail[e] # "DETECT"
        /\ fail' = [fail EXCEPT ![e] = "NONE"]
        /\ count' = [count EXCEPT ![e] = IF Counts(e) THEN @ + 1 ELSE @]
        /\ up' = [up EXCEPT ![e] = @ \/ (Counts(e) /\ count[e] = Threshold - 1)]
        /\ heard' = [heard EXCEPT ![e] = TRUE]
        /\ rcvAge' = [rcvAge EXCEPT ![e] = 0]
        /\ onTime' = [onTime EXCEPT ![e] =
                        IF IsOnTime(e) /\ ~up'[e] THEN Smaller(@ + 1, Threshold) ELSE 0]
        /\ UNCHANGED start

Receive(e) ==
  \/ ReceiveJoinAck(e) \/ ReceiveStartHello(e)
  \/ ReceiveData(e) \/ ReceiveKeepAlive(e)

-----------------------------------------------------------------------------
(* The port check of the loop.  A port that is not open is passed over, a  *)
(* port that never received anything cannot fail, and one with a failure   *)
(* on record, in use or not, neither misses its peer nor sends.            *)

InterfaceFails(e) == start[e] /\ heard[e] /\ ~alive[e] /\ up[e]

(* "port come back": a failure of the interface is over.                   *)
FailAfterBack(e) ==
  IF start[e] /\ heard[e] /\ alive[e] /\ fail[e] = "DETECT"
  THEN "NONE"
  ELSE fail[e]

(* Variant: the dead timer is a tick short.                                *)
Misses_TickShort(e) ==
  /\ start[e] /\ heard[e] /\ up[e] /\ ~InterfaceFails(e)
  /\ FailAfterBack(e) = "NONE"
  /\ rcvAge[e] >= Dead - 1

Misses(e) ==
  /\ start[e] /\ heard[e] /\ up[e] /\ ~InterfaceFails(e)
  /\ FailAfterBack(e) = "NONE"
  /\ rcvAge[e] >= Dead

(* Variant: a port with a failure on record keeps sending.                 *)
SendDue_WhateverFailed(e) == start[e] /\ sentAge[e] >= Hello /\ alive[e] /\ ~Misses(e)

SendDue(e) ==
  /\ start[e] /\ sentAge[e] >= Hello /\ alive[e]
  /\ heard[e] => FailAfterBack(e) = "NONE" /\ ~Misses(e)

(* Variant: continue_count is not reset.                                   *)
ShutDown_CountKept(e, why) ==
  /\ up' = [up EXCEPT ![e] = FALSE]
  /\ fail' = [fail EXCEPT ![e] = why]
  /\ onTime' = [onTime EXCEPT ![e] = 0]
  /\ UNCHANGED <<start, count, heard, rcvAge, sentAge, wire>>

ShutDown(e, why) ==
  /\ up' = [up EXCEPT ![e] = FALSE]
  /\ fail' = [fail EXCEPT ![e] = why]
  /\ count' = [count EXCEPT ![e] = 0]
  /\ onTime' = [onTime EXCEPT ![e] = 0]
  /\ UNCHANGED <<start, heard, rcvAge, sentAge, wire>>

DetectFail(e) == InterfaceFails(e) /\ ShutDown(e, "DETECT")

MissFail(e) == Misses(e) /\ ShutDown(e, "MISS")

(* Variant: sending refreshes last_received_time.                          *)
SendKeepAlive_Refreshes(e) ==
  /\ SendDue(e)
  /\ fail' = [fail EXCEPT ![e] = FailAfterBack(e)]
  /\ sentAge' = [sentAge EXCEPT ![e] = 0]
  /\ rcvAge' = [rcvAge EXCEPT ![e] = 0]
  /\ Send(e, "KeepAlive")
  /\ UNCHANGED <<start, up, count, heard, onTime>>

SendKeepAlive(e) ==
  /\ SendDue(e)
  /\ fail' = [fail EXCEPT ![e] = FailAfterBack(e)]
  /\ sentAge' = [sentAge EXCEPT ![e] = 0]
  /\ Send(e, "KeepAlive")
  /\ UNCHANGED <<start, up, count, heard, rcvAge, onTime>>

(* Nothing to send: the interface may still have come back.                *)
SendNothing(e) ==
  /\ ~InterfaceFails(e) /\ ~Misses(e) /\ ~SendDue(e)
  /\ phase[e] = "check" \/ FailAfterBack(e) # fail[e]
  /\ fail' = [fail EXCEPT ![e] = FailAfterBack(e)]
  /\ UNCHANGED <<start, up, count, heard, rcvAge, sentAge, wire, onTime>>

(* A check follows each frame; when none has come, the loop goes on to the *)
(* check all the same.                                                     *)
Check(e) ==
  /\ phase' = [phase EXCEPT ![e] = "receive"]
  /\ UNCHANGED <<alive, talked, faults, joins>>
  /\ DetectFail(e) \/ MissFail(e) \/ SendKeepAlive(e) \/ SendNothing(e)

CheckDue(e) ==
  \/ phase[e] = "check"
  \/ InterfaceFails(e) \/ Misses(e) \/ SendDue(e) \/ FailAfterBack(e) # fail[e]

-----------------------------------------------------------------------------
(* What surrounds the two ports.                                           *)

(* The switch forwards data through the port, in the place of a receive:   *)
(* at most once a tick.                                                    *)
SendData(e) ==
  /\ Traffic /\ ~talked[e]
  /\ up[e] /\ phase[e] = "receive"
  /\ phase' = [phase EXCEPT ![e] = "check"]
  /\ talked' = [talked EXCEPT ![e] = TRUE]
  /\ sentAge' = [sentAge EXCEPT ![e] = 0]
  /\ Send(e, "Data")
  /\ UNCHANGED <<port, alive, onTime, faults, joins>>

Lose(e) ==
  /\ lost < MaxLoss
  /\ chan[e] # <<>>
  /\ chan' = [chan EXCEPT ![e] = Tail(@)]
  /\ late' = [late EXCEPT ![e] = IF Tail(chan[e]) = <<>> THEN 0 ELSE @]
  /\ lost' = lost + 1
  /\ UNCHANGED <<port, sentAge, alive, phase, talked, onTime, flaps, busy, joins>>

InterfaceDown(e) ==
  /\ alive[e] /\ flaps < MaxFlap
  /\ alive' = [alive EXCEPT ![e] = FALSE]
  /\ flaps' = flaps + 1
  /\ UNCHANGED <<port, sentAge, phase, wire, talked, onTime, lost, busy, joins>>

InterfaceUp(e) ==
  /\ ~alive[e]
  /\ alive' = [alive EXCEPT ![e] = TRUE]
  /\ UNCHANGED <<port, sentAge, phase, wire, talked, onTime, faults, joins>>

(* The frames on eth0 come so fast that a check that is due is put off.    *)
HeldUp ==
  /\ busy < MaxBusy
  /\ \A e \in End : phase[e] = "receive"

Tick ==
  /\ \A e \in End : chan[e] # <<>> => late[e] < MaxDelay
  /\ \/ (\A e \in End : ~CheckDue(e)) /\ busy' = busy
     \/ (\E e \in End : CheckDue(e)) /\ HeldUp /\ busy' = busy + 1
  /\ rcvAge' = [e \in End |-> Smaller(rcvAge[e] + 1, Dead)]
  /\ sentAge' = [e \in End |-> Smaller(sentAge[e] + 1, Hello)]
  /\ late' = [e \in End |-> IF chan[e] = <<>> THEN 0 ELSE late[e] + 1]
  /\ talked' = [e \in End |-> FALSE]
  /\ UNCHANGED <<start, up, fail, count, heard, alive, phase, chan, onTime, lost, flaps,
                 joins>>

-----------------------------------------------------------------------------

Next ==
  \/ Tick
  \/ \E e \in End : \/ Receive(e) \/ Check(e) \/ ReceiveJoinRes(e) \/ SendData(e)
                    \/ Lose(e) \/ InterfaceDown(e) \/ InterfaceUp(e)

(* Both programs loop forever and time goes on.  Nothing obliges the cable *)
(* to fail, an interface to come back, VIDs to be joined or data to flow.  *)
Fairness ==
  /\ WF_vars(Tick)
  /\ \A e \in End : WF_vars(Receive(e)) /\ WF_vars(Check(e))

Spec == Init /\ [][Next]_vars

FairSpec == Spec /\ Fairness

-----------------------------------------------------------------------------

TypeOK ==
  /\ start \in [End -> BOOLEAN] /\ up \in [End -> BOOLEAN]
  /\ fail \in [End -> {"NONE", "DETECT", "MISS"}]
  /\ count \in [End -> 0 .. Threshold]
  /\ heard \in [End -> BOOLEAN]
  /\ rcvAge \in [End -> 0 .. Dead] /\ sentAge \in [End -> 0 .. Hello]
  /\ alive \in [End -> BOOLEAN]
  /\ phase \in [End -> {"receive", "check"}]
  /\ chan \in [End -> Seq(Frame)]
  /\ late \in [End -> 0 .. MaxDelay]
  /\ talked \in [End -> BOOLEAN]
  /\ onTime \in [End -> 0 .. Threshold]
  /\ lost \in 0 .. MaxLoss /\ flaps \in 0 .. MaxFlap /\ busy \in 0 .. MaxBusy
  /\ joins \in 0 .. MaxJoins

(* A port that was shut down can be turned on again: its counter is below  *)
(* the threshold at which keep-alives stop counting.  A fresh port is full *)
(* (build_control_port sets 3) and only a StartHello opens it.             *)
RecoveryArmed == \A e \in End : start[e] /\ ~up[e] => count[e] < Threshold

(* A failure is on record only at a port that was in use and was heard.    *)
(* At the lower end the port is out of use as long as it is, however many  *)
(* VIDs are joined meanwhile; the upper end is opened anew by the next     *)
(* StartHello, with the failure on record.                                 *)
FailedLowerIsDown ==
  \A e \in End : fail[e] # "NONE" =>
    start[e] /\ heard[e] /\ (up[e] => e = "upper")

(* A working cable is not given up: as long as the lost frames, the delay  *)
(* and the time that eth0 kept the ends from their checks leave room in    *)
(* the dead timer, no keep-alive is missed.                                *)
NoFalseAlarm ==
  flaps = 0 /\ Hello * (lost + 1) + MaxDelay + busy < Dead =>
    \A e \in End : fail[e] # "MISS"

(* Both ends have missed the other and no keep-alive is on the way.        *)
Silent ==
  \A e \in End :
    fail[e] = "MISS" /\ \A i \in DOMAIN chan[e] : chan[e][i] # "KeepAlive"

(* An end with a miss on record sends no keep-alive, and only a keep-alive *)
(* clears the record, so the ends stay apart, whatever VIDs are joined and *)
(* data sent meanwhile.  One thing ends it: a port that was opened anew    *)
(* loses its interface, whose return clears the record.                    *)
SilenceLasts ==
  [][Silent => Silent' \/ \E e \in End : InterfaceFails(e)]_vars

(* The StartHello got lost: the lower end has its port open, the upper end *)
(* does not open it, for good if no further VID is joined.                 *)
HalfOpen == start["lower"] /\ ~heard["lower"] /\ ~start["upper"]

(* An open port notices in the end that the peer's interface is down; but  *)
(* not if a StartHello opened it with a miss on record.                    *)
DeadPeerNoticed ==
  \A e \in End :
    (up[e] /\ heard[e] /\ fail[e] # "MISS" /\ ~alive[Other(e)])
      ~> (~up[e] \/ alive[Other(e)])

(* When faults stop, the cable ends up in use at both ends, or in one of   *)
(* two states that nothing but a fault or a further handshake ends.        *)
Settles ==
  <>[]((\A e \in End : alive[e]) =>
         Silent \/ HalfOpen \/ \A e \in End : up[e] /\ fail[e] = "NONE")

(* "received three consecutive on time keep alive, turn on this port       *)
(* again" (main.c, handle_receive_keep_alive).                             *)
ThreeInARow ==
  [][\A e \in End : ~up[e] /\ up'[e] /\ count'[e] # count[e] =>
       IsOnTime(e) /\ onTime[e] + 1 >= Threshold]_vars
=============================================================================
