------------------------------ MODULE VIDText ------------------------------
(***************************************************************************)
(* The text of VIDs and the payload of frames: what Fabric abstracts from  *)
(* when it keeps a VID as a sequence of numbers.                           *)
(*                                                                         *)
(* A text is the sequence of its characters, without the final NUL: the    *)
(* digits 0..9 stand for themselves and Dot for '.'.                       *)
(***************************************************************************)
EXTENDS Integers, FiniteSets, Sequences, SequencesExt

Digit == 0 .. 9
Dot   == 10

(* What inet_ntoa and the kernel's names of interfaces spell a number as.  *)
Decimal[n \in Nat] ==
  IF n \in Digit THEN <<n>> ELSE Append(Decimal[n \div 10], n % 10)

-----------------------------------------------------------------------------
(* int_to_str: the digits from the last to the first, then the reversal.   *)

LastFirst[n \in Nat] ==
  IF n = 0 THEN <<>> ELSE <<n % 10>> \o LastFirst[n \div 10]

Swap(s, i, j) == [s EXCEPT ![i] = s[j], ![j] = s[i]]

(* Every swap of the loop takes the first character, whatever i is.        *)
IntToStr(n) ==
  LET s == LastFirst[n]
      after[i \in 0 .. Len(s) \div 2] ==
        IF i = 0 THEN s ELSE Swap(after[i - 1], 1, Len(s) + 1 - i)
  IN  after[Len(s) \div 2]

-----------------------------------------------------------------------------
(* Variant: the number follows without a dot.                              *)
AppendPortNumber_NoDot(text, k) == text \o Decimal[k]

(* append_port_number_after_VID, for the port "eth<k>".                    *)
AppendPortNumber(text, k) == text \o <<Dot>> \o Decimal[k]

(* How many characters come before the first dot.                          *)
UntilDot(text) == SelectInSeq(Append(text, Dot), LAMBDA c : c = Dot) - 1

(* copy_VID_prefix, by which an update names the VIDs of a port.           *)
CopyPrefix(text) == SubSeq(text, 1, UntilDot(text))

(* Variant: the scan does not ask for the dot.                             *)
FoundByVID_AnyPrefix(text, dest) == dest # <<>> /\ IsPrefix(dest, text)

(* The scan of find_accepted_port_by_VID in one VID of the table: dest is  *)
(* the whole of the text before its first dot, and there is a dot.  It     *)
(* gives up at the first character when dest is empty.                     *)
FoundByVID(text, dest) == dest # <<>> /\ IsPrefix(Append(dest, Dot), text)

-----------------------------------------------------------------------------
(* The VIDs in the payload of a frame, after its type: their number in two *)
(* bytes, then each with its length in front.                              *)

(* send_* with build_VID_data_payload.                                     *)
BuildPayload(texts) ==
  <<Len(texts) % 256, Len(texts) \div 256>>
    \o FlattenSeq([i \in DOMAIN texts |-> <<Len(texts[i]) % 256>> \o texts[i]])

(* The slots of temp_2d_array, into which a switch takes the VIDs of a     *)
(* frame.  What the code does with a frame of more is not modelled.        *)
Slots == 10

(* Variant: the NUL is put in place of the last character.                 *)
ExtractVIDs_Short(payload) ==
  LET n == payload[1] + 256 * payload[2]
      at[i \in 1 .. n] == IF i = 1 THEN 3 ELSE at[i - 1] + 1 + payload[at[i - 1]]
  IN  [i \in 1 .. n |->
         SubSeq(payload, at[i] + 1, at[i] + payload[at[i]] - 1)]

(* extract_VID_from_receive_buff: at[i] is where the length of the i-th    *)
(* VID stands.                                                             *)
ExtractVIDs(payload) ==
  LET n == payload[1] + 256 * payload[2]
      at[i \in 1 .. n] == IF i = 1 THEN 3 ELSE at[i - 1] + 1 + payload[at[i - 1]]
  IN  [i \in 1 .. n |->
         SubSeq(payload, at[i] + 1, at[i] + payload[at[i]])]

(* get_tier_from_hello_message: one more than the dots of the first VID.   *)
TierFromHello(payload) ==
  1 + Cardinality({i \in 4 .. 3 + payload[3] : payload[i] = Dot})
=============================================================================
