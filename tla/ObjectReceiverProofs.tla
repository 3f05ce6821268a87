------------------------ MODULE ObjectReceiverProofs ------------------------
(***************************************************************************)
(* Whatever segments arrive, and however many objects and places there     *)
(* are, a plan can be activated only if it was received as a whole.        *)
(***************************************************************************)
EXTENDS ObjectReceiver, TLAPS

(* Between two calls the receiver is empty, or the places below            *)
(* next_segment and no others were written since the object was begun:     *)
(* reset leaves the buffer as it is, so the count of the segments has to   *)
(* say which of its bytes belong to this object.                           *)
AssemblyInv ==
  /\ next \in Nat
  /\ \/ header = NoObject /\ next = 0 /\ ~complete
     \/ header \in Fits /\ fresh = 0 .. next - 1

(* A complete object has all its places and passed the CRC.                *)
CompleteInv ==
  complete => /\ header \in Fits /\ fresh = 0 .. next - 1
              /\ next = Count[header] /\ ChecksumFits(header, bytes)

ReceiverInv == AssemblyInv /\ CompleteInv

(* ReceiverInv holds at first.                                             *)
LEMMA ReceiverInvAtFirst == new => ReceiverInv
  BY DEF new, ReceiverInv, AssemblyInv, CompleteInv

(* A segment that is stored goes to the place the receiver expects.        *)
LEMMA StoredInPlace ==
  ASSUME NEW s \in Segments, Stored(s)
  PROVE  s.index = Expected(s)
  BY DEF Stored, Continues, Starts, Expected

(* Every outcome of receive keeps the invariant.                           *)
LEMMA ReceiveStep ==
  ASSUME ReceiverInv, NEW s \in Segments, receive(s)
  PROVE  ReceiverInv'
<1> USE DEF ReceiverInv, AssemblyInv, CompleteInv
<1>1. CASE TooLarge(s)
  BY <1>1 DEF TooLarge, ChecksumFits
<1>2. CASE WrongObject(s) \/ WrongPlace(s)
  BY <1>2 DEF WrongObject, WrongPlace, ResetAnd
<1>3. CASE Stored(s)
  <2>1. s.index = Expected(s) /\ s.object \in Fits /\ Expected(s) \in Nat
    BY <1>3, StoredInPlace DEF Stored, Expected
  <2>2. fresh' = 0 .. Expected(s)
    <3>1. CASE Starts(s)
      BY <1>3, <3>1 DEF Stored, Expected
    <3>2. CASE ~Starts(s)
      <4>1. next \in Nat \ {0} /\ fresh = 0 .. next - 1 /\ s.index = next
        BY <1>3, <2>1, <3>2 DEF Stored, Continues, Starts, Expected
      <4>2. fresh' = (0 .. next - 1) \cup {next}
        BY <1>3, <3>2, <4>1 DEF Stored
      <4> QED
        BY <3>2, <4>1, <4>2 DEF Expected
    <3> QED
      BY <3>1, <3>2
  <2>3. CASE Expected(s) + 1 # Count[s.object]
    <3>1. header' = s.object /\ next' = Expected(s) + 1 /\ ~complete'
      BY <1>3, <2>3 DEF Stored
    <3> QED
      BY <2>1, <2>2, <3>1
  <2>4. CASE Expected(s) + 1 = Count[s.object] /\ ChecksumFits(s.object, Written(s))
    <3>1. header' = s.object /\ next' = Expected(s) + 1 /\ bytes' = Written(s)
      BY <1>3, <2>4 DEF Stored
    <3>2. ChecksumFits(header', bytes')
      BY <2>4, <3>1
    <3> QED
      BY <2>1, <2>2, <2>4, <3>1, <3>2 DEF ChecksumFits
  <2>5. CASE Expected(s) + 1 = Count[s.object] /\ ~ChecksumFits(s.object, Written(s))
    BY <1>3, <2>5 DEF Stored
  <2> QED
    BY <2>3, <2>4, <2>5
<1> QED
  BY <1>1, <1>2, <1>3 DEF receive

(* Only a whole object is ever handed to the activation of a mission plan: *)
(* each place holds the payload cut for it, received since the object was  *)
(* begun, after any loss, repetition, reordering or mixture of segments.   *)
THEOREM OnlyWholeObjectsActivate == Spec => []ActivatesWholeObject
<1>1. ReceiverInv /\ [Next]_vars => ReceiverInv'
  <2> SUFFICES ASSUME ReceiverInv, [Next]_vars PROVE ReceiverInv'
    OBVIOUS
  <2>1. CASE Next
    BY <2>1, ReceiveStep DEF Next
  <2>2. CASE UNCHANGED vars
    BY <2>2 DEF vars, ReceiverInv, AssemblyInv, CompleteInv, ChecksumFits
  <2> QED
    BY <2>1, <2>2
<1>2. ReceiverInv => ActivatesWholeObject
  BY ObjectAssumption
  DEF ReceiverInv, AssemblyInv, CompleteInv, ActivatesWholeObject, activate_mission_plan,
      ChecksumFits
<1> QED
  BY ReceiverInvAtFirst, <1>1, <1>2, PTL DEF Spec
=============================================================================
