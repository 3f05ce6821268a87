---------------------------- MODULE ObjectReceiver ----------------------------
(***************************************************************************)
(* BoundedObjectReceiver of flight/src/phase11.rs: assembles one package   *)
(* object at a time from KPX11 segments (interface/src/phase11.rs) that    *)
(* may be lost, repeated, reordered or interleaved with another object's.  *)
(*                                                                         *)
(* A segment has passed the codec: its offset is its index times the       *)
(* payload size, and its index is below its count.  A payload is named by  *)
(* the object and place it was cut from; the CRC of an assembled object    *)
(* fits exactly when every payload is the one that was cut for its place.  *)
(***************************************************************************)
EXTENDS Integers

CONSTANTS
  Objects,    \* headers: type, identity, length and CRC of what may be sent
  Count,      \* segment_count of each object
  Fits,       \* objects within the 4,096-byte buffer
  PlanFor,    \* objects that hold a mission plan for this package's manifest
  Garbage     \* a payload that was cut from no declared object

ASSUME ObjectAssumption ==
  /\ Count \in [Objects -> Nat \ {0}]
  /\ Fits \subseteq Objects /\ PlanFor \subseteq Objects

VARIABLES
  header,     \* the object being assembled, or NoObject
  next,       \* next_segment
  complete,
  bytes,      \* what each place of the buffer holds; reset does not clear it
  result,     \* of the last receive
  fresh       \* history: places written since the last index-0 segment

vars == <<header, next, complete, bytes, result, fresh>>

NoObject == "no object"
NoPayload == <<>>        \* the buffer starts as zeros
Places == UNION {0 .. Count[o] - 1 : o \in Objects}
Payload(o, i) == <<o, i>>
Payloads == UNION {{Payload(o, i) : i \in 0 .. Count[o] - 1} : o \in Objects}

Segments == [object : Objects, index : Places, payload : Payloads \cup {Garbage}]

new ==
  /\ header = NoObject /\ next = 0 /\ complete = FALSE
  /\ bytes = [i \in Places |-> NoPayload]
  /\ result = "none" /\ fresh = {}

ResetAnd(error) ==
  /\ header' = NoObject /\ next' = 0 /\ complete' = FALSE
  /\ result' = error
  /\ UNCHANGED bytes

(* Capacity: refused before anything is touched.                           *)
TooLarge(s) ==
  /\ s.object \notin Fits
  /\ result' = "Capacity"
  /\ UNCHANGED <<header, next, complete, bytes, fresh>>

(* Index 0 starts over, whatever was being assembled; every other segment  *)
(* must continue the object at hand.                                       *)
Starts(s) == s.index = 0
Expected(s) == IF Starts(s) THEN 0 ELSE next

WrongObject(s) ==
  /\ s.object \in Fits
  /\ ~Starts(s) /\ (complete \/ header # s.object)
  /\ ResetAnd("Identity")
  /\ UNCHANGED fresh

Continues(s) == Starts(s) \/ (~complete /\ header = s.object /\ s.index = next)

WrongPlace(s) ==
  /\ s.object \in Fits
  /\ ~Starts(s) /\ ~complete /\ header = s.object
  /\ s.index # next
  /\ ResetAnd("Sequence")
  /\ UNCHANGED fresh

(* The payload is stored; the last one decides by the CRC.                 *)
Written(s) == [bytes EXCEPT ![s.index] = s.payload]
ChecksumOff(o, b) == TRUE
ChecksumFits(o, b) == \A i \in 0 .. Count[o] - 1 : b[i] = Payload(o, i)

Stored(s) ==
  /\ s.object \in Fits
  /\ Continues(s)
  /\ bytes' = Written(s)
  /\ fresh' = IF Starts(s) THEN {0} ELSE fresh \cup {s.index}
  /\ LET received == Expected(s) + 1
     IN \/ /\ received # Count[s.object]
           /\ header' = s.object /\ next' = received /\ complete' = FALSE
           /\ result' = "Receiving"
        \/ /\ received = Count[s.object]
           /\ ChecksumFits(s.object, Written(s))
           /\ header' = s.object /\ next' = received /\ complete' = TRUE
           /\ result' = "Complete"
        \/ /\ received = Count[s.object]
           /\ ~ChecksumFits(s.object, Written(s))
           /\ header' = NoObject /\ next' = 0 /\ complete' = FALSE
           /\ result' = "Checksum"

receive(s) == TooLarge(s) \/ WrongObject(s) \/ WrongPlace(s) \/ Stored(s)

(* activate_mission_plan changes nothing: what it would return.            *)
activate_mission_plan == IF complete /\ header \in PlanFor THEN {header} ELSE {}

Next == \E s \in Segments : s.index < Count[s.object] /\ receive(s)

Spec == new /\ [][Next]_vars

-----------------------------------------------------------------------------

(* A plan that can be activated is one object, whole: every place holds    *)
(* the payload cut for it, received after the object was begun.            *)
ActivatesWholeObject ==
  \A o \in activate_mission_plan :
    /\ o \in PlanFor /\ o \in Fits
    /\ \A i \in 0 .. Count[o] - 1 : bytes[i] = Payload(o, i) /\ i \in fresh
=============================================================================
