---------------------------- MODULE EventJournal ----------------------------
(***************************************************************************)
(* The flight package's event journal (EventJournal of                     *)
(* flight/src/phase11.rs): a ring of Capacity fixed slots with a start     *)
(* index and a length, a saturating u32 sequence number and a hash chain,  *)
(* and the ground station that reads it back: it asks for the records      *)
(* after the last sequence number it has (the OP_JOURNAL command), loses   *)
(* contact for as long as it likes, and asks again.                        *)
(***************************************************************************)
EXTENDS Integers, Sequences

CONSTANTS
  Capacity,      \* EVENT_JOURNAL_CAPACITY
  MaxSequence,   \* u32::MAX
  MaxAppends,    \* bound: records written in one behaviour
  Entries,       \* kinds of events with their arguments
  Buffers        \* sizes of the output buffer passed to recover_after

ASSUME CapacityAssumption == Capacity \in Nat \ {0} /\ MaxSequence \in Nat \ {0}
ASSUME BufferAssumption == Buffers \subseteq Nat \ {0} /\ MaxAppends \in Nat

VARIABLES
  records,       \* the slots
  start, len,    \* index of the oldest record, number of records
  nextSequence,
  chain,         \* number of records folded into the hash chain
  log,           \* history: every record ever written
  heard          \* the records the ground station has received, in order

vars == <<records, start, len, nextSequence, chain, log, heard>>

Slots == 0 .. Capacity - 1
Blank == [sequence |-> 0]

(* The records in the order recover_after walks them.                      *)
Retained == [i \in 1 .. len |-> records[(start + i - 1) % Capacity]]

W == INSTANCE JournalWindow WITH window <- Retained, next <- nextSequence, chain <- chain

Init ==
  /\ records = [i \in Slots |-> Blank]
  /\ start = 0
  /\ len = 0
  /\ nextSequence = 1
  /\ chain = 0
  /\ log = <<>>
  /\ heard = <<>>

(* The slot the next record goes into: the first free one, or the oldest.  *)
Slot == IF len < Capacity THEN (start + len) % Capacity ELSE start

NextStartStuck == start

NextLen == IF len < Capacity THEN len + 1 ELSE len

NextStart == IF len < Capacity THEN start ELSE (start + 1) % Capacity

append(e) ==
  LET record == W!NextRecord(e)
  IN  /\ chain < MaxAppends
      /\ records' = [records EXCEPT ![Slot] = record]
      /\ start' = NextStart
      /\ len' = NextLen
      /\ nextSequence' = IF nextSequence = MaxSequence THEN nextSequence ELSE nextSequence + 1
      /\ chain' = chain + 1
      /\ log' = Append(log, record)
      /\ UNCHANGED heard

(* Its last known sequence number, zero before the first record.           *)
Known == IF heard = <<>> THEN 0 ELSE heard[Len(heard)].sequence

NewestFirst(sequence, n) ==
  LET later == SelectSeq(Retained, LAMBDA r : r.sequence > sequence)
  IN  SubSeq(later, IF Len(later) < n THEN 1 ELSE Len(later) - n + 1, Len(later))

FromNextButOne(sequence, n) == W!After(Retained, sequence + 1, n)

recover_after(sequence, n) == W!After(Retained, sequence, n)

(* The ground reads into a buffer of n records.                            *)
Read(n) ==
  /\ heard' = heard \o recover_after(Known, n)
  /\ UNCHANGED <<records, start, len, nextSequence, chain, log>>

Next == (\E e \in Entries : append(e)) \/ (\E n \in Buffers : Read(n))

(* While it is in contact the ground keeps reading.                        *)
Spec == Init /\ [][Next]_vars /\ \A n \in Buffers : WF_vars(Read(n))

-----------------------------------------------------------------------------

(* Distinct records have distinct sequence numbers; past this point the    *)
(* saturated number repeats and a reader can no longer ask for what it     *)
(* has not heard.                                                          *)
Numbered == Len(log) <= MaxSequence

(* What the ground has heard is the log, in order, with whole stretches    *)
(* missing, and a stretch is missing exactly where the hash chain breaks   *)
(* and the sequence number jumps.                                          *)
GapsAreVisible ==
  Numbered => \A i \in 2 .. Len(heard) :
    LET before == heard[i - 1]
        after == heard[i]
    IN  /\ after.prior >= before.chain
        /\ after.prior = before.chain <=> after.sequence = before.sequence + 1

(* Reading passes over no record that is still in the ring.                *)
SkipsOnlyOverwritten ==
  Numbered => \A i \in 1 .. len :
    Retained[i].sequence <= Known => \E j \in 1 .. Len(heard) : heard[j] = Retained[i]

(* The ring implements the bounded log it stands for.                      *)
WindowSpec == W!Spec

(* A ground station that keeps reading, even one record at a time, hears   *)
(* every numbered record or, if that one is overwritten first, a newer one.*)
CatchesUp ==
  \A k \in 1 .. MaxSequence :
    chain >= k ~> \E i \in 1 .. Len(heard) : heard[i].chain >= k
=============================================================================
