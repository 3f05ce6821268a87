---------------------------- MODULE JournalWindow ----------------------------
(***************************************************************************)
(* What the package journal promises: a log that keeps its newest Capacity *)
(* records in the order they were written, and a reader who asks for what  *)
(* follows a sequence number and gets the oldest of it first.  EventJournal *)
(* implements this with a ring of fixed slots.                             *)
(***************************************************************************)
EXTENDS Integers, Sequences, FiniteSets

CONSTANTS Capacity, MaxSequence, Entries

VARIABLES window, next, chain

JournalRecord == [sequence : 1 .. MaxSequence, entry : Entries, prior : Nat, chain : Nat]

SelfLinked(e) == [sequence |-> next, entry |-> e, prior |-> chain + 1, chain |-> chain + 1]

(* The record written by the next append.  The hash chain over all records *)
(* written so far is abstracted to their number: like the hash it differs  *)
(* for any two prefixes of one log.                                        *)
NextRecord(e) == [sequence |-> next, entry |-> e, prior |-> chain, chain |-> chain + 1]

Newest(s) == IF Len(s) > Capacity THEN Tail(s) ELSE s

Init ==
  /\ window = <<>>
  /\ next = 1
  /\ chain = 0

Write(e) ==
  /\ window' = Newest(Append(window, NextRecord(e)))
  /\ next' = IF next = MaxSequence THEN next ELSE next + 1
  /\ chain' = chain + 1

(* recover_after(sequence, output) with room for n records: of the records *)
(* with a later sequence number the k-th, in the order of the log, goes to *)
(* place k of the output, until it is full.                                *)
After(s, sequence, n) ==
  LET later == {i \in DOMAIN s : s[i].sequence > sequence}
      Written(i) == Cardinality({j \in later : j <= i})
      count == Cardinality(later)
  IN  [k \in 1 .. IF count < n THEN count ELSE n |-> s[CHOOSE i \in later : Written(i) = k]]

Next == \E e \in Entries : Write(e)

Spec == Init /\ [][Next]_<<window, next, chain>>
=============================================================================
