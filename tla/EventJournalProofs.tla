-------------------------- MODULE EventJournalProofs --------------------------
(***************************************************************************)
(* The ring of the package journal implements the bounded log it stands    *)
(* for, for every capacity and counter width, and a ground station that    *)
(* reads it sees every gap and passes over no record it could still have   *)
(* read.                                                                   *)
(***************************************************************************)
EXTENDS EventJournal, Cycles, FiniteSetTheorems, SequenceTheorems

(* Only a full ring has an oldest record elsewhere than in slot 0.         *)
RingInv ==
  /\ records \in [Slots -> W!JournalRecord \cup {Blank}]
  /\ start \in Slots
  /\ len \in 0 .. Capacity
  /\ len < Capacity => start = 0
  /\ nextSequence \in 1 .. MaxSequence
  /\ chain \in Nat

(* The place of the i-th record after the oldest.                          *)
LEMMA PlaceInRing ==
  ASSUME NEW s \in Slots, NEW i \in 0 .. Capacity
  PROVE  /\ (s + i) % Capacity = IF s + i < Capacity THEN s + i ELSE s + i - Capacity
         /\ (s + i) % Capacity \in Slots
<1>0. Capacity \in Nat \ {0} /\ s \in Nat /\ s < Capacity /\ i \in Nat /\ i <= Capacity
  BY CapacityAssumption DEF Slots
<1> DEFINE q == (s + i) \div Capacity
           r == (s + i) % Capacity
<1>1. q \in Nat /\ r \in 0 .. Capacity - 1 /\ s + i = Capacity * q + r
  BY <1>0
<1> HIDE DEF q, r
<1>2. CASE s + i < Capacity
  <2>1. Capacity * q + r = Capacity * 0 + (s + i) /\ s + i \in 0 .. Capacity - 1
    BY <1>0, <1>1, <1>2
  <2>2. r = s + i
    BY <1>0, <1>1, <2>1, RemainderIsUnique
  <2> QED
    BY <1>0, <1>2, <2>1, <2>2 DEF r, Slots
<1>3. CASE s + i >= Capacity
  <2>1. /\ Capacity * q + r = Capacity * 1 + (s + i - Capacity)
        /\ s + i - Capacity \in 0 .. Capacity - 1
    BY <1>0, <1>1, <1>3
  <2>2. r = s + i - Capacity
    BY <1>0, <1>1, <2>1, RemainderIsUnique
  <2> QED
    BY <1>0, <1>3, <2>1, <2>2 DEF r, Slots
<1> QED
  BY <1>0, <1>2, <1>3

(* The n records of a ring from its first one on.                          *)
Kept(slots, first, n) == [i \in 1 .. n |-> slots[(first + i - 1) % Capacity]]

(* What a ring retains is a sequence of its records.                       *)
LEMMA RingIsSequence ==
  ASSUME NEW S, NEW slots \in [Slots -> S], NEW first \in Slots, NEW n \in 0 .. Capacity
  PROVE  /\ Kept(slots, first, n) \in Seq(S) /\ Len(Kept(slots, first, n)) = n
         /\ \A i \in 1 .. n : Kept(slots, first, n)[i] = slots[(first + (i - 1)) % Capacity]
<1> DEFINE kept == Kept(slots, first, n)
<1>0. n \in Nat /\ Capacity \in Nat
  BY CapacityAssumption
<1>1. ASSUME NEW i \in 1 .. n PROVE /\ first + i - 1 = first + (i - 1)
                                    /\ (first + (i - 1)) % Capacity \in Slots
  <2>1. i - 1 \in 0 .. Capacity /\ first + i - 1 = first + (i - 1)
    BY <1>0, CapacityAssumption DEF Slots
  <2> QED
    BY <2>1, PlaceInRing
<1>2. kept = [i \in 1 .. n |-> slots[(first + (i - 1)) % Capacity]]
  BY <1>1 DEF Kept
<1>3. kept \in [1 .. n -> S]
  BY <1>1, <1>2
<1> HIDE DEF kept
<1>4. /\ kept \in Seq(S) /\ Len(kept) = n
      /\ \A i \in 1 .. n : kept[i] = slots[(first + (i - 1)) % Capacity]
  BY <1>0, <1>2, <1>3
<1> QED
  BY <1>4 DEF kept

(* An append keeps the ring in shape.                                      *)
LEMMA AppendKeepsRing ==
  ASSUME RingInv, NEW e \in Entries, append(e)
  PROVE  /\ RingInv'
         /\ W!NextRecord(e) \in W!JournalRecord
         /\ Slot \in Slots
<1>0. /\ Capacity \in Nat \ {0} /\ MaxSequence \in Nat \ {0} /\ len \in Nat /\ len <= Capacity
      /\ start \in Slots /\ chain \in Nat /\ nextSequence \in 1 .. MaxSequence
  BY CapacityAssumption DEF RingInv
<1>1. W!NextRecord(e) \in W!JournalRecord
  BY <1>0 DEF W!NextRecord, W!JournalRecord
<1>2. Slot \in Slots
  <2>1. CASE len < Capacity
    <3>1. len \in 0 .. Capacity
      BY <1>0
    <3> QED
      BY <1>0, <2>1, <3>1, PlaceInRing DEF Slot
  <2>2. CASE ~(len < Capacity)
    BY <1>0, <2>2 DEF Slot
  <2> QED
    BY <2>1, <2>2
<1>3. records' \in [Slots -> W!JournalRecord \cup {Blank}]
  BY <1>1, <1>2 DEF append, RingInv
<1>4. start' \in Slots /\ len' \in 0 .. Capacity /\ (len' < Capacity => start' = 0)
  <2>1. CASE len < Capacity
    BY <1>0, <2>1 DEF append, NextStart, NextLen, RingInv
  <2>2. CASE ~(len < Capacity)
    <3>1. len = Capacity /\ 1 \in 0 .. Capacity
      BY <1>0, <2>2
    <3>2. (start + 1) % Capacity \in Slots
      BY <1>0, <3>1, PlaceInRing
    <3> QED
      BY <1>0, <2>2, <3>1, <3>2 DEF append, NextStart, NextLen
  <2> QED
    BY <2>1, <2>2
<1>5. nextSequence' \in 1 .. MaxSequence /\ chain' \in Nat
  BY <1>0 DEF append
<1> QED
  BY <1>1, <1>2, <1>3, <1>4, <1>5 DEF RingInv

(* The ring after an append is the bounded log after the write: the new    *)
(* record follows the retained ones, and a full ring gives up its oldest.  *)
LEMMA AppendIsWrite ==
  ASSUME RingInv, NEW e \in Entries, append(e)
  PROVE  W!Write(e)
<1> DEFINE rec == W!NextRecord(e)
           S == W!JournalRecord \cup {Blank}
           longer == Append(Retained, rec)
<1>0. /\ Capacity \in Nat \ {0} /\ len \in Nat /\ len <= Capacity /\ start \in Slots
      /\ Slot \in Slots /\ rec \in S /\ RingInv'
      /\ records \in [Slots -> S]
  BY CapacityAssumption, AppendKeepsRing DEF RingInv
<1> HIDE DEF rec, S
<1>1. /\ Retained \in Seq(S) /\ Len(Retained) = len
      /\ \A i \in 1 .. len : Retained[i] = records[(start + (i - 1)) % Capacity]
  <2>1. records \in [Slots -> S] /\ start \in Slots /\ len \in 0 .. Capacity
    BY DEF RingInv, S
  <2>2. Retained = Kept(records, start, len)
    BY DEF Retained, Kept
  <2> QED
    BY <2>1, <2>2, RingIsSequence
<1>2. /\ Retained' \in Seq(S) /\ Len(Retained') = len'
      /\ \A i \in 1 .. len' : Retained'[i] = records'[(start' + (i - 1)) % Capacity]
  <2>1. records' \in [Slots -> S] /\ start' \in Slots /\ len' \in 0 .. Capacity
    BY <1>0 DEF RingInv, S
  <2>2. Retained' = Kept(records', start', len')
    BY DEF Retained, Kept
  <2> QED
    BY <2>1, <2>2, RingIsSequence
<1>3. /\ records' = [records EXCEPT ![Slot] = rec]
      /\ start' = NextStart /\ len' = NextLen
  BY DEF append, rec
<1>4. /\ nextSequence' = IF nextSequence = MaxSequence THEN nextSequence ELSE nextSequence + 1
      /\ chain' = chain + 1
  BY DEF append
<1>5. /\ longer \in Seq(S) /\ Len(longer) = len + 1
      /\ \A i \in 1 .. len : longer[i] = Retained[i]
      /\ longer[len + 1] = rec
  BY <1>0, <1>1
<1>6. Retained' = W!Newest(longer)
  <2>1. CASE len < Capacity
    <3>1. /\ len' = len + 1 /\ start' = 0 /\ start = 0
          /\ W!Newest(longer) = longer
      BY <1>0, <1>3, <1>5, <2>1 DEF NextLen, NextStart, RingInv, W!Newest
    <3>2. \A i \in 1 .. len + 1 : (0 + (i - 1)) % Capacity = i - 1 /\ i - 1 \in Slots
      <4> SUFFICES ASSUME NEW i \in 1 .. len + 1
                   PROVE  (0 + (i - 1)) % Capacity = i - 1 /\ i - 1 \in Slots
        OBVIOUS
      <4>1. /\ 0 \in Slots /\ i - 1 \in 0 .. Capacity /\ i - 1 \in Nat /\ 0 + (i - 1) = i - 1
            /\ i - 1 < Capacity
        BY <1>0, <2>1 DEF Slots
      <4>2. (0 + (i - 1)) % Capacity = IF 0 + (i - 1) < Capacity THEN 0 + (i - 1)
                                       ELSE 0 + (i - 1) - Capacity
        BY <4>1, PlaceInRing
      <4>3. i - 1 \in Slots
        BY <1>0, <4>1 DEF Slots
      <4> QED
        BY <4>1, <4>2, <4>3
    <3>3. Slot = len
      <4>1. (len + 1) - 1 = len /\ len + 1 \in 1 .. len + 1 /\ 0 + len = start + len
        BY <1>0, <3>1
      <4> QED
        BY <2>1, <3>2, <4>1 DEF Slot
    <3>4. ASSUME NEW i \in 1 .. len + 1 PROVE Retained'[i] = longer[i]
      <4>1. Retained'[i] = records'[i - 1] /\ i - 1 \in Slots
        BY <1>2, <3>1, <3>2
      <4>2. CASE i = len + 1
        <5>1. i - 1 = Slot
          BY <1>0, <3>3, <4>2
        <5> QED
          BY <1>0, <1>3, <1>5, <4>1, <4>2, <5>1
      <4>3. CASE i # len + 1
        <5>1. i \in 1 .. len /\ i - 1 # Slot
          BY <1>0, <3>3, <4>3
        <5>2. longer[i] = records[i - 1]
          BY <1>1, <1>5, <3>1, <3>2, <5>1
        <5> QED
          BY <1>0, <1>3, <4>1, <5>1, <5>2
      <4> QED
        BY <4>2, <4>3
    <3> HIDE DEF longer
    <3>5. Retained' \in Seq(S) /\ Len(Retained') = Len(longer)
      BY <1>2, <1>5, <3>1
    <3> QED
      BY <1>5, <3>1, <3>4, <3>5, SeqEqual
  <2>2. CASE len = Capacity
    <3>1. /\ len' = Capacity /\ start' = (start + 1) % Capacity /\ Slot = start
          /\ W!Newest(longer) = Tail(longer)
      BY <1>0, <1>3, <1>5, <2>2 DEF NextLen, NextStart, Slot, W!Newest
    <3>2. ASSUME NEW i \in 1 .. Capacity
          PROVE  /\ (start' + (i - 1)) % Capacity = (start + i) % Capacity
                 /\ (start + i) % Capacity \in Slots
                 /\ (start + i) % Capacity = start <=> i = Capacity
      <4>0. start \in Nat /\ start < Capacity /\ i \in Nat /\ i >= 1 /\ i <= Capacity
        BY <1>0 DEF Slots
      <4>1. /\ (start + i) % Capacity = IF start + i < Capacity THEN start + i ELSE start + i - Capacity
            /\ (start + i) % Capacity \in Slots
        <5>1. i \in 0 .. Capacity
          BY <4>0
        <5> QED
          BY <1>0, <5>1, PlaceInRing
      <4>2. start' = IF start + 1 < Capacity THEN start + 1 ELSE start + 1 - Capacity
        <5>1. 1 \in 0 .. Capacity
          BY <1>0
        <5> QED
          BY <1>0, <3>1, <5>1, PlaceInRing
      <4>3. (start' + (i - 1)) % Capacity = IF start' + (i - 1) < Capacity THEN start' + (i - 1)
                                            ELSE start' + (i - 1) - Capacity
        <5>1. i - 1 \in 0 .. Capacity /\ start' \in Slots
          BY <1>0, <4>0 DEF RingInv
        <5> QED
          BY <5>1, PlaceInRing
      <4> QED
        BY <1>0, <4>0, <4>1, <4>2, <4>3
    <3>3. /\ Tail(longer) \in Seq(S) /\ Len(Tail(longer)) = Capacity
          /\ \A i \in 1 .. Capacity : Tail(longer)[i] = longer[i + 1]
      <4> HIDE DEF longer
      <4>1. longer # <<>>
        BY <1>0, <1>5
      <4> QED
        BY <1>0, <1>5, <2>2, <4>1
    <3>4. ASSUME NEW i \in 1 .. Capacity PROVE Retained'[i] = Tail(longer)[i]
      <4>1. /\ Retained'[i] = records'[(start + i) % Capacity]
            /\ (start + i) % Capacity \in Slots
        BY <1>2, <3>1, <3>2
      <4>2. CASE i = Capacity
        BY <1>0, <1>3, <1>5, <2>2, <3>1, <3>2, <3>3, <4>1, <4>2
      <4>3. CASE i # Capacity
        <5>1. i + 1 \in 1 .. len /\ (i + 1) - 1 = i
          BY <1>0, <2>2, <4>3
        <5>2. longer[i + 1] = records[(start + i) % Capacity]
          BY <1>1, <1>5, <5>1
        <5>3. (start + i) % Capacity # Slot
          BY <3>1, <3>2, <4>3
        <5> QED
          BY <1>0, <1>3, <3>3, <4>1, <5>2, <5>3
      <4> QED
        BY <4>2, <4>3
    <3> HIDE DEF longer
    <3>5. Retained' \in Seq(S) /\ Len(Retained') = Len(Tail(longer)) /\ Len(Retained') = Capacity
      BY <1>2, <3>1, <3>3
    <3> QED
      BY <3>1, <3>3, <3>4, <3>5, SeqEqual
  <2> QED
    BY <1>0, <2>1, <2>2
<1> QED
  BY <1>4, <1>6 DEF W!Write, rec

-----------------------------------------------------------------------------
(* What the ground hears *)

(* The log numbers its records; the counter saturates, the chain does not. *)
LogInv ==
  /\ log \in Seq(W!JournalRecord)
  /\ Len(log) = chain
  /\ nextSequence = IF chain < MaxSequence THEN chain + 1 ELSE MaxSequence
  /\ \A k \in 1 .. chain :
       /\ log[k].prior = k - 1 /\ log[k].chain = k
       /\ k <= MaxSequence => log[k].sequence = k

(* The ring holds the newest part of the log.                              *)
NewestInv ==
  /\ len <= chain
  /\ \A i \in 1 .. len : Retained[i] = log[(chain - len) + i]

(* The ground has heard records of the log, in order, and the whole of the *)
(* retained part up to the last one it knows.                              *)
HeardInv ==
  Numbered =>
    /\ heard \in Seq(W!JournalRecord)
    /\ \A j \in 1 .. Len(heard) :
         heard[j].chain \in 1 .. chain /\ heard[j] = log[heard[j].chain]
    /\ \A j \in 2 .. Len(heard) : heard[j - 1].chain < heard[j].chain
    /\ \A k \in 1 .. chain :
         k > chain - len /\ k <= Known => \E j \in 1 .. Len(heard) : heard[j] = log[k]

JournalInv == RingInv /\ LogInv /\ NewestInv /\ HeardInv

(* What Retained looks like in either state.                               *)
LEMMA RetainedType ==
  ASSUME RingInv
  PROVE  Retained \in Seq(W!JournalRecord \cup {Blank}) /\ Len(Retained) = len
<1> DEFINE S == W!JournalRecord \cup {Blank}
<1>1. records \in [Slots -> S] /\ start \in Slots /\ len \in 0 .. Capacity
  BY DEF RingInv
<1>2. Retained = Kept(records, start, len)
  BY DEF Retained, Kept
<1> HIDE DEF S
<1>3. Retained \in Seq(S) /\ Len(Retained) = len
  BY <1>1, <1>2, RingIsSequence
<1> QED
  BY <1>3 DEF S

(* The m records of a sequence that follow place p.                        *)
Copy(s, p, m) == [k \in 1 .. m |-> s[p + k]]

Smaller(a, b) == IF a < b THEN a ELSE b

(* How many numbers follow p up to i.                                      *)
LEMMA CountAfter ==
  ASSUME NEW p \in Nat, NEW i \in Nat, p <= i
  PROVE  Cardinality(p + 1 .. i) = i - p
<1>1. p + 1 \in Int /\ i \in Int
  OBVIOUS
<1>2. Cardinality(p + 1 .. i) = IF p + 1 > i THEN 0 ELSE i - (p + 1) + 1
  BY <1>1, FS_Interval
<1> QED
  BY <1>2

(* Counting the later records: when they are the ones after place p, the   *)
(* output is a copy of the records that follow p.                          *)
LEMMA AfterIsACopy ==
  ASSUME NEW s, NEW n \in Nat, NEW p \in 0 .. n, NEW sequence, NEW room \in Nat,
         DOMAIN s = 1 .. n,
         \A i \in 1 .. n : s[i].sequence > sequence <=> i > p
  PROVE  W!After(s, sequence, room) = Copy(s, p, Smaller(n - p, room))
<1> DEFINE later == {i \in DOMAIN s : s[i].sequence > sequence}
           Written(i) == Cardinality({j \in later : j <= i})
           Place(k) == CHOOSE i \in later : Written(i) = k
           count == Cardinality(later)
           m == Smaller(n - p, room)
<1>0. p \in Nat /\ p <= n
  OBVIOUS
<1>1. later = p + 1 .. n
  <2>1. \A i : i \in later <=> i \in 1 .. n /\ i > p
    OBVIOUS
  <2>2. \A i : i \in p + 1 .. n <=> i \in 1 .. n /\ i > p
    BY <1>0
  <2> HIDE DEF later
  <2> QED
    BY <2>1, <2>2
<1>2. count = n - p
  BY <1>0, <1>1, CountAfter
<1>3. ASSUME NEW i \in later PROVE Written(i) = i - p
  <2>0. i \in Nat /\ p + 1 <= i /\ i <= n /\ p <= i
    BY <1>0, <1>1
  <2>1. {j \in later : j <= i} = p + 1 .. i
    <3>1. \A j : j \in p + 1 .. i <=> j \in p + 1 .. n /\ j <= i
      BY <1>0, <2>0
    <3> HIDE DEF later
    <3> QED
      BY <1>1, <3>1
  <2> QED
    BY <1>0, <2>0, <2>1, CountAfter
<1>4. ASSUME NEW k \in 1 .. m PROVE Place(k) = p + k
  <2>0. m \in Nat /\ m <= n - p
    BY <1>0 DEF Smaller
  <2>1. p + k \in later /\ (p + k) - p = k
    <3> HIDE DEF m, later
    <3> QED
      BY <1>0, <1>1, <2>0
  <2>2. Written(p + k) = k
    BY <1>3, <2>1
  <2>3. \A i \in later : Written(i) = k => i = p + k
    <3> HIDE DEF later, Written, m
    <3> QED
      BY <1>0, <1>1, <1>3, <2>0
  <2> HIDE DEF later, Written
  <2> QED
    BY <2>1, <2>2, <2>3
<1>5. W!After(s, sequence, room) = [k \in 1 .. Smaller(count, room) |-> s[Place(k)]]
  <2>1. \A T : W!Cardinality(T) = Cardinality(T)
    BY Zenon DEF W!Cardinality, Cardinality
  <2> DEFINE WPlace(k) == CHOOSE i \in later : W!Cardinality({j \in later : j <= i}) = k
             wcount == W!Cardinality(later)
  <2>2. W!After(s, sequence, room) =
          [k \in 1 .. IF wcount < room THEN wcount ELSE room |-> s[WPlace(k)]]
    BY DEF W!After
  <2>3. wcount = count
    BY <2>1
  <2>4. ASSUME NEW k PROVE WPlace(k) = Place(k)
    <3>1. \A i : W!Cardinality({j \in later : j <= i}) = Written(i)
      BY <2>1
    <3> HIDE DEF Written, later
    <3> QED
      BY <3>1
  <2> HIDE DEF wcount, WPlace, Place, count
  <2> QED
    BY <2>2, <2>3, <2>4 DEF Smaller
<1>6. Smaller(count, room) = m
  BY <1>2
<1> HIDE DEF count, Place, m
<1>7. W!After(s, sequence, room) = [k \in 1 .. m |-> s[p + k]]
  BY <1>4, <1>5, <1>6
<1> QED
  BY <1>7 DEF Copy, m

(* The last known number is that of the last record heard.                 *)
LEMMA KnownFacts ==
  ASSUME JournalInv, Numbered
  PROVE  /\ chain \in Nat /\ len \in Nat /\ Len(heard) \in Nat
         /\ Known \in 0 .. chain
         /\ heard = <<>> => Known = 0
         /\ heard # <<>> => Known = heard[Len(heard)].chain
         /\ \A k \in 1 .. chain : log[k].sequence = k
<1>1. chain \in Nat /\ len \in Nat /\ MaxSequence \in Nat /\ chain <= MaxSequence
  BY CapacityAssumption DEF JournalInv, RingInv, LogInv, Numbered
<1>2. \A k \in 1 .. chain : log[k].sequence = k /\ log[k].chain = k
  BY <1>1 DEF JournalInv, LogInv
<1>3. heard \in Seq(W!JournalRecord) /\ Len(heard) \in Nat
  BY DEF JournalInv, HeardInv
<1>4. ASSUME heard # <<>>
      PROVE  Known = heard[Len(heard)].chain /\ Known \in 1 .. chain
  <2>1. Len(heard) \in 1 .. Len(heard)
    BY <1>3, <1>4
  <2>2. heard[Len(heard)].chain \in 1 .. chain /\ heard[Len(heard)] = log[heard[Len(heard)].chain]
    BY <2>1 DEF JournalInv, HeardInv
  <2> QED
    BY <1>2, <1>4, <2>2 DEF Known
<1>5. heard = <<>> => Known = 0
  BY DEF Known
<1> QED
  BY <1>1, <1>2, <1>3, <1>4, <1>5

(* Where a read of the numbered log resumes: after the last known record,  *)
(* or after the last overwritten one if that is later.                     *)
Resume == IF Known > chain - len THEN Known ELSE chain - len

(* A read copies the log from there on.                                    *)
LEMMA ReadContinues ==
  ASSUME JournalInv, Numbered, NEW n \in Nat
  PROVE  /\ Resume \in Nat /\ Resume <= chain /\ Resume >= Known /\ Resume >= chain - len
         /\ recover_after(Known, n) = Copy(log, Resume, Smaller(chain - Resume, n))
<1> DEFINE p == Resume - (chain - len)
           m == Smaller(chain - Resume, n)
<1>0. /\ chain \in Nat /\ len \in Nat /\ len <= chain /\ Known \in Nat /\ Known <= chain
      /\ \A k \in 1 .. chain : log[k].sequence = k
      /\ \A i \in 1 .. len : Retained[i] = log[(chain - len) + i]
  BY KnownFacts DEF JournalInv, NewestInv
<1>1. /\ Resume \in Nat /\ Resume <= chain /\ Resume >= Known /\ Resume >= chain - len
      /\ Resume = Known \/ (Resume = chain - len)
      /\ p \in 0 .. len /\ len - p = chain - Resume
  BY <1>0 DEF Resume
<1>2. DOMAIN Retained = 1 .. len
  BY DEF Retained
<1>3. ASSUME NEW i \in 1 .. len PROVE Retained[i].sequence > Known <=> i > p
  <2>1. (chain - len) + i \in 1 .. chain
    BY <1>0
  <2>2. Retained[i].sequence = (chain - len) + i
    BY <1>0, <2>1
  <2> QED
    BY <1>0, <1>1, <2>2
<1> HIDE DEF p
<1>4. recover_after(Known, n) = Copy(Retained, p, Smaller(len - p, n))
  BY <1>0, <1>1, <1>2, <1>3, AfterIsACopy DEF recover_after
<1>5. recover_after(Known, n) = Copy(Retained, p, m)
  BY <1>1, <1>4
<1>6. ASSUME NEW k \in 1 .. m PROVE Retained[p + k] = log[Resume + k]
  <2>1. m \in Nat /\ m <= len - p
    BY <1>0, <1>1 DEF Smaller
  <2> HIDE DEF m
  <2>2. p + k \in 1 .. len /\ (chain - len) + (p + k) = Resume + k
    BY <1>0, <1>1, <2>1 DEF p
  <2> QED
    BY <1>0, <2>2
<1> HIDE DEF m
<1>7. Copy(Retained, p, m) = Copy(log, Resume, m)
  BY <1>6 DEF Copy
<1> QED
  BY <1>1, <1>5, <1>7 DEF m

(* An append adds its record to the log and leaves what was heard alone.   *)
LEMMA AppendStep ==
  ASSUME JournalInv, NEW e \in Entries, append(e)
  PROVE  JournalInv'
<1> DEFINE rec == W!NextRecord(e)
           S == W!JournalRecord \cup {Blank}
           longer == Append(Retained, rec)
<1>0. /\ RingInv' /\ rec \in W!JournalRecord
      /\ Capacity \in Nat \ {0} /\ MaxSequence \in Nat \ {0}
      /\ chain \in Nat /\ len \in Nat /\ len <= Capacity /\ len <= chain
      /\ log \in Seq(W!JournalRecord) /\ Len(log) = chain
  BY CapacityAssumption, AppendKeepsRing DEF JournalInv, RingInv, LogInv, NewestInv
<1>1. /\ chain' = chain + 1 /\ log' = Append(log, rec) /\ heard' = heard
      /\ len' = IF len < Capacity THEN len + 1 ELSE len
      /\ nextSequence' = IF nextSequence = MaxSequence THEN nextSequence ELSE nextSequence + 1
  BY DEF append, NextLen
<1>2. rec.sequence = nextSequence /\ rec.prior = chain /\ rec.chain = chain + 1
  BY DEF W!NextRecord
<1>3. Retained' = W!Newest(longer)
  <2>1. W!Write(e)
    BY AppendIsWrite DEF JournalInv
  <2> QED
    BY <2>1 DEF W!Write
<1> HIDE DEF rec
<1>4. /\ log' \in Seq(W!JournalRecord) /\ Len(log') = chain + 1
      /\ \A k \in 1 .. chain : log'[k] = log[k]
      /\ log'[chain + 1] = rec
  BY <1>0, <1>1
<1>5. LogInv'
  <2>1. nextSequence' = IF chain' < MaxSequence THEN chain' + 1 ELSE MaxSequence
    BY <1>0, <1>1 DEF JournalInv, LogInv
  <2>2. ASSUME NEW k \in 1 .. chain'
        PROVE  /\ log'[k].prior = k - 1 /\ log'[k].chain = k
               /\ k <= MaxSequence => log'[k].sequence = k
    <3>1. CASE k = chain + 1
      BY <1>0, <1>2, <1>4, <3>1 DEF JournalInv, LogInv
    <3>2. CASE k # chain + 1
      <4>1. k \in 1 .. chain
        BY <1>0, <1>1, <3>2
      <4> QED
        BY <1>4, <4>1 DEF JournalInv, LogInv
    <3> QED
      BY <3>1, <3>2
  <2> QED
    BY <1>1, <1>4, <2>1, <2>2 DEF LogInv
<1>6. NewestInv'
  <2>0. /\ Retained \in Seq(S) /\ Len(Retained) = len /\ rec \in S
    BY <1>0, RetainedType DEF JournalInv
  <2> HIDE DEF S
  <2>1. /\ longer \in Seq(S) /\ Len(longer) = len + 1
        /\ \A i \in 1 .. len : longer[i] = Retained[i]
        /\ longer[len + 1] = rec
    BY <1>0, <2>0
  <2> HIDE DEF longer
  <2>2. ASSUME NEW i \in 1 .. len + 1 PROVE longer[i] = log'[(chain - len) + i]
    <3>1. CASE i = len + 1
      <4>1. (chain - len) + i = chain + 1
        BY <1>0, <3>1
      <4> QED
        BY <1>4, <2>1, <3>1, <4>1
    <3>2. CASE i # len + 1
      <4>1. i \in 1 .. len /\ (chain - len) + i \in 1 .. chain
        BY <1>0, <3>2
      <4> QED
        BY <1>4, <2>1, <4>1 DEF JournalInv, NewestInv
    <3> QED
      BY <3>1, <3>2
  <2>3. CASE len < Capacity
    <3>1. /\ len' = len + 1 /\ Retained' = longer /\ chain' - len' = chain - len
          /\ len' <= chain'
      BY <1>0, <1>1, <1>3, <2>1, <2>3 DEF W!Newest
    <3> QED
      BY <2>2, <3>1 DEF NewestInv
  <2>4. CASE len = Capacity
    <3>1. /\ len' = len /\ Retained' = Tail(longer) /\ chain' - len' = (chain - len) + 1
          /\ len' <= chain'
      BY <1>0, <1>1, <1>3, <2>1, <2>4 DEF W!Newest
    <3>2. \A i \in 1 .. len : Tail(longer)[i] = longer[i + 1]
      <4>1. longer # <<>>
        BY <1>0, <2>1
      <4> QED
        BY <1>0, <2>1, <4>1
    <3>3. ASSUME NEW i \in 1 .. len' PROVE Retained'[i] = log'[(chain' - len') + i]
      <4>1. i + 1 \in 1 .. len + 1 /\ (chain - len) + (i + 1) = (chain' - len') + i /\ i \in 1 .. len
        BY <1>0, <3>1
      <4> QED
        BY <2>2, <3>1, <3>2, <4>1
    <3> QED
      BY <3>1, <3>3 DEF NewestInv
  <2> QED
    BY <1>0, <2>3, <2>4
<1>7. HeardInv'
  <2> SUFFICES ASSUME Numbered'
               PROVE  /\ heard' \in Seq(W!JournalRecord)
                      /\ \A j \in 1 .. Len(heard') :
                           heard'[j].chain \in 1 .. chain' /\ heard'[j] = log'[heard'[j].chain]
                      /\ \A j \in 2 .. Len(heard') : heard'[j - 1].chain < heard'[j].chain
                      /\ \A k \in 1 .. chain' :
                           k > chain' - len' /\ k <= Known'
                             => \E j \in 1 .. Len(heard') : heard'[j] = log'[k]
    BY DEF HeardInv
  <2>1. Numbered
    BY <1>0, <1>4 DEF Numbered
  <2>2. Known' = Known /\ Known \in 0 .. chain
    BY <1>1, <2>1, KnownFacts DEF Known
  <2>3. /\ heard \in Seq(W!JournalRecord)
        /\ \A j \in 1 .. Len(heard) :
             heard[j].chain \in 1 .. chain /\ heard[j] = log[heard[j].chain]
        /\ \A j \in 2 .. Len(heard) : heard[j - 1].chain < heard[j].chain
        /\ \A k \in 1 .. chain :
             k > chain - len /\ k <= Known => \E j \in 1 .. Len(heard) : heard[j] = log[k]
    BY <2>1 DEF JournalInv, HeardInv
  <2>4. ASSUME NEW j \in 1 .. Len(heard)
        PROVE  heard[j].chain \in 1 .. chain' /\ heard[j] = log'[heard[j].chain]
    <3>1. heard[j].chain \in 1 .. chain /\ heard[j] = log[heard[j].chain]
      BY <2>3
    <3>2. 1 .. chain \subseteq 1 .. chain'
      BY <1>0, <1>1
    <3> QED
      BY <1>4, <3>1, <3>2
  <2>5. ASSUME NEW k \in 1 .. chain', k > chain' - len', k <= Known
        PROVE  \E j \in 1 .. Len(heard) : heard[j] = log'[k]
    <3>1. k \in 1 .. chain /\ k > chain - len
      BY <1>0, <1>1, <2>2, <2>5
    <3> QED
      BY <1>4, <2>3, <2>5, <3>1
  <2> QED
    BY <1>1, <2>2, <2>3, <2>4, <2>5
<1> QED
  BY <1>0, <1>5, <1>6, <1>7 DEF JournalInv

(* A read adds the records it copies to what was heard.                    *)
LEMMA ReadStep ==
  ASSUME JournalInv, NEW n \in Buffers, Read(n)
  PROVE  JournalInv'
<1> DEFINE m == Smaller(chain - Resume, n)
           copy == Copy(log, Resume, m)
           h == Len(heard)
<1>0. n \in Nat /\ UNCHANGED <<records, start, len, nextSequence, chain, log>>
  BY BufferAssumption DEF Read
<1>1. RingInv' /\ LogInv' /\ NewestInv'
  BY <1>0 DEF JournalInv, RingInv, LogInv, NewestInv, Retained
<1>2. HeardInv'
  <2> SUFFICES ASSUME Numbered'
               PROVE  /\ heard' \in Seq(W!JournalRecord)
                      /\ \A j \in 1 .. Len(heard') :
                           heard'[j].chain \in 1 .. chain' /\ heard'[j] = log'[heard'[j].chain]
                      /\ \A j \in 2 .. Len(heard') : heard'[j - 1].chain < heard'[j].chain
                      /\ \A k \in 1 .. chain' :
                           k > chain' - len' /\ k <= Known'
                             => \E j \in 1 .. Len(heard') : heard'[j] = log'[k]
    BY DEF HeardInv
  <2>1. Numbered
    BY <1>0 DEF Numbered
  <2>2. /\ chain \in Nat /\ len \in Nat /\ len <= chain /\ h \in Nat
        /\ Known \in Nat /\ Known <= chain
        /\ heard = <<>> => Known = 0
        /\ heard # <<>> => Known = heard[h].chain
        /\ log \in Seq(W!JournalRecord) /\ Len(log) = chain
        /\ \A k \in 1 .. chain : log[k].sequence = k /\ log[k].chain = k
    BY <2>1, KnownFacts DEF JournalInv, NewestInv, LogInv
  <2>3. /\ heard \in Seq(W!JournalRecord)
        /\ \A j \in 1 .. h :
             heard[j].chain \in 1 .. chain /\ heard[j] = log[heard[j].chain]
        /\ \A j \in 2 .. h : heard[j - 1].chain < heard[j].chain
        /\ \A k \in 1 .. chain :
             k > chain - len /\ k <= Known => \E j \in 1 .. h : heard[j] = log[k]
    BY <2>1 DEF JournalInv, HeardInv
  <2>4. /\ Resume \in Nat /\ Resume <= chain /\ Resume >= Known /\ Resume >= chain - len
        /\ Resume = Known \/ Resume = chain - len
        /\ heard' = heard \o copy
    <3>1. heard' = heard \o recover_after(Known, n)
      BY DEF Read
    <3> QED
      BY <1>0, <2>1, <3>1, ReadContinues DEF Resume
  <2>5. m \in Nat /\ m <= chain - Resume
    BY <1>0, <2>2, <2>4 DEF Smaller
  <2> HIDE DEF m
  <2>6. /\ copy \in Seq(W!JournalRecord) /\ Len(copy) = m
        /\ \A k \in 1 .. m : copy[k] = log[Resume + k]
    <3>1. \A k \in 1 .. m : Resume + k \in 1 .. chain
      BY <2>2, <2>4, <2>5
    <3>2. \A k \in 1 .. m : log[Resume + k] \in W!JournalRecord
      BY <2>2, <3>1
    <3> QED
      BY <2>5, <3>2 DEF Copy
  <2> HIDE DEF copy
  <2>7. /\ heard' \in Seq(W!JournalRecord) /\ Len(heard') = h + m
        /\ \A j \in 1 .. h : heard'[j] = heard[j]
        /\ \A k \in 1 .. m : heard'[h + k] = log[Resume + k]
    <3>1. /\ heard' \in Seq(W!JournalRecord) /\ Len(heard') = h + m
          /\ \A j \in 1 .. h + m : heard'[j] = IF j <= h THEN heard[j] ELSE copy[j - h]
      <4> DEFINE R == W!JournalRecord
      <4>1. heard \in Seq(R) /\ copy \in Seq(R)
        BY <2>3, <2>6
      <4> HIDE DEF R, h
      <4>2. /\ heard \o copy \in Seq(R) /\ Len(heard \o copy) = Len(heard) + Len(copy)
            /\ \A j \in 1 .. Len(heard) + Len(copy) :
                 (heard \o copy)[j] = IF j <= Len(heard) THEN heard[j] ELSE copy[j - Len(heard)]
        BY <4>1, ConcatProperties
      <4> QED
        BY <2>4, <2>6, <4>2 DEF h, R
    <3>2. ASSUME NEW j \in 1 .. h PROVE heard'[j] = heard[j]
      BY <2>2, <2>5, <3>1
    <3>3. ASSUME NEW k \in 1 .. m PROVE heard'[h + k] = log[Resume + k]
      <4>1. h + k \in 1 .. h + m /\ ~(h + k <= h) /\ (h + k) - h = k
        BY <2>2, <2>5
      <4> QED
        BY <2>6, <3>1, <4>1
    <3> QED
      BY <3>1, <3>2, <3>3
  <2>8. \A k \in 1 .. m : /\ Resume + k \in 1 .. chain
                          /\ heard'[h + k].chain = Resume + k
                          /\ heard'[h + k].sequence = Resume + k
    <3> SUFFICES ASSUME NEW k \in 1 .. m
                 PROVE  /\ Resume + k \in 1 .. chain
                        /\ heard'[h + k].chain = Resume + k
                        /\ heard'[h + k].sequence = Resume + k
      OBVIOUS
    <3>1. Resume + k \in 1 .. chain
      BY <2>2, <2>4, <2>5
    <3> QED
      BY <2>2, <2>7, <3>1
  <2>9. \A j \in 1 .. h + m : j \in 1 .. h \/ (j - h \in 1 .. m /\ j = h + (j - h))
    BY <2>2, <2>5
  <2>10. ASSUME NEW j \in 1 .. h + m
         PROVE  heard'[j].chain \in 1 .. chain /\ heard'[j] = log[heard'[j].chain]
    <3>1. CASE j \in 1 .. h
      BY <2>3, <2>7, <3>1
    <3>2. CASE j - h \in 1 .. m /\ j = h + (j - h)
      BY <2>7, <2>8, <3>2
    <3> QED
      BY <2>9, <3>1, <3>2
  <2>11. ASSUME NEW j \in 2 .. h + m PROVE heard'[j - 1].chain < heard'[j].chain
    <3>1. CASE j \in 2 .. h
      <4>1. j \in 1 .. h /\ j - 1 \in 1 .. h
        BY <2>2, <3>1
      <4> QED
        BY <2>3, <2>7, <3>1, <4>1
    <3>2. CASE j = h + 1
      <4>1. h \in 1 .. h /\ j - 1 = h /\ 1 \in 1 .. m /\ heard # <<>>
        BY <2>2, <2>3, <2>5, <3>2
      <4>2. heard'[j - 1].chain = Known /\ heard'[j].chain = Resume + 1
        BY <2>2, <2>7, <2>8, <3>2, <4>1
      <4> QED
        BY <2>2, <2>4, <4>2
    <3>3. CASE j > h + 1
      <4>1. /\ j - h \in 1 .. m /\ j = h + (j - h)
            /\ (j - 1) - h \in 1 .. m /\ j - 1 = h + ((j - 1) - h)
        BY <2>2, <2>5, <3>3
      <4>2. /\ heard'[j].chain = Resume + (j - h)
            /\ heard'[j - 1].chain = Resume + ((j - 1) - h)
        BY <2>8, <4>1
      <4> QED
        BY <2>2, <2>4, <4>2
    <3> QED
      BY <2>2, <2>5, <3>1, <3>2, <3>3
  <2>12. ASSUME NEW k \in 1 .. chain, k > chain - len, k <= Known'
         PROVE  \E j \in 1 .. h + m : heard'[j] = log[k]
    <3>1. CASE k <= Known
      <4>1. PICK j \in 1 .. h : heard[j] = log[k]
        BY <2>3, <2>12, <3>1
      <4>2. j \in 1 .. h + m
        BY <2>2, <2>5
      <4> QED
        BY <2>7, <4>1, <4>2
    <3>2. CASE k > Known
      <4>1. m # 0
        <5> SUFFICES ASSUME m = 0 PROVE FALSE
          OBVIOUS
        <5>1. Len(heard') = Len(heard) /\ \A j \in 1 .. Len(heard') : heard'[j] = heard[j]
          BY <2>2, <2>7
        <5>2. heard' = heard
          BY <2>3, <2>7, <5>1, SeqEqual
        <5>3. Known' = Known
          BY <5>2 DEF Known
        <5> QED
          BY <2>2, <2>12, <3>2, <5>3
      <4>2. Known' = Resume + m
        <5>1. m \in 1 .. m /\ h + m # 0
          BY <2>2, <2>5, <4>1
        <5>2. heard' # <<>>
          BY <2>7, <5>1
        <5> QED
          BY <2>7, <2>8, <5>1, <5>2 DEF Known
      <4>3. k - Resume \in 1 .. m /\ Resume + (k - Resume) = k /\ h + (k - Resume) \in 1 .. h + m
        BY <2>2, <2>4, <2>5, <2>12, <3>2, <4>2
      <4> QED
        BY <2>7, <4>3
    <3> QED
      BY <2>2, <3>1, <3>2
  <2> QED
    BY <1>0, <2>7, <2>10, <2>11, <2>12
<1> QED
  BY <1>1, <1>2 DEF JournalInv

-----------------------------------------------------------------------------
(* The invariant and what follows from it *)

(* The ring, the log and what the ground heard agree in every reachable    *)
(* state, whatever the interleaving of appends and reads.                  *)
THEOREM JournalInvariance == Spec => []JournalInv
<1>1. Init => JournalInv
  <2> SUFFICES ASSUME Init PROVE JournalInv
    OBVIOUS
  <2>0. Capacity \in Nat \ {0} /\ MaxSequence \in Nat \ {0}
    BY CapacityAssumption
  <2>1. RingInv
    BY <2>0 DEF Init, RingInv, Slots
  <2>2. LogInv
    BY <2>0 DEF Init, LogInv
  <2>3. NewestInv
    BY DEF Init, NewestInv
  <2>4. HeardInv
    BY DEF Init, HeardInv
  <2> QED
    BY <2>1, <2>2, <2>3, <2>4 DEF JournalInv
<1>2. JournalInv /\ [Next]_vars => JournalInv'
  <2> SUFFICES ASSUME JournalInv, [Next]_vars PROVE JournalInv'
    OBVIOUS
  <2>1. ASSUME NEW e \in Entries, append(e) PROVE JournalInv'
    BY <2>1, AppendStep
  <2>2. ASSUME NEW n \in Buffers, Read(n) PROVE JournalInv'
    BY <2>2, ReadStep
  <2>3. CASE UNCHANGED vars
    BY <2>3 DEF vars, JournalInv, RingInv, LogInv, NewestInv, HeardInv, Retained, Known, Numbered
  <2> QED
    BY <2>1, <2>2, <2>3 DEF Next
<1> QED
  BY <1>1, <1>2, PTL DEF Spec

(* recover_after never hides a gap: what the ground has heard of a journal *)
(* whose counter has not saturated breaks the chain exactly where the      *)
(* sequence number jumps.                                                  *)
THEOREM GapsStayVisible == Spec => []GapsAreVisible
<1>1. JournalInv => GapsAreVisible
  <2> SUFFICES ASSUME JournalInv, Numbered, NEW i \in 2 .. Len(heard)
               PROVE  /\ heard[i].prior >= heard[i - 1].chain
                      /\ heard[i].prior = heard[i - 1].chain <=> heard[i].sequence = heard[i - 1].sequence + 1
    BY DEF GapsAreVisible
  <2>0. /\ Len(heard) \in Nat /\ chain \in Nat
        /\ \A k \in 1 .. chain : log[k].sequence = k /\ log[k].prior = k - 1
    BY KnownFacts DEF JournalInv, LogInv
  <2>1. i \in 1 .. Len(heard) /\ i - 1 \in 1 .. Len(heard)
    BY <2>0
  <2>2. /\ heard[i].chain \in 1 .. chain /\ heard[i] = log[heard[i].chain]
        /\ heard[i - 1].chain \in 1 .. chain /\ heard[i - 1] = log[heard[i - 1].chain]
        /\ heard[i - 1].chain < heard[i].chain
    BY <2>1 DEF JournalInv, HeardInv
  <2>3. /\ heard[i].sequence = heard[i].chain /\ heard[i].prior = heard[i].chain - 1
        /\ heard[i - 1].sequence = heard[i - 1].chain
    BY <2>0, <2>2
  <2> QED
    BY <2>0, <2>2, <2>3
<1> QED
  BY <1>1, JournalInvariance, PTL

(* recover_after fills its buffer oldest first: no record still in the     *)
(* ring lies before the last one heard without having been heard.          *)
THEOREM ReadsSkipOnlyOverwritten == Spec => []SkipsOnlyOverwritten
<1>1. JournalInv => SkipsOnlyOverwritten
  <2> SUFFICES ASSUME JournalInv, Numbered, NEW i \in 1 .. len, Retained[i].sequence <= Known
               PROVE  \E j \in 1 .. Len(heard) : heard[j] = Retained[i]
    BY DEF SkipsOnlyOverwritten
  <2> DEFINE k == (chain - len) + i
  <2>1. k \in 1 .. chain /\ k > chain - len
    BY KnownFacts DEF JournalInv, NewestInv
  <2>2. Retained[i] = log[k]
    BY DEF JournalInv, NewestInv
  <2> HIDE DEF k
  <2>3. log[k].sequence = k
    BY <2>1, KnownFacts
  <2> QED
    BY <2>1, <2>2, <2>3 DEF JournalInv, HeardInv
<1> QED
  BY <1>1, JournalInvariance, PTL

(* The ring of slots with its start index implements the log that keeps    *)
(* its newest Capacity records: an append is a write, a read changes       *)
(* nothing of it.                                                          *)
THEOREM RingImplementsWindow == Spec => WindowSpec
<1>1. Init => W!Init
  <2> SUFFICES ASSUME Init PROVE W!Init
    OBVIOUS
  <2>1. Retained = <<>>
    BY DEF Init, Retained
  <2> QED
    BY <2>1 DEF Init, W!Init
<1>2. JournalInv /\ [Next]_vars => [W!Next]_<<Retained, nextSequence, chain>>
  <2> SUFFICES ASSUME JournalInv, [Next]_vars
               PROVE  W!Next \/ UNCHANGED <<Retained, nextSequence, chain>>
    OBVIOUS
  <2>1. ASSUME NEW e \in Entries, append(e) PROVE W!Next
    BY <2>1, AppendIsWrite DEF JournalInv, W!Next
  <2>2. ASSUME NEW n \in Buffers, Read(n) PROVE UNCHANGED <<Retained, nextSequence, chain>>
    BY <2>2 DEF Read, Retained
  <2>3. CASE UNCHANGED vars
    BY <2>3 DEF vars, Retained
  <2> QED
    BY <2>1, <2>2, <2>3 DEF Next
<1> QED
  BY <1>1, <1>2, JournalInvariance, PTL DEF Spec, WindowSpec, W!Spec
=============================================================================
