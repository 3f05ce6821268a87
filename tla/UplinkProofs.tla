---------------------------- MODULE UplinkProofs ----------------------------
(***************************************************************************)
(* The uplink's guarantees for every set of loads and requests and every   *)
(* epoch width.  All of them rest on one inductive invariant, UplinkInv.   *)
(***************************************************************************)
EXTENDS Uplink, TLAPS

USE DEF Epochs, HistoryEvents

(* What holds of the load in the slot: it passed validate_stage's window,  *)
(* its identity is not the one last executed, and once committed its       *)
(* release is still to come.                                               *)
SlotInv ==
  Occupied =>
    /\ pending.effective = pending.load.effective
    /\ pending.load.notBefore <= pending.effective
    /\ pending.effective <= pending.load.expires
    /\ SatAdd(pending.load.stage, 2) <= pending.effective
    /\ pending.load.id # lastExecuted

CommitInv ==
  pending.state = "Committed" =>
    /\ epoch <= pending.effective
    /\ \E c \in Happened("committed") :
         c.load = pending.load /\ SatAdd(c.at, 2) <= pending.effective

(* last_executed_identity is the identity of a latest execution.           *)
LastInv ==
  /\ \A x \in Happened("executed") : x.at <= epoch
  /\ lastExecuted # 0 =>
       \E m \in Happened("executed") :
         m.load.id = lastExecuted /\ \A x \in Happened("executed") : x.at <= m.at
  /\ lastExecuted = 0 => Happened("executed") = {}

UplinkInv ==
  /\ TypeOK
  /\ SlotInv
  /\ CommitInv
  /\ ExecutesAsCommitted
  /\ LastInv
  /\ NoRepeatInSuccession
  /\ ReceiptsAreEarned

-----------------------------------------------------------------------------

(* The fields of a load that the proofs use: its identity is not the zero   *)
(* that stands for nothing executed, and its epochs are epochs.             *)
LEMMA LoadFacts ==
  ASSUME NEW l \in Loads
  PROVE  /\ l \in UplinkCommandLoad
         /\ l.id \in LoadIds /\ l.id # 0 /\ l.plan \in Plans
         /\ l.stage \in Epochs /\ l.notBefore \in Epochs
         /\ l.effective \in Epochs /\ l.expires \in Epochs
BY LoadAssumption, LoadIdAssumption DEF UplinkCommandLoad

(* The saturating sum is an epoch, never below its argument, and above it   *)
(* before the end of the range.                                             *)
LEMMA SatAddType ==
  ASSUME NEW e \in Epochs, NEW n \in Nat
  PROVE  /\ SatAdd(e, n) \in Epochs
         /\ e <= SatAdd(e, n)
         /\ SatAdd(e, n) <= e + n
         /\ e < MaxEpoch /\ n > 0 => e < SatAdd(e, n)
BY EpochAssumption DEF SatAdd

(* A receipt made from a load is a control record.                          *)
LEMMA ReceiptType ==
  ASSUME NEW kind \in UplinkControlKinds, NEW l \in Loads, NEW e \in Epochs,
         NEW state \in UplinkStates, NEW reason \in UplinkReasonCodes
  PROVE  /\ receipt(kind, l, e, state, reason) \in UplinkControlRecord
         /\ receipt(kind, l, e, state, reason).state = state
         /\ receipt(kind, l, e, state, reason).id = l.id
BY LoadFacts DEF receipt, UplinkControlRecord

(* Most messages change nothing but the reply: they keep UplinkInv as long  *)
(* as the reply is a control record and claims nothing that is not so.      *)
LEMMA ReplyOnly ==
  ASSUME UplinkInv, UNCHANGED <<pending, lastExecuted, epoch, history>>,
         reply' \in UplinkControlRecord \cup {Empty}, ReceiptsAreEarned'
  PROVE  UplinkInv'
BY DEF UplinkInv, TypeOK, SlotInv, CommitInv, ExecutesAsCommitted, LastInv,
       NoRepeatInSuccession, Happened, Occupied, SatAdd

(* A new manager satisfies the invariant.                                   *)
LEMMA InitInv == Init => UplinkInv
<1> SUFFICES ASSUME Init PROVE UplinkInv
  OBVIOUS
<1>1. TypeOK
  BY EpochAssumption DEF Init, TypeOK
<1>2. SlotInv /\ CommitInv /\ ReceiptsAreEarned
  BY DEF Init, SlotInv, CommitInv, ReceiptsAreEarned, Occupied, Empty
<1>3. ExecutesAsCommitted /\ LastInv /\ NoRepeatInSuccession
  BY DEF Init, ExecutesAsCommitted, LastInv, NoRepeatInSuccession, Happened
<1> QED
  BY <1>1, <1>2, <1>3 DEF UplinkInv

(* Staging keeps the invariant: only StageAccepted changes the slot, and    *)
(* validate_stage has then shown the two-release lead and the window.       *)
LEMMA StageStep ==
  ASSUME UplinkInv, NEW l \in Loads, NEW completed, NEW frame, NEW ok,
         stage(l, completed, frame, ok)
  PROVE  UplinkInv'
<1> USE LoadFacts
<1>0. TypeOK /\ epoch \in Epochs
  BY DEF UplinkInv, TypeOK
<1>1. CASE StageExecuted(l)
  <2>1. /\ reply' \in UplinkControlRecord
        /\ reply'.state = "Executed" /\ reply'.id = l.id
    BY <1>0, <1>1, ReceiptType DEF StageExecuted, StageReply, UplinkControlKinds,
       UplinkStates, UplinkReasonCodes
  <2>2. \E x \in Happened("executed") : x.load.id = l.id
    BY <1>1 DEF UplinkInv, LastInv, StageExecuted
  <2>3. ReceiptsAreEarned'
    BY <1>1, <2>1, <2>2 DEF ReceiptsAreEarned, StageExecuted, Happened
  <2> QED
    BY <1>1, <2>1, <2>3, ReplyOnly DEF StageExecuted
<1>2. CASE StageHeld(l)
  <2>1. pending \in PendingUplink
    BY <1>0, <1>2 DEF TypeOK, StageHeld, Holds, Occupied, Empty
  <2>2. /\ reply' \in UplinkControlRecord
        /\ reply'.state = pending.state /\ reply'.id = l.id
    <3>1. pending.effective \in Epochs /\ pending.state \in UplinkStates
      BY <2>1 DEF PendingUplink, UplinkStates
    <3>2. "StageReceipt" \in UplinkControlKinds /\ "Accepted" \in UplinkReasonCodes
      BY DEF UplinkControlKinds, UplinkReasonCodes
    <3> QED
      BY <1>2, <3>1, <3>2, ReceiptType DEF StageHeld, StageReply
  <2>3. pending.state # "Executed"
    BY <2>1 DEF PendingUplink
  <2>4. ReceiptsAreEarned'
    BY <1>2, <2>2, <2>3 DEF ReceiptsAreEarned, StageHeld, Holds, UplinkInv, CommitInv, Happened
  <2> QED
    BY <1>2, <2>2, <2>4, ReplyOnly DEF StageHeld
<1>3. CASE StageOccupied(l)
  <2>1. reply' \in UplinkControlRecord /\ reply'.state = "Rejected"
    BY <1>0, <1>3, ReceiptType DEF StageOccupied, StageReply, UplinkControlKinds,
       UplinkStates, UplinkReasonCodes
  <2>2. ReceiptsAreEarned'
    BY <2>1 DEF ReceiptsAreEarned
  <2> QED
    BY <1>3, <2>1, <2>2, ReplyOnly DEF StageOccupied
<1>4. CASE StageRejected(l, completed, frame, ok)
  <2>0. validate_stage(l, completed, frame, ok) \in UplinkReasonCodes
    BY DEF validate_stage, UplinkReasonCodes
  <2>1. reply' \in UplinkControlRecord /\ reply'.state = "Rejected"
    BY <1>0, <1>4, <2>0, ReceiptType DEF StageRejected, StageReply, UplinkControlKinds,
       UplinkStates
  <2>2. ReceiptsAreEarned'
    BY <2>1 DEF ReceiptsAreEarned
  <2> QED
    BY <1>4, <2>1, <2>2, ReplyOnly DEF StageRejected
<1>5. CASE StageAccepted(l, completed, frame, ok)
  <2>1. /\ lastExecuted # l.id
        /\ pending' = [load |-> l, state |-> "Staged", effective |-> l.effective]
        /\ reply' = receipt("StageReceipt", l, l.effective, "Staged", "Accepted")
        /\ UNCHANGED <<lastExecuted, epoch, history>>
    BY <1>5 DEF StageAccepted, StageReply
  <2>2. /\ l.stage = epoch
        /\ l.effective >= SatAdd(epoch, 2)
        /\ l.effective >= l.notBefore /\ l.effective <= l.expires
    BY <1>5 DEF StageAccepted, validate_stage, InWindow
  <2>3. reply' \in UplinkControlRecord /\ reply'.state = "Staged"
    <3>1. l.effective \in Epochs /\ "Staged" \in UplinkStates
      BY DEF UplinkStates
    <3>2. "StageReceipt" \in UplinkControlKinds /\ "Accepted" \in UplinkReasonCodes
      BY DEF UplinkControlKinds, UplinkReasonCodes
    <3> QED
      BY <2>1, <3>1, <3>2, ReceiptType
  <2>4. TypeOK'
    BY <1>0, <2>1, <2>3 DEF TypeOK, PendingUplink
  <2>5. SlotInv'
    BY <2>1, <2>2, <1>0 DEF SlotInv, SatAdd
  <2>6. CommitInv' /\ ReceiptsAreEarned'
    BY <2>1, <2>3 DEF CommitInv, ReceiptsAreEarned
  <2>7. ExecutesAsCommitted' /\ LastInv' /\ NoRepeatInSuccession'
    BY <2>1 DEF UplinkInv, ExecutesAsCommitted, LastInv, NoRepeatInSuccession, Happened, SatAdd
  <2> QED
    BY <2>4, <2>5, <2>6, <2>7 DEF UplinkInv
<1> QED
  BY <1>1, <1>2, <1>3, <1>4, <1>5 DEF stage

(* A commit request that claims no more than that its load is staged keeps *)
(* the invariant, whoever built it: CommitAccepted tests the window again  *)
(* with the epoch of the commit, which becomes the record CommitInv needs. *)
LEMMA CommitStep ==
  ASSUME UplinkInv, NEW r \in UplinkControlRecord, r.state = "Staged", commit(r)
  PROVE  UplinkInv'
<1>0. TypeOK /\ epoch \in Epochs /\ r.effective \in Epochs
  BY DEF UplinkInv, TypeOK, UplinkControlRecord
<1>v. /\ "CommitReceipt" \in UplinkControlKinds
      /\ "Rejected" \in UplinkStates /\ "Committed" \in UplinkStates
      /\ {"Identity", "Late", "Accepted"} \subseteq UplinkReasonCodes
  BY DEF UplinkControlKinds, UplinkStates, UplinkReasonCodes
<1>p. ASSUME Occupied
      PROVE  pending \in PendingUplink /\ pending.load \in Loads /\ pending.effective \in Epochs
  BY <1>0, <1>p DEF TypeOK, Occupied, Empty, PendingUplink
<1>1. CASE EchoRequest(r)
  <2>1. ReceiptsAreEarned'
    BY <1>1 DEF EchoRequest, ReceiptsAreEarned
  <2> QED
    BY <1>0, <1>1, <2>1, ReplyOnly DEF EchoRequest
<1>2. CASE CommitMismatch(r)
  <2>1. reply' \in UplinkControlRecord /\ reply'.state = "Rejected"
    BY <1>0, <1>v, <1>p, <1>2, ReceiptType DEF CommitMismatch, CommitReply
  <2>2. ReceiptsAreEarned'
    BY <2>1 DEF ReceiptsAreEarned
  <2> QED
    BY <1>2, <2>1, <2>2, ReplyOnly DEF CommitMismatch
<1>3. CASE CommitAgain(r)
  <2>1. /\ reply' \in UplinkControlRecord
        /\ reply'.state = "Committed" /\ reply'.id = pending.load.id
    BY <1>v, <1>p, <1>3, ReceiptType DEF CommitAgain, CommitReply
  <2>2. ReceiptsAreEarned'
    BY <1>3, <2>1 DEF ReceiptsAreEarned, CommitAgain, UplinkInv, CommitInv, Happened
  <2> QED
    BY <1>3, <2>1, <2>2, ReplyOnly DEF CommitAgain
<1>4. CASE CommitLate(r)
  <2>1. reply' \in UplinkControlRecord /\ reply'.state = "Rejected"
    BY <1>0, <1>v, <1>p, <1>4, ReceiptType DEF CommitLate, CommitReply
  <2>2. ReceiptsAreEarned'
    BY <2>1 DEF ReceiptsAreEarned
  <2> QED
    BY <1>4, <2>1, <2>2, ReplyOnly DEF CommitLate
<1>5. CASE CommitAccepted(r)
  <2> DEFINE new == Record("committed", pending.load, epoch)
  <2>1. /\ pending \in PendingUplink /\ pending.load \in Loads
        /\ pending' = [load |-> pending.load, state |-> "Committed", effective |-> r.effective]
        /\ history' = history \cup {new}
        /\ UNCHANGED <<lastExecuted, epoch>>
    BY <1>p, <1>5 DEF CommitAccepted, Note, PendingUplink
  <2>2. /\ r.effective = pending.load.effective
        /\ SatAdd(epoch, 2) <= r.effective
    BY <1>5 DEF CommitAccepted, InWindow
  <2>3. /\ reply' \in UplinkControlRecord
        /\ reply'.state = "Committed" /\ reply'.id = pending.load.id
    BY <1>0, <1>v, <1>p, <1>5, ReceiptType DEF CommitAccepted, CommitReply
  <2>4. /\ new \in [event : HistoryEvents, load : Loads, at : Epochs]
        /\ new.event = "committed" /\ new.load = pending.load /\ new.at = epoch
    BY <1>0, <2>1 DEF Record
  <2>5. /\ Happened("executed")' = Happened("executed")
        /\ Happened("committed")' = Happened("committed") \cup {new}
    BY <2>1, <2>4 DEF Happened
  <2>6. TypeOK'
    BY <1>0, <2>1, <2>3, <2>4 DEF TypeOK, PendingUplink
  <2>7. SlotInv'
    BY <1>5, <2>1, <2>2 DEF CommitAccepted, UplinkInv, SlotInv, Occupied, SatAdd
  <2>8. CommitInv'
    <3>1. SatAdd(epoch, 2) \in Epochs /\ epoch <= SatAdd(epoch, 2)
      BY <1>0, SatAddType
    <3>2. epoch <= r.effective
      BY <1>0, <2>2, <3>1
    <3>3. new \in Happened("committed")' /\ new.load = pending'.load
      BY <2>1, <2>4, <2>5
    <3>4. SatAdd(new.at, 2) <= pending'.effective
      BY <2>1, <2>2, <2>4
    <3>5. epoch' <= pending'.effective
      BY <2>1, <3>2
    <3> HIDE DEF new
    <3> QED
      BY <3>3, <3>4, <3>5 DEF CommitInv
  <2>9. ExecutesAsCommitted'
    BY <2>1, <2>5 DEF UplinkInv, ExecutesAsCommitted, SatAdd
  <2>10. LastInv' /\ NoRepeatInSuccession'
    BY <2>1, <2>5 DEF UplinkInv, LastInv, NoRepeatInSuccession
  <2>11. ReceiptsAreEarned'
    BY <2>3, <2>4, <2>5 DEF ReceiptsAreEarned
  <2> QED
    BY <2>6, <2>7, <2>8, <2>9, <2>10, <2>11 DEF UplinkInv
<1> QED
  BY <1>1, <1>2, <1>3, <1>4, <1>5 DEF commit

(* A cancellation keeps the invariant: it only empties the slot.            *)
LEMMA CancelStep ==
  ASSUME UplinkInv, NEW r \in UplinkControlRecord, r.state = "Staged", cancel(r)
  PROVE  UplinkInv'
<1>0. TypeOK /\ epoch \in Epochs
  BY DEF UplinkInv, TypeOK
<1>v. /\ "Cancellation" \in UplinkControlKinds
      /\ "Rejected" \in UplinkStates /\ "Cancelled" \in UplinkStates
      /\ {"Identity", "Accepted"} \subseteq UplinkReasonCodes
  BY DEF UplinkControlKinds, UplinkStates, UplinkReasonCodes
<1>p. ASSUME Occupied PROVE pending.load \in Loads
  BY <1>0, <1>p DEF TypeOK, Occupied, Empty, PendingUplink
<1>1. CASE EchoRequest(r)
  <2>1. ReceiptsAreEarned'
    BY <1>1 DEF EchoRequest, ReceiptsAreEarned
  <2> QED
    BY <1>0, <1>1, <2>1, ReplyOnly DEF EchoRequest
<1>2. CASE CancelMismatch(r)
  <2>1. reply' \in UplinkControlRecord /\ reply'.state = "Rejected"
    BY <1>0, <1>v, <1>p, <1>2, ReceiptType DEF CancelMismatch
  <2>2. ReceiptsAreEarned'
    BY <2>1 DEF ReceiptsAreEarned
  <2> QED
    BY <1>2, <2>1, <2>2, ReplyOnly DEF CancelMismatch
<1>3. CASE CancelAccepted(r)
  <2>1. reply' \in UplinkControlRecord /\ reply'.state = "Cancelled"
    BY <1>0, <1>v, <1>p, <1>3, ReceiptType DEF CancelAccepted, CancelReceipt
  <2>2. pending' = Empty /\ UNCHANGED <<lastExecuted, epoch, history>>
    BY <1>3 DEF CancelAccepted
  <2>3. TypeOK'
    BY <1>0, <2>1, <2>2 DEF TypeOK
  <2>4. SlotInv' /\ CommitInv' /\ ReceiptsAreEarned'
    BY <2>1, <2>2 DEF SlotInv, CommitInv, ReceiptsAreEarned, Occupied, Empty
  <2>5. ExecutesAsCommitted' /\ LastInv' /\ NoRepeatInSuccession'
    BY <2>2 DEF UplinkInv, ExecutesAsCommitted, LastInv, NoRepeatInSuccession, Happened, SatAdd
  <2> QED
    BY <2>3, <2>4, <2>5 DEF UplinkInv
<1> QED
  BY <1>1, <1>2, <1>3 DEF cancel

(* A release keeps the invariant: an execution happens at the committed     *)
(* epoch and is the newest of all, and expiry empties the slot.             *)
LEMMA ReleaseStep ==
  ASSUME UplinkInv, release
  PROVE  UplinkInv'
<1>0. TypeOK /\ epoch \in Epochs
  BY DEF UplinkInv, TypeOK
<1>1. /\ epoch' \in Epochs /\ epoch <= epoch'
      /\ epoch < MaxEpoch => epoch' = epoch + 1
      /\ epoch = MaxEpoch => epoch' = MaxEpoch
  BY <1>0, EpochAssumption DEF release, SatAdd
<1>p. ASSUME Occupied
      PROVE  pending \in PendingUplink /\ pending.load \in Loads /\ pending.effective \in Epochs
  BY <1>0, <1>p DEF TypeOK, Occupied, Empty, PendingUplink
<1>2. CASE ReleaseExpire
  <2>1. /\ pending' = Empty /\ reply' = Empty
        /\ UNCHANGED <<lastExecuted, history>>
    BY <1>2 DEF ReleaseExpire
  <2>2. TypeOK'
    BY <1>0, <1>1, <2>1 DEF TypeOK
  <2>3. SlotInv' /\ CommitInv' /\ ReceiptsAreEarned'
    BY <2>1 DEF SlotInv, CommitInv, ReceiptsAreEarned, Occupied, Empty
  <2>4. LastInv'
    BY <1>0, <1>1, <2>1 DEF TypeOK, UplinkInv, LastInv, Happened
  <2>5. ExecutesAsCommitted' /\ NoRepeatInSuccession'
    BY <2>1 DEF UplinkInv, ExecutesAsCommitted, NoRepeatInSuccession, Happened, SatAdd
  <2> QED
    BY <2>2, <2>3, <2>4, <2>5 DEF UplinkInv
<1>3. CASE ReleaseNothing
  <2>1. /\ reply' = Empty
        /\ UNCHANGED <<pending, lastExecuted, history>>
        /\ ~Due
    BY <1>3 DEF ReleaseNothing
  <2>2. TypeOK'
    BY <1>0, <1>1, <2>1 DEF TypeOK
  <2>3. SlotInv' /\ ReceiptsAreEarned'
    BY <2>1 DEF UplinkInv, SlotInv, ReceiptsAreEarned, Occupied, Empty, SatAdd
  <2>4. CommitInv'
    <3> SUFFICES ASSUME pending.state = "Committed" PROVE CommitInv'
      BY <2>1 DEF CommitInv
    <3>1. epoch < pending.effective
      BY <1>0, <1>p, <2>1 DEF UplinkInv, CommitInv, Due, Occupied
    <3>2. epoch' <= pending.effective
      <4>1. pending.effective \in Epochs
        BY <1>p DEF Occupied
      <4> QED
        BY <1>0, <1>1, <3>1, <4>1, EpochAssumption
    <3> QED
      BY <2>1, <3>2 DEF UplinkInv, CommitInv, Happened, SatAdd
  <2>5. LastInv'
    BY <1>0, <1>1, <2>1 DEF TypeOK, UplinkInv, LastInv, Happened
  <2>6. ExecutesAsCommitted' /\ NoRepeatInSuccession'
    BY <2>1 DEF UplinkInv, ExecutesAsCommitted, NoRepeatInSuccession, Happened, SatAdd
  <2> QED
    BY <2>2, <2>3, <2>4, <2>5, <2>6 DEF UplinkInv
<1>4. CASE ReleaseExecute
  <2> DEFINE new == Record("executed", pending.load, epoch)
  <2>1. /\ Occupied /\ pending.state = "Committed" /\ epoch = pending.effective
        /\ pending' = Empty /\ lastExecuted' = pending.load.id
        /\ reply' = receipt("ExecutionAcknowledgement", pending.load, epoch, "Executed", "Accepted")
        /\ history' = history \cup {new}
    BY <1>4 DEF ReleaseExecute, Due, Occupied, Note
  <2>2. /\ pending.load \in Loads /\ pending.load.id \in LoadIds /\ pending.load.id # 0
    BY <1>p, <2>1, LoadFacts
  <2>3. /\ reply' \in UplinkControlRecord
        /\ reply'.state = "Executed" /\ reply'.id = pending.load.id
    <3>1. /\ "ExecutionAcknowledgement" \in UplinkControlKinds
          /\ "Executed" \in UplinkStates /\ "Accepted" \in UplinkReasonCodes
      BY DEF UplinkControlKinds, UplinkStates, UplinkReasonCodes
    <3> QED
      BY <1>0, <2>1, <2>2, <3>1, ReceiptType
  <2>4. /\ new \in [event : HistoryEvents, load : Loads, at : Epochs]
        /\ new.event = "executed" /\ new.load = pending.load /\ new.at = epoch
    BY <1>0, <2>2 DEF Record
  <2>5. /\ Happened("executed")' = Happened("executed") \cup {new}
        /\ Happened("committed")' = Happened("committed")
    BY <2>1, <2>4 DEF Happened
  <2> HIDE DEF new
  <2>6. TypeOK'
    BY <1>0, <1>1, <2>1, <2>2, <2>3, <2>4 DEF TypeOK
  <2>7. SlotInv' /\ CommitInv'
    BY <2>1 DEF SlotInv, CommitInv, Occupied, Empty
  <2>8. ReceiptsAreEarned'
    BY <2>3, <2>4, <2>5 DEF ReceiptsAreEarned
  <2>9. ExecutesAsCommitted'
    <3>1. /\ new.at = new.load.effective
          /\ new.load.notBefore <= new.at /\ new.at <= new.load.expires
          /\ SatAdd(new.load.stage, 2) <= new.at
      BY <2>1, <2>4 DEF UplinkInv, SlotInv
    <3>2. \E c \in Happened("committed") : c.load = new.load /\ SatAdd(c.at, 2) <= new.at
      BY <2>1, <2>4 DEF UplinkInv, CommitInv
    <3> QED
      BY <2>5, <3>1, <3>2 DEF UplinkInv, ExecutesAsCommitted, SatAdd
  <2>10. \A x \in Happened("executed") : x.at \in Epochs /\ x.at <= epoch
    BY <1>0 DEF TypeOK, UplinkInv, LastInv, Happened
  <2>11. LastInv'
    <3>1. \A x \in Happened("executed")' : x.at <= epoch /\ x.at \in Epochs
      BY <1>0, <2>4, <2>5, <2>10
    <3>2. \A x \in Happened("executed")' : x.at <= epoch' /\ x.at <= new.at
      BY <1>0, <1>1, <2>4, <3>1
    <3>3. new \in Happened("executed")' /\ new.load.id = lastExecuted' /\ lastExecuted' # 0
      BY <2>1, <2>2, <2>4, <2>5
    <3> QED
      BY <3>2, <3>3 DEF LastInv
  <2>12. NoRepeatInSuccession'
    <3> SUFFICES ASSUME NEW x \in Happened("executed")', NEW y \in Happened("executed")',
                        x.at < y.at, x.load.id = y.load.id
                 PROVE  \E z \in Happened("executed")' :
                          x.at <= z.at /\ z.at <= y.at /\ z.load.id # x.load.id
      BY DEF NoRepeatInSuccession
    <3>1. CASE x \in Happened("executed") /\ y \in Happened("executed")
      BY <2>5, <3>1 DEF UplinkInv, NoRepeatInSuccession
    <3>2. CASE x = new
      BY <1>0, <2>4, <2>5, <2>10, <3>2
    <3>3. CASE x \in Happened("executed") /\ y = new
      <4>1. lastExecuted # 0
        BY <3>3 DEF UplinkInv, LastInv
      <4>2. PICK m \in Happened("executed") :
              m.load.id = lastExecuted /\ \A w \in Happened("executed") : w.at <= m.at
        BY <4>1 DEF UplinkInv, LastInv
      <4>3. m.load.id # x.load.id
        BY <2>1, <2>4, <3>3, <4>2 DEF UplinkInv, SlotInv
      <4>4. x.at <= m.at /\ m.at <= y.at
        BY <2>4, <2>10, <3>3, <4>2
      <4> QED
        BY <2>5, <4>3, <4>4
    <3> QED
      BY <2>5, <3>1, <3>2, <3>3
  <2> QED
    BY <2>6, <2>7, <2>8, <2>9, <2>11, <2>12 DEF UplinkInv
<1> QED
  BY <1>2, <1>3, <1>4 DEF release

-----------------------------------------------------------------------------

(* The inductive invariant: what is in the slot was validated when it was   *)
(* staged (SlotInv) and, if committed, noted as such and still ahead        *)
(* (CommitInv); the last executed identity is that of the newest execution  *)
(* (LastInv).                                                               *)
THEOREM UplinkInvariance == Spec => []UplinkInv
<1>1. Init => UplinkInv
  BY InitInv
<1>2. UplinkInv /\ [Next]_vars => UplinkInv'
  <2> SUFFICES ASSUME UplinkInv, [Next]_vars PROVE UplinkInv'
    OBVIOUS
  <2>1. CASE Next
    <3>1. \A r \in Requests : r \in UplinkControlRecord /\ r.state = "Staged"
      BY RequestAssumption, RequestStateAssumption
    <3> QED
      BY <2>1, <3>1, StageStep, CommitStep, CancelStep, ReleaseStep DEF Next
  <2>2. CASE UNCHANGED vars
    BY <2>2 DEF vars, UplinkInv, TypeOK, SlotInv, CommitInv, ExecutesAsCommitted, LastInv,
       NoRepeatInSuccession, ReceiptsAreEarned, Happened, Occupied, SatAdd
  <2> QED
    BY <2>1, <2>2
<1> QED
  BY <1>1, <1>2, PTL DEF Spec

(* The slot, the last executed identity, the epoch and the replies of the  *)
(* uplink manager keep their types.                                        *)
THEOREM TypeCorrect == Spec => []TypeOK
BY UplinkInvariance, PTL DEF UplinkInv

(* Stage, commit and execute: a load runs only after a separate commit, at *)
(* least two releases ahead of the exact release it names.                 *)
THEOREM CommandingIsAtomic == Spec => []ExecutesAsCommitted
BY UplinkInvariance, PTL DEF UplinkInv

(* Two executions in a row never carry the same identity.                  *)
THEOREM NoImmediateReplay == Spec => []NoRepeatInSuccession
BY UplinkInvariance, PTL DEF UplinkInv

(* No receipt claims a commit or an execution that did not happen.         *)
THEOREM ReceiptsAreTrue == Spec => []ReceiptsAreEarned
BY UplinkInvariance, PTL DEF UplinkInv

(* A committed load's release lies inside its window and not in the past.   *)
LEMMA NotOverdue == UplinkInv => CommittedNotOverdue
<1> SUFFICES ASSUME UplinkInv, pending.state = "Committed"
             PROVE  epoch <= pending.effective /\ ~Overdue
  BY DEF CommittedNotOverdue
<1>1. pending.load \in Loads /\ pending.effective \in Epochs /\ epoch \in Epochs
  BY DEF UplinkInv, TypeOK, PendingUplink, Empty
<1>2. pending.load.expires \in Epochs
  BY <1>1, LoadFacts
<1>3. epoch <= pending.effective /\ pending.effective <= pending.load.expires
  BY DEF UplinkInv, CommitInv, SlotInv, Occupied
<1> QED
  BY <1>1, <1>2, <1>3 DEF Overdue

(* The silent expiry of release never discards a committed load.           *)
THEOREM CommittedNeverExpires == Spec => []CommittedNotOverdue
BY UplinkInvariance, NotOverdue, PTL

(* A committed load leaves the slot only by execution or cancellation.     *)
THEOREM CommitIsKept == Spec => CommittedSurvives
<1> DEFINE Kept ==
      pending.state = "Committed" /\ pending' # pending =>
        /\ pending' = Empty
        /\ \/ Record("executed", pending.load, pending.effective) \in history'
           \/ reply' = CancelReceipt(pending.load)
<1>1. UplinkInv /\ [Next]_vars => [Kept]_vars
  <2> SUFFICES ASSUME UplinkInv, Next, pending.state = "Committed", pending' # pending
               PROVE  /\ pending' = Empty
                      /\ \/ Record("executed", pending.load, pending.effective) \in history'
                         \/ reply' = CancelReceipt(pending.load)
    OBVIOUS
  <2>1. Occupied /\ ~Overdue
    BY NotOverdue DEF CommittedNotOverdue, Occupied
  <2>2. ASSUME NEW l \in Loads, NEW completed, NEW frame, NEW ok, stage(l, completed, frame, ok)
        PROVE  FALSE
    BY <2>1, <2>2 DEF stage, StageExecuted, StageHeld, StageOccupied, StageRejected, StageAccepted
  <2>3. ASSUME NEW r \in Requests, commit(r) PROVE FALSE
    BY <2>1, <2>3 DEF commit, EchoRequest, CommitMismatch, CommitAgain, CommitLate, CommitAccepted
  <2>4. ASSUME NEW r \in Requests, cancel(r)
        PROVE  pending' = Empty /\ reply' = CancelReceipt(pending.load)
    BY <2>1, <2>4 DEF cancel, EchoRequest, CancelMismatch, CancelAccepted
  <2>5. ASSUME release
        PROVE  pending' = Empty /\ Record("executed", pending.load, pending.effective) \in history'
    BY <2>1, <2>5 DEF release, ReleaseExpire, ReleaseNothing, ReleaseExecute, Due, Note
  <2> QED
    BY <2>2, <2>3, <2>4, <2>5 DEF Next
<1> QED
  BY <1>1, UplinkInvariance, PTL DEF Spec, CommittedSurvives
=============================================================================
