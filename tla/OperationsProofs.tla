--------------------------- MODULE OperationsProofs ---------------------------
(***************************************************************************)
(* The guarantees of the operations package and of the mission session     *)
(* over it, for every set of loads, every epoch width, journal capacity,   *)
(* prediction period and decision window.  PackageInv extends the uplink's *)
(* invariant by what the package adds, SessionInv by what the session and  *)
(* its procedure add.                                                      *)
(***************************************************************************)
EXTENDS MissionSession, UplinkProofs, Cycles

USE DEF Epochs, HistoryEvents

IsSequence(s) == \E S : s \in Seq(S)

(* Without a plan nothing has happened yet.                                *)
PlanInv == ~planReady => pending = Empty /\ prediction = None

(* The age of the prediction is bounded by the place of the last release   *)
(* in its cycle, because the first release of a cycle renews it.           *)
AgeInv ==
  prediction # None =>
    /\ ~dirty /\ prediction.plan = activePlan
    /\ prediction.at \in Epochs /\ epoch >= 1
    /\ epoch - prediction.at <= 1 + ((epoch - 1) % PredictionPeriod)

(* The effects of earlier releases are stamped with earlier epochs, until  *)
(* the epoch saturates.                                                    *)
EffectInv == \A x \in applied : x.at \in Epochs /\ (x.at < epoch \/ epoch = MaxEpoch)

PackageInv ==
  /\ UplinkInv
  /\ PlanInv
  /\ AgeInv
  /\ EffectInv
  /\ IsSequence(journal)

-----------------------------------------------------------------------------
(* The package *)

(* The journal keeps a sequence a sequence, and keeps its newest records.  *)
LEMMA NewestKeeps ==
  ASSUME NEW S, NEW s \in Seq(S)
  PROVE  /\ Newest(s) \in Seq(S)
         /\ Len(s) <= Capacity => Newest(s) = s
         /\ Len(s) > Capacity =>
              /\ Len(Newest(s)) = Capacity
              /\ \A i \in 1 .. Capacity : Newest(s)[i] = s[Len(s) - Capacity + i]
<1>0. Capacity \in Nat \ {0} /\ Len(s) \in Nat
  BY PeriodAssumption
<1>1. CASE Len(s) <= Capacity
  BY <1>0, <1>1 DEF Newest
<1>2. CASE Len(s) > Capacity
  <2>1. Newest(s) = SubSeq(s, Len(s) - Capacity + 1, Len(s))
    BY <1>2 DEF Newest
  <2>2. \A i \in Len(s) - Capacity + 1 .. Len(s) : i \in 1 .. Len(s) /\ s[i] \in S
    BY <1>0, <1>2
  <2> QED
    BY <1>0, <1>2, <2>1, <2>2
<1> QED
  BY <1>0, <1>1, <1>2

(* Writing any records leaves a sequence.                                  *)
LEMMA JournalStep ==
  ASSUME IsSequence(journal), NEW entries, IsSequence(entries), Journal(entries)
  PROVE  IsSequence(journal)'
<1>1. PICK S : journal \in Seq(S)
  BY DEF IsSequence
<1>2. PICK T : entries \in Seq(T)
  BY DEF IsSequence
<1>3. journal \o entries \in Seq(S \cup T)
  BY <1>1, <1>2
<1>4. journal' \in Seq(S \cup T)
  BY <1>3, NewestKeeps DEF Journal
<1> QED
  BY <1>4 DEF IsSequence

(* A single record is a sequence of records.                               *)
LEMMA SingleIsSequence == \A x : IsSequence(<<x>>)
<1> SUFFICES ASSUME NEW x PROVE IsSequence(<<x>>)
  OBVIOUS
<1>1. <<x>> \in Seq({x})
  OBVIOUS
<1> QED
  BY <1>1 DEF IsSequence

(* The records of a release: those of an execution, then a prediction.     *)
LEMMA ReleaseEntries == IsSequence(ExecutionEntries \o PredictionEntries)
<1>1. PICK S : ExecutionEntries \in Seq(S)
  <2>1. \A x, y : <<x, y>> \in Seq({x, y})
    OBVIOUS
  <2>2. <<>> \in Seq({})
    OBVIOUS
  <2> QED
    BY <2>1, <2>2 DEF ExecutionEntries
<1>2. PICK T : PredictionEntries \in Seq(T)
  <2>1. \A x : <<x>> \in Seq({x})
    OBVIOUS
  <2>2. <<>> \in Seq({})
    OBVIOUS
  <2> QED
    BY <2>1, <2>2 DEF PredictionEntries
<1>3. ExecutionEntries \o PredictionEntries \in Seq(S \cup T)
  BY <1>1, <1>2
<1> QED
  BY <1>3 DEF IsSequence

(* Ground calls keep the package's invariant: the uplink manager answers,  *)
(* and its receipt is journalled.                                          *)
LEMMA GroundCallStep ==
  ASSUME PackageInv, UplinkInv', UNCHANGED epoch, Journalled
  PROVE  PackageInv'
<1>1. /\ planReady'
      /\ Journal(<<journal_receipt(reply')>>)
      /\ UNCHANGED <<epoch, activePlan, dirty, prediction, applied>>
  BY DEF Journalled
<1>2. IsSequence(journal)'
  BY <1>1, JournalStep, SingleIsSequence DEF PackageInv
<1>3. AgeInv' /\ EffectInv' /\ PlanInv'
  BY <1>1 DEF PackageInv, PlanInv, AgeInv, EffectInv
<1> QED
  BY <1>2, <1>3 DEF PackageInv

(* Staging through the package keeps its invariant, accepted or not.       *)
LEMMA StageUplinkStep ==
  ASSUME PackageInv, NEW l \in Loads, NEW completed, NEW ok, stage_uplink(l, completed, ok)
  PROVE  PackageInv' /\ UNCHANGED epoch
<1>1. stage(l, completed, frame, ok) /\ Journalled
  BY DEF stage_uplink
<1>2. UplinkInv'
  BY <1>1, StageStep DEF PackageInv
<1>3. UNCHANGED epoch
  BY <1>1 DEF stage, StageExecuted, StageHeld, StageOccupied, StageRejected, StageAccepted
<1> QED
  BY <1>1, <1>2, <1>3, GroundCallStep

(* So does a commit through the package,                                   *)
LEMMA CommitUplinkStep ==
  ASSUME PackageInv, NEW r \in UplinkControlRecord, r.state = "Staged", commit_uplink(r)
  PROVE  PackageInv' /\ UNCHANGED epoch
<1>1. commit(r) /\ Journalled
  BY DEF commit_uplink
<1>2. UplinkInv'
  BY <1>1, CommitStep DEF PackageInv
<1>3. UNCHANGED epoch
  BY <1>1 DEF commit, EchoRequest, CommitMismatch, CommitAgain, CommitLate, CommitAccepted
<1> QED
  BY <1>1, <1>2, <1>3, GroundCallStep

(* and a cancellation.                                                     *)
LEMMA CancelUplinkStep ==
  ASSUME PackageInv, NEW r \in UplinkControlRecord, r.state = "Staged", cancel_uplink(r)
  PROVE  PackageInv' /\ UNCHANGED epoch
<1>1. cancel(r) /\ Journalled
  BY DEF cancel_uplink
<1>2. UplinkInv'
  BY <1>1, CancelStep DEF PackageInv
<1>3. UNCHANGED epoch
  BY <1>1 DEF cancel, EchoRequest, CancelMismatch, CancelAccepted
<1> QED
  BY <1>1, <1>2, <1>3, GroundCallStep

(* Calls that leave the uplink's state alone leave its invariant alone.    *)
LEMMA UplinkUnchanged == UplinkInv /\ UNCHANGED vars => UplinkInv'
BY DEF vars, UplinkInv, TypeOK, SlotInv, CommitInv, ExecutesAsCommitted, LastInv,
   NoRepeatInSuccession, ReceiptsAreEarned, Happened, Occupied, SatAdd

(* A new mission plan is predicted at once.                                *)
LEMMA InitializeStep ==
  ASSUME PackageInv, NEW p, initialize_mission_plan(p)
  PROVE  PackageInv'
<1>1. /\ ~planReady /\ planReady'
      /\ Journal(<<Entry("Mode", 0, TRUE)>>)
      /\ UNCHANGED <<vars, activePlan, prediction, applied>>
  BY DEF initialize_mission_plan
<1>2. UplinkInv'
  BY <1>1, UplinkUnchanged DEF PackageInv
<1>3. IsSequence(journal)'
  BY <1>1, JournalStep, SingleIsSequence DEF PackageInv
<1>4. PlanInv' /\ AgeInv' /\ EffectInv'
  BY <1>1 DEF PackageInv, PlanInv, AgeInv, EffectInv, vars
<1> QED
  BY <1>2, <1>3, <1>4 DEF PackageInv

(* A change of ground contact only adds to the journal.                    *)
LEMMA CommunicationsStep ==
  ASSUME PackageInv, NEW available, record_ground_communications(available)
  PROVE  PackageInv'
<1>1. /\ Journal(<<Entry("Communications", 0, available)>>)
      /\ UNCHANGED <<vars, planReady, activePlan, dirty, prediction, applied>>
  BY DEF record_ground_communications
<1>2. UplinkInv'
  BY <1>1, UplinkUnchanged DEF PackageInv
<1>3. IsSequence(journal)'
  BY <1>1, JournalStep, SingleIsSequence DEF PackageInv
<1>4. PlanInv' /\ AgeInv' /\ EffectInv'
  BY <1>1 DEF PackageInv, PlanInv, AgeInv, EffectInv, vars
<1> QED
  BY <1>2, <1>3, <1>4 DEF PackageInv

(* The uplink's part of a release, with or without a plan.                 *)
LEMMA ReleaseUplink ==
  ASSUME PackageInv, process_release
  PROVE  /\ UplinkInv'
         /\ epoch \in Epochs /\ epoch' = SatAdd(epoch, 1)
         /\ epoch' \in Epochs /\ epoch <= epoch'
         /\ epoch < MaxEpoch => epoch' = epoch + 1
         /\ epoch = MaxEpoch => epoch' = epoch
<1>1. epoch \in Epochs
  BY DEF PackageInv, UplinkInv, TypeOK
<1>2. epoch' = SatAdd(epoch, 1)
  BY DEF process_release, release
<1>3. UplinkInv'
  <2>1. CASE planReady
    BY <2>1, ReleaseStep DEF PackageInv, process_release
  <2>2. CASE ~planReady
    <3>1. /\ pending' = Empty /\ reply' = Empty
          /\ UNCHANGED <<pending, lastExecuted, history>>
      BY <2>2 DEF process_release, PackageInv, PlanInv
    <3>2. /\ SatAdd(epoch, 1) \in Epochs /\ epoch <= SatAdd(epoch, 1)
      BY <1>1, SatAddType
    <3>3. TypeOK'
      BY <1>2, <3>1, <3>2 DEF PackageInv, UplinkInv, TypeOK
    <3>4. SlotInv' /\ CommitInv' /\ ReceiptsAreEarned'
      BY <3>1 DEF SlotInv, CommitInv, ReceiptsAreEarned, Occupied, Empty
    <3>5. LastInv'
      BY <1>1, <1>2, <3>1, <3>2 DEF PackageInv, UplinkInv, TypeOK, LastInv, Happened
    <3>6. ExecutesAsCommitted' /\ NoRepeatInSuccession'
      BY <3>1 DEF PackageInv, UplinkInv, ExecutesAsCommitted, NoRepeatInSuccession, Happened, SatAdd
    <3> QED
      BY <3>3, <3>4, <3>5, <3>6 DEF UplinkInv
  <2> QED
    BY <2>1, <2>2
<1> QED
  BY <1>1, <1>2, <1>3, EpochAssumption DEF SatAdd

(* A release keeps the package's invariant: a release that changes the     *)
(* plan predicts at once, and one that does not predict is not the first   *)
(* of its cycle.                                                           *)
LEMMA ProcessReleaseStep ==
  ASSUME PackageInv, process_release
  PROVE  PackageInv'
<1>0. /\ UplinkInv'
      /\ epoch \in Epochs /\ epoch' \in Epochs /\ epoch <= epoch'
      /\ epoch < MaxEpoch => epoch' = epoch + 1
      /\ epoch = MaxEpoch => epoch' = epoch
  BY ReleaseUplink
<1>i. epoch \in Nat /\ epoch' \in Nat /\ (epoch < MaxEpoch \/ epoch = MaxEpoch)
  BY <1>0, EpochAssumption
<1>c. MaxEpoch \in Nat /\ MaxEpoch >= 2 /\ PredictionPeriod \in Nat \ {0}
  BY EpochAssumption, PeriodAssumption
<1>1. IsSequence(journal)'
  BY JournalStep, ReleaseEntries DEF PackageInv, process_release
<1>2. PlanInv'
  BY DEF PackageInv, PlanInv, process_release, Predicts
<1>3. EffectInv'
  <2> SUFFICES ASSUME NEW x \in applied' PROVE x.at \in Epochs /\ (x.at < epoch' \/ epoch' = MaxEpoch)
    BY DEF EffectInv
  <2>1. CASE x \in applied
    <3>1. x.at \in Epochs /\ (x.at < epoch \/ epoch = MaxEpoch)
      BY <2>1 DEF PackageInv, EffectInv
    <3> QED
      BY <1>0, <1>c, <3>1
  <2>2. CASE x \notin applied
    <3>1. x.at = epoch
      BY <2>2 DEF process_release
    <3> QED
      BY <1>0, <1>c, <3>1
  <2> QED
    BY <2>1, <2>2
<1>4. AgeInv'
  <2> SUFFICES ASSUME prediction' # None
               PROVE  /\ ~dirty' /\ prediction'.plan = activePlan'
                      /\ prediction'.at \in Epochs /\ epoch' >= 1
                      /\ epoch' - prediction'.at <= 1 + ((epoch' - 1) % PredictionPeriod)
    BY DEF AgeInv
  <2>1. CASE Predicts
    <3>1. ~dirty' /\ prediction' = [plan |-> activePlan', at |-> epoch]
      BY <2>1 DEF process_release, NewPrediction
    <3>2. epoch' >= 1 /\ epoch' - epoch <= 1
      <4>1. CASE epoch < MaxEpoch
        BY <1>0, <4>1
      <4>2. CASE epoch = MaxEpoch
        BY <1>0, <1>c, <4>2
      <4> QED
        BY <1>i, <4>1, <4>2
    <3>3. epoch' - 1 \in Nat
      <4>1. \A n \in Nat : n >= 1 => n - 1 \in Nat
        OBVIOUS
      <4> QED
        BY <1>i, <3>2, <4>1
    <3>4. (epoch' - 1) % PredictionPeriod \in Nat
      BY <1>c, <3>3
    <3>5. prediction'.at = epoch /\ prediction'.plan = activePlan'
      BY <3>1
    <3> QED
      BY <1>0, <1>i, <3>1, <3>2, <3>4, <3>5
  <2>2. CASE ~Predicts
    <3>1. prediction' = prediction /\ prediction # None
      BY <2>2 DEF process_release
    <3>2. planReady /\ ~dirty /\ epoch >= 1
      BY <3>1 DEF PackageInv, PlanInv, AgeInv
    <3>3. epoch % PredictionPeriod # 0 /\ ~DirtyNow
      BY <2>2, <3>2 DEF Predicts
    <3>4. ~dirty' /\ activePlan' = activePlan
      BY <2>2, <3>3 DEF process_release, DirtyNow, PlanNow
    <3>5. /\ prediction.plan = activePlan /\ prediction.at \in Epochs
          /\ epoch - prediction.at <= 1 + ((epoch - 1) % PredictionPeriod)
      BY <3>1 DEF PackageInv, AgeInv
    <3>6. epoch % PredictionPeriod = ((epoch - 1) % PredictionPeriod) + 1
      <4>1. epoch - 1 \in Nat /\ (epoch - 1) + 1 = epoch
        BY <1>0, <3>2
      <4> QED
        BY <1>c, <3>3, <4>1, NextInCycle
    <3>7. (epoch - 1) % PredictionPeriod \in Nat
      BY <1>0, <1>c, <3>2
    <3>8. CASE epoch < MaxEpoch
      <4>1. epoch' - 1 = epoch /\ epoch' = epoch + 1
        BY <1>0, <3>8
      <4>2. epoch' - prediction.at <= 1 + (epoch % PredictionPeriod)
        BY <1>0, <3>5, <3>6, <3>7, <4>1
      <4> QED
        BY <1>0, <1>i, <3>1, <3>2, <3>4, <3>5, <4>1, <4>2
    <3>9. CASE epoch = MaxEpoch
      BY <1>0, <1>i, <3>1, <3>2, <3>4, <3>5, <3>9
    <3> QED
      BY <1>0, <1>c, <3>8, <3>9
  <2> QED
    BY <2>1, <2>2
<1> QED
  BY <1>0, <1>1, <1>2, <1>3, <1>4 DEF PackageInv

(* A new package satisfies the invariant, and every step keeps it.         *)
LEMMA PackageInvInductive ==
  /\ PInit => PackageInv
  /\ PackageInv /\ [PNext]_pvars => PackageInv'
<1>1. ASSUME PInit PROVE PackageInv
  <2>1. UplinkInv
    BY <1>1, InitInv DEF PInit
  <2>2. <<>> \in Seq({})
    OBVIOUS
  <2>3. IsSequence(journal)
    BY <1>1, <2>2 DEF PInit, IsSequence
  <2> QED
    BY <1>1, <2>1, <2>3 DEF PInit, Init, PackageInv, PlanInv, AgeInv, EffectInv
<1>2. ASSUME PackageInv, [PNext]_pvars PROVE PackageInv'
  <2>1. \A r \in Requests : r \in UplinkControlRecord /\ r.state = "Staged"
    BY RequestAssumption, RequestStateAssumption
  <2>2. CASE UNCHANGED pvars
    <3>1. UplinkInv'
      BY <1>2, <2>2, UplinkUnchanged DEF pvars, PackageInv
    <3> QED
      BY <1>2, <2>2, <3>1 DEF pvars, vars, packageVars, PackageInv, PlanInv, AgeInv, EffectInv
  <2>3. CASE \E p \in Plans : initialize_mission_plan(p)
    BY <1>2, <2>3, InitializeStep
  <2>4. CASE \E l \in Loads, completed \in SUBSET Events, ok \in BOOLEAN :
               stage_uplink(l, completed, ok)
    BY <1>2, <2>4, StageUplinkStep
  <2>5. CASE \E r \in Requests : commit_uplink(r)
    BY <1>2, <2>1, <2>5, CommitUplinkStep
  <2>6. CASE \E r \in Requests : cancel_uplink(r)
    BY <1>2, <2>1, <2>6, CancelUplinkStep
  <2>7. CASE \E available \in BOOLEAN : record_ground_communications(available)
    BY <1>2, <2>7, CommunicationsStep
  <2>8. CASE process_release
    BY <1>2, <2>8, ProcessReleaseStep
  <2> QED
    BY <1>2, <2>2, <2>3, <2>4, <2>5, <2>6, <2>7, <2>8 DEF PNext
<1> QED
  BY <1>1, <1>2

(* The package's invariant holds throughout.                               *)
THEOREM PackageInvariance == PSpec => []PackageInv
BY PackageInvInductive, PTL DEF PSpec

(* The onboard prediction never describes another plan than the one being  *)
(* flown and is renewed within every prediction period, across saturation  *)
(* of the epoch too.                                                       *)
THEOREM PredictionStaysCurrent == PSpec => []PredictionIsCurrent
<1>1. PackageInv => PredictionIsCurrent
  <2> SUFFICES ASSUME PackageInv, prediction # None PROVE epoch - prediction.at <= PredictionPeriod
    BY DEF PredictionIsCurrent, PackageInv, AgeInv
  <2>1. /\ epoch \in Epochs /\ epoch >= 1 /\ prediction.at \in Epochs
        /\ epoch - prediction.at <= 1 + ((epoch - 1) % PredictionPeriod)
    BY DEF PackageInv, UplinkInv, TypeOK, AgeInv
  <2>2. epoch - 1 \in Nat /\ PredictionPeriod \in Nat \ {0}
    BY <2>1, EpochAssumption, PeriodAssumption
  <2>3. (epoch - 1) % PredictionPeriod \in 0 .. PredictionPeriod - 1
    BY <2>2
  <2> QED
    BY <2>1, <2>2, <2>3, EpochAssumption
<1> QED
  BY PackageInvariance, <1>1, PTL

(* Ground calls other than a commit that comes due change nothing that is  *)
(* flown: what an effective release executes is noted in the history.      *)
THEOREM GroundNeverChangesState == PSpec => OnlyCommitsChangeState
<1> DEFINE Changes ==
      activePlan' # activePlan \/ applied' # applied =>
        /\ pending.state = "Committed" /\ pending.effective = epoch
        /\ Record("executed", pending.load, epoch) \in history'
<1>1. [PNext]_pvars => [Changes]_pvars
  <2> SUFFICES ASSUME PNext, activePlan' # activePlan \/ applied' # applied
               PROVE  /\ pending.state = "Committed" /\ pending.effective = epoch
                      /\ Record("executed", pending.load, epoch) \in history'
    OBVIOUS
  <2>1. process_release
    BY DEF PNext, initialize_mission_plan, stage_uplink, commit_uplink, cancel_uplink,
       record_ground_communications, Journalled
  <2>2. Executes
    BY <2>1 DEF process_release, PlanNow
  <2>3. ReleaseExecute
    BY <2>1, <2>2 DEF process_release, Executes, release, ReleaseExpire, ReleaseNothing
  <2> QED
    BY <2>2, <2>3 DEF Executes, Due, ReleaseExecute, Note
<1> QED
  BY <1>1, PTL DEF PSpec, OnlyCommitsChangeState

(* Three records are not lost when they are written at once: the last two  *)
(* or three of a sequence survive in the newest Capacity of it.            *)
LEMMA LastRecordsSurvive ==
  ASSUME NEW S, NEW j \in Seq(S), NEW a \in S, NEW b \in S, NEW k \in Seq(S),
         Len(k) <= 1, Capacity >= 3
  PROVE  LET n == Newest(j \o (<<a, b>> \o k))
         IN  \E i \in 1 .. Len(n) - 1 : n[i] = a /\ n[i + 1] = b
<1> DEFINE e == <<a, b>> \o k
           s == j \o e
           n == Newest(s)
<1>0. Capacity \in Nat /\ Len(j) \in Nat /\ Len(k) \in Nat
  BY PeriodAssumption
<1>1. <<a, b>> \in Seq(S) /\ Len(<<a, b>>) = 2 /\ <<a, b>>[1] = a /\ <<a, b>>[2] = b
  OBVIOUS
<1>2. e \in Seq(S) /\ Len(e) = Len(k) + 2 /\ e[1] = a /\ e[2] = b
  BY <1>0, <1>1
<1> HIDE DEF e
<1>3. /\ s \in Seq(S) /\ Len(s) = Len(j) + Len(k) + 2
      /\ s[Len(j) + 1] = a /\ s[Len(j) + 2] = b
  BY <1>0, <1>2
<1> HIDE DEF s
<1>4. CASE Len(s) <= Capacity
  <2>1. n = s
    BY <1>3, <1>4, NewestKeeps
  <2>2. Len(j) + 1 \in 1 .. Len(s) - 1 /\ (Len(j) + 1) + 1 = Len(j) + 2
    BY <1>0, <1>3
  <2> QED
    BY <1>3, <2>1, <2>2 DEF s, e
<1>5. CASE Len(s) > Capacity
  <2> DEFINE i == Capacity - 1 - Len(k)
  <2>1. /\ Len(n) = Capacity
        /\ \A m \in 1 .. Capacity : n[m] = s[Len(s) - Capacity + m]
    BY <1>3, <1>5, NewestKeeps
  <2>2. /\ i \in 1 .. Capacity - 1 /\ i \in 1 .. Capacity /\ i + 1 \in 1 .. Capacity
        /\ Len(s) - Capacity + i = Len(j) + 1
        /\ Len(s) - Capacity + (i + 1) = Len(j) + 2
    BY <1>0, <1>3
  <2> HIDE DEF i, n
  <2>3. n[i] = a /\ n[i + 1] = b
    BY <1>3, <2>1, <2>2
  <2> QED
    BY <2>1, <2>2, <2>3 DEF n, s, e
<1>6. Len(s) <= Capacity \/ Len(s) > Capacity
  BY <1>0, <1>3
<1> QED
  BY <1>4, <1>5, <1>6

(* An execution that advances the epoch took effect exactly if it added to *)
(* what is applied: nothing applied earlier carries the same release.      *)
LEMMA EffectIsNew ==
  ASSUME PackageInv, process_release, Executes, epoch' # epoch
  PROVE  TakesEffect(pending.load) <=> applied' # applied
<1>1. epoch \in Epochs /\ epoch < MaxEpoch
  BY ReleaseUplink, EpochAssumption
<1>2. [load |-> pending.load, at |-> epoch] \notin applied
  <2> SUFFICES ASSUME [load |-> pending.load, at |-> epoch] \in applied PROVE FALSE
    OBVIOUS
  <2>1. epoch < epoch \/ epoch = MaxEpoch
    BY DEF PackageInv, EffectInv
  <2> QED
    BY <1>1, <2>1, EpochAssumption
<1> QED
  BY <1>2 DEF process_release

(* Every execution can be read back from the journal after its release:    *)
(* the acknowledgement and the record that says whether it took effect.    *)
THEOREM ExecutionsAreJournalled == PSpec => ExecutionIsJournalled
<1> DEFINE Kept ==
      Capacity >= 3 /\ history' # history /\ epoch' # epoch =>
        \E i \in 1 .. Len(journal') - 1 :
          /\ journal'[i].kind = "Uplink" /\ journal'[i + 1].kind = "Mode"
          /\ journal'[i].id = lastExecuted' /\ journal'[i + 1].id = lastExecuted'
          /\ journal'[i].at = epoch /\ journal'[i + 1].at = epoch
          /\ journal'[i + 1].detail = (applied' # applied)
<1>1. PackageInv /\ [PNext]_pvars => [Kept]_pvars
  <2> SUFFICES ASSUME PackageInv, PNext, Capacity >= 3, history' # history, epoch' # epoch
               PROVE  \E i \in 1 .. Len(journal') - 1 :
                        /\ journal'[i].kind = "Uplink" /\ journal'[i + 1].kind = "Mode"
                        /\ journal'[i].id = lastExecuted' /\ journal'[i + 1].id = lastExecuted'
                        /\ journal'[i].at = epoch /\ journal'[i + 1].at = epoch
                        /\ journal'[i + 1].detail = (applied' # applied)
    OBVIOUS
  <2> DEFINE a == journal_receipt(reply')
             b == Entry("Mode", pending.load.id, TakesEffect(pending.load))
             k == PredictionEntries
  <2>1. process_release
    <3>1. \A l \in Loads, completed \in SUBSET Events, ok \in BOOLEAN :
            ~stage_uplink(l, completed, ok)
      BY StageUplinkStep
    <3>2. \A r \in Requests : r \in UplinkControlRecord /\ r.state = "Staged"
      BY RequestAssumption, RequestStateAssumption
    <3>3. \A r \in Requests : ~commit_uplink(r) /\ ~cancel_uplink(r)
      BY <3>2, CommitUplinkStep, CancelUplinkStep
    <3> QED
      BY <3>1, <3>3 DEF PNext, initialize_mission_plan, record_ground_communications, vars
  <2>2. Executes /\ ReleaseExecute
    BY <2>1 DEF process_release, Executes, release, ReleaseExpire, ReleaseNothing, ReleaseExecute
  <2>3. /\ a.kind = "Uplink" /\ a.at = epoch /\ a.id = lastExecuted'
        /\ b.kind = "Mode" /\ b.at = epoch /\ b.id = lastExecuted'
        /\ b.detail = TakesEffect(pending.load)
    BY <2>2 DEF ReleaseExecute, receipt, journal_receipt, Entry
  <2>4. journal' = Newest(journal \o (<<a, b>> \o k))
    BY <2>1, <2>2 DEF process_release, Journal, ExecutionEntries
  <2>5. PICK T : k \in Seq(T) /\ Len(k) <= 1
    <3>1. <<>> \in Seq({}) /\ Len(<<>>) <= 1
      OBVIOUS
    <3>2. \A x : <<x>> \in Seq({x}) /\ Len(<<x>>) <= 1
      OBVIOUS
    <3> QED
      BY <3>1, <3>2 DEF PredictionEntries
  <2>6. PICK S : journal \in Seq(S)
    BY DEF PackageInv, IsSequence
  <2> HIDE DEF a, b, k
  <2>7. PICK i \in 1 .. Len(journal') - 1 : journal'[i] = a /\ journal'[i + 1] = b
    <3> DEFINE U == S \cup T \cup {a, b}
    <3>1. journal \in Seq(U) /\ k \in Seq(U) /\ a \in U /\ b \in U
      BY <2>5, <2>6
    <3> HIDE DEF U
    <3>2. LET n == Newest(journal \o (<<a, b>> \o k))
          IN  \E i \in 1 .. Len(n) - 1 : n[i] = a /\ n[i + 1] = b
      BY <2>5, <3>1, LastRecordsSurvive
    <3> QED
      BY <2>4, <3>2
  <2>8. TakesEffect(pending.load) <=> applied' # applied
    BY <2>1, <2>2, EffectIsNew
  <2>9. b.detail = (applied' # applied)
    <3>1. CASE TakesEffect(pending.load)
      <4>1. TakesEffect(pending.load) = TRUE /\ (applied' # applied) = TRUE
        BY <2>8, <3>1 DEF TakesEffect
      <4> QED
        BY <2>3, <4>1
    <3>2. CASE ~TakesEffect(pending.load)
      <4>1. TakesEffect(pending.load) = FALSE /\ (applied' # applied) = FALSE
        BY <2>8, <3>2 DEF TakesEffect
      <4> QED
        BY <2>3, <4>1
    <3> QED
      BY <3>1, <3>2
  <2> QED
    BY <2>3, <2>7, <2>9
<1> QED
  BY <1>1, PackageInvariance, PTL DEF PSpec, ExecutionIsJournalled

-----------------------------------------------------------------------------
(* The session *)

SessionTypes == {"GroundNavigationUpdate", "ContingencyBranch"}

(* The session and the package count the same releases.                    *)
CountInv ==
  /\ releases = epoch /\ releases <= MaxReleases
  /\ frame \in Frames /\ ground \in Estimates \cup {NoEstimate}

(* The session's uplink requests reach the slot it believes in, and every  *)
(* load in it was proposed within the window.                              *)
MirrorInv ==
  /\ MirrorAgrees
  /\ Occupied => pending.load.type \in SessionTypes
                 /\ pending.load.stage \in WindowOpen .. WindowClose

EngineStates == [state : {"Active", "Completed", "Failed", "Mistimed"}, step : 1 .. 7, entered : Nat]

(* A step that can still wait or ask: it is ticked, or it expires.         *)
Asks(p) == p.state = "Active" /\ p.step \in 1 .. 5

(* The engine exists once the window has opened, and no step that can ask  *)
(* for a load outlives the release after WindowClose.                      *)
EngineInv ==
  /\ procedure = Closed \/ procedure \in EngineStates
  /\ procedure # Closed => releases > WindowOpen
  /\ Asks(procedure) => releases <= WindowClose + 1
  /\ procedure.state = "Completed" => procedure.step = 6

(* Each step beyond a request has the commit of that request behind it.    *)
StepInv ==
  /\ procedure.step \in {5, 6} => "GroundNavigationUpdate" \in CommittedTypes
  /\ procedure.step = 6 => "ContingencyBranch" \in CommittedTypes

BranchInv ==
  branch # 0 =>
    \/ /\ pending.state = "Committed" /\ pending.load.type = "ContingencyBranch"
       /\ Argument[pending.load] = branch
    \/ \E h \in Happened("executed") :
         h.load.type = "ContingencyBranch" /\ Argument[h.load] = branch

(* The transcript has the epoch of every commit.                           *)
TranscriptInv ==
  /\ \A h \in Happened("committed") :
       /\ h.load.type \in SessionTypes
       /\ h.load.stage \in WindowOpen .. WindowClose
       /\ h.at <= WindowClose + 1
       /\ h.at \in commits
  /\ commits # {} => Happened("committed") # {}

(* A proposal that could be committed now has been reviewed.               *)
ReviewInv == staged # NoLoad /\ active = staged.id => reviewed = staged.id

DebriefInv == disposition.operator # "none" => lifecycle = "Completed" /\ DispositionIsEarned

SessionInv ==
  /\ PackageInv
  /\ CountInv
  /\ MirrorInv
  /\ EngineInv
  /\ StepInv
  /\ BranchInv
  /\ TranscriptInv
  /\ ReviewInv
  /\ DebriefInv

(* The steps of the pack: three checks, two requests, the two ends.        *)
LEMMA PackFacts ==
  /\ DOMAIN Pack = 1 .. 7
  /\ \A i \in 1 .. 3 : Pack[i].kind = "Verify" /\ Pack[i].complete = i + 1
                        /\ Pack[i].failure = 7 /\ Pack[i].action = "none"
  /\ \A i \in 4 .. 5 : Pack[i].kind = "RequestAction" /\ Pack[i].complete = i + 1
                        /\ Pack[i].failure = 7
  /\ Pack[4].action = "GroundNavigationUpdate" /\ Pack[5].action = "ContingencyBranch"
  /\ Pack[6].kind = "Complete" /\ Pack[6].failure = 0 /\ Pack[6].action = "none"
  /\ Pack[7].kind = "Fail" /\ Pack[7].failure = 0 /\ Pack[7].action = "none"
  /\ \A i \in 6 .. 7 : Pack[i].timeout = 0
<1> DEFINE v(i) == verification_step(i)
           u == full_action_step("GroundNavigationUpdate", 5)
           b == full_action_step("ContingencyBranch", 6)
           c == StepOf("Complete", 0, 0, 0, "none")
           f == StepOf("Fail", 0, 0, 0, "none")
<1>1. /\ DOMAIN Pack = 1 .. 7
      /\ Pack[1] = v(2) /\ Pack[2] = v(3) /\ Pack[3] = v(4)
      /\ Pack[4] = u /\ Pack[5] = b /\ Pack[6] = c /\ Pack[7] = f
  BY DEF Pack
<1>2. /\ \A i : v(i).kind = "Verify" /\ v(i).complete = i /\ v(i).failure = 7 /\ v(i).action = "none"
      /\ u.kind = "RequestAction" /\ u.complete = 5 /\ u.failure = 7
      /\ u.action = "GroundNavigationUpdate"
      /\ b.kind = "RequestAction" /\ b.complete = 6 /\ b.failure = 7
      /\ b.action = "ContingencyBranch"
      /\ c.kind = "Complete" /\ c.failure = 0 /\ c.action = "none" /\ c.timeout = 0
      /\ f.kind = "Fail" /\ f.failure = 0 /\ f.action = "none" /\ f.timeout = 0
  BY DEF StepOf, verification_step, full_action_step
<1> HIDE DEF v, u, b, c, f
<1>3. \A i \in 1 .. 3 : i = 1 \/ i = 2 \/ i = 3
  OBVIOUS
<1>4. /\ \A i \in 4 .. 5 : i = 4 \/ i = 5
      /\ \A i \in 6 .. 7 : i = 6 \/ i = 7
  OBVIOUS
<1> QED
  BY <1>1, <1>2, <1>3, <1>4

(* A transition moves an engine to the step it names.                      *)
LEMMA TransitionFacts ==
  ASSUME NEW p \in EngineStates, NEW to \in 1 .. 7, NEW e \in Nat
  PROVE  /\ transition(Pack, p, to, e) \in EngineStates
         /\ transition(Pack, p, to, e).step = to
         /\ transition(Pack, p, to, e).state = p.state
<1> DEFINE q == [p EXCEPT !.step = to, !.entered = e]
<1>1. q \in EngineStates
  BY DEF EngineStates
<1>2. q.step = to
  BY DEF EngineStates
<1>3. q.state = p.state
  BY DEF EngineStates
<1>4. transition(Pack, p, to, e) = q
  BY PackFacts DEF transition
<1> HIDE DEF q
<1> QED
  BY <1>1, <1>2, <1>3, <1>4

(* An engine whose time is over asks for nothing any more, and no step     *)
(* becomes a later one by it.                                              *)
LEMMA TimeoutEnds ==
  ASSUME NEW p \in EngineStates, NEW e \in Nat, p.state = "Active"
  PROVE  LET q == TimeoutEdge(Pack, p, e)
         IN  /\ q \in EngineStates /\ ~Asks(q) /\ q.state # "Completed"
             /\ q.step \in {5, 6} => q.step = p.step
<1>1. p.step \in 1 .. 7
  BY DEF EngineStates
<1>2. CASE p.step \in 1 .. 5
  <2> DEFINE q == transition(Pack, p, 7, e)
  <2>1. Pack[p.step].failure = 7
    BY <1>2, PackFacts
  <2>2. TimeoutEdge(Pack, p, e) = q
    BY <2>1 DEF TimeoutEdge
  <2>3. 7 \in 1 .. 7
    OBVIOUS
  <2>4. q \in EngineStates /\ q.step = 7 /\ q.state = "Active"
    BY <2>3, TransitionFacts
  <2> HIDE DEF q
  <2> QED
    BY <2>2, <2>4 DEF Asks
<1>3. CASE p.step \in 6 .. 7
  <2>1. Pack[p.step].failure = 0
    BY <1>3, PackFacts
  <2>2. TimeoutEdge(Pack, p, e) = [p EXCEPT !.state = "Mistimed"]
    BY <2>1 DEF TimeoutEdge
  <2> QED
    BY <2>2 DEF EngineStates, Asks
<1> QED
  BY <1>1, <1>2, <1>3

(* What a tick may do: it never enters step 5 or 6, only the step Complete *)
(* completes, and a step that asks was one before.                         *)
LEMMA TickFacts ==
  ASSUME NEW p \in EngineStates, NEW e \in Nat, NEW satisfied
  PROVE  LET q == tick_procedure_engine(Pack, p, e, satisfied)
         IN  /\ q \in EngineStates
             /\ Asks(q) => Asks(p)
             /\ q.step \in {5, 6} => q.step = p.step
             /\ (p.state = "Completed" => p.step = 6) => (q.state = "Completed" => q.step = 6)
<1> DEFINE q == tick_procedure_engine(Pack, p, e, satisfied)
<1>1. CASE p.state # "Active"
  BY <1>1 DEF tick_procedure_engine
<1>2. CASE p.state = "Active" /\ TimedOut(Pack, p, e)
  <2>1. q = TimeoutEdge(Pack, p, e)
    BY <1>2 DEF tick_procedure_engine
  <2> HIDE DEF q
  <2> QED
    BY <1>2, <2>1, TimeoutEnds DEF q
<1>3. CASE p.state = "Active" /\ ~TimedOut(Pack, p, e)
  <2>0. q = tick_step(Pack, p, e, satisfied)
    BY <1>3 DEF tick_procedure_engine
  <2>1. CASE p.step \in 1 .. 3
    <3>1. Pack[p.step].kind = "Verify" /\ Pack[p.step].complete = p.step + 1
      BY <2>1, PackFacts
    <3> DEFINE r == transition(Pack, p, p.step + 1, e)
    <3>2. q = p \/ q = r
      BY <2>0, <3>1 DEF tick_step
    <3>3. p.step + 1 \in 1 .. 7
      BY <2>1
    <3>5. r \in EngineStates /\ r.step = p.step + 1 /\ r.state = "Active"
      BY <1>3, <3>3, TransitionFacts
    <3>6. Asks(p)
      BY <1>3, <2>1 DEF Asks
    <3>7. r.step \notin {5, 6}
      BY <2>1, <3>5
    <3> HIDE DEF q, r
    <3> QED
      BY <1>3, <3>2, <3>5, <3>6, <3>7 DEF q
  <2>2. CASE p.step \in 4 .. 5
    <3>1. Pack[p.step].kind = "RequestAction"
      BY <2>2, PackFacts
    <3>2. q = p
      BY <2>0, <3>1 DEF tick_step
    <3> QED
      BY <1>3, <3>2
  <2>3. CASE p.step = 6
    <3>1. Pack[p.step].kind = "Complete"
      BY <2>3, PackFacts
    <3>2. q = [p EXCEPT !.state = "Completed"]
      BY <2>0, <3>1 DEF tick_step
    <3> QED
      BY <2>3, <3>2 DEF EngineStates, Asks
  <2>4. CASE p.step = 7
    <3>1. Pack[p.step].kind = "Fail"
      BY <2>4, PackFacts
    <3>2. q = [p EXCEPT !.state = "Failed"]
      BY <2>0, <3>1 DEF tick_step
    <3> QED
      BY <2>4, <3>2 DEF EngineStates, Asks
  <2>5. p.step \in 1 .. 7
    BY DEF EngineStates
  <2> QED
    BY <2>1, <2>2, <2>3, <2>4, <2>5
<1> QED
  BY <1>1, <1>2, <1>3

(* A new session satisfies the invariant.                                  *)
LEMMA SessionInit == SInit => SessionInv
<1> SUFFICES ASSUME SInit PROVE SessionInv
  OBVIOUS
<1>1. PackageInv
  BY PackageInvInductive DEF SInit
<1>2. Happened("committed") = {} /\ pending = Empty /\ epoch = 0
  BY DEF SInit, PInit, Init, Happened
<1>3. CountInv /\ MirrorInv
  BY <1>2, WindowAssumption DEF SInit, PInit, CountInv, MirrorInv, MirrorAgrees, Occupied, Empty
<1>4. EngineInv /\ StepInv
  BY DEF SInit, EngineInv, StepInv, Asks, Closed
<1>5. BranchInv /\ TranscriptInv /\ ReviewInv /\ DebriefInv
  BY <1>2 DEF SInit, BranchInv, TranscriptInv, ReviewInv, DebriefInv
<1> QED
  BY <1>1, <1>3, <1>4, <1>5 DEF SessionInv

(* Lifecycle, pace and review leave the uplink and the procedure alone.    *)
LEMMA QuietStep ==
  ASSUME SessionInv, PackageInv', ReviewInv',
         UNCHANGED <<pending, epoch, history, frame, releases, procedure, ground, uplinkView,
                     disposition>>,
         lifecycle = "Completed" => lifecycle' = "Completed"
  PROVE  SessionInv'
<1>1. UNCHANGED <<staged, branch, resetAt, commits, rejected>>
  BY DEF uplinkView
<1>2. CountInv' /\ MirrorInv'
  BY <1>1 DEF SessionInv, CountInv, MirrorInv, MirrorAgrees, Occupied
<1>3. EngineInv' /\ StepInv' /\ BranchInv' /\ TranscriptInv'
  BY <1>1 DEF SessionInv, EngineInv, StepInv, BranchInv, TranscriptInv, Happened, CommittedTypes
<1>4. DebriefInv'
  BY DEF SessionInv, DebriefInv, DispositionIsEarned, Happened, CommittedTypes
<1> QED
  BY <1>2, <1>3, <1>4 DEF SessionInv

(* Actions of the operator that send nothing to the package.               *)
LEMMA QuietActions ==
  ASSUME SessionInv,
         prepare \/ (\E p \in Paces : set_pace(p)) \/ pause \/ resume \/ abort \/ review
  PROVE  SessionInv'
<1>1. CASE prepare
  <2>1. PackageInv'
    BY <1>1, InitializeStep DEF prepare, SessionInv
  <2>2. ReviewInv'
    BY <1>1 DEF prepare, SessionInv, ReviewInv, uplinkView, adapterVars
  <2> QED
    BY <1>1, <2>1, <2>2, QuietStep DEF prepare, initialize_mission_plan, vars
<1>2. ASSUME UNCHANGED pvars PROVE PackageInv'
  BY <1>2, PackageInvInductive DEF SessionInv
<1>3. CASE (\E p \in Paces : set_pace(p)) \/ pause \/ resume \/ abort
  <2>1. SameSession /\ (lifecycle = "Completed" => lifecycle' = "Completed")
    BY <1>3 DEF set_pace, pause, resume, abort
  <2>2. ReviewInv'
    BY <2>1 DEF SameSession, SessionInv, ReviewInv, uplinkView, adapterVars
  <2> QED
    BY <1>2, <2>1, <2>2, QuietStep DEF SameSession, pvars, vars, packageVars
<1>4. CASE review
  <2>1. ReviewInv'
    BY <1>4 DEF review, current_action_proposal, SessionInv, ReviewInv, uplinkView
  <2> QED
    BY <1>2, <1>4, <2>1, QuietStep DEF review, pvars, vars, packageVars, sessionVars
<1> QED
  BY <1>1, <1>3, <1>4

(* A recommended load is one of the package's, proposed within the window. *)
LEMMA ProposalFacts ==
  ASSUME SessionInv, NEW l \in recommended_load
  PROVE  /\ staged = NoLoad /\ l \in Loads /\ l.type \in SessionTypes
         /\ l.stage \in WindowOpen .. WindowClose
<1>1. /\ staged = NoLoad /\ ~(releases > WindowClose)
      /\ \/ procedure.step = 4 /\ ground.near = "yes" /\ l = ground_update_load(ground.frame, releases)
         \/ procedure.step = 5 /\ l = branch_load(frame, releases)
  BY DEF recommended_load
<1>2. releases \in Nat /\ WindowOpen \in Nat /\ WindowClose \in Nat
  BY WindowAssumption, EpochAssumption DEF SessionInv, CountInv, PackageInv, UplinkInv, TypeOK
<1>3. releases > WindowOpen
  BY <1>1 DEF SessionInv, EngineInv, Closed
<1>4. releases \in WindowOpen .. WindowClose
  BY <1>1, <1>2, <1>3
<1>5. frame \in Frames /\ (ground.near = "yes" => ground.frame \in Frames)
  BY WindowAssumption DEF SessionInv, CountInv, NoEstimate
<1>6. l \in Loads
  BY <1>1, <1>4, <1>5, ProposalAssumption
<1>7. l.type \in SessionTypes /\ l.stage = releases
  BY <1>1 DEF ground_update_load, branch_load, LoadOf, SessionTypes
<1> QED
  BY <1>1, <1>4, <1>6, <1>7

(* Staging a proposal: the mirror takes the load exactly if the slot does. *)
LEMMA StageOutcome ==
  ASSUME PackageInv, NEW l \in Loads, stage_uplink(l, {}, TRUE), pending.state # "Staged"
  PROVE  /\ UNCHANGED <<epoch, history, frame>>
         /\ \/ /\ Accepted("StageReceipt", l.id, "Staged")
               /\ pending = Empty
               /\ pending' = [load |-> l, state |-> "Staged", effective |-> l.effective]
            \/ /\ ~Accepted("StageReceipt", l.id, "Staged")
               /\ pending' = pending
<1>1. stage(l, {}, frame, TRUE) /\ UNCHANGED frame
  BY DEF stage_uplink, Journalled
<1>2. CASE StageAccepted(l, {}, frame, TRUE)
  <2>1. pending = Empty
    BY <1>2 DEF StageAccepted, Occupied, PackageInv, UplinkInv, TypeOK, PendingUplink
  <2> QED
    BY <1>1, <1>2, <2>1 DEF StageAccepted, StageReply, receipt, Accepted
<1>3. CASE StageExecuted(l)
  BY <1>1, <1>3 DEF StageExecuted, StageReply, receipt, Accepted
<1>4. CASE StageHeld(l)
  BY <1>1, <1>4 DEF StageHeld, StageReply, receipt, Accepted
<1>5. CASE StageOccupied(l)
  BY <1>1, <1>5 DEF StageOccupied, StageReply, receipt, Accepted
<1>6. CASE StageRejected(l, {}, frame, TRUE)
  BY <1>1, <1>6 DEF StageRejected, StageReply, receipt, Accepted
<1> QED
  BY <1>1, <1>2, <1>3, <1>4, <1>5, <1>6 DEF stage

(* A receipt in state Committed has a commit behind it, so the transcript  *)
(* never speaks of a commit that did not happen.                           *)
LEMMA TranscriptGrows ==
  ASSUME SessionInv, UplinkInv', record_action, UNCHANGED epoch,
         Happened("committed") \subseteq Happened("committed")',
         \A h \in Happened("committed")' \ Happened("committed") :
           /\ h.load.type \in SessionTypes /\ h.load.stage \in WindowOpen .. WindowClose
           /\ h.at = releases /\ releases <= WindowClose + 1
           /\ reply'.state = "Committed"
  PROVE  TranscriptInv'
<1>1. commits' = IF reply'.state = "Committed" THEN commits \cup {releases} ELSE commits
  BY DEF record_action
<1>2. ASSUME NEW h \in Happened("committed")'
      PROVE  /\ h.load.type \in SessionTypes /\ h.load.stage \in WindowOpen .. WindowClose
             /\ h.at <= WindowClose + 1 /\ h.at \in commits'
  <2>1. CASE h \in Happened("committed")
    BY <1>1, <2>1 DEF SessionInv, TranscriptInv
  <2>2. CASE h \notin Happened("committed")
    BY <1>1, <1>2, <2>2
  <2> QED
    BY <2>1, <2>2
<1>3. ASSUME commits' # {} PROVE Happened("committed")' # {}
  <2>1. CASE reply'.state = "Committed"
    BY <2>1 DEF UplinkInv, ReceiptsAreEarned, Empty
  <2>2. CASE reply'.state # "Committed"
    BY <1>1, <1>3, <2>2 DEF SessionInv, TranscriptInv
  <2> QED
    BY <2>1, <2>2
<1> QED
  BY <1>2, <1>3 DEF TranscriptInv

(* stage_proposal: the mirror follows the receipt of the package.          *)
LEMMA StageProposalStep ==
  ASSUME SessionInv, stage_proposal
  PROVE  SessionInv'
<1>1. PICK l \in recommended_load : reviewed = l.id /\ stage_load(l) /\ active' = l.id
  BY DEF stage_proposal
<1>2. /\ staged = NoLoad /\ l \in Loads /\ l.type \in SessionTypes
      /\ l.stage \in WindowOpen .. WindowClose /\ l.id # 0
  BY ProposalFacts, LoadFacts
<1>3. /\ Lives /\ stage_uplink(l, {}, TRUE) /\ record_action
      /\ staged' = IF Accepted("StageReceipt", l.id, "Staged") THEN l ELSE staged
      /\ UNCHANGED <<procedure, branch, resetAt, reviewed>>
      /\ UNCHANGED <<lifecycle, releases, ground, disposition>>
  BY <1>1 DEF stage_load, stage_proposal, record_action
<1>4. pending.state # "Staged"
  BY <1>2 DEF SessionInv, MirrorInv, MirrorAgrees
<1>5. /\ UNCHANGED <<epoch, history, frame>>
      /\ \/ /\ staged' = l /\ pending = Empty
            /\ pending' = [load |-> l, state |-> "Staged", effective |-> l.effective]
         \/ staged' = NoLoad /\ pending' = pending
  BY <1>2, <1>3, <1>4, StageOutcome DEF SessionInv
<1>6. PackageInv'
  BY <1>2, <1>3, StageUplinkStep DEF SessionInv
<1>7. CountInv' /\ EngineInv' /\ StepInv'
  BY <1>3, <1>5 DEF SessionInv, CountInv, EngineInv, StepInv, Happened, CommittedTypes
<1>8. MirrorInv'
  <2>1. CASE staged' = NoLoad /\ pending' = pending
    BY <1>2, <1>3, <1>5, <2>1 DEF SessionInv, MirrorInv, MirrorAgrees, Occupied
  <2>2. CASE /\ staged' = l /\ pending = Empty
             /\ pending' = [load |-> l, state |-> "Staged", effective |-> l.effective]
    <3>1. staged' # NoLoad
      BY <1>2, <2>2 DEF NoLoad
    <3>2. resetAt' = Never
      BY <1>3, <2>2 DEF SessionInv, MirrorInv, MirrorAgrees, Empty
    <3>3. pending'.state = "Staged" /\ pending'.load = l
      BY <2>2
    <3>4. releases' = epoch'
      BY <1>3, <1>5 DEF SessionInv, CountInv
    <3> QED
      BY <1>2, <2>2, <3>1, <3>2, <3>3, <3>4 DEF MirrorInv, MirrorAgrees, Never
  <2> QED
    BY <1>5, <2>1, <2>2
<1>9. BranchInv'
  BY <1>3, <1>5 DEF SessionInv, BranchInv, Happened, Empty
<1>10. TranscriptInv'
  BY <1>3, <1>5, <1>6, TranscriptGrows DEF PackageInv, Happened
<1>11. ReviewInv'
  BY <1>1, <1>2, <1>3, <1>5 DEF ReviewInv
<1>12. DebriefInv'
  BY <1>3 DEF SessionInv, DebriefInv, Lives
<1> QED
  BY <1>6, <1>7, <1>8, <1>9, <1>10, <1>11, <1>12 DEF SessionInv

(* The requests of the session name the load it has mirrored.              *)
LEMMA RequestFacts ==
  ASSUME SessionInv, staged # NoLoad, NEW kind \in {"CommitRequest", "Cancellation"}
  PROVE  /\ pending.state = "Staged" /\ Occupied /\ pending.load = staged
         /\ staged \in Loads /\ staged.id # 0 /\ staged.effective \in Epochs
         /\ staged.type \in SessionTypes /\ staged.stage \in WindowOpen .. WindowClose
         /\ StagedRequest(kind) \in UplinkControlRecord
         /\ StagedRequest(kind).state = "Staged"
         /\ StagedRequest(kind).effective = staged.effective
         /\ Names(StagedRequest(kind), kind)
         /\ resetAt = Never
<1>1. pending.state = "Staged" /\ Occupied /\ pending.load = staged /\ resetAt = Never
  BY DEF SessionInv, MirrorInv, MirrorAgrees, Occupied
<1>2. staged \in Loads
  BY <1>1 DEF SessionInv, PackageInv, UplinkInv, TypeOK, PendingUplink, Empty
<1>3. staged.type \in SessionTypes /\ staged.stage \in WindowOpen .. WindowClose
  BY <1>1 DEF SessionInv, MirrorInv
<1>4. /\ StagedRequest(kind) \in UplinkControlRecord
      /\ StagedRequest(kind).state = "Staged"
      /\ StagedRequest(kind).effective = staged.effective
  BY <1>2, LoadFacts DEF StagedRequest, UplinkControlRecord, UplinkControlKinds, UplinkStates,
     UplinkReasonCodes
<1>5. Names(StagedRequest(kind), kind)
  BY <1>1 DEF Names, StagedRequest
<1> QED
  BY <1>1, <1>2, <1>3, <1>4, <1>5, LoadFacts

(* A commit of the session is taken or refused as late.                    *)
LEMMA CommitOutcome ==
  ASSUME SessionInv, staged # NoLoad, commit_uplink(StagedRequest("CommitRequest"))
  PROVE  /\ UNCHANGED <<epoch, frame>>
         /\ \/ /\ Accepted("CommitReceipt", staged.id, "Committed")
               /\ pending' = [load |-> staged, state |-> "Committed", effective |-> staged.effective]
               /\ history' = history \cup {Record("committed", staged, epoch)}
            \/ /\ ~Accepted("CommitReceipt", staged.id, "Committed")
               /\ reply'.state = "Rejected"
               /\ UNCHANGED <<pending, history>>
<1> DEFINE r == StagedRequest("CommitRequest")
<1>1. commit(r) /\ UNCHANGED frame
  BY DEF commit_uplink, Journalled
<1>2. /\ pending.state = "Staged" /\ Occupied /\ pending.load = staged
      /\ r.effective = staged.effective /\ Names(r, "CommitRequest")
  BY RequestFacts
<1>3. pending \in PendingUplink
  BY <1>2 DEF SessionInv, PackageInv, UplinkInv, TypeOK, Occupied, Empty
<1> HIDE DEF r
<1>4. CASE CommitAccepted(r)
  <2>1. pending' = [load |-> staged, state |-> "Committed", effective |-> staged.effective]
    BY <1>2, <1>3, <1>4 DEF CommitAccepted, PendingUplink
  <2>2. Accepted("CommitReceipt", staged.id, "Committed")
    BY <1>2, <1>4 DEF CommitAccepted, CommitReply, receipt, Accepted
  <2> QED
    BY <1>1, <1>2, <1>4, <2>1, <2>2 DEF CommitAccepted, Note
<1>5. CASE CommitLate(r)
  BY <1>1, <1>5 DEF CommitLate, CommitReply, receipt, Accepted
<1>6. ~EchoRequest(r) /\ ~CommitMismatch(r) /\ ~CommitAgain(r)
  BY <1>2 DEF EchoRequest, CommitMismatch, CommitAgain
<1> QED
  BY <1>1, <1>4, <1>5, <1>6 DEF commit

(* commit_proposal: what is committed was reviewed and is in the window.   *)
LEMMA CommitProposalStep ==
  ASSUME SessionInv, commit_proposal
  PROVE  SessionInv'
<1>0. /\ staged # NoLoad /\ active = staged.id /\ active' = 0
      /\ Lives /\ CommitIsAsked /\ record_action
      /\ commit_uplink(StagedRequest("CommitRequest"))
      /\ IF Accepted("CommitReceipt", staged.id, "Committed")
         THEN CommitTaken
         ELSE UNCHANGED <<branch, resetAt, procedure, staged>>
      /\ UNCHANGED <<lifecycle, releases, ground, disposition>>
  BY DEF commit_proposal, commit_load, record_action
<1>1. /\ pending.state = "Staged" /\ Occupied /\ pending.load = staged
      /\ staged \in Loads /\ staged.id # 0 /\ staged.effective \in Epochs
      /\ staged.type \in SessionTypes /\ staged.stage \in WindowOpen .. WindowClose
      /\ StagedRequest("CommitRequest") \in UplinkControlRecord
      /\ StagedRequest("CommitRequest").state = "Staged"
      /\ resetAt = Never
  BY <1>0, RequestFacts
<1>2. PackageInv' /\ UNCHANGED <<epoch, frame>>
  BY <1>0, <1>1, CommitUplinkStep, CommitOutcome DEF SessionInv
<1>3. CountInv' /\ DebriefInv'
  BY <1>0, <1>2 DEF SessionInv, CountInv, DebriefInv, Lives
<1>4. CASE /\ ~Accepted("CommitReceipt", staged.id, "Committed")
           /\ reply'.state = "Rejected"
           /\ UNCHANGED <<pending, history>>
  <2>1. UNCHANGED <<branch, resetAt, procedure, staged>>
    BY <1>0, <1>4
  <2>2. MirrorInv' /\ EngineInv' /\ StepInv' /\ BranchInv'
    BY <1>0, <1>2, <1>4, <2>1
    DEF SessionInv, MirrorInv, MirrorAgrees, Occupied, EngineInv, StepInv, BranchInv, Happened,
        CommittedTypes
  <2>3. TranscriptInv'
    BY <1>0, <1>2, <1>4, TranscriptGrows DEF PackageInv, Happened
  <2>4. ReviewInv'
    BY <1>0, <1>1, <2>1 DEF ReviewInv
  <2> QED
    BY <1>2, <1>3, <2>2, <2>3, <2>4 DEF SessionInv
<1>5. CASE /\ Accepted("CommitReceipt", staged.id, "Committed")
           /\ pending' = [load |-> staged, state |-> "Committed", effective |-> staged.effective]
           /\ history' = history \cup {Record("committed", staged, epoch)}
  <2> DEFINE new == Record("committed", staged, epoch)
  <2>1. /\ branch' = IF staged.type = "ContingencyBranch" THEN Argument[staged] ELSE branch
        /\ resetAt' = IF staged.type = "GroundNavigationUpdate" THEN staged.effective ELSE resetAt
        /\ procedure' = accept_action(Pack, procedure, releases, TRUE)
        /\ staged' = NoLoad
    BY <1>0, <1>5 DEF CommitTaken
  <2>2. /\ new.event = "committed" /\ new.load = staged /\ new.at = epoch
        /\ Happened("committed")' = Happened("committed") \cup {new}
        /\ Happened("executed")' = Happened("executed")
    BY <1>5 DEF Record, Happened
  <2> HIDE DEF new
  <2>3. /\ pending'.state = "Committed" /\ pending'.load = staged
        /\ pending'.effective = staged.effective
    BY <1>5
  <2>4. reply'.state = "Committed" /\ releases = epoch /\ releases \in Nat
    BY <1>5, EpochAssumption DEF Accepted, SessionInv, CountInv, PackageInv, UplinkInv, TypeOK
  <2>5. /\ procedure \in EngineStates /\ procedure.state = "Active"
        /\ procedure.step \in 4 .. 5 /\ Pack[procedure.step].action = staged.type
    <3>1. procedure.state = "Active" /\ Pack[procedure.step].action = staged.type
      BY <1>0 DEF CommitIsAsked, AsksFor
    <3>2. procedure \in EngineStates
      BY <3>1 DEF SessionInv, EngineInv, Closed
    <3>3. procedure.step \in 1 .. 7
      BY <3>2 DEF EngineStates
    <3>4. staged.type # "none"
      BY <1>1 DEF SessionTypes
    <3>5. procedure.step \notin 1 .. 3 /\ procedure.step # 6 /\ procedure.step # 7
      BY <3>1, <3>4, PackFacts
    <3> QED
      BY <3>1, <3>2, <3>3, <3>5
  <2>6. /\ procedure' \in EngineStates /\ procedure'.state = "Active"
        /\ procedure'.step = procedure.step + 1
    <3>1. Pack[procedure.step].complete = procedure.step + 1
      BY <2>5, PackFacts
    <3>2. procedure.step + 1 \in 1 .. 7
      BY <2>5
    <3>3. procedure' = transition(Pack, procedure, procedure.step + 1, releases)
      BY <2>1, <3>1 DEF accept_action
    <3> QED
      BY <2>4, <2>5, <3>2, <3>3, TransitionFacts
  <2>7. releases <= WindowClose + 1 /\ releases > WindowOpen
    <3>1. Asks(procedure)
      BY <2>5 DEF Asks
    <3>2. procedure # Closed
      BY <2>5 DEF Closed
    <3> QED
      BY <3>1, <3>2 DEF SessionInv, EngineInv
  <2>8. EngineInv'
    BY <1>0, <2>6, <2>7 DEF EngineInv
  <2>9. StepInv'
    <3>1. /\ CommittedTypes \subseteq CommittedTypes' /\ staged.type \in CommittedTypes'
      BY <2>2 DEF CommittedTypes
    <3>2. CASE procedure.step = 4
      BY <2>5, <2>6, <3>1, <3>2, PackFacts DEF StepInv
    <3>3. CASE procedure.step = 5
      <4>1. "GroundNavigationUpdate" \in CommittedTypes
        BY <3>3 DEF SessionInv, StepInv
      <4> QED
        BY <2>5, <2>6, <3>1, <3>3, <4>1, PackFacts DEF StepInv
    <3> QED
      BY <2>5, <3>2, <3>3
  <2>10. MirrorInv'
    BY <1>0, <1>1, <1>2, <2>1, <2>3, <2>4 DEF MirrorInv, MirrorAgrees, SessionTypes, Never
  <2>11. BranchInv'
    <3>1. CASE staged.type = "ContingencyBranch"
      BY <2>1, <2>3, <3>1 DEF BranchInv
    <3>2. CASE staged.type # "ContingencyBranch"
      BY <1>1, <2>1, <2>2, <3>2 DEF SessionInv, BranchInv
    <3> QED
      BY <3>1, <3>2
  <2>12. TranscriptInv'
    BY <1>0, <1>1, <1>2, <2>2, <2>4, <2>7, TranscriptGrows DEF PackageInv
  <2>13. ReviewInv'
    BY <2>1 DEF ReviewInv
  <2> QED
    BY <1>2, <1>3, <2>8, <2>9, <2>10, <2>11, <2>12, <2>13 DEF SessionInv
<1> QED
  BY <1>0, <1>4, <1>5, CommitOutcome

(* cancel_proposal: the slot and its mirror are emptied together.          *)
LEMMA CancelProposalStep ==
  ASSUME SessionInv, cancel_proposal
  PROVE  SessionInv'
<1> DEFINE r == StagedRequest("Cancellation")
<1>0. /\ staged # NoLoad /\ active = staged.id /\ active' = 0
      /\ Lives /\ record_action /\ cancel_uplink(r)
      /\ IF Accepted("Cancellation", staged.id, "Cancelled")
         THEN staged' = NoLoad ELSE UNCHANGED staged
      /\ UNCHANGED <<procedure, branch, resetAt>>
      /\ UNCHANGED <<lifecycle, releases, ground, disposition>>
  BY DEF cancel_proposal, cancel_load, record_action
<1>1. /\ pending.state = "Staged" /\ Occupied /\ pending.load = staged
      /\ r \in UplinkControlRecord /\ r.state = "Staged"
      /\ Names(r, "Cancellation") /\ resetAt = Never
  BY <1>0, RequestFacts
<1> HIDE DEF r
<1>2. CancelAccepted(r) /\ UNCHANGED frame
  BY <1>0, <1>1 DEF cancel_uplink, Journalled, cancel, EchoRequest, CancelMismatch
<1>3. /\ pending' = Empty /\ reply'.state = "Cancelled"
      /\ UNCHANGED <<epoch, history, frame>>
      /\ Accepted("Cancellation", staged.id, "Cancelled")
  BY <1>1, <1>2 DEF CancelAccepted, CancelReceipt, receipt, Accepted
<1>4. staged' = NoLoad
  BY <1>0, <1>3
<1>5. PackageInv'
  BY <1>0, <1>1, CancelUplinkStep DEF SessionInv
<1>6. CountInv' /\ EngineInv' /\ StepInv'
  BY <1>0, <1>3 DEF SessionInv, CountInv, EngineInv, StepInv, Happened, CommittedTypes
<1>7. MirrorInv'
  BY <1>0, <1>1, <1>3, <1>4 DEF SessionInv, MirrorInv, MirrorAgrees, CountInv, Occupied, Empty
<1>8. BranchInv'
  BY <1>0, <1>1, <1>3 DEF SessionInv, BranchInv, Happened
<1>9. TranscriptInv'
  BY <1>0, <1>3, <1>5, TranscriptGrows DEF PackageInv, Happened
<1>10. ReviewInv' /\ DebriefInv'
  BY <1>0, <1>4 DEF SessionInv, ReviewInv, DebriefInv, Lives
<1> QED
  BY <1>5, <1>6, <1>7, <1>8, <1>9, <1>10 DEF SessionInv

(* What a release does to the slot: it executes a committed load on its    *)
(* release, discards a staged one past its expiry, or leaves it alone.     *)
LEMMA ReleaseOutcome ==
  ASSUME PackageInv, process_release
  PROVE  /\ Happened("committed")' = Happened("committed")
         /\ Happened("executed") \subseteq Happened("executed")'
         /\ \/ pending' = pending /\ ~Due /\ ~Overdue
            \/ /\ pending' = Empty /\ Due /\ ~Overdue
               /\ Record("executed", pending.load, epoch) \in Happened("executed")'
            \/ pending' = Empty /\ pending.state = "Staged" /\ Overdue
<1>1. CASE ~planReady
  <2>1. pending = Empty /\ UNCHANGED <<pending, history>>
    BY <1>1 DEF PackageInv, PlanInv, process_release
  <2> QED
    BY <2>1 DEF Happened, Due, Overdue, Occupied, Empty
<1>2. CASE planReady
  <2>1. release
    BY <1>2 DEF process_release
  <2>2. CASE ReleaseExpire
    <3>1. pending.state # "Committed"
      BY <2>2, NotOverdue DEF PackageInv, CommittedNotOverdue, ReleaseExpire
    <3>2. pending.state = "Staged"
      BY <2>2, <3>1 DEF ReleaseExpire, Overdue, Occupied, PackageInv, UplinkInv, TypeOK, PendingUplink, Empty
    <3> QED
      BY <2>2, <3>2 DEF ReleaseExpire, Happened
  <2>3. CASE ReleaseNothing
    BY <2>3 DEF ReleaseNothing, Happened
  <2>4. CASE ReleaseExecute
    <3>1. /\ history' = history \cup {Record("executed", pending.load, epoch)}
          /\ Record("executed", pending.load, epoch).event = "executed"
          /\ pending' = Empty /\ Due /\ ~Overdue
      BY <2>4 DEF ReleaseExecute, Note, Record
    <3> QED
      BY <3>1 DEF Happened
  <2> QED
    BY <2>1, <2>2, <2>3, <2>4 DEF release
<1> QED
  BY <1>1, <1>2

(* What a release does to the engine: past the end of the window a step    *)
(* that could still ask expires before it is ticked.                       *)
LEMMA EngineRelease ==
  ASSUME SessionInv, NEW gnssLost, tick_procedure(gnssLost), releases' = releases + 1
  PROVE  /\ EngineInv'
         /\ procedure'.step \in {5, 6} => procedure'.step = procedure.step
<1> DEFINE opened == IF releases = WindowOpen THEN entry(1, releases) ELSE procedure
           expired == IF releases > WindowClose THEN expire_at(Pack, opened, releases) ELSE opened
           sat == Satisfied(expired.step, gnssLost)
<1>0. /\ releases \in Nat /\ WindowOpen \in Nat /\ WindowClose \in Nat
      /\ WindowOpen <= WindowClose
  BY WindowAssumption, EpochAssumption DEF SessionInv, CountInv, PackageInv, UplinkInv, TypeOK
<1>1. procedure' = IF opened = Closed THEN Closed
                   ELSE tick_procedure_engine(Pack, expired, releases, sat)
  BY DEF tick_procedure
<1>2. CASE opened = Closed
  BY <1>1, <1>2 DEF EngineInv, Closed, Asks
<1>3. CASE opened # Closed
  <2>1. /\ opened \in EngineStates /\ releases >= WindowOpen
        /\ opened.state = "Completed" => opened.step = 6
        /\ opened.step \in {5, 6} => opened.step = procedure.step
    <3>1. CASE releases = WindowOpen
      <4>1. opened = [state |-> "Active", step |-> 1, entered |-> releases]
        BY <3>1 DEF entry
      <4> QED
        BY <1>0, <3>1, <4>1 DEF EngineStates
    <3>2. CASE releases # WindowOpen
      <4>1. opened = procedure
        BY <3>2
      <4>2. releases > WindowOpen
        BY <1>3, <4>1 DEF SessionInv, EngineInv
      <4> QED
        BY <1>0, <1>3, <4>1, <4>2 DEF SessionInv, EngineInv
    <3> QED
      BY <3>1, <3>2
  <2> HIDE DEF opened
  <2>2. /\ expired \in EngineStates
        /\ expired.state = "Completed" => expired.step = 6
        /\ expired.step \in {5, 6} => expired.step = opened.step
        /\ releases > WindowClose => ~Asks(expired)
    <3>1. CASE releases > WindowClose /\ opened.state = "Active"
      <4>1. expired = TimeoutEdge(Pack, opened, releases)
        BY <3>1 DEF expire_at
      <4> HIDE DEF expired
      <4> QED
        BY <1>0, <2>1, <3>1, <4>1, TimeoutEnds
    <3>2. CASE ~(releases > WindowClose /\ opened.state = "Active")
      <4>1. expired = opened
        BY <3>2 DEF expire_at
      <4> QED
        BY <2>1, <3>2, <4>1 DEF Asks
    <3> QED
      BY <3>1, <3>2
  <2> HIDE DEF expired, sat
  <2>3. procedure' = tick_procedure_engine(Pack, expired, releases, sat)
    BY <1>1, <1>3
  <2>4. /\ procedure' \in EngineStates
        /\ Asks(procedure') => Asks(expired)
        /\ procedure'.step \in {5, 6} => procedure'.step = expired.step
        /\ procedure'.state = "Completed" => procedure'.step = 6
    BY <1>0, <2>2, <2>3, TickFacts
  <2>5. Asks(procedure') => releases' <= WindowClose + 1
    BY <1>0, <2>2, <2>4
  <2>6. releases' > WindowOpen
    BY <1>0, <2>1
  <2>7. procedure'.step \in {5, 6} => procedure'.step = procedure.step
    BY <2>1, <2>2, <2>4
  <2> QED
    BY <2>4, <2>5, <2>6, <2>7 DEF EngineInv, Asks
<1> QED
  BY <1>2, <1>3

(* The debrief of a completed session reads the transcript and the engine, *)
(* both of which the invariant ties to what was committed.                 *)
LEMMA CompletionIsEarned ==
  ASSUME PackageInv', EngineInv', StepInv', TranscriptInv', complete, UNCHANGED <<branch, commits>>
  PROVE  DebriefInv'
<1> DEFINE state == IF procedure' = Closed THEN "Skipped" ELSE procedure'.state
           operator == operator_disposition(state)
<1>1. /\ lifecycle' = "Completed"
      /\ disposition'.operator = operator
      /\ disposition'.procedure = IF branch = 2 THEN "AlternateBranch"
                                  ELSE procedure_disposition(state)
  BY DEF complete
<1>2. ASSUME operator = "TimelyReference"
      PROVE  /\ disposition'.procedure = "Completed"
             /\ CommittedTypes' = SessionTypes
             /\ \A h \in Happened("committed")' : h.at <= WindowClose
  <2>1. /\ state = "Completed" /\ branch # 2
        /\ ~\E e \in commits : e > WindowClose
    BY <1>2 DEF operator_disposition
  <2>2. procedure'.step = 6
    BY <2>1 DEF EngineInv
  <2>3. SessionTypes \subseteq CommittedTypes'
    BY <2>2 DEF StepInv, SessionTypes
  <2>4. CommittedTypes' \subseteq SessionTypes
    BY DEF TranscriptInv, CommittedTypes
  <2>5. ASSUME NEW h \in Happened("committed")' PROVE h.at <= WindowClose
    <3>1. h.at \in commits /\ h.at \in Epochs
      BY <2>5 DEF TranscriptInv, PackageInv, UplinkInv, TypeOK, Happened
    <3> QED
      BY <2>1, <3>1, WindowAssumption, EpochAssumption
  <2> QED
    BY <1>1, <2>1, <2>3, <2>4, <2>5 DEF procedure_disposition
<1>3. operator \in {"NoAction", "RejectedAction"} <=> commits = {}
  BY DEF operator_disposition
<1>4. commits = {} <=> Happened("committed")' = {}
  BY DEF TranscriptInv
<1> HIDE DEF operator, state
<1> QED
  BY <1>1, <1>2, <1>3, <1>4 DEF DebriefInv, DispositionIsEarned, SessionTypes

(* A release keeps the session's invariant.                                *)
LEMMA AdvanceStep ==
  ASSUME SessionInv, NEW gnssLost, NEW worldComplete \in BOOLEAN, NEW next,
         advance_internal(gnssLost, worldComplete, next)
  PROVE  SessionInv'
<1>0. /\ Lives /\ releases < MaxReleases /\ process_release /\ expire_staged
      /\ ground' \in Estimates \cup {ground} /\ tick_procedure(gnssLost) /\ mark_reset
      /\ releases' = releases + 1
      /\ IF worldComplete THEN complete ELSE lifecycle' = next /\ UNCHANGED disposition
      /\ UNCHANGED <<branch, commits, rejected, reviewed, active>>
  BY DEF advance_internal, adapterVars
<1>1. PackageInv'
  BY <1>0, ProcessReleaseStep DEF SessionInv
<1>2. /\ Happened("committed")' = Happened("committed")
      /\ Happened("executed") \subseteq Happened("executed")'
      /\ \/ pending' = pending /\ ~Due /\ ~Overdue
         \/ /\ pending' = Empty /\ Due /\ ~Overdue
            /\ Record("executed", pending.load, epoch) \in Happened("executed")'
         \/ pending' = Empty /\ pending.state = "Staged" /\ Overdue
  BY <1>0, ReleaseOutcome DEF SessionInv
<1>3. /\ releases = epoch /\ releases \in Nat /\ releases' = epoch' /\ releases' <= MaxReleases
      /\ Never # releases
  <2>1. releases = epoch /\ epoch \in Epochs /\ epoch < MaxEpoch
    BY <1>0, WindowAssumption, EpochAssumption DEF SessionInv, CountInv, PackageInv, UplinkInv, TypeOK
  <2>2. epoch' = epoch + 1
    BY <1>0, <2>1, ReleaseUplink DEF SessionInv
  <2> QED
    BY <1>0, <2>1, <2>2, WindowAssumption, EpochAssumption DEF Never
<1>4. CountInv'
  BY <1>0, <1>3 DEF SessionInv, CountInv, process_release, tick
<1>5. EngineInv' /\ StepInv'
  <2>1. EngineInv' /\ (procedure'.step \in {5, 6} => procedure'.step = procedure.step)
    BY <1>0, EngineRelease
  <2>2. CommittedTypes' = CommittedTypes
    BY <1>2 DEF CommittedTypes
  <2> QED
    BY <2>1, <2>2 DEF SessionInv, StepInv
<1>6. MirrorInv'
  <2>0. /\ staged = NoLoad => pending.state # "Staged"
        /\ staged # NoLoad => pending.state = "Staged" /\ pending.load = staged
        /\ resetAt = IF pending.state = "Committed" /\ pending.load.type = "GroundNavigationUpdate"
                     THEN pending.effective ELSE Never
        /\ Occupied => pending.load.type \in SessionTypes
                       /\ pending.load.stage \in WindowOpen .. WindowClose
    BY DEF SessionInv, MirrorInv, MirrorAgrees
  <2>1. /\ staged' = IF staged # NoLoad /\ releases > staged.expires THEN NoLoad ELSE staged
        /\ resetAt' = IF resetAt = releases THEN Never ELSE resetAt
    BY <1>0 DEF expire_staged, mark_reset
  <2>2. CASE pending' = pending /\ ~Due /\ ~Overdue
    <3>1. staged' = staged
      BY <1>3, <2>0, <2>1, <2>2 DEF Overdue, Occupied
    <3>2. resetAt' = resetAt
      BY <1>3, <2>0, <2>1, <2>2 DEF Due
    <3> QED
      BY <1>3, <2>0, <2>2, <3>1, <3>2 DEF MirrorInv, MirrorAgrees, Occupied
  <2>3. CASE pending' = Empty /\ Due /\ ~Overdue
    <3>1. staged' = NoLoad
      BY <2>0, <2>1, <2>3 DEF Due
    <3>2. resetAt' = Never
      BY <1>3, <2>0, <2>1, <2>3 DEF Due
    <3> QED
      BY <1>3, <2>3, <3>1, <3>2 DEF MirrorInv, MirrorAgrees, Occupied, Empty
  <2>4. CASE pending' = Empty /\ pending.state = "Staged" /\ Overdue
    <3>1. staged' = NoLoad
      BY <1>3, <2>0, <2>1, <2>4 DEF Overdue
    <3>2. resetAt' = Never
      BY <1>3, <2>0, <2>1, <2>4
    <3> QED
      BY <1>3, <2>4, <3>1, <3>2 DEF MirrorInv, MirrorAgrees, Occupied, Empty
  <2> QED
    BY <1>2, <2>2, <2>3, <2>4
<1>7. BranchInv'
  <2> SUFFICES ASSUME branch # 0 PROVE BranchInv'
    BY <1>0 DEF BranchInv
  <2>1. CASE \E h \in Happened("executed") :
               h.load.type = "ContingencyBranch" /\ Argument[h.load] = branch
    BY <1>0, <1>2, <2>1 DEF BranchInv
  <2>2. CASE /\ pending.state = "Committed" /\ pending.load.type = "ContingencyBranch"
             /\ Argument[pending.load] = branch
    <3>1. CASE pending' = pending
      BY <1>0, <2>2, <3>1 DEF BranchInv
    <3>2. CASE Record("executed", pending.load, epoch) \in Happened("executed")'
      <4>1. Record("executed", pending.load, epoch).load = pending.load
        BY DEF Record
      <4> QED
        BY <1>0, <2>2, <3>2, <4>1 DEF BranchInv
    <3> QED
      BY <1>2, <2>2, <3>1, <3>2
  <2> QED
    BY <2>1, <2>2 DEF SessionInv, BranchInv
<1>8. TranscriptInv'
  BY <1>0, <1>2 DEF SessionInv, TranscriptInv
<1>9. ReviewInv'
  BY <1>0 DEF SessionInv, ReviewInv, expire_staged
<1>10. DebriefInv'
  <2>1. CASE worldComplete
    BY <1>0, <1>1, <1>5, <1>8, <2>1, CompletionIsEarned
  <2>2. CASE ~worldComplete
    BY <1>0, <2>2 DEF SessionInv, DebriefInv, Lives
  <2> QED
    BY <2>1, <2>2
<1> QED
  BY <1>1, <1>4, <1>5, <1>6, <1>7, <1>8, <1>9, <1>10 DEF SessionInv

(* Every step of the session keeps its invariant.                          *)
LEMMA SessionInvInductive == SessionInv /\ [SNext]_svars => SessionInv'
<1> SUFFICES ASSUME SessionInv, [SNext]_svars PROVE SessionInv'
  OBVIOUS
<1>1. CASE UNCHANGED svars
  <2>1. PackageInv'
    BY <1>1, PackageInvInductive DEF svars, SessionInv
  <2>2. ReviewInv'
    BY <1>1 DEF svars, SessionInv, ReviewInv, uplinkView, adapterVars
  <2> QED
    BY <1>1, <2>1, <2>2, QuietStep DEF svars, pvars, vars, packageVars, sessionVars
<1>2. CASE prepare \/ (\E p \in Paces : set_pace(p)) \/ pause \/ resume \/ abort \/ review
  BY <1>2, QuietActions
<1>3. CASE \E gnssLost, worldComplete \in BOOLEAN :
             \/ advance_one_release(gnssLost, worldComplete)
             \/ step_one_release(gnssLost, worldComplete)
             \/ advance_bounded(gnssLost, worldComplete)
  BY <1>3, AdvanceStep DEF advance_one_release, step_one_release, advance_bounded
<1>4. CASE stage_proposal
  BY <1>4, StageProposalStep
<1>5. CASE commit_proposal
  BY <1>5, CommitProposalStep
<1>6. CASE cancel_proposal
  BY <1>6, CancelProposalStep
<1> QED
  BY <1>1, <1>2, <1>3, <1>4, <1>5, <1>6 DEF SNext

(* The invariant of the session over the package holds throughout.         *)
THEOREM SessionInvariance == SSpec => []SessionInv
BY SessionInit, SessionInvInductive, PTL DEF SSpec

(* The session's mirror of the uplink agrees with the flight package at    *)
(* every release, through expiry, refusals, cancellation and execution.    *)
THEOREM MirrorStaysTrue == SSpec => []MirrorAgrees
<1>1. SessionInv => MirrorAgrees
  BY DEF SessionInv, MirrorInv
<1> QED
  BY SessionInvariance, <1>1, PTL

(* The procedure completes only behind commits the package has accepted.   *)
THEOREM ProcedureStaysBehindUplink == SSpec => []ProcedureFollowsUplink
<1>1. SessionInv => ProcedureFollowsUplink
  BY DEF SessionInv, StepInv, BranchInv, ProcedureFollowsUplink
<1> QED
  BY SessionInvariance, <1>1, PTL

(* No commit after the window has closed, and none of a load proposed      *)
(* outside it.                                                             *)
THEOREM WindowStaysRespected == SSpec => []WindowIsRespected
<1>1. SessionInv => WindowIsRespected
  BY DEF SessionInv, TranscriptInv, WindowIsRespected
<1> QED
  BY SessionInvariance, <1>1, PTL

(* The disposition in the debrief is the one the flight earned.            *)
THEOREM DebriefIsTrue == SSpec => []DispositionIsEarned
<1>1. SessionInv => DispositionIsEarned
  BY DEF SessionInv, DebriefInv, DispositionIsEarned
<1> QED
  BY SessionInvariance, <1>1, PTL

(* Review comes before every commit: what is committed is the proposal     *)
(* whose review stands.                                                    *)
THEOREM CommitsAreReviewed == SSpec => ReviewPrecedesCommit
<1> DEFINE Reviewed ==
      Happened("committed")' # Happened("committed") => reviewed = pending.load.id
<1>1. SessionInv /\ [SNext]_svars => [Reviewed]_svars
  <2> SUFFICES ASSUME SessionInv, SNext, Happened("committed")' # Happened("committed")
               PROVE  reviewed = pending.load.id
    OBVIOUS
  <2>1. \A gnssLost, worldComplete, next : ~advance_internal(gnssLost, worldComplete, next)
    BY ReleaseOutcome DEF SessionInv, advance_internal
  <2>2. ~stage_proposal
    <3>1. ASSUME NEW l \in recommended_load, stage_load(l) PROVE FALSE
      <4>1. l \in Loads /\ pending.state # "Staged"
        BY ProposalFacts DEF SessionInv, MirrorInv, MirrorAgrees
      <4>2. UNCHANGED history
        BY <3>1, <4>1, StageOutcome DEF SessionInv, stage_load
      <4> QED
        BY <4>2 DEF Happened
    <3> QED
      BY <3>1 DEF stage_proposal
  <2>3. ~cancel_proposal
    BY DEF cancel_proposal, cancel_load, cancel_uplink, cancel, EchoRequest, CancelMismatch,
       CancelAccepted, Happened
  <2>4. ~(prepare \/ (\E p \in Paces : set_pace(p)) \/ pause \/ resume \/ abort \/ review)
    BY DEF prepare, initialize_mission_plan, set_pace, pause, resume, abort, review, SameSession,
       pvars, vars, Happened
  <2>5. commit_proposal
    BY <2>1, <2>2, <2>3, <2>4
    DEF SNext, advance_one_release, step_one_release, advance_bounded
  <2>6. staged # NoLoad /\ active = staged.id
    BY <2>5 DEF commit_proposal
  <2> QED
    BY <2>6 DEF SessionInv, ReviewInv, MirrorInv, MirrorAgrees
<1> QED
  BY <1>1, SessionInvariance, PTL DEF SSpec, ReviewPrecedesCommit

=============================================================================
