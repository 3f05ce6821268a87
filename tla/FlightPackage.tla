---------------------------- MODULE FlightPackage ----------------------------
(***************************************************************************)
(* KsaG10rReferenceOpsV1 of flight/src/phase11.rs: the flight package that *)
(* wraps the frozen flight computer with a mission plan, the uplink, the   *)
(* event journal and the compact onboard prediction.  Every ground call    *)
(* and every 32 Hz release is one action.                                  *)
(*                                                                         *)
(* Of the flight computer only what the package touches is kept: the       *)
(* navigation frame, which a tick may change, and the safe latch.  The     *)
(* journal is the bounded log of JournalWindow without its sequence        *)
(* numbers (EventJournal shows that the ring implements it).               *)
(***************************************************************************)
EXTENDS Uplink, Sequences

CONSTANTS
  Argument,          \* arguments[0] of each load, as far as it matters
  Capacity,          \* EVENT_JOURNAL_CAPACITY
  PredictionPeriod   \* releases between two routine predictions, 32

ASSUME ArgumentAssumption == Argument \in [Loads -> 0 .. 3]
ASSUME PeriodAssumption == PredictionPeriod \in Nat \ {0} /\ Capacity \in Nat \ {0}

VARIABLES
  planReady,    \* plan.is_some()
  frame,        \* inner.navigation().frame
  safe,         \* inner.is_safe()
  activePlan,   \* active_plan_checksum: the loads folded into it so far
  dirty,        \* prediction_dirty
  prediction,   \* last_prediction: the plan and release it was made for
  journal,      \* the newest Capacity records
  applied       \* history: executed loads that took effect

packageVars == <<planReady, frame, safe, activePlan, dirty, prediction, journal, applied>>
pvars == <<vars, packageVars>>

None == [plan |-> "none"]

-----------------------------------------------------------------------------
(* Journal records *)

Entry(kind, id, detail) == [kind |-> kind, at |-> epoch, id |-> id, detail |-> detail]

Newest(s) == IF Len(s) > Capacity THEN SubSeq(s, Len(s) - Capacity + 1, Len(s)) ELSE s

Journal(entries) == journal' = Newest(journal \o entries)

(* The record a receipt leaves: the identity it names and its state.       *)
journal_receipt(r) == Entry("Uplink", r.id, r.state)

PInit ==
  /\ Init
  /\ planReady = FALSE
  /\ frame \in Frames
  /\ safe = FALSE
  /\ activePlan = {}
  /\ dirty = FALSE
  /\ prediction = None
  /\ journal = <<>>
  /\ applied = {}

(* Every caller initializes the plan once, on a new package.  A plan whose *)
(* identities do not match the manifest is refused and changes nothing.    *)
initialize_mission_plan(p) ==
  /\ ~planReady /\ epoch = 0
  /\ p = Plan
  /\ planReady' = TRUE
  /\ dirty' = TRUE
  /\ Journal(<<Entry("Mode", 0, TRUE)>>)
  /\ UNCHANGED <<vars, frame, safe, activePlan, prediction, applied>>

-----------------------------------------------------------------------------
(* Ground calls: nothing happens without a plan; otherwise the uplink      *)
(* manager answers and its receipt is journalled.                          *)

Journalled ==
  /\ planReady
  /\ Journal(<<journal_receipt(reply')>>)
  /\ UNCHANGED <<planReady, frame, safe, activePlan, dirty, prediction, applied>>

stage_uplink(l, completed, residualOk) == stage(l, completed, frame, residualOk) /\ Journalled
commit_uplink(r) == commit(r) /\ Journalled
cancel_uplink(r) == cancel(r) /\ Journalled

record_ground_communications(available) ==
  /\ Journal(<<Entry("Communications", 0, available)>>)
  /\ UNCHANGED <<vars, planReady, frame, safe, activePlan, dirty, prediction, applied>>

-----------------------------------------------------------------------------
(* One release *)

(* apply_committed: a navigation update is written into the estimate only  *)
(* if its frame is still the active one, a target only for a declared      *)
(* selector; the other types always succeed.                               *)
TakesEffect(l) ==
  /\ l.type = "GroundNavigationUpdate" => l.frame = frame
  /\ l.type = "MissionEventTarget" => Argument[l] \in {1, 2}

RequestsSafe(l) == l.type = "HighLevelMode" /\ Argument[l] >= 2

(* Navigation updates change the estimate, not the plan being flown.       *)
ChangesPlan(l) == TakesEffect(l) /\ l.type # "GroundNavigationUpdate"

Executes == planReady /\ ~Overdue /\ Due

DirtyLater == dirty
DirtyNow == dirty \/ (Executes /\ ChangesPlan(pending.load))
PlanNow == IF Executes /\ ChangesPlan(pending.load)
           THEN activePlan \cup {<<pending.load, epoch>>}
           ELSE activePlan

ExecutionUnacknowledged ==
  IF Executes THEN <<Entry("Mode", pending.load.id, TakesEffect(pending.load))>> ELSE <<>>

(* The uplink's part: the acknowledgement, the active plan, and a Mode     *)
(* record that says whether the load was applied.                          *)
ExecutionEntries ==
  IF Executes
  THEN <<journal_receipt(reply'),
         Entry("Mode", pending.load.id, TakesEffect(pending.load))>>
  ELSE <<>>

(* After the tick: a new prediction every PredictionPeriod releases or when *)
(* the plan has changed, journalled when it differs from the last one.     *)
Predicts == planReady /\ (epoch % PredictionPeriod = 0 \/ DirtyNow)
NewPrediction == [plan |-> PlanNow, at |-> epoch]
PredictionEntries ==
  IF Predicts /\ prediction # NewPrediction
  THEN <<Entry("Prediction", 0, TRUE)>>
  ELSE <<>>

(* The tick itself may cross a frame transition and may latch safe.        *)
tick ==
  /\ frame' \in Frames
  /\ safe' \in {safe \/ (Executes /\ RequestsSafe(pending.load)), TRUE}

process_release ==
  /\ IF planReady
     THEN release
     ELSE epoch' = SatAdd(epoch, 1) /\ reply' = Empty /\ UNCHANGED <<pending, lastExecuted, history>>
  /\ tick
  /\ activePlan' = PlanNow
  /\ applied' = IF Executes /\ TakesEffect(pending.load)
                THEN applied \cup {[load |-> pending.load, at |-> epoch]}
                ELSE applied
  /\ Journal(ExecutionEntries \o PredictionEntries)
  /\ prediction' = IF Predicts THEN NewPrediction ELSE prediction
  /\ dirty' = IF Predicts THEN FALSE ELSE DirtyNow
  /\ UNCHANGED planReady

PNext ==
  \/ \E p \in Plans : initialize_mission_plan(p)
  \/ \E l \in Loads, completed \in SUBSET Events, ok \in BOOLEAN : stage_uplink(l, completed, ok)
  \/ \E r \in Requests : commit_uplink(r)
  \/ \E r \in Requests : cancel_uplink(r)
  \/ \E available \in BOOLEAN : record_ground_communications(available)
  \/ process_release

PSpec == PInit /\ [][PNext]_pvars

-----------------------------------------------------------------------------

(* D-105: ground operations change active state (the plan being flown, or  *)
(* the navigation estimate) only through a load that was committed for     *)
(* exactly this release; no ground call does.                              *)
OnlyCommitsChangeState ==
  [][activePlan' # activePlan \/ applied' # applied =>
       /\ pending.state = "Committed" /\ pending.effective = epoch
       /\ Record("executed", pending.load, epoch) \in history']_pvars

(* The onboard prediction always describes the plan being flown: the       *)
(* release that applies a plan change also renews the prediction, and none *)
(* grows older than the prediction period.                                 *)
PredictionIsCurrent ==
  prediction # None =>
    /\ ~dirty /\ prediction.plan = activePlan
    /\ epoch - prediction.at <= PredictionPeriod

(* An execution leaves its acknowledgement and, after it, a record saying  *)
(* whether it was applied, both stamped with its release, in the journal   *)
(* when the release ends (a release writes three records at most).         *)
ExecutionIsJournalled ==
  [][Capacity >= 3 /\ history' # history /\ epoch' # epoch =>
       \E i \in 1 .. Len(journal') - 1 :
         /\ journal'[i].kind = "Uplink" /\ journal'[i + 1].kind = "Mode"
         /\ journal'[i].id = lastExecuted' /\ journal'[i + 1].id = lastExecuted'
         /\ journal'[i].at = epoch /\ journal'[i + 1].at = epoch
         /\ journal'[i + 1].detail = (applied' # applied)]_pvars

=============================================================================
