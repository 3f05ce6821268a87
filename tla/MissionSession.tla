---------------------------- MODULE MissionSession ----------------------------
(***************************************************************************)
(* FullMissionSession of session/src/phase12b_live.rs with its procedure,  *)
(* behind the presentation boundary that brokers and clients use           *)
(* (FullMissionPresentationSession, session/src/presentation_adapter.rs)   *)
(* and over the flight package of FlightPackage.                           *)
(*                                                                         *)
(* The session keeps its own picture of what the package holds (the staged *)
(* load, the selected branch, the release of the navigation reset); the    *)
(* adapter keeps a second one (the reviewed and the active proposal).      *)
(* The world, the ground estimator and the procedure's metrics are inputs  *)
(* of a release.  Predictions, telemetry, timelines and byte formats are   *)
(* left out, and intents that are refused, which change nothing.           *)
(***************************************************************************)
EXTENDS FlightPackage, ProcedureEngine, FiniteSetsExt

CONSTANTS
  WindowOpen, WindowClose,         \* DECISION_WINDOW_{OPEN,CLOSE}_RELEASE
  UpdateStage, UpdateEffective,    \* UPDATE_{STAGE,EFFECTIVE}_RELEASE
  BranchStage, BranchEffective,    \* BRANCH_{STAGE,EFFECTIVE}_RELEASE
  Lead, Margin,                    \* 160 releases to activation, 64 more to expiry
  StepTimeout,                     \* timeout_epochs of steps 1 to 5
  MaxReleases,                     \* FULL_MISSION_MAX_RELEASES
  Estimates                        \* what the ground estimator may report

ASSUME WindowAssumption ==
  /\ WindowOpen \in Nat /\ WindowClose \in Nat /\ WindowOpen <= WindowClose
  /\ Lead \in Nat /\ Lead >= 2 /\ Margin \in Nat /\ StepTimeout \in Nat \ {0}
  /\ MaxReleases \in Nat /\ MaxReleases < MaxEpoch
  /\ {UpdateStage, UpdateEffective, BranchStage, BranchEffective} \subseteq Nat
  /\ Estimates \subseteq [frame : Frames, near : {"no", "position", "yes"}]

VARIABLES
  lifecycle, pace, resumePace,   \* the fields of the same names
  releases,        \* release_epoch, the session's own count
  procedure,       \* the engine, or Closed before the window opens
  ground,          \* latest_ground: its frame and how near it is to the onboard estimate
  staged,          \* staged_load
  branch,          \* selected_branch
  resetAt,         \* pending_navigation_reset_release
  commits,         \* transcript: the epochs of its records in state Committed
  rejected,        \* rejected_loads # 0
  reviewed,        \* reviewed_proposal, 0 if none
  active,          \* active_proposal, 0 if none
  disposition      \* the procedure and operator axes, once completed

sessionVars == <<lifecycle, pace, resumePace, releases, procedure, ground>>
uplinkView == <<staged, branch, resetAt, commits, rejected>>
adapterVars == <<reviewed, active>>
svars == <<pvars, sessionVars, uplinkView, adapterVars, disposition>>

(* The paces that set_pace may ask for; Paused is pause.                   *)
Paces == {"Realtime", "Fast", "SingleStep"}

Closed == [state |-> "Closed", step |-> 0, entered |-> 0]
NoLoad == [id |-> 0]
NoEstimate == [near |-> "none"]
Never == MaxEpoch + 1

-----------------------------------------------------------------------------
(* full_gnss_loss_procedure_pack *)

StepOf(kind, complete, failure, timeout, action) ==
  [kind |-> kind, complete |-> complete, failure |-> failure,
   timeout |-> timeout, action |-> action]
verification_step(next) == StepOf("Verify", next, 7, StepTimeout, "none")
full_action_step(type, next) == StepOf("RequestAction", next, 7, StepTimeout, type)

Pack == <<verification_step(2), verification_step(3), verification_step(4),
          full_action_step("GroundNavigationUpdate", 5),
          full_action_step("ContingencyBranch", 6),
          StepOf("Complete", 0, 0, 0, "none"),
          StepOf("Fail", 0, 0, 0, "none")>>

-----------------------------------------------------------------------------
(* The loads the session proposes for the step it has reached              *)

LoadOf(id, type, f, e, effective) ==
  [id |-> id, plan |-> Plan, frame |-> f, type |-> type,
   stage |-> e, notBefore |-> e + 2, effective |-> effective, expires |-> effective + Margin,
   supported |-> TRUE, capable |-> TRUE, prerequisite |-> {}]

ground_update_load(f, e) ==
  LoadOf(1, "GroundNavigationUpdate", f, e, Max({UpdateEffective, e + Lead}))

(* The load for branch 1.  The one for branch 2, safe_recovery_load, is    *)
(* never recommended, so that no proposal of the adapter stands for it.    *)
branch_load(f, e) ==
  LoadOf(2, "ContingencyBranch", f, e, Max({BranchEffective, e + Lead}))

(* What the session proposes are loads of this package, and their last     *)
(* release is an epoch.                                                    *)
ASSUME ProposalAssumption ==
  \A f \in Frames, e \in WindowOpen .. WindowClose :
    ground_update_load(f, e) \in Loads /\ branch_load(f, e) \in Loads

ProposedAfterClose ==
  IF staged # NoLoad THEN {}
  ELSE IF procedure.step = 4 /\ releases >= UpdateStage /\ ground.near = "yes"
  THEN {ground_update_load(ground.frame, releases)}
  ELSE IF procedure.step = 5 /\ releases >= BranchStage
  THEN {branch_load(frame, releases)}
  ELSE {}

(* recommended_load, as a set of at most one.                              *)
recommended_load ==
  IF staged # NoLoad \/ releases > WindowClose THEN {}
  ELSE IF procedure.step = 4 /\ releases >= UpdateStage /\ ground.near = "yes"
  THEN {ground_update_load(ground.frame, releases)}
  ELSE IF procedure.step = 5 /\ releases >= BranchStage
  THEN {branch_load(frame, releases)}
  ELSE {}

SInit ==
  /\ PInit
  /\ lifecycle = "Compiled" /\ pace = "Realtime" /\ resumePace = "Realtime"
  /\ releases = 0 /\ procedure = Closed /\ ground = NoEstimate
  /\ staged = NoLoad /\ branch = 0 /\ resetAt = Never
  /\ commits = {} /\ rejected = FALSE
  /\ reviewed = 0 /\ active = 0
  /\ disposition = [operator |-> "none"]

-----------------------------------------------------------------------------
(* Lifecycle and pace *)

Lives == lifecycle \in {"Ready", "Running", "Paused"}
SameSession == UNCHANGED <<pvars, releases, procedure, ground, uplinkView, adapterVars, disposition>>

prepare ==
  /\ lifecycle = "Compiled" /\ lifecycle' = "Ready"
  /\ initialize_mission_plan(Plan)
  /\ UNCHANGED <<pace, resumePace, releases, procedure, ground, uplinkView, adapterVars, disposition>>

(* Setting a pace does not leave the Paused lifecycle.                     *)
set_pace(p) ==
  /\ lifecycle \notin {"Completed", "Aborted"}
  /\ pace' = p
  /\ resumePace' = IF p = "SingleStep" THEN "Realtime" ELSE p
  /\ UNCHANGED lifecycle /\ SameSession

pause ==
  /\ lifecycle \in {"Ready", "Running"}
  /\ resumePace' = IF pace = "Paused" THEN resumePace ELSE pace
  /\ pace' = "Paused" /\ lifecycle' = "Paused"
  /\ SameSession

resume ==
  /\ lifecycle = "Paused"
  /\ pace' = resumePace /\ lifecycle' = "Running"
  /\ UNCHANGED resumePace /\ SameSession

abort ==
  /\ lifecycle \notin {"Completed", "Aborted"}
  /\ lifecycle' = "Aborted"
  /\ UNCHANGED <<pace, resumePace>> /\ SameSession

-----------------------------------------------------------------------------
(* One release *)

Satisfied(step, gnssLost) ==
  CASE step = 1 -> gnssLost
    [] step = 2 -> ~safe'
    [] step = 3 -> ground'.near \in {"position", "yes"}
    [] OTHER -> FALSE

NeverExpiresStep(gnssLost) ==
  LET opened == IF releases = WindowOpen THEN entry(1, releases) ELSE procedure
  IN procedure' = IF opened = Closed THEN Closed
                  ELSE tick_procedure_engine(Pack, opened, releases,
                                             Satisfied(opened.step, gnssLost))

(* The engine is made at WindowOpen; past WindowClose the step it has      *)
(* reached expires before it is ticked.                                    *)
tick_procedure(gnssLost) ==
  LET opened == IF releases = WindowOpen THEN entry(1, releases) ELSE procedure
      expired == IF releases > WindowClose THEN expire_at(Pack, opened, releases) ELSE opened
  IN procedure' = IF opened = Closed THEN Closed
                  ELSE tick_procedure_engine(Pack, expired, releases,
                                             Satisfied(expired.step, gnssLost))

NeverExpiresMirror == UNCHANGED staged

expire_staged == staged' = IF staged # NoLoad /\ releases > staged.expires THEN NoLoad ELSE staged

(* mark_navigation_reset on the display, at the release of the update.     *)
mark_reset == resetAt' = IF resetAt = releases THEN Never ELSE resetAt

TimelyByEpochOnly(state) ==
  IF commits = {} THEN IF rejected THEN "RejectedAction" ELSE "NoAction"
  ELSE IF \E e \in commits : e > WindowClose THEN "DelayedValid"
  ELSE IF branch = 2 THEN "TimelyAlternate" ELSE "TimelyReference"

operator_disposition(state) ==
  IF commits = {} THEN IF rejected THEN "RejectedAction" ELSE "NoAction"
  ELSE IF (\E e \in commits : e > WindowClose) \/ state # "Completed" THEN "DelayedValid"
  ELSE IF branch = 2 THEN "TimelyAlternate" ELSE "TimelyReference"

procedure_disposition(state) == IF state = "Active" THEN "Skipped" ELSE state

(* A session whose window never opened counts as skipped.                  *)
complete ==
  LET state == IF procedure' = Closed THEN "Skipped" ELSE procedure'.state
  IN /\ lifecycle' = "Completed"
     /\ disposition' = [operator |-> operator_disposition(state),
                        procedure |-> IF branch = 2 THEN "AlternateBranch"
                                      ELSE procedure_disposition(state)]

(* advance_internal: the package processes its release first.              *)
advance_internal(gnssLost, worldComplete, next) ==
  /\ Lives /\ releases < MaxReleases
  /\ process_release
  /\ expire_staged
  /\ ground' \in Estimates \cup {ground}
  /\ tick_procedure(gnssLost)
  /\ mark_reset
  /\ releases' = releases + 1
  /\ IF worldComplete THEN complete ELSE lifecycle' = next /\ UNCHANGED disposition
  /\ UNCHANGED <<branch, commits, rejected, adapterVars>>

advance_one_release(gnssLost, worldComplete) ==
  /\ lifecycle # "Paused"
  /\ advance_internal(gnssLost, worldComplete, "Running")
  /\ UNCHANGED <<pace, resumePace>>

step_one_release(gnssLost, worldComplete) ==
  /\ advance_internal(gnssLost, worldComplete, "Paused")
  /\ pace' = IF worldComplete THEN pace ELSE "Paused"
  /\ UNCHANGED resumePace

(* One of the releases of a bounded advance, a client's or the worker's.   *)
advance_bounded(gnssLost, worldComplete) ==
  /\ pace # "Paused"
  /\ advance_internal(gnssLost, worldComplete, IF pace = "SingleStep" THEN "Paused" ELSE "Running")
  /\ UNCHANGED <<pace, resumePace>>

-----------------------------------------------------------------------------
(* Operator actions: submit_operator_action behind submit_action           *)

Accepted(kind, id, state) ==
  reply'.kind = kind /\ reply'.id = id /\ reply'.state = state /\ reply'.reason = "Accepted"

record_action ==
  /\ commits' = IF reply'.state = "Committed" THEN commits \cup {releases} ELSE commits
  /\ UNCHANGED <<lifecycle, pace, resumePace, releases, ground, disposition>>

StagedRequest(kind) ==
  [kind |-> kind, id |-> staged.id, plan |-> staged.plan, effective |-> staged.effective,
   state |-> "Staged", reason |-> "Accepted"]

(* current_action_proposal: its identity is that of the load.              *)
current_action_proposal ==
  IF staged # NoLoad THEN {active} \ {0} ELSE {l.id : l \in recommended_load}

review ==
  /\ \E id \in current_action_proposal : reviewed' = id /\ active' = id
  /\ UNCHANGED <<pvars, sessionVars, uplinkView, disposition>>

(* submit_operator_action, Stage.  A recommended load passes its checks:   *)
(* it carries the latest ground estimate, or a declared branch.            *)
stage_load(l) ==
  /\ Lives
  /\ stage_uplink(l, {}, TRUE)
  /\ staged' = IF Accepted("StageReceipt", l.id, "Staged") THEN l ELSE staged
  /\ rejected' = (rejected \/ ~Accepted("StageReceipt", l.id, "Staged"))
  /\ record_action
  /\ UNCHANGED <<procedure, branch, resetAt>>

StageUnreviewed ==
  /\ \E l \in recommended_load : stage_load(l) /\ active' = l.id
  /\ UNCHANGED reviewed

stage_proposal ==
  /\ \E l \in recommended_load : reviewed = l.id /\ stage_load(l) /\ active' = l.id
  /\ UNCHANGED reviewed

(* A commit is taken only for the step that asks for this load.            *)
CommitIsAsked == staged # NoLoad /\ AsksFor(Pack, procedure, staged.type)

(* An accepted commit selects the branch or schedules the reset, moves the *)
(* procedure on and gives up the mirror.                                   *)
CommitTaken ==
  /\ branch' = IF staged.type = "ContingencyBranch" THEN Argument[staged] ELSE branch
  /\ resetAt' = IF staged.type = "GroundNavigationUpdate" THEN staged.effective ELSE resetAt
  /\ procedure' = accept_action(Pack, procedure, releases, TRUE)
  /\ staged' = NoLoad
  /\ UNCHANGED rejected

AdvancesRegardless ==
  /\ Lives /\ CommitIsAsked
  /\ commit_uplink(StagedRequest("CommitRequest"))
  /\ IF Accepted("CommitReceipt", staged.id, "Committed")
     THEN CommitTaken
     ELSE /\ rejected' = TRUE /\ UNCHANGED <<branch, resetAt, staged>>
          /\ procedure' = accept_action(Pack, procedure, releases, TRUE)
  /\ record_action

(* submit_operator_action, Commit.                                         *)
commit_load ==
  /\ Lives /\ CommitIsAsked
  /\ commit_uplink(StagedRequest("CommitRequest"))
  /\ IF Accepted("CommitReceipt", staged.id, "Committed")
     THEN CommitTaken
     ELSE rejected' = TRUE /\ UNCHANGED <<branch, resetAt, procedure, staged>>
  /\ record_action

commit_proposal ==
  /\ staged # NoLoad /\ active = staged.id
  /\ commit_load
  /\ active' = 0 /\ reviewed' = 0

(* submit_operator_action, Cancel.                                         *)
cancel_load ==
  /\ Lives
  /\ cancel_uplink(StagedRequest("Cancellation"))
  /\ IF Accepted("Cancellation", staged.id, "Cancelled")
     THEN staged' = NoLoad /\ UNCHANGED rejected
     ELSE rejected' = TRUE /\ UNCHANGED staged
  /\ record_action
  /\ UNCHANGED <<procedure, branch, resetAt>>

cancel_proposal ==
  /\ staged # NoLoad /\ active = staged.id
  /\ cancel_load
  /\ active' = 0 /\ reviewed' = 0

-----------------------------------------------------------------------------

(* The broker's worker, whose wait for a command has timed out: it paces a *)
(* running session at Realtime, and at Fast unless a proposal is           *)
(* outstanding (SNAPSHOT_VALID_ACTION); a batch at Fast ends at the first  *)
(* proposal.                                                               *)
Paced ==
  /\ lifecycle = "Running"
  /\ pace = "Realtime" \/ (pace = "Fast" /\ current_action_proposal = {})

Worker ==
  /\ Paced
  /\ \E gnssLost, worldComplete \in BOOLEAN : advance_bounded(gnssLost, worldComplete)

SNext ==
  \/ prepare \/ (\E p \in Paces : set_pace(p)) \/ pause \/ resume \/ abort
  \/ \E gnssLost, worldComplete \in BOOLEAN :
       \/ advance_one_release(gnssLost, worldComplete)
       \/ step_one_release(gnssLost, worldComplete)
       \/ advance_bounded(gnssLost, worldComplete)
  \/ review \/ stage_proposal \/ commit_proposal \/ cancel_proposal

(* Every advance_bounded of the worker is one that a client may ask for;   *)
(* only the worker's are sure to come.                                     *)
SSpec == SInit /\ [][SNext]_svars /\ WF_svars(Worker)

-----------------------------------------------------------------------------

(* The session's picture of the uplink is the package's state: a load is   *)
(* mirrored exactly while the slot holds it staged, so that a commit never *)
(* names a load that is gone, and the display's reset is scheduled exactly *)
(* while a navigation update is committed, for its release.                *)
MirrorAgrees ==
  /\ releases = epoch
  /\ IF staged = NoLoad THEN pending.state # "Staged"
     ELSE pending.state = "Staged" /\ pending.load = staged
  /\ resetAt = IF pending.state = "Committed" /\ pending.load.type = "GroundNavigationUpdate"
               THEN pending.effective ELSE Never

CommittedTypes == {h.load.type : h \in Happened("committed")}

(* The procedure never runs ahead of the uplink: it asks for the branch    *)
(* only after an update, completes only after a branch was committed, and  *)
(* a selected branch is one the package still holds or has executed.       *)
ProcedureFollowsUplink ==
  /\ procedure.step \in {5, 6} => "GroundNavigationUpdate" \in CommittedTypes
  /\ procedure.step = 6 => "ContingencyBranch" \in CommittedTypes
  /\ branch # 0 =>
       \/ pending.state = "Committed" /\ pending.load.type = "ContingencyBranch"
       \/ \E h \in Happened("executed") :
            h.load.type = "ContingencyBranch" /\ Argument[h.load] = branch

(* docs/decisions.md, "Require Review, Stage, validation, and Commit": a   *)
(* load is committed only while the operator's review of that proposal     *)
(* stands, across expiry and renewal of the proposal.                      *)
ReviewPrecedesCommit ==
  [][Happened("committed")' # Happened("committed") => reviewed = pending.load.id]_svars

(* Nothing is committed once the release after WindowClose has been        *)
(* processed, and a load staged in time is flown by then or not at all.    *)
WindowIsRespected ==
  \A h \in Happened("committed") :
    h.at <= WindowClose + 1 /\ h.load.stage \in WindowOpen .. WindowClose

(* The debrief is true of the flight: a timely disposition means that both *)
(* loads were committed within the window and the procedure completed; a   *)
(* flight with a committed load is never reported as without action.       *)
DispositionIsEarned ==
  disposition.operator # "none" =>
    /\ disposition.operator = "TimelyReference" =>
         /\ disposition.procedure = "Completed"
         /\ CommittedTypes = {"GroundNavigationUpdate", "ContingencyBranch"}
         /\ \A h \in Happened("committed") : h.at <= WindowClose
    /\ disposition.operator \in {"NoAction", "RejectedAction"} <=> Happened("committed") = {}

(* A session that is left alone decides its procedure, whatever the        *)
(* operator omits: once no more commands come (each of them restarts the   *)
(* worker's wait), a running session does not stay at an active step, but  *)
(* for one at Fast, which holds at a proposal until it is dealt with.      *)
ProcedureResolves ==
  <>[][Worker]_svars =>
    ((procedure.state = "Active" /\ Paced) ~> (procedure.state # "Active" \/ ~Paced))
=============================================================================
