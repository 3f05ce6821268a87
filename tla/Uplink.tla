------------------------------- MODULE Uplink -------------------------------
(***************************************************************************)
(* The atomic command uplink of the KSA-G10R reference operations package: *)
(* AtomicUplinkManager of flight/src/phase11.rs, a single slot that holds  *)
(* one command load from the moment it is staged until it is executed,     *)
(* cancelled or expired.  The ground stages a load, commits it with a      *)
(* separate request, and the flight computer executes it on the exact      *)
(* 32 Hz release the load names.                                           *)
(*                                                                         *)
(* Ground messages may be lost, repeated, delayed and reordered: Stage,    *)
(* Commit and Cancel take any load or request of the constants at any      *)
(* time and any number of times.  The u32 epoch saturates at MaxEpoch.     *)
(***************************************************************************)
EXTENDS Integers

CONSTANTS
  Loads,        \* the command loads the ground may uplink (KUL11)
  Requests,     \* the commit and cancellation records it may send (KUA11)
  Plan,         \* the identities (manifest, plan, ABI) this package runs
  Plans,        \* every identity a load or request may be bound to
  Frames,       \* the navigation frames
  Events,       \* mission events that a load may require to be complete
  LoadIds,      \* load identities; zero is reserved
  MaxEpoch      \* u32::MAX

Epochs == 0 .. MaxEpoch

LoadTypes == {"GroundNavigationUpdate", "MissionEventTarget",
              "ContingencyBranch", "NavigationMode", "HighLevelMode"}

UplinkStates == {"Staged", "Committed", "Executed", "Cancelled", "Rejected"}

UplinkControlKinds == {"StageReceipt", "CommitRequest", "CommitReceipt",
                       "Cancellation", "ExecutionAcknowledgement"}

UplinkReasonCodes ==
  {"Accepted", "Identity", "Frame", "Stale", "Late", "Unsupported",
   "Capability", "Prerequisite", "Residual", "Occupied", "AlreadyApplied"}

(* UplinkCommandLoad.  The capability and command-support masks meet only  *)
(* constants of the package, so each is one Boolean of the load; the       *)
(* payload is abstracted to the outcome of the residual check, an input    *)
(* of Stage.                                                               *)
UplinkCommandLoad ==
  [id : LoadIds, plan : Plans, frame : Frames, type : LoadTypes,
   stage : Epochs, notBefore : Epochs, effective : Epochs, expires : Epochs,
   supported : BOOLEAN, capable : BOOLEAN, prerequisite : SUBSET Events]

UplinkControlRecord ==
  [kind : UplinkControlKinds, id : LoadIds, plan : Plans,
   effective : Epochs, state : UplinkStates, reason : UplinkReasonCodes]

ASSUME EpochAssumption == MaxEpoch \in Nat /\ MaxEpoch >= 2
ASSUME LoadAssumption == Loads \subseteq UplinkCommandLoad
ASSUME RequestAssumption == Requests \subseteq UplinkControlRecord
ASSUME LoadIdAssumption == LoadIds \subseteq Nat \ {0}
(* A request claims no more than that its load is staged                    *)
(* (commit_request_for_staged).                                             *)
ASSUME RequestStateAssumption == \A r \in Requests : r.state = "Staged"

VARIABLES
  pending,       \* the slot: Empty, or a load with its state
  lastExecuted,  \* identity of the last executed load, 0 at first
  epoch,         \* the package's release epoch
  reply,         \* the control record the last call returned, if any
  history        \* every commit and every execution so far

vars == <<pending, lastExecuted, epoch, reply, history>>

-----------------------------------------------------------------------------
(* The slot *)

Empty == [state |-> "Empty"]

PendingUplink == [load : Loads, state : {"Staged", "Committed"}, effective : Epochs]

Occupied == pending.state # "Empty"
Holds(l) == Occupied /\ pending.load = l

UncheckedAdd(e, n) == e + n

(* u32 saturating_add *)
SatAdd(e, n) == IF e + n > MaxEpoch THEN MaxEpoch ELSE e + n

Record(kind, l, at) == [event |-> kind, load |-> l, at |-> at]
Note(kind, l) == history' = history \cup {Record(kind, l, epoch)}

HistoryEvents == {"committed", "executed"}

-----------------------------------------------------------------------------

Init ==
  /\ pending = Empty
  /\ lastExecuted = 0
  /\ epoch = 0
  /\ reply = Empty
  /\ history = {}

receipt(kind, l, effective, state, reason) ==
  [kind |-> kind, id |-> l.id, plan |-> l.plan,
   effective |-> effective, state |-> state, reason |-> reason]

InWindowLate(l, effective) == effective >= l.notBefore /\ effective <= l.expires

(* The activation window, tested again with the current epoch by commit.   *)
InWindow(l, effective) ==
  /\ effective >= SatAdd(epoch, 2)
  /\ effective >= l.notBefore
  /\ effective <= l.expires

(* The first check a load fails decides the reason it is refused for.      *)
validate_stage(l, completed, frame, residualOk) ==
  IF l.plan # Plan THEN "Identity"
  ELSE IF l.frame # frame THEN "Frame"
  ELSE IF l.stage # epoch \/ l.expires < epoch THEN "Stale"
  ELSE IF ~InWindow(l, l.effective) THEN "Late"
  ELSE IF ~l.supported THEN "Unsupported"
  ELSE IF ~l.capable THEN "Capability"
  ELSE IF ~(l.prerequisite \subseteq completed) THEN "Prerequisite"
  ELSE IF l.type = "GroundNavigationUpdate" /\ ~residualOk THEN "Residual"
  ELSE "Accepted"

StageReply(l, effective, state, reason) ==
  reply' = receipt("StageReceipt", l, effective, state, reason)

(* The identity was the last to execute: a retransmission after a lost     *)
(* acknowledgement.                                                        *)
StageExecuted(l) ==
  /\ lastExecuted = l.id
  /\ StageReply(l, epoch, "Executed", "AlreadyApplied")
  /\ UNCHANGED <<pending, lastExecuted, epoch, history>>

(* The slot is taken, by this very load or by another one.                 *)
StageHeld(l) ==
  /\ lastExecuted # l.id
  /\ Holds(l)
  /\ StageReply(l, pending.effective, pending.state, "Accepted")
  /\ UNCHANGED <<pending, lastExecuted, epoch, history>>

StageOccupied(l) ==
  /\ lastExecuted # l.id
  /\ Occupied /\ pending.load # l
  /\ StageReply(l, epoch, "Rejected", "Occupied")
  /\ UNCHANGED <<pending, lastExecuted, epoch, history>>

StageRejected(l, completed, frame, residualOk) ==
  /\ lastExecuted # l.id
  /\ ~Occupied
  /\ validate_stage(l, completed, frame, residualOk) # "Accepted"
  /\ StageReply(l, epoch, "Rejected", validate_stage(l, completed, frame, residualOk))
  /\ UNCHANGED <<pending, lastExecuted, epoch, history>>

StageAccepted(l, completed, frame, residualOk) ==
  /\ lastExecuted # l.id
  /\ ~Occupied
  /\ validate_stage(l, completed, frame, residualOk) = "Accepted"
  /\ pending' = [load |-> l, state |-> "Staged", effective |-> l.effective]
  /\ StageReply(l, l.effective, "Staged", "Accepted")
  /\ UNCHANGED <<lastExecuted, epoch, history>>

stage(l, completed, frame, residualOk) ==
  \/ StageExecuted(l)
  \/ StageHeld(l)
  \/ StageOccupied(l)
  \/ StageRejected(l, completed, frame, residualOk)
  \/ StageAccepted(l, completed, frame, residualOk)

-----------------------------------------------------------------------------

(* The request names the load in the slot.                                 *)
Names(r, kind) ==
  r.kind = kind /\ r.id = pending.load.id /\ r.plan = pending.load.plan

(* With nothing pending both commit and cancel return the request itself.  *)
EchoRequest(r) ==
  /\ ~Occupied
  /\ reply' = r
  /\ UNCHANGED <<pending, lastExecuted, epoch, history>>

CommitReply(effective, state, reason) ==
  reply' = receipt("CommitReceipt", pending.load, effective, state, reason)

CommitMismatch(r) ==
  /\ Occupied /\ ~Names(r, "CommitRequest")
  /\ CommitReply(r.effective, "Rejected", "Identity")
  /\ UNCHANGED <<pending, lastExecuted, epoch, history>>

CommitAssumed(r) ==
  /\ Occupied /\ Names(r, "CommitRequest")
  /\ CommitReply(pending.effective, "Committed", "Accepted")
  /\ UNCHANGED <<pending, lastExecuted, epoch, history>>

CommitAgain(r) ==
  /\ Occupied /\ Names(r, "CommitRequest")
  /\ pending.state = "Committed"
  /\ CommitReply(pending.effective, "Committed", "Accepted")
  /\ UNCHANGED <<pending, lastExecuted, epoch, history>>

CommitLate(r) ==
  /\ Occupied /\ Names(r, "CommitRequest")
  /\ pending.state # "Committed"
  /\ r.effective # pending.load.effective \/ ~InWindow(pending.load, r.effective)
  /\ CommitReply(r.effective, "Rejected", "Late")
  /\ UNCHANGED <<pending, lastExecuted, epoch, history>>

CommitAccepted(r) ==
  /\ Occupied /\ Names(r, "CommitRequest")
  /\ pending.state # "Committed"
  /\ r.effective = pending.load.effective /\ InWindow(pending.load, r.effective)
  /\ pending' = [pending EXCEPT !.state = "Committed", !.effective = r.effective]
  /\ CommitReply(r.effective, "Committed", "Accepted")
  /\ Note("committed", pending.load)
  /\ UNCHANGED <<lastExecuted, epoch>>

commit(r) ==
  EchoRequest(r) \/ CommitMismatch(r) \/ CommitAgain(r) \/ CommitLate(r) \/ CommitAccepted(r)

-----------------------------------------------------------------------------

CancelMismatch(r) ==
  /\ Occupied /\ ~Names(r, "Cancellation")
  /\ reply' = receipt("Cancellation", pending.load, epoch, "Rejected", "Identity")
  /\ UNCHANGED <<pending, lastExecuted, epoch, history>>

CancelReceipt(l) == receipt("Cancellation", l, epoch, "Cancelled", "Accepted")

(* A committed load may still be cancelled.                                *)
CancelAccepted(r) ==
  /\ Occupied /\ Names(r, "Cancellation")
  /\ pending' = Empty
  /\ reply' = CancelReceipt(pending.load)
  /\ UNCHANGED <<lastExecuted, epoch, history>>

cancel(r) == EchoRequest(r) \/ CancelMismatch(r) \/ CancelAccepted(r)

-----------------------------------------------------------------------------
(* One release of the package: AtomicUplinkManager::release with the       *)
(* package's epoch, which process_release then advances.                   *)

DueUncommitted == Occupied /\ epoch = pending.effective
DueBeforeTheLast == pending.state = "Committed" /\ epoch = pending.effective /\ epoch < MaxEpoch
OverdueAtExpiry == Occupied /\ epoch >= pending.load.expires
OverdueCommitted == pending.state = "Committed" /\ epoch > pending.load.expires

Due == pending.state = "Committed" /\ epoch = pending.effective
Overdue == Occupied /\ epoch > pending.load.expires

ReleaseExpire ==
  /\ Overdue
  /\ pending' = Empty
  /\ reply' = Empty
  /\ UNCHANGED <<lastExecuted, history>>

ReleaseForgets ==
  /\ ~Overdue /\ Due
  /\ pending' = Empty
  /\ reply' = receipt("ExecutionAcknowledgement", pending.load, epoch, "Executed", "Accepted")
  /\ Note("executed", pending.load)
  /\ UNCHANGED lastExecuted

ReleaseExecute ==
  /\ ~Overdue /\ Due
  /\ pending' = Empty
  /\ lastExecuted' = pending.load.id
  /\ reply' = receipt("ExecutionAcknowledgement", pending.load, epoch, "Executed", "Accepted")
  /\ Note("executed", pending.load)

ReleaseNothing ==
  /\ ~Overdue /\ ~Due
  /\ reply' = Empty
  /\ UNCHANGED <<pending, lastExecuted, history>>

release ==
  /\ ReleaseExpire \/ ReleaseExecute \/ ReleaseNothing
  /\ epoch' = SatAdd(epoch, 1)

Next ==
  \/ \E l \in Loads, completed \in SUBSET Events, frame \in Frames, ok \in BOOLEAN :
       stage(l, completed, frame, ok)
  \/ \E r \in Requests : commit(r)
  \/ \E r \in Requests : cancel(r)
  \/ release

Spec == Init /\ [][Next]_vars

(* The avionics runner calls process_release once per 32 Hz release for as *)
(* long as the mission runs; nothing obliges the ground to send anything.  *)
FairSpec == Spec /\ WF_vars(release)

-----------------------------------------------------------------------------
(* Properties *)

(* Every variable keeps its type: the slot holds a load of the ground's    *)
(* (PendingUplink) or is empty, and a reply is a control record.           *)
TypeOK ==
  /\ pending \in PendingUplink \cup {Empty}
  /\ lastExecuted \in LoadIds \cup {0}
  /\ epoch \in Epochs
  /\ reply \in UplinkControlRecord \cup {Empty}
  /\ history \subseteq [event : HistoryEvents, load : Loads, at : Epochs]

Happened(kind) == {h \in history : h.event = kind}

(* D-105: active state changes only after a separate commit, on the exact  *)
(* release the load declares.  Every executed load was staged and then     *)
(* committed, both at least two releases ahead (counted with the           *)
(* saturating epoch), and executes inside its window.  It follows that a   *)
(* load executes on one release only, however often its messages repeat.   *)
ExecutesAsCommitted ==
  \A x \in Happened("executed") :
    /\ x.at = x.load.effective
    /\ x.load.notBefore <= x.at /\ x.at <= x.load.expires
    /\ SatAdd(x.load.stage, 2) <= x.at
    /\ \E c \in Happened("committed") : c.load = x.load /\ SatAdd(c.at, 2) <= x.at

(* A committed load always still has its release ahead of it, so the       *)
(* expiry branch of release, which discards the slot without any receipt,  *)
(* only ever discards a load that was never committed.                     *)
CommittedNotOverdue ==
  pending.state = "Committed" => epoch <= pending.effective /\ ~Overdue

(* last_executed_identity remembers one identity: two consecutive          *)
(* executions never carry the same one, even when the ground amends a load *)
(* and reuses its identity.                                                *)
NoRepeatInSuccession ==
  \A x, y \in Happened("executed") :
    x.at < y.at /\ x.load.id = y.load.id =>
      \E z \in Happened("executed") :
        x.at <= z.at /\ z.at <= y.at /\ z.load.id # x.load.id

(* Receipts tell the truth: an answer that says Committed or Executed      *)
(* names an identity for which that really happened.                       *)
ReceiptsAreEarned ==
  reply # Empty =>
    /\ reply.state = "Committed" =>
         \E c \in Happened("committed") : c.load.id = reply.id
    /\ reply.state = "Executed" =>
         \E x \in Happened("executed") : x.load.id = reply.id

(* Once committed, a load leaves the slot only by being executed on its    *)
(* release or by an explicit cancellation, and no message replaces it.     *)
CommittedSurvives ==
  [][pending.state = "Committed" /\ pending' # pending =>
       /\ pending' = Empty
       /\ \/ Record("executed", pending.load, pending.effective) \in history'
          \/ reply' = CancelReceipt(pending.load)]_vars

(* Committed loads survive loss of ground contact: each one is eventually  *)
(* executed unless the ground cancels it.                                  *)
CommittedGetsExecuted ==
  \A l \in Loads :
    Holds(l) /\ pending.state = "Committed" ~>
      \/ \E x \in Happened("executed") : x.load = l
      \/ reply = CancelReceipt(l)

(* An uncommitted load does not hold the slot for ever, unless it asked    *)
(* for the last epoch there is.                                            *)
SlotIsFreed ==
  \A l \in Loads :
    Holds(l) /\ l.expires < MaxEpoch ~> ~Holds(l)
=============================================================================
