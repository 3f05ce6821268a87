------------------------------ MODULE MCUplink ------------------------------
(* A small instance of Uplink: loads that execute, loads that are refused, *)
(* an amended load that reuses an identity, and a load at the saturated   *)
(* end of the epoch counter.                                               *)
EXTENDS Uplink

CONSTANTS plan, otherPlan, enu, ecef, apogee

MCPlans == {plan, otherPlan}
MCFrames == {enu, ecef}
MCEvents == {apogee}
MCLoadIds == 1 .. 3

Base == [id |-> 1, plan |-> plan, frame |-> enu, type |-> "ContingencyBranch",
         stage |-> 0, notBefore |-> 0, effective |-> 2, expires |-> 3,
         supported |-> TRUE, capable |-> TRUE, prerequisite |-> {}]

First == Base
Update == [Base EXCEPT !.id = 2, !.type = "GroundNavigationUpdate",
                       !.stage = 3, !.notBefore = 4, !.effective = 5, !.expires = 5,
                       !.prerequisite = {apogee}]
Amended == [Base EXCEPT !.stage = 6, !.effective = 8, !.expires = 8]
AtTheEnd == [Base EXCEPT !.id = 3, !.stage = 8, !.effective = 8, !.expires = 8]

AmendedAgain == [Amended EXCEPT !.stage = 3, !.effective = 5]
TooLate == [Base EXCEPT !.id = 3, !.stage = 2, !.effective = 3]
Foreign == [Base EXCEPT !.id = 3, !.plan = otherPlan]
Unable == [Base EXCEPT !.id = 3, !.supported = FALSE]
Incapable == [Base EXCEPT !.id = 3, !.capable = FALSE]

Accepted == {First, Update, Amended, AmendedAgain, AtTheEnd}
MCLoads == Accepted \cup {TooLate, Foreign, Unable, Incapable}

Request(kind, l) ==
  [kind |-> kind, id |-> l.id, plan |-> l.plan, effective |-> l.effective,
   state |-> "Staged", reason |-> "Accepted"]

(* commit_request_for_staged and cancel_request_for_staged, for the loads   *)
(* that can be staged, and one commit with the wrong release.               *)
MCRequests ==
  {Request(k, l) : k \in {"CommitRequest", "Cancellation"}, l \in Accepted}
    \cup {[Request("CommitRequest", First) EXCEPT !.effective = 3]}
=============================================================================
