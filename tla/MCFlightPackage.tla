--------------------------- MODULE MCFlightPackage ---------------------------
(* A navigation update, then a request for the safe state, over seven      *)
(* releases in which the navigation frame may change at every tick.        *)
EXTENDS FlightPackage

CONSTANTS plan, otherPlan, enu, ecef

MCPlans == {plan, otherPlan}
MCFrames == {enu, ecef}
MCLoadIds == 1 .. 2

Update == [id |-> 1, plan |-> plan, frame |-> enu, type |-> "GroundNavigationUpdate",
           stage |-> 0, notBefore |-> 0, effective |-> 2, expires |-> 2,
           supported |-> TRUE, capable |-> TRUE, prerequisite |-> {}]
SafeRequest == [Update EXCEPT !.id = 2, !.type = "HighLevelMode", !.frame = ecef,
                              !.stage = 3, !.effective = 5, !.expires = 6]

MCLoads == {Update, SafeRequest}
MCArgument == [l \in MCLoads |-> IF l = SafeRequest THEN 2 ELSE 1]

Request(kind, l) ==
  [kind |-> kind, id |-> l.id, plan |-> l.plan, effective |-> l.effective,
   state |-> "Staged", reason |-> "Accepted"]

MCRequests == {Request(k, l) : k \in {"CommitRequest", "Cancellation"}, l \in MCLoads}
=============================================================================
