--------------------------- MODULE MCMissionSession ---------------------------
(* The response window scaled to a few releases: each load can expire, be  *)
(* renewed and be committed late, and the branch may be proposed while the *)
(* update is still waiting for its release.                                *)
EXTENDS MissionSession

CONSTANTS plan, enu, ecef

MCPlans == {plan}
MCFrames == {enu, ecef}
MCLoadIds == 1 .. 2
MCLoads == {ground_update_load(f, e) : f \in Frames, e \in WindowOpen .. WindowClose}
           \cup {branch_load(f, e) : f \in Frames, e \in WindowOpen .. WindowClose}
MCEstimates == {[frame |-> enu, near |-> "position"], [frame |-> enu, near |-> "yes"]}
MCArgument == [l \in MCLoads |-> 1]
=============================================================================
