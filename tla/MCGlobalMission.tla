--------------------------- MODULE MCGlobalMission ---------------------------
(* Twelve releases: burnout at 2, arming at 2, recovery data on every      *)
(* second release; one dropout of up to three releases anywhere.           *)
EXTENDS GlobalMission
=============================================================================
