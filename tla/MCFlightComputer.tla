-------------------------- MODULE MCFlightComputer --------------------------
(* Six releases in which arming, both backups and the deployment           *)
(* separation fall on different releases; the epoch wraps once, at five.   *)
EXTENDS Safehold
=============================================================================
