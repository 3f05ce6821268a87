---------------------------- MODULE GlobalMission ----------------------------
(***************************************************************************)
(* The closed loop of sim/src/phase10_avionics.rs: GlobalAvionicsMission    *)
(* samples the world at each release, ticks the flight computer, and steps *)
(* the world of sim/src/phase10.rs under the command until the next        *)
(* release.                                                                *)
(*                                                                         *)
(* The trajectory is data: the world chooses when it crosses into the next *)
(* segment, passes apogee and lands, in the order the segments allow.  The *)
(* sensors and the estimate choose whether the flow is subsonic and the    *)
(* vehicle falling and low.                                                *)
(***************************************************************************)
EXTENDS FlightComputer

CONSTANTS
  Burnout,       \* vehicle.burn_time_q16_s, in releases
  Cadence,       \* 4: releases between two aid frames with recovery data
  MaxDropout     \* longest fast-sensor dropout of the instance

ASSUME MissionAssumption ==
  Burnout \in Nat \ {0} /\ Cadence \in Nat \ {0} /\ MaxDropout \in Nat

VARIABLES
  segment,       \* world.segment
  apogee,        \* world.descending
  drogue, main,  \* world.drogue, world.main: what is deployed
  complete,      \* world.complete
  crossing,      \* transition recorded since the last release, or NoCell
  dropout,       \* faults.fast_dropout_start and _length
  phase          \* "release", "advance", "finished", "error"

worldVars == <<segment, apogee, drogue, main, complete, crossing, dropout>>
gmVars == <<fcVars, worldVars, phase>>

Segments == {"LocalLaunch", "EcefAscent", "EciCoast", "EcefEntry", "LocalRecovery"}

segment_frame(s) ==
  CASE s \in {"LocalLaunch", "LocalRecovery"} -> "LocalEnu"
    [] s \in {"EcefAscent", "EcefEntry"}      -> "EarthFixed"
    [] s = "EciCoast"                         -> "EarthInertial"

GMInit ==
  /\ FCInit
  /\ segment = "LocalLaunch" /\ apogee = FALSE
  /\ drogue = FALSE /\ main = FALSE /\ complete = FALSE
  /\ crossing = NoCell
  /\ dropout \in [start : 0 .. EpochSpan - 1, length : 0 .. MaxDropout]
  /\ phase = "release"

InWindowOneMore(e, start, length) == (e - start) % EpochSpan <= length

in_window(e, start, length) == (e - start) % EpochSpan < length

-----------------------------------------------------------------------------
(* release_bundle: sample the world and tick.                              *)

(* The 8 Hz part of the aid frame, continuity and deployment feedback, is  *)
(* valid every Cadence-th epoch; events are in every frame.                *)
aid_frame ==
  LET valid == epoch % Cadence = 0
  IN [measured |-> epoch, produced |-> epoch, frame |-> segment_frame(segment),
      continuity |-> valid, feedback |-> valid /\ drogue, landed |-> complete]

fast_sensor(subsonic) ==
  IF in_window(epoch, dropout.start, dropout.length)
  THEN NoCell
  ELSE [stamp |-> epoch, frame |-> segment_frame(segment), powered |-> now < Burnout,
        subsonic |-> subsonic, propellant |-> TRUE]

transition_cell ==
  IF crossing = NoCell THEN NoCell
  ELSE [stamp |-> epoch, from |-> crossing.from, to |-> crossing.to]

release ==
  /\ phase = "release"
  /\ \E subsonic \in BOOLEAN, falling \in BOOLEAN, low \in BOOLEAN :
       tick(fast_sensor(subsonic), aid_frame, transition_cell, falling, low)
  /\ crossing' = NoCell
  /\ phase' = IF complete THEN "finished" ELSE "advance"
  /\ UNCHANGED <<segment, apogee, drogue, main, complete, dropout>>

-----------------------------------------------------------------------------
(* advance_to_next_release: the world steps under the held command.        *)

(* process_events_and_transitions: the segment reached at the release      *)
(* boundary, whose next-segment guards are data except the apogee.         *)
Successors(s, past) ==
  {s} \cup
  CASE s = "LocalLaunch" -> {"EcefAscent"}
    [] s = "EcefAscent"  -> {"EciCoast"}
    [] s = "EciCoast"    -> IF past THEN {"EcefEntry"} ELSE {}
    [] s = "EcefEntry"   -> {"LocalRecovery"}
    [] OTHER             -> {}

(* A deployment command takes effect once; the main only with the drogue   *)
(* out.                                                                    *)
MainUnguarded == main \/ "MAIN" \in command.discrete
DrogueAfter == drogue \/ "DROGUE" \in command.discrete
MainAfter == main \/ (DrogueAfter /\ "MAIN" \in command.discrete)

WorldStep ==
  /\ apogee' \in {apogee, apogee \/ now > Burnout}
  /\ drogue' = DrogueAfter
  /\ main' = MainAfter
  /\ segment' \in Successors(segment, apogee')
  /\ crossing' = IF segment' = segment THEN NoCell
                 ELSE [from |-> segment_frame(segment), to |-> segment_frame(segment')]
  /\ complete' \in {FALSE, segment' = "LocalRecovery"}

(* step_commanded refuses a command for a frame the world is not in, which *)
(* ends the mission with an error.                                         *)
advance_to_next_release ==
  /\ phase = "advance" /\ now < MaxRelease
  /\ IF command.frame = segment_frame(segment)
     THEN WorldStep /\ phase' = "release"
     ELSE UNCHANGED <<segment, apogee, drogue, main, complete, crossing>> /\ phase' = "error"
  /\ UNCHANGED <<fcVars, dropout>>

GMNext == release \/ advance_to_next_release

GMSpec == GMInit /\ [][GMNext]_gmVars

-----------------------------------------------------------------------------

(* No sample was withheld from the flight computer.                        *)
Clean == dropout.length = 0

(* The navigator follows every change of the world's frame on the release  *)
(* it happens, samples dropped or not: no command is refused for its frame *)
(* and no transition is.                                                   *)
FramesAgree ==
  /\ phase # "error"
  /\ "FRAME" \notin alarms
  /\ phase = "advance" => command.frame = segment_frame(segment)

(* Nothing opens that was not commanded, under thrust, or before arming,   *)
(* and the main never opens before the drogue.                             *)
DeploysAsCommanded ==
  /\ drogue => \E r \in commanded["DROGUE"] : r >= Burnout /\ r >= ArmingTime
  /\ main => drogue /\ \E r \in commanded["MAIN"], s \in commanded["DROGUE"] : r >= s + Separation

(* Without sensor dropouts the flight never safes, and the drogue is out   *)
(* one aid period after the backup time at the latest.                     *)
CleanFlightRecovers ==
  Clean => /\ ~safe
           /\ phase = "release" /\ now > DrogueBackup + Cadence => drogue

(* phase10/PLAN.md: "drogue/main recovery after subsonic return".  Every   *)
(* flight that was not safed has its drogue out one aid period after the   *)
(* backup time, however its samples were dropped.                          *)
EveryFlightRecovers ==
  ~safe /\ missing = 0 /\ phase = "release" /\ now > DrogueBackup + Cadence + dropout.length
  => drogue
=============================================================================
