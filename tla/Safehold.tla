------------------------------- MODULE Safehold -------------------------------
(***************************************************************************)
(* SafeholdRecoveryV1 of flight/src/phase11_safehold.rs: the second flight *)
(* package, chosen before a session starts and never in its course.  It    *)
(* takes the same cells as the global flight computer and its state is the *)
(* same but for arming and thrust, so it shares the variables of           *)
(* FlightComputer.  Its rules differ: only the two transitions of a return *)
(* are accepted, one missing sample latches safe, nothing is held, and     *)
(* safe does not end the recovery.                                         *)
(*                                                                         *)
(* The session segment is the frame navigated: each of the three segments  *)
(* has a frame of its own and both change together.  Left out are the      *)
(* counts of transitions and of missing samples, which the package reports *)
(* and never reads, and its journal, which is that of EventJournal.        *)
(***************************************************************************)
EXTENDS FlightComputer

Return == {<<"EarthInertial", "EarthFixed">>, <<"EarthFixed", "LocalEnu">>}

mode_for_segment(f) ==
  CASE f = "EarthInertial" -> "Coast" [] f = "EarthFixed" -> "Entry" [] f = "LocalEnu" -> "Recovery"

(* new, with any initial_segment; there is no arming.                      *)
SHInit ==
  /\ package = "Safehold"
  /\ now = 0 /\ frame \in Frames /\ transitions = 0 /\ missing = 0
  /\ safe = FALSE /\ alarms = {}
  /\ seenPowered = FALSE /\ powered = FALSE /\ armed = TRUE
  /\ descending = 0
  /\ drogueLatched = FALSE /\ mainLatched = FALSE /\ drogueTime = 0
  /\ lastTime = 0 /\ lastFast = [subsonic |-> FALSE, propellant |-> TRUE]
  /\ mode = mode_for_segment(frame)
  /\ command = [at |-> -1, frame |-> frame, discrete |-> {}, hold |-> FALSE,
                torque |-> Zero, gimbal |-> Zero, pulses |-> Zero]
  /\ commanded = [d \in Devices |-> {}]

(* apply_transition *)
ReturnValid(cell) == TransitionValid(cell) /\ <<cell.from, cell.to>> \in Return
ReturnRefused(cell) == cell # NoCell /\ ~ReturnValid(cell)
SegmentAfter(cell) == IF ReturnValid(cell) THEN cell.to ELSE frame

(* enter_safe: a refused transition or one release without a sample.       *)
enter_safe(transition, gotFast) == safe \/ ReturnRefused(transition) \/ ~gotFast

(* control: the demand comes from this release's sample or there is none.  *)
control(f, gotFast, isSafe) == IF isSafe \/ f = "LocalEnu" \/ ~gotFast THEN Zero ELSE now

(* recovery_command: what is deployed, on the last sample's time and speed.*)
recovery_command(f, sample, time, continuity, feedback, falling, low) ==
  LET m == mode_for_segment(f)
      sinking == DescendingAfter(m, falling)
      drogueDue == /\ m = "Recovery" /\ ~drogueLatched
                   /\ DrogueDue(m, sinking, sample.subsonic, time)
      drogue == drogueDue /\ continuity
      since == IF drogue THEN time ELSE drogueTime
      mainDue == /\ m = "Recovery" /\ ~mainLatched
                 /\ MainDue(drogueLatched \/ drogue, since, feedback, m, falling, low, time)
  IN [descending |-> sinking, since |-> since,
      deploy |-> (IF drogue THEN {"DROGUE"} ELSE {})
                 \cup (IF mainDue /\ continuity THEN {"MAIN"} ELSE {}),
      refused |-> (drogueDue \/ mainDue) /\ ~continuity]

ModeOf(f, landed, isSafe) ==
  IF landed THEN "Complete" ELSE IF isSafe THEN "Safe" ELSE mode_for_segment(f)

process_safehold(fast, aid, transition, falling, low) ==
  LET f == SegmentAfter(transition)
      gotFast == FastValid(fast, f)
      gotAid == AidValid(aid, f)
      isSafe == enter_safe(transition, gotFast)
      time == IF gotFast THEN now ELSE lastTime
      sample == IF gotFast THEN [subsonic |-> fast.subsonic, propellant |-> fast.propellant]
                ELSE lastFast
      recovery == recovery_command(f, sample, time, gotAid /\ aid.continuity,
                                   gotAid /\ aid.feedback, falling, low)
      discrete == recovery.deploy \cup (IF isSafe THEN {"SAFE"} ELSE {})
      torque == control(f, gotFast, isSafe)
  IN /\ now' = now + 1
     /\ frame' = f
     /\ safe' = isSafe
     /\ alarms' = alarms
          \cup (IF ReturnRefused(transition) THEN {"FRAME"} ELSE {})
          \cup (IF recovery.refused THEN {"RECOVERY"} ELSE {})
     /\ descending' = recovery.descending
     /\ drogueLatched' = (drogueLatched \/ "DROGUE" \in recovery.deploy)
     /\ mainLatched' = (mainLatched \/ "MAIN" \in recovery.deploy)
     /\ drogueTime' = recovery.since
     /\ lastTime' = time
     /\ lastFast' = sample
     /\ mode' = ModeOf(f, gotAid /\ aid.landed, isSafe)
     /\ command' = [at |-> now, frame |-> f, discrete |-> discrete, hold |-> FALSE,
                    torque |-> torque, gimbal |-> Zero,
                    pulses |-> IF sample.propellant THEN torque ELSE Zero]
     /\ commanded' = [d \in Devices |-> IF d \in discrete THEN commanded[d] \cup {now}
                                        ELSE commanded[d]]
     /\ UNCHANGED <<package, transitions, missing, seenPowered, powered, armed>>

(* The return is flown without thrust.                                     *)
Release ==
  /\ package = "Safehold" /\ now < MaxRelease
  /\ \E transition \in TransitionCells :
       LET f == SegmentAfter(transition)
       IN \E fast \in {c \in FastCells(f) : ~c.powered}, aid \in AidCells(f),
             descent \in Descents(f) :
            process_safehold(fast, aid, transition, descent.falling, descent.low)

(* A session with either package.                                          *)
PackageInit == FCInit \/ SHInit
PackageNext == (package = "ReferenceOps" /\ FCNext) \/ Release
PackageSpec == PackageInit /\ [][PackageNext]_fcVars
=============================================================================
