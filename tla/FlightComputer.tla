---------------------------- MODULE FlightComputer ----------------------------
(***************************************************************************)
(* GlobalFlightComputer of flight/src/phase10.rs: one tick per 32 Hz       *)
(* release consumes at most one fast sample, one aid frame and one frame   *)
(* transition and produces one command.                                    *)
(*                                                                         *)
(* The navigation estimate is data: of it a tick keeps only the two tests  *)
(* recovery makes on it (falling, low).  A torque, gimbal or RCS demand is *)
(* represented by the release whose sample it was computed from.  Mission  *)
(* time is counted in releases: the sample of release n carries time n.    *)
(***************************************************************************)
EXTENDS Integers, FiniteSets

CONSTANTS
  ArmingTime,     \* config.minimum_arming_time_q16
  DrogueBackup,   \* config.drogue_backup_time_q16
  MainBackup,     \* config.main_backup_time_q16
  Separation,     \* config.minimum_deployment_separation_q16
  EpochSpan,      \* 2^16: the epoch counter is a u16 that wraps
  AidAge,         \* 32: the oldest aid frame accepted, in releases
  MaxRelease      \* bound of the instance: releases flown

ASSUME ConfigAssumption ==
  /\ ArmingTime \in Nat /\ DrogueBackup \in Nat /\ MainBackup \in Nat
  /\ Separation \in Nat \ {0}
  /\ DrogueBackup > ArmingTime /\ MainBackup > DrogueBackup
ASSUME EpochAssumption == EpochSpan \in Nat /\ AidAge \in Nat /\ AidAge < EpochSpan
ASSUME BoundAssumption == MaxRelease \in Nat

VARIABLES
  package,        \* the flight package loaded: it wraps this computer, or is
                  \* the SafeholdRecovery package of Safehold
  now,            \* releases ticked so far; the epoch is its low 16 bits
  frame,          \* navigation.frame
  transitions,    \* transition_count
  missing,        \* missing_fast
  safe,
  alarms,         \* of the alarm bits, those that report a fault no other
                  \* variable shows: FRAME and RECOVERY
  seenPowered, powered, armed,
  descending,     \* descending_count
  drogueLatched, mainLatched, drogueTime,
  lastTime,       \* last_time_q16
  lastFast,       \* of last_fast: subsonic, propellant left
  mode,
  command,        \* last_command
  commanded       \* history: the releases that commanded each deployment

fcVars == <<package, now, frame, transitions, missing, safe, alarms, seenPowered, powered, armed,
            descending, drogueLatched, mainLatched, drogueTime, lastTime, lastFast, mode,
            command, commanded>>

Frames == {"LocalEnu", "EarthFixed", "EarthInertial"}
Devices == {"DROGUE", "MAIN"}

MissingCap == 3      \* only "0", "1..2" and "3 or more" are told apart
DescendingCap == 2   \* only "2 or more" is
NoCell == [none |-> TRUE]
Zero == -1           \* no demand

Cap(n, limit) == IF n > limit THEN limit ELSE n

epoch == now % EpochSpan

FCInit ==
  /\ package = "ReferenceOps"
  /\ now = 0 /\ frame = "LocalEnu" /\ transitions = 0 /\ missing = 0
  /\ safe = FALSE /\ alarms = {}
  /\ seenPowered = FALSE /\ powered = FALSE /\ armed = FALSE
  /\ descending = 0
  /\ drogueLatched = FALSE /\ mainLatched = FALSE /\ drogueTime = 0
  /\ lastTime = 0 /\ lastFast = [subsonic |-> FALSE, propellant |-> TRUE]
  /\ mode = "Boot"
  /\ command = [at |-> -1, frame |-> "LocalEnu", discrete |-> {}, hold |-> FALSE,
                torque |-> Zero, gimbal |-> Zero, pulses |-> Zero]
  /\ commanded = [d \in Devices |-> {}]

-----------------------------------------------------------------------------
(* The steps of a tick, in the order the code takes them.  A transition or *)
(* a cell for another session counts as one that does not match.           *)

(* apply_transition: a cell for this release out of the frame being        *)
(* navigated moves the estimate; any other latches safe.                   *)
TransitionValid(cell) == cell # NoCell /\ cell.stamp = epoch /\ cell.from = frame
TransitionRefused(cell) == cell # NoCell /\ ~TransitionValid(cell)
FrameUnmoved(cell) == frame
FrameAfter(cell) == IF TransitionValid(cell) THEN cell.to ELSE frame

FastValid(cell, f) == cell # NoCell /\ cell.stamp = epoch /\ cell.frame = f
AidValid(cell, f) ==
  /\ cell # NoCell
  /\ cell.measured <= cell.produced
  /\ (epoch - cell.produced) % EpochSpan <= AidAge
  /\ cell.frame = f

MissingForgiven(valid) == IF valid THEN 0 ELSE Cap(missing + 1, 2)

(* missing_fast: consecutive releases without a usable sample.             *)
MissingAfter(valid) == IF valid THEN 0 ELSE Cap(missing + 1, MissingCap)

(* update_mode_and_recovery: the mode before the two overrides at its end. *)
FrameMode(f, count, seen, on) ==
  CASE f = "LocalEnu" /\ count = 0 -> IF on THEN "Ascent" ELSE "Prelaunch"
    [] f = "EarthFixed"            -> IF seen /\ ~on THEN "Entry" ELSE "Ascent"
    [] f = "EarthInertial"         -> "Coast"
    [] OTHER                       -> "Recovery"

DescendingAfter(base, falling) ==
  IF base = "Recovery" /\ falling THEN Cap(descending + 1, DescendingCap) ELSE 0

ModeAfter(base, landed, misses) ==
  IF misses >= MissingCap THEN "Safe" ELSE IF landed THEN "Complete" ELSE base

(* recovery_command: what is due, before continuity is looked at.          *)
DrogueLate(m, count, subsonic, time) ==
  \/ m = "Recovery" /\ count >= DescendingCap /\ subsonic
  \/ time > DrogueBackup

DrogueDue(m, count, subsonic, time) ==
  \/ m = "Recovery" /\ count >= DescendingCap /\ subsonic
  \/ time >= DrogueBackup

MainDueUnseparated(latched, since, feedback, m, falling, low, time) ==
  /\ latched
  /\ \/ feedback /\ m = "Recovery" /\ falling /\ low
     \/ time >= MainBackup

MainDue(latched, since, feedback, m, falling, low, time) ==
  /\ latched
  /\ time - since >= Separation
  /\ \/ feedback /\ m = "Recovery" /\ falling /\ low
     \/ time >= MainBackup

Held(misses) == misses # 0 /\ misses <= 2

Discrete(deploy, held, isSafe) ==
  IF isSafe THEN {"SAFE"} ELSE IF held THEN {} ELSE deploy

SafeNow(transition, misses) == TransitionRefused(transition) \/ misses >= MissingCap

(* safe is only ever set, by a refused transition or the third miss.       *)
SafeLatch(transition, misses) == safe \/ TransitionRefused(transition) \/ misses >= MissingCap

tick(fast, aid, transition, falling, low) ==
  LET f == FrameAfter(transition)
      gotFast == FastValid(fast, f)
      gotAid == AidValid(aid, f)
      misses == MissingAfter(gotFast)
      isSafe == SafeLatch(transition, misses)
      on == IF gotFast THEN fast.powered ELSE powered
      seen == seenPowered \/ on
      time == IF gotFast THEN now ELSE lastTime
      sample == IF gotFast THEN [subsonic |-> fast.subsonic, propellant |-> fast.propellant]
                ELSE lastFast
      count == IF TransitionValid(transition) THEN Cap(transitions + 1, 1) ELSE transitions
      base == IF isSafe THEN "Safe" ELSE FrameMode(f, count, seen, on)
      m == ModeAfter(base, gotAid /\ aid.landed, misses)
      arm == armed \/ (seen /\ ~on /\ time >= ArmingTime)
      sinking == DescendingAfter(base, falling)
      live == ~isSafe /\ arm
      continuity == gotAid /\ aid.continuity
      feedback == gotAid /\ aid.feedback
      drogueDue == live /\ ~drogueLatched /\ DrogueDue(m, sinking, sample.subsonic, time)
      drogue == drogueDue /\ continuity
      since == IF drogue THEN time ELSE drogueTime
      mainDue == /\ live /\ ~mainLatched
                 /\ MainDue(drogueLatched \/ drogue, since, feedback, m, falling, low, time)
      main == mainDue /\ continuity
      deploy == (IF drogue THEN {"DROGUE"} ELSE {}) \cup (IF main THEN {"MAIN"} ELSE {})
      held == Held(misses)
      discrete == Discrete(deploy, held, isSafe)
      torque == IF isSafe THEN Zero ELSE IF held THEN command.torque ELSE now
      gimbal == IF isSafe \/ ~on THEN Zero ELSE IF held THEN command.gimbal ELSE now
      pulses == IF ~on /\ ~isSafe /\ m \in {"Coast", "Entry"} /\ sample.propellant
                THEN torque ELSE Zero
  IN /\ UNCHANGED package
     /\ now' = now + 1
     /\ frame' = f
     /\ transitions' = count
     /\ missing' = misses
     /\ safe' = isSafe
     /\ alarms' = alarms
          \cup (IF TransitionRefused(transition) THEN {"FRAME"} ELSE {})
          \cup (IF (drogueDue \/ mainDue) /\ ~continuity THEN {"RECOVERY"} ELSE {})
     /\ powered' = on
     /\ seenPowered' = seen
     /\ armed' = arm
     /\ descending' = sinking
     /\ drogueLatched' = (drogueLatched \/ drogue)
     /\ mainLatched' = (mainLatched \/ main)
     /\ drogueTime' = since
     /\ lastTime' = time
     /\ lastFast' = sample
     /\ mode' = m
     /\ command' = [at |-> now, frame |-> f, discrete |-> discrete, hold |-> held,
                    torque |-> torque, gimbal |-> gimbal, pulses |-> pulses]
     /\ commanded' = [d \in Devices |-> IF d \in discrete THEN commanded[d] \cup {now}
                                        ELSE commanded[d]]

(* Between ticks: the ground's safe request and the deadline monitor.      *)
LatchSafe ==
  /\ safe' = TRUE
  /\ UNCHANGED <<package, now, frame, transitions, missing, alarms, seenPowered, powered, armed,
                 descending, drogueLatched, mainLatched, drogueTime, lastTime, lastFast, mode,
                 command, commanded>>
operational_request_safe == LatchSafe
record_deadline_miss == LatchSafe

-----------------------------------------------------------------------------
(* An environment that may send anything: samples that are late (a missing *)
(* one is treated alike); aid frames that are absent, delayed, too old or, *)
(* across a wrap of the epoch, stamped backwards; transitions that come a  *)
(* release late.                                                           *)
Before(n) == (epoch - n) % EpochSpan

FastCells(f) ==
  [stamp : {epoch}, frame : {f}, powered : {FALSE}, subsonic : BOOLEAN, propellant : {TRUE}] \cup
  {[stamp |-> epoch, frame |-> f, powered |-> TRUE, subsonic |-> FALSE, propellant |-> TRUE],
   [stamp |-> epoch, frame |-> f, powered |-> FALSE, subsonic |-> FALSE, propellant |-> FALSE],
   [stamp |-> Before(1), frame |-> f, powered |-> FALSE, subsonic |-> TRUE, propellant |-> TRUE]}

AidCells(f) ==
  {NoCell} \cup
  [measured : {epoch}, produced : {epoch}, frame : {f},
   continuity : {TRUE}, feedback : BOOLEAN, landed : {FALSE}] \cup
  [measured : {Before(1)}, produced : {epoch}, frame : {f},
   continuity : {TRUE}, feedback : {TRUE}, landed : {TRUE}] \cup
  [measured : {Before(AidAge + 1)}, produced : {Before(AidAge + 1)}, frame : {f},
   continuity : {TRUE}, feedback : {TRUE}, landed : {FALSE}]

(* The world changes frames between neighbours only, up or down.           *)
Neighbours(f) == IF f = "EarthFixed" THEN {"LocalEnu", "EarthInertial"} ELSE {"EarthFixed"}

TransitionCells ==
  {NoCell} \cup [stamp : {epoch}, from : {frame}, to : Neighbours(frame)]
           \cup [stamp : {Before(1)}, from : {frame}, to : {"LocalEnu"}]

(* The estimate's vertical speed and altitude are looked at only in the    *)
(* local frame; low is asked of a falling vehicle.                         *)
Descents(f) ==
  {d \in [falling : BOOLEAN, low : BOOLEAN] :
     (d.low => d.falling) /\ (d.falling => f = "LocalEnu")}

Tick ==
  /\ now < MaxRelease
  /\ \E transition \in TransitionCells :
       LET f == FrameAfter(transition)
       IN \E fast \in FastCells(f), aid \in AidCells(f), descent \in Descents(f) :
            tick(fast, aid, transition, descent.falling, descent.low)

FCNext ==
  \/ Tick
  \/ operational_request_safe
  \/ record_deadline_miss

FCSpec == FCInit /\ [][FCNext]_fcVars

-----------------------------------------------------------------------------

(* A missing sample is bridged for two releases and no longer: no torque   *)
(* or gimbal demand computed more than two releases ago is ever commanded. *)
(* The safehold package bridges none.                                      *)
ActuationIsFresh ==
  \A d \in {command.torque, command.gimbal} :
    d # Zero => command.at - d <= IF package = "Safehold" THEN 0 ELSE 2

(* docs/decisions.md, D-093, "One-shot pulses are never replayed": no two  *)
(* successive commands fire the RCS pulses computed from the same sample.  *)
PulsesAreNotReplayed ==
  [][now' # now /\ command'.pulses # Zero => command'.pulses # command.pulses]_fcVars

Demands == {command.torque, command.gimbal, command.pulses}

(* Safe is final, whatever latched it: every later command says SAFE and   *)
(* drives no actuator.  The flight computer commands nothing else; the     *)
(* safehold package may still deploy the parachutes.                       *)
SafeIsFinal ==
  [][safe => /\ safe'
             /\ now' # now =>
                  /\ \A d \in Demands' : d = Zero
                  /\ "SAFE" \in command'.discrete
                  /\ package = "ReferenceOps" => command'.discrete = {"SAFE"}]_fcVars

(* Deployments are one-shot and the main follows the drogue's latch by the *)
(* configured separation at least.  The flight computer deploys only after *)
(* arming; the safehold package, which does not hold commands back on a    *)
(* missing sample, has sent every deployment it has latched.               *)
DeploymentsInOrder ==
  /\ \A d \in Devices : Cardinality(commanded[d]) <= 1
  /\ \A r \in commanded["MAIN"] : mainLatched /\ drogueLatched /\ r - drogueTime >= Separation
  /\ IF package = "ReferenceOps"
     THEN \A r \in commanded["DROGUE"] : drogueLatched /\ r = drogueTime /\ r >= ArmingTime
     ELSE /\ drogueLatched <=> commanded["DROGUE"] # {}
          /\ mainLatched <=> commanded["MAIN"] # {}
          /\ \A r \in commanded["MAIN"] : \E d \in commanded["DROGUE"] : d < r

(* No armed vehicle flies past its backup time in silence: the drogue is   *)
(* latched, or the recovery alarm says why not, or the computer is safe.   *)
(* To the safehold package, in its last segment, safe is no excuse.        *)
BackupIsNotSilent ==
  lastTime >= DrogueBackup =>
    \/ drogueLatched \/ "RECOVERY" \in alarms
    \/ IF package = "ReferenceOps" THEN safe \/ ~armed ELSE frame # "LocalEnu"

=============================================================================
