---------------------------- MODULE FlightProofs ----------------------------
(***************************************************************************)
(* What both flight packages guarantee whatever cells reach them, for      *)
(* every configuration, and what the closed loop with the world adds.      *)
(***************************************************************************)
EXTENDS Safehold, GlobalMission, Cycles, FiniteSetTheorems

(* Cells as the codecs deliver them, of any content.                       *)
FastInput ==
  {NoCell} \cup [stamp : Int, frame : Frames, powered : BOOLEAN, subsonic : BOOLEAN,
                 propellant : BOOLEAN]
AidInput ==
  {NoCell} \cup [measured : Int, produced : Int, frame : Frames, continuity : BOOLEAN,
                 feedback : BOOLEAN, landed : BOOLEAN]
TransitionInput == {NoCell} \cup [stamp : Int, from : Frames, to : Frames]

-----------------------------------------------------------------------------
(* The shape of the state, and what the clocks have to do with each other: *)
(* the last sample is not from the future and every deployment is past.    *)
ShapeInv ==
  /\ package \in {"ReferenceOps", "Safehold"}
  /\ now \in Nat /\ frame \in Frames /\ missing \in 0 .. MissingCap
  /\ {safe, armed, powered, seenPowered, drogueLatched, mainLatched} \subseteq BOOLEAN
  /\ drogueTime \in Nat /\ lastTime \in Nat /\ lastTime <= now
  /\ commanded \in [Devices -> SUBSET (0 .. now - 1)]
  /\ command.at = now - 1

(* A demand that is held is as old as the count of missing samples, and    *)
(* the count that would make it older has zeroed it.                       *)
DemandInv ==
  /\ package = "ReferenceOps" =>
       /\ \A d \in {command.torque, command.gimbal} :
            d # Zero => d \in Nat /\ command.at - d <= missing /\ missing < MissingCap
       /\ command.pulses \in {Zero, command.torque}
  /\ package = "Safehold" =>
       /\ command.gimbal = Zero
       /\ {command.torque, command.pulses} \subseteq {Zero, command.at}

(* A device is commanded once, by the release that latched it; the clock   *)
(* the flight computer armed by does not run back.                         *)
DeploymentInv ==
  /\ \A d \in Devices : \A r, s \in commanded[d] : r = s
  /\ \A r \in commanded["MAIN"] : mainLatched /\ drogueLatched /\ r - drogueTime >= Separation
  /\ package = "ReferenceOps" =>
       /\ armed => lastTime >= ArmingTime
       /\ \A r \in commanded["DROGUE"] : drogueLatched /\ r = drogueTime /\ r >= ArmingTime
  /\ package = "Safehold" =>
       /\ drogueLatched <=> commanded["DROGUE"] # {}
       /\ mainLatched <=> commanded["MAIN"] # {}
       /\ \A r \in commanded["MAIN"] : \E d \in commanded["DROGUE"] : d < r

FlightInv == ShapeInv /\ DemandInv /\ DeploymentInv

-----------------------------------------------------------------------------
(* The clock of a tick: the release's own time when its sample counts.     *)
TimeAfter(gotFast) == IF gotFast THEN now ELSE lastTime

(* What a tick does to the counters and the demands: the reference package *)
(* keeps the shape of its state, counts what it missed and latches safe.   *)
LEMMA TickShape ==
  ASSUME NEW fast \in FastInput, NEW aid \in AidInput, NEW transition \in TransitionInput,
         NEW falling \in BOOLEAN, NEW low \in BOOLEAN,
         ShapeInv, tick(fast, aid, transition, falling, low)
  PROVE  LET f == FrameAfter(transition)
             gotFast == FastValid(fast, f)
         IN /\ package' = package /\ now' = now + 1
            /\ frame' = f /\ f \in Frames
            /\ missing' = MissingAfter(gotFast)
            /\ missing' \in 0 .. MissingCap
            /\ safe' = SafeLatch(transition, missing')
            /\ safe' \in BOOLEAN
            /\ ~safe' => missing' < MissingCap
            /\ powered' = (IF gotFast THEN fast.powered ELSE powered)
            /\ seenPowered' = (seenPowered \/ powered')
            /\ lastTime' = TimeAfter(gotFast)
            /\ armed' = (armed \/ (seenPowered' /\ ~powered' /\ lastTime' >= ArmingTime))
            /\ {powered', seenPowered', armed'} \subseteq BOOLEAN
            /\ lastTime' \in Nat /\ lastTime <= lastTime' /\ lastTime' <= now'
            /\ command'.at = now /\ command'.frame = f
            /\ commanded' = [d \in Devices |-> IF d \in command'.discrete
                                               THEN commanded[d] \cup {now} ELSE commanded[d]]
<1> DEFINE f == FrameAfter(transition)
           gotFast == FastValid(fast, f)
<1>1. f \in Frames
  BY DEF ShapeInv, FrameAfter, TransitionValid, TransitionInput
<1>2. gotFast => fast.powered \in BOOLEAN
  BY DEF FastValid, FastInput
<1>3. /\ package' = package /\ now' = now + 1 /\ frame' = f
      /\ missing' = MissingAfter(gotFast) /\ safe' = SafeLatch(transition, missing')
      /\ powered' = (IF gotFast THEN fast.powered ELSE powered)
      /\ lastTime' = TimeAfter(gotFast)
  BY DEF tick, TimeAfter
<1>4. /\ seenPowered' = (seenPowered \/ powered')
      /\ armed' = (armed \/ (seenPowered' /\ ~powered' /\ lastTime' >= ArmingTime))
  BY DEF tick
<1>5. /\ command'.at = now /\ command'.frame = f
      /\ commanded' = [d \in Devices |-> IF d \in command'.discrete
                                         THEN commanded[d] \cup {now} ELSE commanded[d]]
  BY DEF tick
<1>6. missing' \in 0 .. MissingCap
  BY <1>3 DEF MissingAfter, ShapeInv, Cap, MissingCap
<1>7. /\ {powered', seenPowered', armed'} \subseteq BOOLEAN
      /\ safe' \in BOOLEAN
  BY <1>2, <1>3, <1>4 DEF ShapeInv, SafeLatch
<1>8. lastTime' \in Nat /\ lastTime <= lastTime' /\ lastTime' <= now'
  BY <1>3 DEF ShapeInv, TimeAfter
<1>9. ~safe' => missing' < MissingCap
  <2>1. missing' >= MissingCap => SafeLatch(transition, missing')
    BY DEF SafeLatch
  <2>2. missing' >= MissingCap => safe'
    BY <1>3, <2>1
  <2> QED
    BY <1>6, <2>2 DEF MissingCap
<1> QED
  BY <1>1, <1>3, <1>4, <1>5, <1>6, <1>7, <1>8, <1>9

(* No count of missing samples means that the release had one.             *)
LEMMA MissingMeaning ==
  ASSUME ShapeInv, NEW valid \in BOOLEAN
  PROVE  /\ valid <=> MissingAfter(valid) = 0
         /\ ~valid => MissingAfter(valid) = (IF missing = MissingCap THEN MissingCap ELSE missing + 1)
  BY DEF ShapeInv, MissingAfter, Cap, MissingCap

(* What a tick commands: nothing but SAFE once safe, nothing while a       *)
(* sample is bridged, and otherwise the deployments it latches.            *)
LEMMA TickDeploys ==
  ASSUME NEW fast \in FastInput, NEW aid \in AidInput, NEW transition \in TransitionInput,
         NEW falling \in BOOLEAN, NEW low \in BOOLEAN,
         ShapeInv, tick(fast, aid, transition, falling, low)
  PROVE  /\ safe' => command'.discrete = {"SAFE"}
         /\ {drogueLatched', mainLatched'} \subseteq BOOLEAN
         /\ drogueTime' \in Nat
         /\ drogueLatched => drogueLatched' /\ drogueTime' = drogueTime
         /\ mainLatched => mainLatched'
         /\ "DROGUE" \in command'.discrete =>
              /\ ~safe' /\ missing' = 0 /\ armed' /\ ~drogueLatched /\ drogueLatched'
              /\ drogueTime' = lastTime'
         /\ "MAIN" \in command'.discrete =>
              /\ ~safe' /\ missing' = 0 /\ ~mainLatched /\ mainLatched' /\ drogueLatched'
              /\ lastTime' - drogueTime' >= Separation
         /\ drogueLatched' /\ ~drogueLatched /\ missing' = 0 => "DROGUE" \in command'.discrete
         /\ lastTime' >= DrogueBackup /\ armed' /\ ~safe' =>
              /\ drogueLatched' \/ "RECOVERY" \in alarms'
              /\ AidValid(aid, frame') /\ aid.continuity => drogueLatched'
         /\ "FRAME" \in alarms' => "FRAME" \in alarms \/ TransitionRefused(transition)
<1> DEFINE f == FrameAfter(transition)
           gotFast == FastValid(fast, f)
           gotAid == AidValid(aid, f)
           misses == MissingAfter(gotFast)
           isSafe == SafeLatch(transition, misses)
           on == IF gotFast THEN fast.powered ELSE powered
           seen == seenPowered \/ on
           time == IF gotFast THEN now ELSE lastTime
           sample == IF gotFast THEN [subsonic |-> fast.subsonic, propellant |-> fast.propellant]
                     ELSE lastFast
           count == IF TransitionValid(transition) THEN Cap(transitions + 1, 1) ELSE transitions
           base == IF isSafe THEN "Safe" ELSE FrameMode(f, count, seen, on)
           m == ModeAfter(base, gotAid /\ aid.landed, misses)
           arm == armed \/ (seen /\ ~on /\ time >= ArmingTime)
           sinking == DescendingAfter(base, falling)
           live == ~isSafe /\ arm
           continuity == gotAid /\ aid.continuity
           feedback == gotAid /\ aid.feedback
           droDue == live /\ ~drogueLatched /\ DrogueDue(m, sinking, sample.subsonic, time)
           dro == droDue /\ continuity
           since == IF dro THEN time ELSE drogueTime
           mnDue == /\ live /\ ~mainLatched
                    /\ MainDue(drogueLatched \/ dro, since, feedback, m, falling, low, time)
           mn == mnDue /\ continuity
           deploy == (IF dro THEN {"DROGUE"} ELSE {}) \cup (IF mn THEN {"MAIN"} ELSE {})
<1>1. /\ missing' = misses /\ safe' = isSafe /\ armed' = arm /\ lastTime' = time
      /\ drogueLatched' = (drogueLatched \/ dro)
      /\ mainLatched' = (mainLatched \/ mn)
      /\ drogueTime' = since
      /\ command'.discrete = Discrete(deploy, Held(misses), isSafe)
      /\ frame' = f
      /\ alarms' = alarms
           \cup (IF TransitionRefused(transition) THEN {"FRAME"} ELSE {})
           \cup (IF (droDue \/ mnDue) /\ ~continuity THEN {"RECOVERY"} ELSE {})
  BY DEF tick
<1>2. misses \in 0 .. MissingCap /\ (~isSafe => misses < MissingCap) /\ time \in Nat
  BY DEF MissingAfter, ShapeInv, Cap, MissingCap, SafeLatch
<1>3. dro \in BOOLEAN /\ mn \in BOOLEAN
  OBVIOUS
<1>4. mn => /\ drogueLatched \/ dro
            /\ time - since >= Separation
            /\ ~isSafe /\ ~mainLatched
  BY DEF MainDue
<1>5. dro => ~isSafe /\ arm /\ ~drogueLatched /\ since = time
  OBVIOUS
<1>15. live /\ ~drogueLatched /\ time >= DrogueBackup => droDue
  BY DEF DrogueDue
<1>16. /\ continuity <=> AidValid(aid, f) /\ aid.continuity
       /\ live <=> ~isSafe /\ arm
       /\ dro <=> droDue /\ continuity
  OBVIOUS
<1> HIDE DEF f, gotFast, gotAid, misses, isSafe, on, seen, time, sample, count, base, m, arm, sinking,
         live, continuity, feedback, droDue, dro, mnDue, mn
<1>6. since \in Nat /\ (~dro => since = drogueTime)
  BY <1>2 DEF ShapeInv
<1>7. {drogueLatched', mainLatched'} \subseteq BOOLEAN
  BY <1>1, <1>3 DEF ShapeInv
<1>8. safe' => command'.discrete = {"SAFE"}
  BY <1>1 DEF Discrete
<1>9. "DROGUE" \in command'.discrete => dro /\ ~isSafe /\ misses = 0
  BY <1>1, <1>2 DEF Discrete, Held, MissingCap
<1>10. "MAIN" \in command'.discrete => mn /\ ~isSafe /\ misses = 0
  BY <1>1, <1>2 DEF Discrete, Held, MissingCap
<1> HIDE DEF since
<1>11. drogueLatched => drogueLatched' /\ drogueTime' = drogueTime
  BY <1>1, <1>5, <1>6 DEF ShapeInv
<1>12. mainLatched => mainLatched'
  BY <1>1
<1>13. "DROGUE" \in command'.discrete =>
              /\ ~safe' /\ missing' = 0 /\ armed' /\ ~drogueLatched /\ drogueLatched'
              /\ drogueTime' = lastTime'
  BY <1>1, <1>5, <1>9 
<1>14. "MAIN" \in command'.discrete =>
              /\ ~safe' /\ missing' = 0 /\ ~mainLatched /\ mainLatched' /\ drogueLatched'
              /\ lastTime' - drogueTime' >= Separation
  BY <1>1, <1>4, <1>10
<1>17. drogueLatched' /\ ~drogueLatched /\ missing' = 0 => "DROGUE" \in command'.discrete
  BY <1>1, <1>5 DEF Discrete, Held
<1>18. lastTime' >= DrogueBackup /\ armed' /\ ~safe' =>
         /\ drogueLatched' \/ "RECOVERY" \in alarms'
         /\ AidValid(aid, frame') /\ aid.continuity => drogueLatched'
  BY <1>1, <1>15, <1>16
<1>19. "FRAME" \in alarms' => "FRAME" \in alarms \/ TransitionRefused(transition)
  BY <1>1
<1> QED
  BY <1>1, <1>6, <1>7, <1>8, <1>11, <1>12, <1>13, <1>14, <1>17, <1>18, <1>19

(* The demands of a tick: none when safe, those of the last command while  *)
(* a sample is bridged, and otherwise those of this release.               *)
LEMMA TickDemands ==
  ASSUME NEW fast \in FastInput, NEW aid \in AidInput, NEW transition \in TransitionInput,
         NEW falling \in BOOLEAN, NEW low \in BOOLEAN,
         ShapeInv, tick(fast, aid, transition, falling, low)
  PROVE  /\ safe' => command'.torque = Zero /\ command'.gimbal = Zero /\ command'.pulses = Zero
         /\ ~safe' /\ missing' # 0 =>
              /\ command'.torque = command.torque
              /\ command'.gimbal \in {Zero, command.gimbal}
         /\ ~safe' /\ missing' = 0 => {command'.torque, command'.gimbal} \subseteq {Zero, now}
         /\ command'.pulses \in {Zero, command'.torque}
<1>1. missing' \in 0 .. MissingCap /\ (~safe' => missing' < MissingCap)
  BY TickShape
<1>2. /\ command'.torque = IF safe' THEN Zero ELSE IF Held(missing') THEN command.torque ELSE now
      /\ command'.gimbal = IF safe' \/ ~powered' THEN Zero
                           ELSE IF Held(missing') THEN command.gimbal ELSE now
      /\ command'.pulses \in {Zero, command'.torque}
  BY DEF tick
<1>3. safe' => command'.pulses = Zero
  BY DEF tick
<1>4. Held(missing') <=> missing' # 0 /\ missing' < MissingCap
  BY <1>1 DEF Held, MissingCap
<1> QED
  BY <1>1, <1>2, <1>3, <1>4

-----------------------------------------------------------------------------
(* A tick of the reference package keeps the invariant.                    *)
LEMMA TickInv ==
  ASSUME NEW fast \in FastInput, NEW aid \in AidInput, NEW transition \in TransitionInput,
         NEW falling \in BOOLEAN, NEW low \in BOOLEAN,
         FlightInv, package = "ReferenceOps", tick(fast, aid, transition, falling, low)
  PROVE  FlightInv'
<1> USE DEF FlightInv
<1>1. /\ package' = package /\ now' = now + 1 /\ frame' \in Frames
      /\ missing' \in 0 .. MissingCap /\ (~safe' => missing' < MissingCap)
      /\ missing' = 0 => lastTime' = now
      /\ missing' # 0 /\ missing < MissingCap => missing' = missing + 1
      /\ {safe', powered', seenPowered', armed'} \subseteq BOOLEAN
      /\ armed' => armed \/ lastTime' >= ArmingTime
      /\ lastTime' \in Nat /\ lastTime <= lastTime' /\ lastTime' <= now'
      /\ command'.at = now
      /\ commanded' = [d \in Devices |-> IF d \in command'.discrete
                                         THEN commanded[d] \cup {now} ELSE commanded[d]]
  <2> DEFINE gotFast == FastValid(fast, FrameAfter(transition))
  <2>1. gotFast \in BOOLEAN
    BY DEF FastValid
  <2>2. missing' = MissingAfter(gotFast) /\ lastTime' = TimeAfter(gotFast)
    BY TickShape
  <2> HIDE DEF gotFast
  <2>3. (missing' = 0 => lastTime' = now)
        /\ (missing' # 0 /\ missing < MissingCap => missing' = missing + 1)
    BY <2>1, <2>2, MissingMeaning DEF TimeAfter, ShapeInv, MissingCap
  <2> QED
    BY <2>3, TickShape
<1>2. /\ safe' => command'.discrete = {"SAFE"}
      /\ {drogueLatched', mainLatched'} \subseteq BOOLEAN
      /\ drogueTime' \in Nat
      /\ drogueLatched => drogueLatched' /\ drogueTime' = drogueTime
      /\ mainLatched => mainLatched'
      /\ "DROGUE" \in command'.discrete =>
           /\ missing' = 0 /\ armed' /\ ~drogueLatched /\ drogueLatched'
           /\ drogueTime' = lastTime'
      /\ "MAIN" \in command'.discrete =>
           /\ missing' = 0 /\ ~mainLatched /\ mainLatched' /\ drogueLatched'
           /\ lastTime' - drogueTime' >= Separation
  BY TickDeploys
<1>3. ShapeInv'
  BY <1>1, <1>2 DEF ShapeInv, Devices
<1>4. DemandInv'
  <2>1. \A d \in {command'.torque, command'.gimbal} :
          d # Zero => d \in Nat /\ command'.at - d <= missing' /\ missing' < MissingCap
    BY <1>1, TickDemands DEF DemandInv, ShapeInv, Zero, MissingCap
  <2>2. command'.pulses \in {Zero, command'.torque}
    BY TickDemands
  <2> QED
    BY <1>1, <2>1, <2>2 DEF DemandInv
<1>5. DeploymentInv'
  <2>1. /\ commanded'["DROGUE"] = IF "DROGUE" \in command'.discrete
                                  THEN commanded["DROGUE"] \cup {now} ELSE commanded["DROGUE"]
        /\ commanded'["MAIN"] = IF "MAIN" \in command'.discrete
                                THEN commanded["MAIN"] \cup {now} ELSE commanded["MAIN"]
    BY <1>1 DEF Devices
  <2>5. armed' => lastTime' >= ArmingTime
    BY <1>1, ConfigAssumption DEF DeploymentInv, ShapeInv
  <2>2. \A r \in commanded'["DROGUE"] :
           drogueLatched' /\ r = drogueTime' /\ r >= ArmingTime
    BY <1>1, <1>2, <2>1, <2>5 DEF DeploymentInv, ShapeInv
  <2>3. \A r \in commanded'["MAIN"] :
           mainLatched' /\ drogueLatched' /\ r - drogueTime' >= Separation
    BY <1>1, <1>2, <2>1 DEF DeploymentInv, ShapeInv
  <2>4. \A d \in Devices : \A r, s \in commanded'[d] : r = s
    BY <1>1, <1>2, <2>1 DEF DeploymentInv, ShapeInv, Devices
  <2> QED
    BY <1>1, <2>2, <2>3, <2>4, <2>5 DEF DeploymentInv
<1> QED
  BY <1>3, <1>4, <1>5

(* The ground's request and the deadline monitor disturb nothing else.     *)
LEMMA LatchSafeInv == FlightInv /\ LatchSafe => FlightInv'
  BY DEF LatchSafe, FlightInv, ShapeInv, DemandInv, DeploymentInv

-----------------------------------------------------------------------------
(* What a release of the safehold package does: deployments do not depend  *)
(* on safe, and one that is latched is sent.                               *)
LEMMA SafeholdDeploys ==
  ASSUME NEW fast \in FastInput, NEW aid \in AidInput, NEW transition \in TransitionInput,
         NEW falling \in BOOLEAN, NEW low \in BOOLEAN,
         ShapeInv, process_safehold(fast, aid, transition, falling, low)
  PROVE  /\ {drogueLatched', mainLatched'} \subseteq BOOLEAN
         /\ drogueTime' \in Nat
         /\ drogueLatched' <=> drogueLatched \/ "DROGUE" \in command'.discrete
         /\ mainLatched' <=> mainLatched \/ "MAIN" \in command'.discrete
         /\ drogueLatched => drogueTime' = drogueTime
         /\ "DROGUE" \in command'.discrete => ~drogueLatched
         /\ "MAIN" \in command'.discrete =>
              /\ ~mainLatched /\ drogueLatched
              /\ lastTime' - drogueTime' >= Separation
         /\ frame' = "LocalEnu" /\ lastTime' >= DrogueBackup =>
              drogueLatched' \/ "RECOVERY" \in alarms'
<1> DEFINE f == SegmentAfter(transition)
           gotFast == FastValid(fast, f)
           gotAid == AidValid(aid, f)
           isSafe == enter_safe(transition, gotFast)
           time == IF gotFast THEN now ELSE lastTime
           sample == IF gotFast THEN [subsonic |-> fast.subsonic, propellant |-> fast.propellant]
                     ELSE lastFast
           continuity == gotAid /\ aid.continuity
           feedback == gotAid /\ aid.feedback
           m == mode_for_segment(f)
           sinking == DescendingAfter(m, falling)
           droDue == /\ m = "Recovery" /\ ~drogueLatched
                     /\ DrogueDue(m, sinking, sample.subsonic, time)
           dro == droDue /\ continuity
           since == IF dro THEN time ELSE drogueTime
           mnDue == /\ m = "Recovery" /\ ~mainLatched
                    /\ MainDue(drogueLatched \/ dro, since, feedback, m, falling, low, time)
           mn == mnDue /\ continuity
           deploy == (IF dro THEN {"DROGUE"} ELSE {}) \cup (IF mn THEN {"MAIN"} ELSE {})
<1>1. /\ lastTime' = time /\ frame' = f
      /\ drogueLatched' = (drogueLatched \/ "DROGUE" \in deploy)
      /\ mainLatched' = (mainLatched \/ "MAIN" \in deploy)
      /\ drogueTime' = since
      /\ command'.discrete = deploy \cup (IF isSafe THEN {"SAFE"} ELSE {})
      /\ alarms' = alarms
           \cup (IF ReturnRefused(transition) THEN {"FRAME"} ELSE {})
           \cup (IF (droDue \/ mnDue) /\ ~continuity THEN {"RECOVERY"} ELSE {})
  BY DEF process_safehold, recovery_command
<1>2. time \in Nat /\ Separation \in Nat \ {0}
  BY ConfigAssumption DEF ShapeInv
<1>3. mn => ~mainLatched /\ (drogueLatched \/ dro) /\ time - since >= Separation
  BY DEF MainDue
<1>4. f = "LocalEnu" /\ ~drogueLatched /\ time >= DrogueBackup => droDue
  BY DEF DrogueDue, mode_for_segment
<1>5. /\ dro <=> droDue /\ continuity
      /\ dro => ~drogueLatched
      /\ since = IF dro THEN time ELSE drogueTime
  OBVIOUS
<1>6. /\ "DROGUE" \in deploy <=> dro
      /\ "MAIN" \in deploy <=> mn
      /\ "DROGUE" \in command'.discrete <=> dro
      /\ "MAIN" \in command'.discrete <=> mn
  BY <1>1
<1> HIDE DEF f, gotFast, gotAid, isSafe, time, sample, continuity, feedback, m, sinking,
         droDue, dro, since, mnDue, mn, deploy
<1>7. mn => drogueLatched
  BY <1>2, <1>3, <1>5
<1>8. since \in Nat /\ (drogueLatched => since = drogueTime)
  BY <1>2, <1>5 DEF ShapeInv
<1>9. frame' = "LocalEnu" /\ lastTime' >= DrogueBackup =>
        drogueLatched' \/ "RECOVERY" \in alarms'
  BY <1>1, <1>4, <1>5, <1>6
<1> QED
  BY <1>1, <1>3, <1>5, <1>6, <1>7, <1>8, <1>9 DEF ShapeInv

(* A release of the safehold package keeps the invariant.                  *)
LEMMA SafeholdInv ==
  ASSUME NEW fast \in FastInput, NEW aid \in AidInput, NEW transition \in TransitionInput,
         NEW falling \in BOOLEAN, NEW low \in BOOLEAN,
         FlightInv, package = "Safehold",
         process_safehold(fast, aid, transition, falling, low)
  PROVE  FlightInv'
<1> USE DEF FlightInv
<1>1. /\ package' = package /\ now' = now + 1 /\ UNCHANGED <<missing, armed, powered, seenPowered>>
      /\ safe' = enter_safe(transition, FastValid(fast, SegmentAfter(transition)))
      /\ frame' = SegmentAfter(transition)
      /\ lastTime' = TimeAfter(FastValid(fast, SegmentAfter(transition)))
      /\ command'.at = now
      /\ commanded' = [d \in Devices |-> IF d \in command'.discrete
                                         THEN commanded[d] \cup {now} ELSE commanded[d]]
  BY DEF process_safehold, TimeAfter
<1>2. frame' \in Frames
  BY <1>1 DEF ShapeInv, SegmentAfter, ReturnValid, TransitionValid, TransitionInput
<1>3. safe' \in BOOLEAN
  BY <1>1 DEF enter_safe
<1>4. lastTime' \in Nat /\ lastTime' <= now
  BY <1>1 DEF TimeAfter, ShapeInv
<1>5. ShapeInv'
  BY <1>1, <1>2, <1>3, <1>4, SafeholdDeploys DEF ShapeInv, Devices
<1>6. DemandInv'
  <2>1. /\ command'.gimbal = Zero
        /\ command'.torque \in {Zero, now}
        /\ command'.pulses \in {Zero, command'.torque}
    BY DEF process_safehold, control
  <2> QED
    BY <1>1, <2>1 DEF DemandInv
<1>7. DeploymentInv'
  <2>1. /\ commanded'["DROGUE"] = IF "DROGUE" \in command'.discrete
                                  THEN commanded["DROGUE"] \cup {now} ELSE commanded["DROGUE"]
        /\ commanded'["MAIN"] = IF "MAIN" \in command'.discrete
                                THEN commanded["MAIN"] \cup {now} ELSE commanded["MAIN"]
    BY <1>1 DEF Devices
  <2>2. \A d \in Devices : \A r, s \in commanded'[d] : r = s
    BY <2>1, SafeholdDeploys DEF DeploymentInv, ShapeInv, Devices
  <2>3. \A r \in commanded'["MAIN"] :
           mainLatched' /\ drogueLatched' /\ r - drogueTime' >= Separation
    BY <1>1, <1>4, <2>1, SafeholdDeploys, ConfigAssumption DEF DeploymentInv, ShapeInv
  <2>4. /\ drogueLatched' <=> commanded'["DROGUE"] # {}
        /\ mainLatched' <=> commanded'["MAIN"] # {}
    BY <2>1, SafeholdDeploys DEF DeploymentInv
  <2>5. \A r \in commanded["DROGUE"] : r < now
    BY DEF ShapeInv, Devices
  <2>6. \A r \in commanded'["MAIN"] : \E d \in commanded'["DROGUE"] : d < r
    <3> TAKE r \in commanded'["MAIN"]
    <3>1. CASE r \in commanded["MAIN"]
      BY <2>1, <3>1 DEF DeploymentInv
    <3>2. CASE r = now /\ "MAIN" \in command'.discrete
      <4>1. PICK d \in commanded["DROGUE"] : TRUE
        BY <3>2, SafeholdDeploys DEF DeploymentInv
      <4> QED
        BY <2>1, <2>5, <3>2, <4>1
    <3> QED
      BY <2>1, <3>1, <3>2
  <2> QED
    BY <1>1, <2>2, <2>3, <2>4, <2>6 DEF DeploymentInv
<1> QED
  BY <1>5, <1>6, <1>7

-----------------------------------------------------------------------------
(* The cells of the open environment are cells.                            *)
LEMMA EpochIsTyped ==
  ASSUME now \in Nat
  PROVE  epoch \in 0 .. EpochSpan - 1 /\ \A n \in Nat : Before(n) \in Int
  BY EpochAssumption DEF epoch, Before

(* What the world hands to the flight package has the types it expects.    *)
LEMMA EnvironmentIsTyped ==
  ASSUME ShapeInv
  PROVE  /\ TransitionCells \subseteq TransitionInput
         /\ \A f \in Frames : /\ FastCells(f) \subseteq FastInput
                              /\ AidCells(f) \subseteq AidInput
                              /\ \A d \in Descents(f) : d.falling \in BOOLEAN /\ d.low \in BOOLEAN
<1>1. epoch \in Int /\ Before(1) \in Int /\ Before(AidAge + 1) \in Int
  BY EpochIsTyped, EpochAssumption DEF ShapeInv
<1>2. TransitionCells \subseteq TransitionInput
  BY <1>1 DEF TransitionCells, TransitionInput, ShapeInv, Neighbours, Frames
<1>3. ASSUME NEW f \in Frames
      PROVE  FastCells(f) \subseteq FastInput
  <2> SUFFICES ASSUME NEW c \in FastCells(f) PROVE c \in FastInput
    OBVIOUS
  <2>1. CASE c \in [stamp : {epoch}, frame : {f}, powered : {FALSE}, subsonic : BOOLEAN,
                    propellant : {TRUE}]
    BY <1>1, <2>1 DEF FastInput
  <2>2. ASSUME NEW stamp \in Int, NEW on \in BOOLEAN, NEW slow \in BOOLEAN, NEW left \in BOOLEAN,
               c = [stamp |-> stamp, frame |-> f, powered |-> on, subsonic |-> slow,
                    propellant |-> left]
        PROVE  c \in FastInput
    BY <2>2 DEF FastInput
  <2> QED
    BY <1>1, <2>1, <2>2, Zenon DEF FastCells
<1>5. ASSUME NEW f \in Frames
      PROVE  \A d \in Descents(f) : d.falling \in BOOLEAN /\ d.low \in BOOLEAN
  BY DEF Descents
<1>4. ASSUME NEW f \in Frames
      PROVE  AidCells(f) \subseteq AidInput
  BY <1>1 DEF AidCells, AidInput
<1> QED
  BY <1>2, <1>3, <1>4, <1>5

(* The segments a transition leads to are frames.                          *)
LEMMA FramesAreKept ==
  ASSUME ShapeInv, NEW transition \in TransitionInput
  PROVE  FrameAfter(transition) \in Frames /\ SegmentAfter(transition) \in Frames
  BY DEF ShapeInv, FrameAfter, SegmentAfter, ReturnValid, TransitionValid, TransitionInput

(* The steps of a session with either package.                             *)
LEMMA PackageSteps ==
  ASSUME ShapeInv, PackageNext
  PROVE  \/ /\ package = "ReferenceOps"
            /\ \E fast \in FastInput, aid \in AidInput, transition \in TransitionInput,
                  falling \in BOOLEAN, low \in BOOLEAN :
                 tick(fast, aid, transition, falling, low)
         \/ package = "ReferenceOps" /\ LatchSafe
         \/ /\ package = "Safehold"
            /\ \E fast \in FastInput, aid \in AidInput, transition \in TransitionInput,
                  falling \in BOOLEAN, low \in BOOLEAN :
                 process_safehold(fast, aid, transition, falling, low)
<1>1. CASE package = "ReferenceOps" /\ Tick
  <2>1. PICK transition \in TransitionCells :
          \E fast \in FastCells(FrameAfter(transition)), aid \in AidCells(FrameAfter(transition)),
             descent \in Descents(FrameAfter(transition)) :
            tick(fast, aid, transition, descent.falling, descent.low)
    BY <1>1 DEF Tick
  <2>2. transition \in TransitionInput /\ FrameAfter(transition) \in Frames
    BY EnvironmentIsTyped, FramesAreKept
  <2> QED
    BY <1>1, <2>1, <2>2, EnvironmentIsTyped
<1>2. CASE Release
  <2>1. PICK transition \in TransitionCells :
          \E fast \in {c \in FastCells(SegmentAfter(transition)) : ~c.powered},
             aid \in AidCells(SegmentAfter(transition)),
             descent \in Descents(SegmentAfter(transition)) :
            process_safehold(fast, aid, transition, descent.falling, descent.low)
    BY <1>2 DEF Release
  <2>2. transition \in TransitionInput /\ SegmentAfter(transition) \in Frames
    BY EnvironmentIsTyped, FramesAreKept
  <2> QED
    BY <1>2, <2>1, <2>2, EnvironmentIsTyped DEF Release
<1> QED
  BY <1>1, <1>2 DEF PackageNext, FCNext, operational_request_safe, record_deadline_miss

(* FlightInv holds at first.                                               *)
LEMMA FlightInvAtFirst == PackageInit => FlightInv
<1> SUFFICES ASSUME PackageInit PROVE FlightInv
  OBVIOUS
<1>1. now = 0 /\ commanded = [d \in Devices |-> {}]
  BY DEF PackageInit, FCInit, SHInit
<1>2. ShapeInv
  <2>1. commanded \in [Devices -> SUBSET (0 .. now - 1)]
    BY <1>1
  <2>2. {safe, armed, powered, seenPowered, drogueLatched, mainLatched} \subseteq BOOLEAN
    BY DEF PackageInit, FCInit, SHInit
  <2>3. command.at = now - 1
    BY <1>1 DEF PackageInit, FCInit, SHInit
  <2>4. frame \in Frames
    BY DEF PackageInit, FCInit, SHInit, Frames
  <2> QED
    BY <2>1, <2>2, <2>3, <2>4 DEF PackageInit, FCInit, SHInit, ShapeInv, MissingCap
<1>3. DemandInv
  BY DEF PackageInit, FCInit, SHInit, DemandInv, Zero
<1>4. DeploymentInv
  BY <1>1 DEF PackageInit, FCInit, SHInit, DeploymentInv, Devices
<1> QED
  BY <1>2, <1>3, <1>4 DEF FlightInv

(* FlightInv is an invariant of both packages.                             *)
LEMMA FlightInvHolds == PackageSpec => []FlightInv
<1>1. FlightInv /\ [PackageNext]_fcVars => FlightInv'
  <2> SUFFICES ASSUME FlightInv, [PackageNext]_fcVars PROVE FlightInv'
    OBVIOUS
  <2>1. CASE PackageNext
    BY <2>1, PackageSteps, TickInv, LatchSafeInv, SafeholdInv DEF FlightInv
  <2>2. CASE UNCHANGED fcVars
    BY <2>2 DEF fcVars, FlightInv, ShapeInv, DemandInv, DeploymentInv
  <2> QED
    BY <2>1, <2>2
<1> QED
  BY FlightInvAtFirst, <1>1, PTL DEF PackageSpec

-----------------------------------------------------------------------------
(* No torque or gimbal demand older than the two releases a missing sample *)
(* may be bridged is commanded; none but this release's under safehold.    *)
THEOREM ActuationStaysFresh == PackageSpec => []ActuationIsFresh
<1>1. FlightInv => ActuationIsFresh
  BY DEF FlightInv, ShapeInv, DemandInv, ActuationIsFresh, MissingCap, Zero
<1> QED
  BY FlightInvHolds, <1>1, PTL

(* A set without two members has at most one.                              *)
LEMMA AtMostOne ==
  ASSUME NEW S, \A r, s \in S : r = s
  PROVE  Cardinality(S) <= 1
<1>1. CASE S = {}
  BY <1>1, FS_EmptySet
<1>2. CASE S # {}
  <2>1. PICK r : S = {r}
    BY <1>2
  <2> QED
    BY <2>1, FS_Singleton
<1> QED
  BY <1>1, <1>2

(* Every deployment is commanded once, the main after the drogue and the   *)
(* separation, whatever was dropped, held, refused or safed in between.    *)
THEOREM DeploymentsStayInOrder == PackageSpec => []DeploymentsInOrder
<1>1. FlightInv => DeploymentsInOrder
  <2> SUFFICES ASSUME FlightInv PROVE DeploymentsInOrder
    OBVIOUS
  <2>1. \A d \in Devices : Cardinality(commanded[d]) <= 1
    BY AtMostOne DEF FlightInv, DeploymentInv
  <2> QED
    BY <2>1 DEF FlightInv, ShapeInv, DeploymentInv, DeploymentsInOrder
<1> QED
  BY FlightInvHolds, <1>1, PTL

(* Past its backup time an armed computer has latched its drogue, raised   *)
(* the recovery alarm or is safe; safehold in its last segment has         *)
(* latched it or raised the alarm, safe or not.                            *)
THEOREM BackupIsNeverSilent == PackageSpec => []BackupIsNotSilent
<1>1. PackageInit => BackupIsNotSilent
  BY ConfigAssumption DEF PackageInit, FCInit, SHInit, BackupIsNotSilent
<1>2. FlightInv /\ BackupIsNotSilent /\ [PackageNext]_fcVars => BackupIsNotSilent'
  <2> SUFFICES ASSUME FlightInv, BackupIsNotSilent, [PackageNext]_fcVars
               PROVE  BackupIsNotSilent'
    OBVIOUS
  <2>1. CASE PackageNext
    <3>1. ASSUME NEW fast \in FastInput, NEW aid \in AidInput, NEW transition \in TransitionInput,
                 NEW falling \in BOOLEAN, NEW low \in BOOLEAN, package = "ReferenceOps",
                 tick(fast, aid, transition, falling, low)
          PROVE  BackupIsNotSilent'
      <4>1. package' = "ReferenceOps"
        BY <3>1 DEF tick
      <4>2. lastTime' >= DrogueBackup /\ armed' /\ ~safe' => drogueLatched' \/ "RECOVERY" \in alarms'
        BY <3>1, TickDeploys DEF FlightInv
      <4> QED
        BY <4>1, <4>2 DEF BackupIsNotSilent
    <3>2. ASSUME NEW fast \in FastInput, NEW aid \in AidInput, NEW transition \in TransitionInput,
                 NEW falling \in BOOLEAN, NEW low \in BOOLEAN, package = "Safehold",
                 process_safehold(fast, aid, transition, falling, low)
          PROVE  BackupIsNotSilent'
      <4>1. package' = "Safehold"
        BY <3>2 DEF process_safehold
      <4>2. frame' = "LocalEnu" /\ lastTime' >= DrogueBackup => drogueLatched' \/ "RECOVERY" \in alarms'
        BY <3>2, SafeholdDeploys DEF FlightInv
      <4> QED
        BY <4>1, <4>2 DEF BackupIsNotSilent
    <3>3. ASSUME package = "ReferenceOps", LatchSafe
          PROVE  BackupIsNotSilent'
      BY <3>3 DEF LatchSafe, BackupIsNotSilent
    <3> QED
      BY <2>1, <3>1, <3>2, <3>3, PackageSteps DEF FlightInv
  <2>2. CASE UNCHANGED fcVars
    BY <2>2 DEF fcVars, BackupIsNotSilent
  <2> QED
    BY <2>1, <2>2
<1> QED
  BY FlightInvHolds, <1>1, <1>2, PTL DEF PackageSpec

(* Safe is never left, and no command after it drives an actuator.         *)
THEOREM SafeStaysFinal == PackageSpec => SafeIsFinal
<1> DEFINE Final == safe => /\ safe'
                            /\ now' # now =>
                                 /\ \A d \in Demands' : d = Zero
                                 /\ "SAFE" \in command'.discrete
                                 /\ package = "ReferenceOps" => command'.discrete = {"SAFE"}
<1>1. FlightInv /\ [PackageNext]_fcVars => [Final]_fcVars
  <2> SUFFICES ASSUME FlightInv, PackageNext, safe = TRUE
               PROVE  Final
    BY DEF FlightInv, ShapeInv
  <2>1. ASSUME NEW fast \in FastInput, NEW aid \in AidInput, NEW transition \in TransitionInput,
               NEW falling \in BOOLEAN, NEW low \in BOOLEAN, package = "ReferenceOps",
               tick(fast, aid, transition, falling, low)
        PROVE  Final
    <3>1. safe'
      <4>1. safe' = SafeLatch(transition, missing')
        BY <2>1, TickShape DEF FlightInv
      <4> QED
        BY <4>1 DEF SafeLatch
    <3>2. \A d \in Demands' : d = Zero
      BY <2>1, <3>1, TickDemands DEF FlightInv, Demands
    <3>3. command'.discrete = {"SAFE"}
      BY <2>1, <3>1, TickDeploys DEF FlightInv
    <3> QED
      BY <3>1, <3>2, <3>3
  <2>2. ASSUME NEW fast \in FastInput, NEW aid \in AidInput, NEW transition \in TransitionInput,
               NEW falling \in BOOLEAN, NEW low \in BOOLEAN, package = "Safehold",
               process_safehold(fast, aid, transition, falling, low)
        PROVE  Final
    <3>1. safe' /\ \A got \in BOOLEAN : enter_safe(transition, got)
      BY <2>2 DEF process_safehold, enter_safe
    <3>2. command'.torque = Zero /\ command'.gimbal = Zero /\ command'.pulses = Zero
      BY <2>2 DEF process_safehold, control, enter_safe
    <3>3. "SAFE" \in command'.discrete
      BY <2>2 DEF process_safehold, enter_safe
    <3> QED
      BY <2>2, <3>1, <3>2, <3>3 DEF Demands
  <2>3. ASSUME LatchSafe PROVE Final
    BY <2>3 DEF LatchSafe
  <2> QED
    BY <2>1, <2>2, <2>3, PackageSteps DEF FlightInv
<1> QED
  BY FlightInvHolds, <1>1, PTL DEF PackageSpec, SafeIsFinal

-----------------------------------------------------------------------------
(* The closed loop.  Between the world's step and the release after it the *)
(* recorded crossing is all that separates the navigator's frame from the  *)
(* world's.                                                                *)
TrackingInv ==
  /\ package = "ReferenceOps" /\ segment \in Segments
  /\ phase \in {"release", "advance", "finished"}
  /\ "FRAME" \notin alarms
  /\ crossing \in {NoCell} \cup [from : Frames, to : Frames]
  /\ IF crossing = NoCell THEN frame = segment_frame(segment)
     ELSE crossing.from = frame /\ crossing.to = segment_frame(segment)
  /\ phase # "release" => crossing = NoCell /\ command.frame = frame

(* The computer arms on a sample taken after burnout, and what the world   *)
(* has deployed was commanded.                                             *)
WorldInv ==
  /\ {drogue, main, complete} \subseteq BOOLEAN
  /\ dropout \in [start : 0 .. EpochSpan - 1, length : 0 .. MaxDropout]
  /\ (seenPowered /\ ~powered) \/ armed => lastTime >= Burnout
  /\ \A r \in commanded["DROGUE"] : r >= Burnout
  /\ \A d \in Devices : d \in command.discrete => commanded[d] # {}
  /\ drogue => commanded["DROGUE"] # {}
  /\ main => drogue /\ commanded["MAIN"] # {}

MissionInv == FlightInv /\ TrackingInv /\ WorldInv

(* A flight without dropouts: every release has its sample, so the flight  *)
(* computer is armed in time, and a drogue that is due waits only for the  *)
(* next aid frame with continuity in it.                                   *)
CleanInv ==
  Clean =>
    /\ ~safe /\ missing = 0
    /\ now > 0 => seenPowered /\ lastTime = now - 1
    /\ ~drogueLatched /\ now > DrogueBackup =>
         now - DrogueBackup <= ((now - 1) % EpochSpan) % Cadence
    /\ drogueLatched => drogue \/ ("DROGUE" \in command.discrete /\ phase # "release")

(* MissionInv holds at first.                                              *)
LEMMA MissionInvAtFirst == GMInit => MissionInv
<1> SUFFICES ASSUME GMInit PROVE MissionInv
  OBVIOUS
<1>1. FlightInv
  BY FlightInvAtFirst DEF GMInit, PackageInit
<1>2. commanded = [d \in Devices |-> {}] /\ command.discrete = {}
  BY DEF GMInit, FCInit
<1>3. TrackingInv
  BY DEF GMInit, FCInit, TrackingInv, Segments, segment_frame
<1>4. WorldInv
  BY <1>2 DEF GMInit, FCInit, WorldInv, Devices
<1> QED
  BY <1>1, <1>3, <1>4 DEF MissionInv

(* What release_bundle hands to the tick: cells of the world's frame, and  *)
(* a transition that the navigator accepts and that brings it there.       *)
LEMMA BundleIsAccepted ==
  ASSUME MissionInv, NEW subsonic \in BOOLEAN
  PROVE  /\ fast_sensor(subsonic) \in FastInput
         /\ aid_frame \in AidInput
         /\ transition_cell \in TransitionInput
         /\ ~TransitionRefused(transition_cell)
         /\ FrameAfter(transition_cell) = segment_frame(segment)
<1> USE DEF MissionInv
<1>1. epoch \in Int /\ segment_frame(segment) \in Frames
  BY EpochIsTyped DEF FlightInv, ShapeInv, TrackingInv, Segments, segment_frame, Frames
<1>2. fast_sensor(subsonic) \in FastInput
  BY <1>1 DEF fast_sensor, FastInput
<1>3. aid_frame \in AidInput
  <2>1. (epoch % Cadence = 0 /\ drogue) \in BOOLEAN /\ complete \in BOOLEAN
    BY DEF WorldInv
  <2> QED
    BY <1>1, <2>1 DEF aid_frame, AidInput
<1>4. CASE crossing = NoCell
  <2>1. transition_cell = NoCell
    BY <1>4 DEF transition_cell
  <2> QED
    BY <1>2, <1>3, <1>4, <2>1
    DEF TransitionInput, TransitionRefused, TransitionValid, FrameAfter, TrackingInv
<1>5. CASE crossing # NoCell
  <2>1. /\ crossing \in [from : Frames, to : Frames]
        /\ crossing.from = frame /\ crossing.to = segment_frame(segment)
    BY <1>5 DEF TrackingInv
  <2>2. /\ transition_cell \in [stamp : Int, from : Frames, to : Frames]
        /\ transition_cell.stamp = epoch /\ transition_cell.from = frame
        /\ transition_cell.to = segment_frame(segment)
    BY <1>1, <1>5, <2>1 DEF transition_cell
  <2>3. transition_cell # NoCell
    BY <2>2 DEF NoCell
  <2> QED
    BY <1>2, <1>3, <2>2, <2>3 DEF TransitionInput, TransitionRefused, TransitionValid, FrameAfter
<1> QED
  BY <1>4, <1>5

(* A release brings the navigator to the world's frame.                    *)
LEMMA ReleaseInv == MissionInv /\ release => MissionInv'
<1> SUFFICES ASSUME MissionInv, release PROVE MissionInv'
  OBVIOUS
<1>1. PICK subsonic \in BOOLEAN, falling \in BOOLEAN, low \in BOOLEAN :
        tick(fast_sensor(subsonic), aid_frame, transition_cell, falling, low)
  BY DEF release
<1> DEFINE fast == fast_sensor(subsonic)
<1>2. /\ fast \in FastInput /\ aid_frame \in AidInput
      /\ transition_cell \in TransitionInput
      /\ ~TransitionRefused(transition_cell)
      /\ FrameAfter(transition_cell) = segment_frame(segment)
  BY BundleIsAccepted
<1>3. ShapeInv /\ package = "ReferenceOps"
  BY DEF MissionInv, FlightInv, TrackingInv
<1>4. FlightInv'
  BY <1>1, <1>2, <1>3, TickInv DEF MissionInv
<1>5. /\ package' = package /\ frame' = segment_frame(segment) /\ command'.frame = frame'
      /\ powered' = (IF FastValid(fast, frame') THEN fast.powered ELSE powered)
      /\ seenPowered' = (seenPowered \/ powered')
      /\ lastTime' = TimeAfter(FastValid(fast, frame'))
      /\ armed' = (armed \/ (seenPowered' /\ ~powered' /\ lastTime' >= ArmingTime))
      /\ lastTime' \in Nat /\ lastTime <= lastTime'
      /\ commanded' = [d \in Devices |-> IF d \in command'.discrete
                                         THEN commanded[d] \cup {now} ELSE commanded[d]]
  BY <1>1, <1>2, <1>3, TickShape
<1>6. TrackingInv'
  <2>1. "FRAME" \notin alarms'
    BY <1>1, <1>2, <1>3, TickDeploys DEF MissionInv, TrackingInv
  <2> QED
    BY <1>5, <2>1 DEF release, MissionInv, TrackingInv
<1>7. WorldInv'
  <2>1. FastValid(fast, frame') => fast.powered = (now < Burnout)
    BY DEF FastValid, fast_sensor, NoCell
  <2>2. (seenPowered' /\ ~powered') \/ armed' => lastTime' >= Burnout
    BY <1>3, <1>5, <2>1, MissionAssumption DEF TimeAfter, MissionInv, WorldInv, ShapeInv
  <2>3. /\ "DROGUE" \in command'.discrete => armed' /\ drogueLatched' /\ drogueTime' = lastTime'
        /\ \A r \in commanded'["DROGUE"] : r = drogueTime'
    BY <1>1, <1>2, <1>3, <1>4, <1>5, TickDeploys DEF FlightInv, DeploymentInv, TrackingInv, MissionInv
  <2>4. \A r \in commanded'["DROGUE"] : r >= Burnout
    BY <1>5, <2>2, <2>3 DEF MissionInv, WorldInv, Devices
  <2>5. \A d \in Devices : /\ d \in command'.discrete => commanded'[d] # {}
                           /\ commanded[d] \subseteq commanded'[d]
    BY <1>5
  <2>6. UNCHANGED <<drogue, main, complete, dropout>>
    BY DEF release
  <2> QED
    BY <2>2, <2>4, <2>5, <2>6 DEF MissionInv, WorldInv, Devices
<1> QED
  BY <1>4, <1>6, <1>7 DEF MissionInv

(* The world's step records the crossing that the next release needs.      *)
LEMMA AdvanceInv == MissionInv /\ advance_to_next_release => MissionInv'
<1> SUFFICES ASSUME MissionInv, advance_to_next_release PROVE MissionInv'
  OBVIOUS
<1>1. UNCHANGED fcVars /\ UNCHANGED dropout /\ phase = "advance"
  BY DEF advance_to_next_release
<1>2. FlightInv'
  BY <1>1 DEF fcVars, MissionInv, FlightInv, ShapeInv, DemandInv, DeploymentInv
<1>3. WorldStep /\ phase' = "release" /\ frame = segment_frame(segment)
  BY <1>1 DEF advance_to_next_release, MissionInv, TrackingInv
<1>4. segment' \in Segments
  <2>1. segment' \in Successors(segment, apogee')
    BY <1>3 DEF WorldStep
  <2> QED
    BY <2>1 DEF Successors, Segments, MissionInv, TrackingInv
<1>5. \A s \in Segments : segment_frame(s) \in Frames
  BY DEF Segments, segment_frame, Frames
<1>6. TrackingInv'
  <2>1. crossing' = IF segment' = segment THEN NoCell
                    ELSE [from |-> segment_frame(segment), to |-> segment_frame(segment')]
    BY <1>3 DEF WorldStep
  <2>2. CASE segment' = segment
    BY <1>1, <1>3, <2>1, <2>2 DEF MissionInv, TrackingInv, fcVars
  <2>3. CASE segment' # segment
    <3>1. crossing' = [from |-> segment_frame(segment), to |-> segment_frame(segment')]
      BY <2>1, <2>3
    <3>2. crossing' \in [from : Frames, to : Frames] /\ crossing' # NoCell
      BY <1>4, <1>5, <3>1 DEF MissionInv, TrackingInv, NoCell
    <3>3. crossing'.from = frame' /\ crossing'.to = segment_frame(segment')
      BY <1>1, <1>3, <3>1 DEF fcVars
    <3> QED
      BY <1>1, <1>3, <1>4, <3>2, <3>3 DEF MissionInv, TrackingInv, fcVars
  <2> QED
    BY <2>2, <2>3
<1>7. WorldInv'
  <2>1. /\ drogue' = DrogueAfter /\ main' = MainAfter /\ complete' \in BOOLEAN
    BY <1>3 DEF WorldStep
  <2>2. {drogue', main'} \subseteq BOOLEAN
    BY <2>1 DEF DrogueAfter, MainAfter, MissionInv, WorldInv
  <2>3. /\ drogue' => commanded["DROGUE"] # {}
        /\ main' => drogue' /\ commanded["MAIN"] # {}
    BY <2>1, <2>2 DEF DrogueAfter, MainAfter, MissionInv, WorldInv, Devices
  <2> QED
    BY <1>1, <2>1, <2>2, <2>3 DEF MissionInv, WorldInv, fcVars
<1> QED
  BY <1>2, <1>6, <1>7 DEF MissionInv

(* MissionInv is an invariant of the closed loop.                          *)
LEMMA MissionInvHolds == GMSpec => []MissionInv
<1>1. MissionInv /\ [GMNext]_gmVars => MissionInv'
  <2> SUFFICES ASSUME MissionInv, [GMNext]_gmVars PROVE MissionInv'
    OBVIOUS
  <2>1. CASE GMNext
    BY <2>1, ReleaseInv, AdvanceInv DEF GMNext
  <2>2. CASE UNCHANGED gmVars
    BY <2>2 DEF gmVars, fcVars, worldVars, MissionInv, FlightInv, ShapeInv, DemandInv, DeploymentInv,
                TrackingInv, WorldInv
  <2> QED
    BY <2>1, <2>2
<1> QED
  BY MissionInvAtFirst, <1>1, PTL DEF GMSpec

(* The navigator never loses the world's frame, however the samples are    *)
(* dropped and whenever the world crosses.                                 *)
THEOREM FramesAlwaysAgree == GMSpec => []FramesAgree
<1>1. MissionInv => FramesAgree
  BY DEF MissionInv, TrackingInv, FramesAgree
<1> QED
  BY MissionInvHolds, <1>1, PTL

(* What opens was commanded, after burnout and arming, the main after the  *)
(* drogue and the separation.                                              *)
THEOREM WorldDeploysAsCommanded == GMSpec => []DeploysAsCommanded
<1>1. MissionInv => DeploysAsCommanded
  <2> SUFFICES ASSUME MissionInv PROVE DeploysAsCommanded
    OBVIOUS
  <2>1. /\ \A r \in commanded["DROGUE"] : r \in Nat /\ r >= Burnout /\ r >= ArmingTime /\ r = drogueTime
        /\ \A r \in commanded["MAIN"] : r \in Nat /\ r - drogueTime >= Separation
    BY DEF MissionInv, FlightInv, ShapeInv, DeploymentInv, TrackingInv, WorldInv, Devices
  <2>2. drogueTime \in Nat /\ Separation \in Nat
    BY ConfigAssumption DEF MissionInv, FlightInv, ShapeInv
  <2> QED
    BY <2>1, <2>2 DEF MissionInv, WorldInv, DeploysAsCommanded
<1> QED
  BY MissionInvHolds, <1>1, PTL

-----------------------------------------------------------------------------
(* A drogue that waits for continuity waits less than one aid period: the  *)
(* remainder that measures the wait grows with it, or the frame is due,    *)
(* across a wrap of the epoch too.                                         *)
LEMMA WaitIsMeasured ==
  ASSUME NEW n \in Nat \ {0}, (n % EpochSpan) % Cadence # 0
  PROVE  (n % EpochSpan) % Cadence = (((n - 1) % EpochSpan) % Cadence) + 1
<1>1. EpochSpan \in Nat \ {0} /\ Cadence \in Nat \ {0} /\ n - 1 \in Nat /\ (n - 1) + 1 = n
  BY EpochAssumption, MissionAssumption
<1>2. n % EpochSpan = IF (n - 1) % EpochSpan = EpochSpan - 1 THEN 0
                      ELSE ((n - 1) % EpochSpan) + 1
  BY <1>1, NextInCycle
<1>3. 0 % Cadence = 0
  BY <1>1
<1>4. n % EpochSpan = ((n - 1) % EpochSpan) + 1 /\ (n - 1) % EpochSpan \in Nat
  BY <1>1, <1>2, <1>3
<1> DEFINE e == (n - 1) % EpochSpan
<1>5. (e + 1) % Cadence = IF e % Cadence = Cadence - 1 THEN 0 ELSE (e % Cadence) + 1
  BY <1>1, <1>4, NextInCycle
<1> HIDE DEF e
<1> QED
  BY <1>4, <1>5 DEF e

(* A release of a clean flight.                                            *)
LEMMA CleanRelease ==
  ASSUME Burnout <= DrogueBackup, MissionInv, CleanInv, release
  PROVE  CleanInv'
<1> SUFFICES ASSUME Clean' PROVE CleanInv'
  BY DEF CleanInv
<1>1. PICK subsonic \in BOOLEAN, falling \in BOOLEAN, low \in BOOLEAN :
        tick(fast_sensor(subsonic), aid_frame, transition_cell, falling, low)
  BY DEF release
<1> DEFINE fast == fast_sensor(subsonic)
<1>2. UNCHANGED <<drogue, dropout>> /\ phase' # "release" /\ Clean
  BY DEF release, Clean
<1>3. ShapeInv /\ FlightInv' /\ ~safe /\ missing = 0 /\ (now > 0 => seenPowered)
  BY <1>2, ReleaseInv DEF CleanInv, MissionInv, FlightInv
<1>4. now \in Nat /\ epoch \in 0 .. EpochSpan - 1
  BY <1>3, EpochIsTyped DEF ShapeInv
<1>5. /\ fast \in FastInput /\ aid_frame \in AidInput
      /\ transition_cell \in TransitionInput
      /\ ~TransitionRefused(transition_cell)
      /\ FrameAfter(transition_cell) = segment_frame(segment)
  BY BundleIsAccepted
<1>6. fast = [stamp |-> epoch, frame |-> segment_frame(segment), powered |-> now < Burnout,
              subsonic |-> subsonic, propellant |-> TRUE]
  <2>1. /\ dropout.start \in Int /\ dropout.length = 0 /\ EpochSpan \in Nat \ {0}
    BY <1>2, EpochAssumption DEF MissionInv, WorldInv, Clean
  <2>2. ~in_window(epoch, dropout.start, dropout.length)
    BY <1>4, <2>1 DEF in_window
  <2> QED
    BY <2>2 DEF fast_sensor
<1>7. FastValid(fast, segment_frame(segment)) = TRUE
  BY <1>6 DEF FastValid, NoCell
<1>8. /\ now' = now + 1 /\ missing' = 0 /\ frame' = segment_frame(segment)
      /\ safe' = SafeLatch(transition_cell, missing')
      /\ powered' = (now < Burnout)
      /\ seenPowered' = (seenPowered \/ powered')
      /\ lastTime' = now
      /\ armed' = (armed \/ (seenPowered' /\ ~powered' /\ lastTime' >= ArmingTime))
  <2>1. missing' = MissingAfter(TRUE) /\ powered' = fast.powered /\ lastTime' = TimeAfter(TRUE)
    BY <1>1, <1>3, <1>5, <1>7, TickShape
  <2> QED
    BY <1>1, <1>3, <1>5, <1>6, <2>1, TickShape DEF MissingAfter, TimeAfter
<1>9. ~safe'
  <2>1. ~SafeLatch(transition_cell, 0)
    BY <1>3, <1>5 DEF SafeLatch, MissingCap
  <2> QED
    BY <1>8, <2>1
<1>10. seenPowered'
  <2>1. CASE now > 0
    BY <1>3, <1>8, <2>1
  <2>2. CASE now = 0
    <3>1. now < Burnout
      BY <2>2, MissionAssumption
    <3> QED
      BY <1>8, <3>1
  <2> QED
    BY <1>4, <2>1, <2>2
<1>11. now >= DrogueBackup => armed'
  BY <1>4, <1>8, <1>10, ConfigAssumption, MissionAssumption
<1>12. now >= DrogueBackup /\ ~drogueLatched' => epoch % Cadence # 0
  <2>1. AidValid(aid_frame, frame') /\ (epoch % Cadence = 0 => aid_frame.continuity)
    <3>1. (epoch - epoch) % EpochSpan <= AidAge
      BY <1>4, EpochAssumption
    <3>2. /\ aid_frame.measured = epoch /\ aid_frame.produced = epoch
          /\ aid_frame.frame = segment_frame(segment)
          /\ aid_frame.continuity = (epoch % Cadence = 0)
      BY DEF aid_frame
    <3>3. aid_frame # NoCell
      BY DEF aid_frame, NoCell
    <3>4. epoch % Cadence = 0 => aid_frame.continuity
      BY <3>2
    <3>5. AidValid(aid_frame, frame')
      BY <1>4, <1>8, <3>1, <3>2, <3>3 DEF AidValid
    <3> QED
      BY <3>4, <3>5
  <2>2. /\ lastTime' >= DrogueBackup /\ armed' /\ ~safe' /\ AidValid(aid_frame, frame')
           /\ aid_frame.continuity => drogueLatched'
    BY <1>1, <1>3, <1>5, TickDeploys
  <2> QED
    BY <1>8, <1>9, <1>11, <2>1, <2>2
<1>13. drogueLatched => drogueLatched'
  BY <1>1, <1>3, <1>5, TickDeploys
<1>14. ~drogueLatched' /\ now' > DrogueBackup =>
         now' - DrogueBackup <= ((now' - 1) % EpochSpan) % Cadence
  <2> SUFFICES ASSUME ~drogueLatched', now' > DrogueBackup
               PROVE  now' - DrogueBackup <= ((now' - 1) % EpochSpan) % Cadence
    OBVIOUS
  <2>1. now >= DrogueBackup /\ now' - 1 = now /\ DrogueBackup \in Nat \ {0} /\ Cadence \in Nat \ {0}
    BY <1>4, <1>8, ConfigAssumption, MissionAssumption
  <2>2. (now % EpochSpan) % Cadence # 0 /\ (now % EpochSpan) % Cadence \in Nat
    BY <1>4, <1>12, <2>1 DEF epoch
  <2>3. CASE now = DrogueBackup
    BY <1>8, <2>1, <2>2, <2>3
  <2>4. CASE now > DrogueBackup
    <3>1. now - DrogueBackup <= ((now - 1) % EpochSpan) % Cadence
      BY <1>2, <1>13, <2>4 DEF CleanInv
    <3>2. (now % EpochSpan) % Cadence = (((now - 1) % EpochSpan) % Cadence) + 1
      BY <1>4, <2>1, <2>2, WaitIsMeasured
    <3>3. ((now - 1) % EpochSpan) % Cadence \in Int
      <4>1. (now - 1) % EpochSpan \in Nat
        BY <1>4, <2>1, EpochAssumption
      <4> QED
        BY <2>1, <4>1
    <3> HIDE DEF epoch
    <3> QED
      BY <1>4, <1>8, <2>1, <3>1, <3>2, <3>3
  <2> QED
    BY <1>4, <2>1, <2>3, <2>4
<1>15. drogueLatched' => drogue' \/ ("DROGUE" \in command'.discrete /\ phase' # "release")
  <2>1. drogueLatched => drogue
    BY <1>2 DEF CleanInv, release
  <2>2. drogueLatched' /\ ~drogueLatched => "DROGUE" \in command'.discrete
    BY <1>1, <1>3, <1>5, <1>8, TickDeploys
  <2> QED
    BY <1>2, <2>1, <2>2
<1> QED
  BY <1>4, <1>8, <1>9, <1>10, <1>14, <1>15 DEF CleanInv

(* Without dropouts the flight never safes, and the drogue is out one aid  *)
(* period after the backup time at the latest, for every vehicle that has  *)
(* burnt out by then.                                                      *)
THEOREM CleanFlightsRecover ==
  ASSUME Burnout <= DrogueBackup
  PROVE  GMSpec => []CleanFlightRecovers
<1>1. GMInit => CleanInv
  BY ConfigAssumption DEF GMInit, FCInit, CleanInv
<1>2. MissionInv /\ CleanInv /\ [GMNext]_gmVars => CleanInv'
  <2> SUFFICES ASSUME MissionInv, CleanInv, [GMNext]_gmVars PROVE CleanInv'
    OBVIOUS
  <2>1. CASE release
    BY <2>1, CleanRelease
  <2>2. CASE advance_to_next_release
    <3>1. UNCHANGED fcVars /\ UNCHANGED dropout /\ (WorldStep \/ UNCHANGED drogue)
      BY <2>2 DEF advance_to_next_release
    <3>2. (drogue \/ "DROGUE" \in command.discrete) => drogue'
      <4>1. WorldStep
        BY <2>2 DEF advance_to_next_release, MissionInv, TrackingInv
      <4> QED
        BY <4>1 DEF WorldStep, DrogueAfter
    <3> QED
      BY <3>1, <3>2 DEF fcVars, CleanInv, Clean
  <2>3. CASE UNCHANGED gmVars
    BY <2>3 DEF gmVars, fcVars, worldVars, CleanInv, Clean
  <2> QED
    BY <2>1, <2>2, <2>3 DEF GMNext
<1>3. MissionInv /\ CleanInv => CleanFlightRecovers
  <2> SUFFICES ASSUME MissionInv, CleanInv, Clean, phase = "release", now > DrogueBackup + Cadence
               PROVE  drogue
    BY DEF CleanFlightRecovers, CleanInv
  <2>1. now \in Nat \ {0} /\ DrogueBackup \in Nat /\ Cadence \in Nat \ {0}
    BY ConfigAssumption, MissionAssumption DEF MissionInv, FlightInv, ShapeInv
  <2>2. (now - 1) % EpochSpan \in Nat
    BY <2>1, EpochAssumption
  <2>3. ((now - 1) % EpochSpan) % Cadence \in 0 .. Cadence - 1
    BY <2>1, <2>2
  <2>4. now > DrogueBackup /\ ~(now - DrogueBackup <= ((now - 1) % EpochSpan) % Cadence)
    BY <2>1, <2>3
  <2> QED
    BY <2>4 DEF CleanInv
<1> QED
  BY MissionInvHolds, <1>1, <1>2, <1>3, PTL DEF GMSpec
=============================================================================
