--------------------------- MODULE ProcedureEngine ---------------------------
(***************************************************************************)
(* ProcedureEngine of session/src/phase11_operations.rs as operators on a  *)
(* record [state, step, entered].  A pack maps a step identity to          *)
(*   [kind, complete, failure, timeout, action],                           *)
(* where complete and failure are the next steps and 0 means none.         *)
(* Evidence records and their hash chain are left out, and so are the      *)
(* operations no session calls (acknowledge, use_hint, override_step).     *)
(***************************************************************************)
EXTENDS Naturals

entry(step, e) == [state |-> "Active", step |-> step, entered |-> e]

(* A destination that does not exist fails the procedure.                  *)
transition(pack, p, to, e) ==
  IF to \in DOMAIN pack
  THEN [p EXCEPT !.step = to, !.entered = e]
  ELSE [p EXCEPT !.state = "Failed"]

(* The edge a step leaves by when its time is over.                        *)
TimeoutEdge(pack, p, e) ==
  IF pack[p.step].failure = 0
  THEN [p EXCEPT !.state = "Mistimed"]
  ELSE transition(pack, p, pack[p.step].failure, e)

expire_at(pack, p, e) == IF p.state = "Active" THEN TimeoutEdge(pack, p, e) ELSE p

(* satisfied: all predicates of the current step hold.                     *)
tick_step(pack, p, e, satisfied) ==
  LET s == pack[p.step]
  IN CASE s.kind \in {"Observe", "Verify", "Wait"} ->
            IF satisfied THEN transition(pack, p, s.complete, e) ELSE p
       [] s.kind = "Branch" ->
            transition(pack, p, IF satisfied THEN s.complete ELSE s.failure, e)
       [] s.kind = "Complete" -> [p EXCEPT !.state = "Completed"]
       [] s.kind = "Skip" -> [p EXCEPT !.state = "Skipped"]
       [] s.kind = "Fail" -> [p EXCEPT !.state = "Failed"]
       [] OTHER -> p

TimedOut(pack, p, e) ==
  pack[p.step].timeout # 0 /\ e > p.entered + pack[p.step].timeout

tick_procedure_engine(pack, p, e, satisfied) ==
  IF p.state # "Active" THEN p
  ELSE IF TimedOut(pack, p, e) THEN TimeoutEdge(pack, p, e)
  ELSE tick_step(pack, p, e, satisfied)

(* The current step asks for a command load of this type.                  *)
AsksFor(pack, p, type) == p.state = "Active" /\ pack[p.step].action = type

accept_action(pack, p, e, accepted) ==
  transition(pack, p, IF accepted THEN pack[p.step].complete ELSE pack[p.step].failure, e)
=============================================================================
