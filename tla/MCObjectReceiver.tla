-------------------------- MODULE MCObjectReceiver --------------------------
(* A plan of three segments, a procedure pack of two, a plan of one, and   *)
(* an object too large for the buffer; corrupt payloads for any of them.   *)
EXTENDS ObjectReceiver

CONSTANTS plan, procedure, small, huge

MCObjects == {plan, procedure, small, huge}
MCCount == [o \in MCObjects |-> CASE o = plan -> 3 [] o = procedure -> 2 [] OTHER -> 1]
MCFits == {plan, procedure, small}
MCPlanFor == {plan, small, huge}
=============================================================================
