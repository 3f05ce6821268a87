----------------------------- MODULE AtomicFile ------------------------------
(***************************************************************************)
(* What a caller of save_server_identity and save_peer_registry may rely   *)
(* on: the file that a later start reads changes in one step, from the     *)
(* previous contents to the new ones; the save reports success exactly     *)
(* when it did, and a crash loses neither.                                 *)
(***************************************************************************)
CONSTANTS
  Contents,   \* what may be saved
  Absent      \* no file

VARIABLES
  stored,     \* what the next start reads
  writing,    \* the contents being saved, or Absent
  installed,  \* whether they are what the next start reads
  result      \* how the last save ended

Init ==
  /\ stored = Absent
  /\ writing = Absent
  /\ installed = FALSE
  /\ result = "none"

Begin(v) ==
  /\ writing = Absent
  /\ writing' = v
  /\ installed' = FALSE
  /\ result' = "none"
  /\ UNCHANGED stored

Install ==
  /\ writing # Absent /\ ~installed
  /\ stored' = writing
  /\ installed' = TRUE
  /\ UNCHANGED <<writing, result>>

Return ==
  /\ writing # Absent
  /\ result' = IF installed THEN "ok" ELSE "error"
  /\ writing' = Absent
  /\ installed' = FALSE
  /\ UNCHANGED stored

Crash ==
  /\ writing' = Absent
  /\ installed' = FALSE
  /\ result' = "none"
  /\ UNCHANGED stored

Next == (\E v \in Contents : Begin(v)) \/ Install \/ Return \/ Crash

Spec == Init /\ [][Next]_<<stored, writing, installed, result>>
=============================================================================
