------------------------------ MODULE StateFile ------------------------------
(***************************************************************************)
(* The recoverable file replacement of session-broker/src/paired_state.rs  *)
(* (atomic_write and read_recoverable), one action per operation on the    *)
(* directory.  Every operation may fail as the code allows, and the        *)
(* process may stop between any two of them.                               *)
(*                                                                         *)
(* The three files hold whole contents; only the temporary file can be     *)
(* seen incomplete, because the others appear by renaming.                 *)
(***************************************************************************)
CONSTANTS
  Contents,  \* what may be saved
  Absent,    \* the file does not exist
  Partial    \* the file was created and not completely written

ASSUME FileAssumption == Absent \notin Contents /\ Partial \notin Contents /\ Absent # Partial

VARIABLES
  primary,     \* the target: paired-peers.ppr1 (paired-server.ksk1)
  backup,      \* the same name with the extension bak
  temporary,   \* the same name with the extension tmp
  step,        \* the next operation of atomic_write, "idle" outside
  bytes,       \* its argument
  hadPrimary,  \* had_primary
  result       \* what the last atomic_write returned

files == <<primary, backup, temporary>>
fvars == <<files, step, bytes, hadPrimary, result>>

Steps == {"idle", "create", "write", "look", "keep", "install", "undo", "discard", "clean"}

FInit ==
  /\ primary = Absent /\ backup = Absent /\ temporary = Absent
  /\ step = "idle" /\ bytes = Absent /\ hadPrimary = FALSE /\ result = "none"

(* read_recoverable: the backup counts only if there is no primary file.   *)
Recoverable == IF primary # Absent THEN primary ELSE backup

Return(r) ==
  /\ step' = "idle" /\ bytes' = Absent /\ hadPrimary' = FALSE
  /\ result' = r

GoTo(s) == step' = s /\ UNCHANGED <<bytes, result>>

(* remove_file with its outcome ignored.                                   *)
Removed(file) == {Absent, file}

Begin(v) ==
  /\ step = "idle"
  /\ temporary' \in Removed(temporary)
  /\ step' = "create" /\ bytes' = v /\ result' = "none"
  /\ UNCHANGED <<primary, backup, hadPrimary>>

(* create_new refuses a temporary file that is still there.                *)
CreateTemporary ==
  /\ step = "create"
  /\ \/ temporary = Absent /\ temporary' = Partial /\ GoTo("write") /\ UNCHANGED hadPrimary
     \/ Return("error") /\ UNCHANGED temporary
  /\ UNCHANGED <<primary, backup>>

(* write_all and sync_all.                                                 *)
WriteTemporary ==
  /\ step = "write"
  /\ \/ temporary' = bytes /\ GoTo("look") /\ UNCHANGED hadPrimary
     \/ Return("error") /\ UNCHANGED temporary
  /\ UNCHANGED <<primary, backup>>

(* exists() also answers false when it cannot tell.                        *)
LookForPrimary ==
  /\ step = "look"
  /\ hadPrimary' \in {primary # Absent, FALSE}
  /\ IF hadPrimary'
     THEN backup' \in Removed(backup) /\ GoTo("keep")
     ELSE GoTo("install") /\ UNCHANGED backup
  /\ UNCHANGED <<primary, temporary>>

KeepByRemoving ==
  /\ step = "keep"
  /\ primary' = Absent /\ GoTo("install")
  /\ UNCHANGED <<backup, temporary, hadPrimary>>

KeepPrimary ==
  /\ step = "keep"
  /\ \/ backup' = primary /\ primary' = Absent /\ GoTo("install") /\ UNCHANGED hadPrimary
     \/ Return("error") /\ UNCHANGED <<primary, backup>>
  /\ UNCHANGED temporary

InstallTemporary ==
  /\ step = "install"
  /\ \/ primary' = temporary /\ temporary' = Absent /\ GoTo("clean")
     \/ GoTo("undo") /\ UNCHANGED <<primary, temporary>>
  /\ UNCHANGED <<backup, hadPrimary>>

UndoKeep ==
  /\ step = "undo"
  /\ \/ hadPrimary /\ primary' = backup /\ backup' = Absent
     \/ UNCHANGED <<primary, backup>>
  /\ GoTo("discard")
  /\ UNCHANGED <<temporary, hadPrimary>>

DiscardTemporary ==
  /\ step = "discard"
  /\ temporary' \in Removed(temporary)
  /\ Return("error")
  /\ UNCHANGED <<primary, backup>>

RemoveBackup ==
  /\ step = "clean"
  /\ backup' \in IF hadPrimary THEN Removed(backup) ELSE {backup}
  /\ Return("ok")
  /\ UNCHANGED <<primary, temporary>>

atomic_write ==
  CreateTemporary \/ WriteTemporary \/ LookForPrimary \/ KeepPrimary
  \/ InstallTemporary \/ UndoKeep \/ DiscardTemporary \/ RemoveBackup

FCrash == Return("none") /\ UNCHANGED files

FNext == (\E v \in Contents : Begin(v)) \/ atomic_write \/ FCrash

FSpec == FInit /\ [][FNext]_fvars

-----------------------------------------------------------------------------

Promise == INSTANCE AtomicFile WITH
  stored <- Recoverable,
  writing <- IF step = "idle" THEN Absent ELSE bytes,
  installed <- step = "clean"

(* session-broker/README.md, "Writes use a synced temporary file and a     *)
(* recoverable backup": whatever operation fails and wherever the process  *)
(* stops, the next start reads the previous contents or the new ones, and  *)
(* the save reports success exactly when it reads the new ones.            *)
SaveIsAtomic == Promise!Spec
=============================================================================
