--------------------------- MODULE PairedLanProofs ---------------------------
(***************************************************************************)
(* Guarantees of the paired-LAN launcher and its state files.  The         *)
(* recoverable replacement of a file implements AtomicFile for every set   *)
(* of contents and any number of saves, failures and crashes (FileInv);    *)
(* for every set of peers and codes and every limit, only peers whose own  *)
(* pairing was confirmed are trusted and a reported revocation is final    *)
(* (LanInv).                                                               *)
(***************************************************************************)
EXTENDS PairedLan, TLAPS

(* Why the mapping works: a renaming only moves contents that are complete *)
(* (the temporary file holds the argument from "look" on), and at every    *)
(* step at which the primary file is missing the backup is what a start    *)
(* reads and no operation touches it.                                      *)
FileInv ==
  /\ step \in Steps
  /\ step # "idle" => bytes \in Contents
  /\ step \in {"look", "keep", "install"} => temporary = bytes
  /\ step \in {"keep", "clean"} => primary # Absent
  /\ step \in {"install", "undo"} /\ hadPrimary => primary = Absent

USE DEF Return, GoTo, Removed, Steps

(* FileInv holds at first and every step keeps it.                         *)
LEMMA FileInvInductive ==
  /\ FInit => FileInv
  /\ FileInv /\ [FNext]_fvars => FileInv'
<1>1. FInit => FileInv
  BY DEF FInit, FileInv
<1>2. FileInv /\ [FNext]_fvars => FileInv'
  <2> SUFFICES ASSUME FileInv, [FNext]_fvars PROVE FileInv'
    OBVIOUS
  <2> USE FileAssumption DEF FileInv
  <2>1. CASE \E v \in Contents : Begin(v)
    BY <2>1 DEF Begin
  <2>2. CASE CreateTemporary
    BY <2>2 DEF CreateTemporary
  <2>3. CASE WriteTemporary
    BY <2>3 DEF WriteTemporary
  <2>4. CASE LookForPrimary
    BY <2>4 DEF LookForPrimary
  <2>5. CASE KeepPrimary
    BY <2>5 DEF KeepPrimary
  <2>6. CASE InstallTemporary
    BY <2>6 DEF InstallTemporary
  <2>7. CASE UndoKeep
    BY <2>7 DEF UndoKeep
  <2>8. CASE DiscardTemporary
    BY <2>8 DEF DiscardTemporary
  <2>9. CASE RemoveBackup
    BY <2>9 DEF RemoveBackup
  <2>10. CASE FCrash
    BY <2>10 DEF FCrash
  <2>11. CASE UNCHANGED fvars
    BY <2>11 DEF fvars, files
  <2> QED
    BY <2>1, <2>2, <2>3, <2>4, <2>5, <2>6, <2>7, <2>8, <2>9, <2>10, <2>11
    DEF FNext, atomic_write
<1> QED
  BY <1>1, <1>2

(* Every step of the detailed specification is a step of AtomicFile or     *)
(* changes nothing there: only the renaming onto the target installs.      *)
LEMMA FileStepSimulates ==
  ASSUME FileInv, [FNext]_fvars
  PROVE  [Promise!Next]_(<<Recoverable, IF step = "idle" THEN Absent ELSE bytes,
                           step = "clean", result>>)
<1> USE FileAssumption DEF FileInv, Recoverable
<1>1. CASE \E v \in Contents : Begin(v)
  <2>1. PICK v \in Contents : Begin(v)
    BY <1>1
  <2>2. Promise!Begin(v)
    BY <2>1 DEF Begin, Promise!Begin
  <2> QED
    BY <2>2 DEF Promise!Next
<1>2. CASE CreateTemporary
  BY <1>2 DEF CreateTemporary, Promise!Next, Promise!Return
<1>3. CASE WriteTemporary
  BY <1>3 DEF WriteTemporary, Promise!Next, Promise!Return
<1>4. CASE LookForPrimary
  BY <1>4 DEF LookForPrimary
<1>5. CASE KeepPrimary
  BY <1>5 DEF KeepPrimary, Promise!Next, Promise!Return
<1>6. CASE InstallTemporary
  BY <1>6 DEF InstallTemporary, Promise!Next, Promise!Install
<1>7. CASE UndoKeep
  BY <1>7 DEF UndoKeep
<1>8. CASE DiscardTemporary
  BY <1>8 DEF DiscardTemporary, Promise!Next, Promise!Return
<1>9. CASE RemoveBackup
  BY <1>9 DEF RemoveBackup, Promise!Next, Promise!Return
<1>10. CASE FCrash
  BY <1>10 DEF FCrash, files, Promise!Next, Promise!Crash
<1>11. CASE UNCHANGED fvars
  BY <1>11 DEF fvars, files
<1> QED
  BY <1>1, <1>2, <1>3, <1>4, <1>5, <1>6, <1>7, <1>8, <1>9, <1>10, <1>11
  DEF FNext, atomic_write

(* paired_state.rs implements an atomic file: whatever operation fails and *)
(* wherever the process stops, the next start reads the previous contents  *)
(* or the new ones, and success is reported exactly for the new ones.      *)
THEOREM StateFileIsAtomic == FSpec => SaveIsAtomic
<1>1. FInit => Promise!Init
  BY DEF FInit, Promise!Init, Recoverable
<1>2. FileInv /\ [FNext]_fvars =>
        [Promise!Next]_(<<Recoverable, IF step = "idle" THEN Absent ELSE bytes,
                          step = "clean", result>>)
  BY FileStepSimulates
<1> QED
  BY <1>1, <1>2, FileInvInductive, PTL DEF FSpec, SaveIsAtomic, Promise!Spec

-----------------------------------------------------------------------------
(* The launcher *)

Waiting == {"woken", "checked", "asleep", "expired"}
Phases == Waiting \cup {"xx", "ik", "handshake", "confirmed", "authenticated", "attached", "reading"}

(* Shape of the state the arguments below need.                            *)
ShapeInv ==
  /\ registry \in Registries
  /\ published \in Seq(Peers)
  /\ server \in {"up", "stopping", "down"}
  /\ {primary, backup} \subseteq Registries \cup {Absent}
  /\ \/ conn = NoConn
     \/ conn \in [phase : Phases, peer : Peers, id : Nat]
  /\ \/ console = NoCommand
     \/ console \in [name : {"confirm", "revoke"}, peer : Peers, saving : BOOLEAN]

(* The pairing being decided is the one the waiting connection published,  *)
(* and a positive decision was made for the peer shown under its id.       *)
PairingInv ==
  /\ pending # NoPending =>
       pending.id \in DOMAIN published /\ published[pending.id] = pending.peer
  /\ decision = "Confirmed" => pending # NoPending /\ pending.peer \in approved
  /\ conn.phase \in Waiting => conn.id \in DOMAIN published /\ published[conn.id] = conn.peer
  /\ conn.phase = "confirmed" => conn.peer \in approved

(* Whatever is or may become the registry holds confirmed peers only.      *)
ApprovedInv ==
  /\ Known(registry) \subseteq approved
  /\ primary # Absent => Known(primary) \subseteq approved
  /\ backup # Absent => Known(backup) \subseteq approved
  /\ step # "idle" => Known(bytes) \subseteq approved

(* A command that is being saved: the service is up until it is done, and  *)
(* what a revocation saves has the peer revoked.                           *)
CommandInv ==
  /\ step # "idle" => console # NoCommand /\ console.saving
  /\ step = "clean" => primary = bytes
  /\ console # NoCommand =>
       /\ server = "up"
       /\ console.saving => step # "idle"
       /\ console.name = "revoke" =>
            /\ registry[console.peer] = "revoked"
            /\ console.saving => bytes[console.peer] = "revoked"

(* A revocation that was reported is in whatever is or may become the      *)
(* registry.                                                               *)
BarredInv ==
  \A p \in barred :
    /\ p \in Peers
    /\ load_peer_registry[p] = "revoked"
    /\ server # "down" => registry[p] = "revoked"
    /\ step # "idle" => bytes[p] = "revoked"

LanInv == FileInv /\ ShapeInv /\ PairingInv /\ ApprovedInv /\ CommandInv /\ BarredInv

USE DEF Waiting, Phases, Statuses, Registries, NoConn, NoCommand, NoPending, Known, ghosts

(* The files change only as atomic_write, its start or a crash changes     *)
(* them, so that FileInv carries over.                                     *)
LEMMA LanStepIsFileStep ==
  ASSUME ShapeInv, [LNext]_lvars
  PROVE  [FNext]_fvars
<1> USE ContentsAssumption DEF ShapeInv
<1>1. CASE serve
  BY <1>1 DEF serve, load_peer_registry
<1>2. CASE crash
  BY <1>2 DEF crash, FCrash, FNext
<1>3. CASE \E p \in Peers, mode \in {"xx", "ik"} : accept(p, mode)
  BY <1>3 DEF accept, Serving
<1>4. CASE fail_connection
  BY <1>4 DEF fail_connection, Serving
<1>5. CASE register_attempt
  BY <1>5 DEF register_attempt, Serving
<1>6. CASE \E c \in Codes : publish(c)
  BY <1>6 DEF publish, Serving
<1>7. CASE wait_checks_shutdown
  BY <1>7 DEF wait_checks_shutdown, Serving
<1>8. CASE wait_takes_decision
  BY <1>8 DEF wait_takes_decision, Serving
<1>9. CASE wait_times_out
  BY <1>9 DEF wait_times_out, Serving
<1>10. CASE wait_expires
  BY <1>10 DEF wait_expires, Serving
<1>11. CASE confirm_registry
  BY <1>11 DEF confirm_registry, Serving
<1>12. CASE authenticate_ik
  BY <1>12 DEF authenticate_ik, Serving
<1>13. CASE attach
  BY <1>13 DEF attach, Serving
<1>14. CASE look_up
  BY <1>14 DEF look_up, Serving
<1>15. CASE read_frame
  BY <1>15 DEF read_frame, Serving
<1>16. CASE stop
  BY <1>16 DEF stop
<1>17. CASE \E id \in 1 .. MaxAttempts, code \in Codes : confirm(id, code)
  BY <1>17 DEF confirm
<1>18. CASE \E id \in 1 .. MaxAttempts : reject(id)
  BY <1>18 DEF reject
<1>19. CASE \E p \in Peers : revoke(p)
  BY <1>19 DEF revoke
<1>20. CASE persist_live_registry
  BY <1>20 DEF persist_live_registry, FNext
<1>21. CASE save_peer_registry
  BY <1>21 DEF save_peer_registry, FNext
<1>22. CASE quit
  BY <1>22 DEF quit
<1>23. CASE UNCHANGED lvars
  BY <1>23 DEF lvars
<1> QED
  BY <1>1, <1>2, <1>3, <1>4, <1>5, <1>6, <1>7, <1>8, <1>9, <1>10, <1>11, <1>12, <1>13, <1>14, <1>15, <1>16, <1>17, <1>18, <1>19, <1>20, <1>21, <1>22, <1>23 DEF LNext, Listener, Console

(* A change of phase keeps the shape of the connection.                    *)
LEMMA PhaseKeepsShape ==
  ASSUME ShapeInv, conn.phase # "none", NEW ph \in Phases, NEW n \in Nat,
         \/ conn' = [conn EXCEPT !.phase = ph]
         \/ conn' = [conn EXCEPT !.phase = ph, !.id = n]
  PROVE  conn' \in [phase : Phases, peer : Peers, id : Nat]
<1>1. conn \in [phase : Phases, peer : Peers, id : Nat]
  BY DEF ShapeInv
<1> QED
  BY <1>1

(* What an operation of atomic_write may do to the files: the target and   *)
(* its backup only take over contents, what a start reads stays or becomes *)
(* the argument, and success is returned only where it is the argument.    *)
LEMMA FilesMove ==
  ASSUME FileInv, atomic_write
  PROVE  /\ {primary', backup'} \subseteq {primary, backup, bytes, Absent}
         /\ step' # "idle" => bytes' = bytes
         /\ Recoverable' = Recoverable \/ Recoverable' = bytes
         /\ step' = "clean" => primary' = bytes
         /\ step' = "idle" /\ result' = "ok" => step = "clean" /\ Recoverable' = primary
<1> USE FileAssumption DEF FileInv, Recoverable, Return, GoTo, Removed, Steps
<1>1. CASE CreateTemporary
  BY <1>1 DEF CreateTemporary
<1>2. CASE WriteTemporary
  BY <1>2 DEF WriteTemporary
<1>3. CASE LookForPrimary
  BY <1>3 DEF LookForPrimary
<1>4. CASE KeepPrimary
  BY <1>4 DEF KeepPrimary
<1>5. CASE InstallTemporary
  BY <1>5 DEF InstallTemporary
<1>6. CASE UndoKeep
  BY <1>6 DEF UndoKeep
<1>7. CASE DiscardTemporary
  BY <1>7 DEF DiscardTemporary
<1>8. CASE RemoveBackup
  BY <1>8 DEF RemoveBackup
<1> QED
  BY <1>1, <1>2, <1>3, <1>4, <1>5, <1>6, <1>7, <1>8 DEF atomic_write

(* The shape of the state is kept by every step.                           *)
LEMMA ShapeKept ==
  ASSUME LanInv, [LNext]_lvars
  PROVE  ShapeInv'
<1> USE ContentsAssumption, FileAssumption DEF LanInv, ShapeInv
<1>1. CASE serve
  BY <1>1 DEF serve, load_peer_registry, Recoverable, NoPeers, fvars, files
<1>2. CASE crash
  BY <1>2 DEF crash, Ends, FCrash, files, Return, load_peer_registry, Recoverable,
    NoPeers, Removed, fvars
<1>3. CASE \E p \in Peers, mode \in {"xx", "ik"} : accept(p, mode)
  BY <1>3 DEF accept, Serving, fvars, files
<1>4. CASE fail_connection
  BY <1>4 DEF fail_connection, Serving, Close, fvars, files
<1>5. CASE register_attempt
  BY <1>5 DEF register_attempt, Serving, Close, Enters, fvars, files
<1>6. CASE \E c \in Codes : publish(c)
  <2>1. PICK c \in Codes : publish(c)
    BY <1>6
  <2>2. CASE pending # NoPending
    BY <2>1, <2>2 DEF publish, Serving, Close, fvars, files
  <2>3. CASE pending = NoPending
    <3>1. conn \in [phase : Phases, peer : Peers, id : Nat]
      BY <2>1 DEF publish
    <3>2. published \in Seq(Peers) /\ conn.peer \in Peers
      BY <3>1
    <3>3. published' = Append(published, conn.peer)
      BY <2>1, <2>3 DEF publish
    <3>4. Len(published) + 1 \in Nat /\ published' \in Seq(Peers)
      <4> HIDE DEF LanInv, ShapeInv
      <4> QED
        BY <3>2, <3>3
    <3>5. conn' = [conn EXCEPT !.phase = "woken", !.id = Len(published) + 1]
      BY <2>1, <2>3 DEF publish
    <3>6. conn' \in [phase : Phases, peer : Peers, id : Nat]
      BY <3>1, <3>4, <3>5
    <3> QED
      BY <2>1, <3>4, <3>6 DEF publish, Serving, fvars, files
  <2> QED
    BY <2>2, <2>3
<1>7. CASE wait_checks_shutdown
  BY <1>7 DEF wait_checks_shutdown, Serving, Close, Enters, fvars, files
<1>8. CASE wait_takes_decision
  BY <1>8 DEF wait_takes_decision, Serving, Close, Enters, fvars, files
<1>9. CASE wait_times_out
  BY <1>9 DEF wait_times_out, Serving, Enters, fvars, files
<1>10. CASE wait_expires
  BY <1>10 DEF wait_expires, Serving, Close, fvars, files
<1>11. CASE confirm_registry
  BY <1>11 DEF confirm_registry, Serving, Close, Enters, fvars, files
<1>12. CASE authenticate_ik
  BY <1>12 DEF authenticate_ik, Serving, Close, Enters, fvars, files
<1>13. CASE attach
  BY <1>13 DEF attach, Serving, Enters, Answer, fvars, files
<1>14. CASE look_up
  <2>1. conn' = NoConn \/ conn' \in [phase : Phases, peer : Peers, id : Nat]
    <3>1. CASE conn' = NoConn
      BY <3>1
    <3>2. CASE conn' # NoConn
      BY <1>14, <3>2, PhaseKeepsShape DEF look_up, Close, Enters
    <3> QED
      BY <3>1, <3>2
  <2> QED
    BY <1>14, <2>1 DEF look_up, Serving, fvars, files
<1>15. CASE read_frame
  BY <1>15 DEF read_frame, Serving, Enters, Answer, fvars, files
<1>16. CASE stop
  BY <1>16 DEF stop, Ends, NoPeers, fvars, files
<1>17. CASE \E id \in 1 .. MaxAttempts, code \in Codes : confirm(id, code)
  <2>1. PICK id \in 1 .. MaxAttempts, code \in Codes : confirm(id, code)
    BY <1>17
  <2>2. conn' = NoConn \/ conn' \in [phase : Phases, peer : Peers, id : Nat]
    BY <2>1, PhaseKeepsShape DEF confirm, Wakes
  <2>3. pending.peer \in Peers
    BY <2>1 DEF confirm, Decidable, PairingInv
  <2>4. console' \in [name : {"confirm", "revoke"}, peer : Peers, saving : BOOLEAN]
    BY <2>1, <2>3 DEF confirm
  <2> QED
    BY <2>1, <2>2, <2>4 DEF confirm, fvars, files
<1>18. CASE \E id \in 1 .. MaxAttempts : reject(id)
  <2>1. conn' = NoConn \/ conn' \in [phase : Phases, peer : Peers, id : Nat]
    BY <1>18, PhaseKeepsShape DEF reject, Wakes
  <2> QED
    BY <1>18, <2>1 DEF reject, fvars, files
<1>19. CASE \E p \in Peers : revoke(p)
  BY <1>19 DEF revoke, ConsoleReady, fvars, files
<1>20. CASE persist_live_registry
  BY <1>20 DEF persist_live_registry, Begin, Removed, fvars, files
<1>21. CASE save_peer_registry
  <2>1. {primary', backup'} \subseteq {primary, backup, bytes, Absent} /\ step # "idle"
    BY <1>21, FilesMove DEF save_peer_registry, atomic_write, CreateTemporary, WriteTemporary,
      LookForPrimary, KeepPrimary, InstallTemporary, UndoKeep, DiscardTemporary, RemoveBackup
  <2>2. {primary', backup'} \subseteq Registries \cup {Absent}
    BY <2>1 DEF FileInv
  <2>3. console' = NoCommand \/ console' = console
    BY <1>21 DEF save_peer_registry
  <2> QED
    BY <1>21, <2>2, <2>3 DEF save_peer_registry
<1>22. CASE quit
  BY <1>22 DEF quit, fvars, files
<1>23. CASE UNCHANGED lvars
  BY <1>23 DEF lvars, lanVars, fvars, files
<1> QED
  BY <1>1, <1>2, <1>3, <1>4, <1>5, <1>6, <1>7, <1>8, <1>9, <1>10, <1>11, <1>12, <1>13,
    <1>14, <1>15, <1>16, <1>17, <1>18, <1>19, <1>20, <1>21, <1>22, <1>23 DEF LNext, Listener, Console

(* Every step keeps decision, pairing and connection together.             *)
LEMMA PairingKept ==
  ASSUME LanInv, [LNext]_lvars
  PROVE  PairingInv'
<1> USE ContentsAssumption, FileAssumption DEF LanInv, ShapeInv, PairingInv
<1>1. CASE serve
  BY <1>1 DEF serve, load_peer_registry, Recoverable, NoPeers, fvars, files
<1>2. CASE crash
  BY <1>2 DEF crash, Ends, FCrash, files, Return, load_peer_registry, Recoverable,
    NoPeers, Removed, fvars
<1>3. CASE \E p \in Peers, mode \in {"xx", "ik"} : accept(p, mode)
  BY <1>3 DEF accept, Serving, fvars, files
<1>4. CASE fail_connection
  BY <1>4 DEF fail_connection, Serving, Close, fvars, files
<1>5. CASE register_attempt
  BY <1>5 DEF register_attempt, Serving, Close, Enters, fvars, files
<1>6. CASE \E c \in Codes : publish(c)
  <2>1. PICK c \in Codes : publish(c)
    BY <1>6
  <2>2. CASE pending # NoPending
    BY <2>1, <2>2 DEF publish, Serving, Close
  <2>3. CASE pending = NoPending
    <3> DEFINE n == Len(published) + 1
    <3>1. conn \in [phase : Phases, peer : Peers, id : Nat]
      BY <2>1 DEF publish
    <3>2. n \in DOMAIN published' /\ published'[n] = conn.peer
      BY <2>1, <2>3, <3>1 DEF publish
    <3>3. conn' = [conn EXCEPT !.phase = "woken", !.id = n]
      BY <2>1, <2>3 DEF publish
    <3>4. conn'.phase = "woken" /\ conn'.id = n /\ conn'.peer = conn.peer
      BY <3>1, <3>3
    <3>5. pending' = [id |-> n, peer |-> conn.peer, code |-> c] /\ decision' = "none"
      BY <2>1, <2>3 DEF publish
    <3> HIDE DEF n
    <3> QED
      BY <3>2, <3>4, <3>5
  <2> QED
    BY <2>2, <2>3
<1>7. CASE wait_checks_shutdown
  BY <1>7 DEF wait_checks_shutdown, Serving, Close, Enters, fvars, files
<1>8. CASE wait_takes_decision
  BY <1>8 DEF wait_takes_decision, Serving, Close, Enters, fvars, files
<1>9. CASE wait_times_out
  BY <1>9 DEF wait_times_out, Serving, Enters, fvars, files
<1>10. CASE wait_expires
  BY <1>10 DEF wait_expires, Serving, Close, fvars, files
<1>11. CASE confirm_registry
  BY <1>11 DEF confirm_registry, Serving, Close, Enters, fvars, files
<1>12. CASE authenticate_ik
  BY <1>12 DEF authenticate_ik, Serving, Close, Enters, fvars, files
<1>13. CASE attach
  BY <1>13 DEF attach, Serving, Enters, Answer, fvars, files
<1>14. CASE look_up
  BY <1>14 DEF look_up, Serving, Close, Enters, fvars, files
<1>15. CASE read_frame
  BY <1>15 DEF read_frame, Serving, Enters, Answer, fvars, files
<1>16. CASE stop
  BY <1>16 DEF stop, Ends, NoPeers, fvars, files
<1>17. CASE \E id \in 1 .. MaxAttempts, code \in Codes : confirm(id, code)
  BY <1>17 DEF confirm, ConsoleReady, Decidable, Wakes, fvars, files
<1>18. CASE \E id \in 1 .. MaxAttempts : reject(id)
  BY <1>18 DEF reject, ConsoleReady, Decidable, Wakes, fvars, files
<1>19. CASE \E p \in Peers : revoke(p)
  BY <1>19 DEF revoke, ConsoleReady, fvars, files
<1>20. CASE persist_live_registry
  BY <1>20 DEF persist_live_registry, Begin, Removed, fvars, files
<1>21. CASE save_peer_registry
  BY <1>21 DEF save_peer_registry, atomic_write, CreateTemporary, WriteTemporary,
    LookForPrimary, KeepPrimary, InstallTemporary, UndoKeep, DiscardTemporary,
    RemoveBackup, Return, GoTo, Removed, fvars, files
<1>22. CASE quit
  BY <1>22 DEF quit, fvars, files
<1>23. CASE UNCHANGED lvars
  BY <1>23 DEF lvars, lanVars, fvars, files
<1> QED
  BY <1>1, <1>2, <1>3, <1>4, <1>5, <1>6, <1>7, <1>8, <1>9, <1>10, <1>11, <1>12, <1>13,
    <1>14, <1>15, <1>16, <1>17, <1>18, <1>19, <1>20, <1>21, <1>22, <1>23 DEF LNext, Listener, Console

(* Every step keeps unconfirmed peers out of the registry and its files.   *)
LEMMA ApprovedKept ==
  ASSUME LanInv, [LNext]_lvars
  PROVE  ApprovedInv'
<1> USE ContentsAssumption, FileAssumption DEF LanInv, ShapeInv, PairingInv, FileInv, ApprovedInv
<1>1. CASE serve
  BY <1>1 DEF serve, load_peer_registry, Recoverable, NoPeers, fvars, files
<1>2. CASE crash
  BY <1>2 DEF crash, Ends, FCrash, files, Return, load_peer_registry, Recoverable,
    NoPeers, Removed, fvars
<1>3. CASE \E p \in Peers, mode \in {"xx", "ik"} : accept(p, mode)
  BY <1>3 DEF accept, Serving, fvars, files
<1>4. CASE fail_connection
  BY <1>4 DEF fail_connection, Serving, Close, fvars, files
<1>5. CASE register_attempt
  BY <1>5 DEF register_attempt, Serving, Close, Enters, fvars, files
<1>6. CASE \E c \in Codes : publish(c)
  BY <1>6 DEF publish, Serving, Close, fvars, files
<1>7. CASE wait_checks_shutdown
  BY <1>7 DEF wait_checks_shutdown, Serving, Close, Enters, fvars, files
<1>8. CASE wait_takes_decision
  BY <1>8 DEF wait_takes_decision, Serving, Close, Enters, fvars, files
<1>9. CASE wait_times_out
  BY <1>9 DEF wait_times_out, Serving, Enters, fvars, files
<1>10. CASE wait_expires
  BY <1>10 DEF wait_expires, Serving, Close, fvars, files
<1>11. CASE confirm_registry
  BY <1>11 DEF confirm_registry, Serving, Close, Enters, fvars, files
<1>12. CASE authenticate_ik
  BY <1>12 DEF authenticate_ik, Serving, Close, Enters, fvars, files
<1>13. CASE attach
  BY <1>13 DEF attach, Serving, Enters, Answer, fvars, files
<1>14. CASE look_up
  BY <1>14 DEF look_up, Serving, Close, Enters, fvars, files
<1>15. CASE read_frame
  BY <1>15 DEF read_frame, Serving, Enters, Answer, fvars, files
<1>16. CASE stop
  BY <1>16 DEF stop, Ends, NoPeers, fvars, files
<1>17. CASE \E id \in 1 .. MaxAttempts, code \in Codes : confirm(id, code)
  BY <1>17 DEF confirm, ConsoleReady, Decidable, Wakes, fvars, files
<1>18. CASE \E id \in 1 .. MaxAttempts : reject(id)
  BY <1>18 DEF reject, ConsoleReady, Decidable, Wakes, fvars, files
<1>19. CASE \E p \in Peers : revoke(p)
  BY <1>19 DEF revoke, ConsoleReady, fvars, files
<1>20. CASE persist_live_registry
  BY <1>20 DEF persist_live_registry, Begin, Removed, fvars, files
<1>21. CASE save_peer_registry
  BY <1>21 DEF save_peer_registry, atomic_write, CreateTemporary, WriteTemporary,
    LookForPrimary, KeepPrimary, InstallTemporary, UndoKeep, DiscardTemporary,
    RemoveBackup, Return, GoTo, Removed, fvars, files
<1>22. CASE quit
  BY <1>22 DEF quit, fvars, files
<1>23. CASE UNCHANGED lvars
  BY <1>23 DEF lvars, lanVars, fvars, files
<1> QED
  BY <1>1, <1>2, <1>3, <1>4, <1>5, <1>6, <1>7, <1>8, <1>9, <1>10, <1>11, <1>12, <1>13,
    <1>14, <1>15, <1>16, <1>17, <1>18, <1>19, <1>20, <1>21, <1>22, <1>23 DEF LNext, Listener, Console

(* Every step keeps the command under way in step with its save.           *)
LEMMA CommandKept ==
  ASSUME LanInv, [LNext]_lvars
  PROVE  CommandInv'
<1> USE ContentsAssumption, FileAssumption DEF LanInv, ShapeInv, FileInv, CommandInv
<1>1. CASE serve
  BY <1>1 DEF serve, load_peer_registry, Recoverable, NoPeers, fvars, files
<1>2. CASE crash
  BY <1>2 DEF crash, Ends, FCrash, files, Return, load_peer_registry, Recoverable,
    NoPeers, Removed, fvars
<1>3. CASE \E p \in Peers, mode \in {"xx", "ik"} : accept(p, mode)
  BY <1>3 DEF accept, Serving, fvars, files
<1>4. CASE fail_connection
  BY <1>4 DEF fail_connection, Serving, Close, fvars, files
<1>5. CASE register_attempt
  BY <1>5 DEF register_attempt, Serving, Close, Enters, fvars, files
<1>6. CASE \E c \in Codes : publish(c)
  BY <1>6 DEF publish, Serving, Close, fvars, files
<1>7. CASE wait_checks_shutdown
  BY <1>7 DEF wait_checks_shutdown, Serving, Close, Enters, fvars, files
<1>8. CASE wait_takes_decision
  BY <1>8 DEF wait_takes_decision, Serving, Close, Enters, fvars, files
<1>9. CASE wait_times_out
  BY <1>9 DEF wait_times_out, Serving, Enters, fvars, files
<1>10. CASE wait_expires
  BY <1>10 DEF wait_expires, Serving, Close, fvars, files
<1>11. CASE confirm_registry
  BY <1>11 DEF confirm_registry, Serving, Close, Enters, fvars, files
<1>12. CASE authenticate_ik
  BY <1>12 DEF authenticate_ik, Serving, Close, Enters, fvars, files
<1>13. CASE attach
  BY <1>13 DEF attach, Serving, Enters, Answer, fvars, files
<1>14. CASE look_up
  BY <1>14 DEF look_up, Serving, Close, Enters, fvars, files
<1>15. CASE read_frame
  BY <1>15 DEF read_frame, Serving, Enters, Answer, fvars, files
<1>16. CASE stop
  BY <1>16 DEF stop, Ends, NoPeers, fvars, files
<1>17. CASE \E id \in 1 .. MaxAttempts, code \in Codes : confirm(id, code)
  BY <1>17 DEF confirm, ConsoleReady, Decidable, Wakes, fvars, files
<1>18. CASE \E id \in 1 .. MaxAttempts : reject(id)
  BY <1>18 DEF reject, ConsoleReady, Decidable, Wakes, fvars, files
<1>19. CASE \E p \in Peers : revoke(p)
  BY <1>19 DEF revoke, ConsoleReady, fvars, files
<1>20. CASE persist_live_registry
  BY <1>20 DEF persist_live_registry, Begin, Removed, fvars, files
<1>21. CASE save_peer_registry
  BY <1>21 DEF save_peer_registry, atomic_write, CreateTemporary, WriteTemporary,
    LookForPrimary, KeepPrimary, InstallTemporary, UndoKeep, DiscardTemporary,
    RemoveBackup, Return, GoTo, Removed, fvars, files
<1>22. CASE quit
  BY <1>22 DEF quit, fvars, files
<1>23. CASE UNCHANGED lvars
  BY <1>23 DEF lvars, lanVars, fvars, files
<1> QED
  BY <1>1, <1>2, <1>3, <1>4, <1>5, <1>6, <1>7, <1>8, <1>9, <1>10, <1>11, <1>12, <1>13,
    <1>14, <1>15, <1>16, <1>17, <1>18, <1>19, <1>20, <1>21, <1>22, <1>23 DEF LNext, Listener, Console

(* Every step keeps a reported revocation in force.                        *)
LEMMA BarredKept ==
  ASSUME LanInv, [LNext]_lvars
  PROVE  BarredInv'
<1> USE ContentsAssumption, FileAssumption DEF LanInv, ShapeInv, FileInv, CommandInv, BarredInv, load_peer_registry, Recoverable
<1>1. CASE serve
  BY <1>1 DEF serve, NoPeers, fvars, files
<1>2. CASE crash
  BY <1>2 DEF crash, Ends, FCrash, files, Return, NoPeers, Removed, fvars
<1>3. CASE \E p \in Peers, mode \in {"xx", "ik"} : accept(p, mode)
  BY <1>3 DEF accept, Serving, fvars, files
<1>4. CASE fail_connection
  BY <1>4 DEF fail_connection, Serving, Close, fvars, files
<1>5. CASE register_attempt
  BY <1>5 DEF register_attempt, Serving, Close, Enters, fvars, files
<1>6. CASE \E c \in Codes : publish(c)
  BY <1>6 DEF publish, Serving, Close, fvars, files
<1>7. CASE wait_checks_shutdown
  BY <1>7 DEF wait_checks_shutdown, Serving, Close, Enters, fvars, files
<1>8. CASE wait_takes_decision
  BY <1>8 DEF wait_takes_decision, Serving, Close, Enters, fvars, files
<1>9. CASE wait_times_out
  BY <1>9 DEF wait_times_out, Serving, Enters, fvars, files
<1>10. CASE wait_expires
  BY <1>10 DEF wait_expires, Serving, Close, fvars, files
<1>11. CASE confirm_registry
  BY <1>11 DEF confirm_registry, Serving, Close, Enters, fvars, files
<1>12. CASE authenticate_ik
  BY <1>12 DEF authenticate_ik, Serving, Close, Enters, fvars, files
<1>13. CASE attach
  BY <1>13 DEF attach, Serving, Enters, Answer, fvars, files
<1>14. CASE look_up
  BY <1>14 DEF look_up, Serving, Close, Enters, fvars, files
<1>15. CASE read_frame
  BY <1>15 DEF read_frame, Serving, Enters, Answer, fvars, files
<1>16. CASE stop
  BY <1>16 DEF stop, Ends, NoPeers, fvars, files
<1>17. CASE \E id \in 1 .. MaxAttempts, code \in Codes : confirm(id, code)
  BY <1>17 DEF confirm, ConsoleReady, Decidable, Wakes, fvars, files
<1>18. CASE \E id \in 1 .. MaxAttempts : reject(id)
  BY <1>18 DEF reject, ConsoleReady, Decidable, Wakes, fvars, files
<1>19. CASE \E p \in Peers : revoke(p)
  BY <1>19 DEF revoke, ConsoleReady, fvars, files
<1>20. CASE persist_live_registry
  BY <1>20 DEF persist_live_registry, Begin, Removed, fvars, files
<1>21. CASE save_peer_registry
  <2> HIDE DEF load_peer_registry, Recoverable
  <2>1. /\ step' # "idle" => bytes' = bytes
        /\ Recoverable' = Recoverable \/ Recoverable' = bytes
        /\ step' = "idle" /\ result' = "ok" => step = "clean" /\ Recoverable' = primary
    BY <1>21, FilesMove DEF save_peer_registry
  <2>2. step # "idle" /\ bytes \in Registries /\ bytes # Absent
    BY <1>21 DEF save_peer_registry, atomic_write, CreateTemporary, WriteTemporary,
      LookForPrimary, KeepPrimary, InstallTemporary, UndoKeep, DiscardTemporary, RemoveBackup
  <2>3. ASSUME NEW p \in barred'
        PROVE  /\ p \in Peers
               /\ load_peer_registry'[p] = "revoked"
               /\ server' # "down" => registry'[p] = "revoked"
               /\ step' # "idle" => bytes'[p] = "revoked"
    <3>1. CASE p \in barred
      BY <1>21, <2>1, <2>2, <3>1 DEF save_peer_registry, load_peer_registry
    <3>2. CASE p \notin barred
      <4>1. /\ step' = "idle" /\ result' = "ok" /\ console.name = "revoke" /\ p = console.peer
        BY <1>21, <2>3, <3>2 DEF save_peer_registry
      <4>2. console # NoCommand /\ console.saving /\ p \in Peers
        BY <2>2, <4>1
      <4>3. Recoverable' = bytes
        BY <2>1, <4>1
      <4>4. load_peer_registry' = bytes
        BY <2>2, <4>3 DEF load_peer_registry
      <4> QED
        BY <1>21, <4>1, <4>2, <4>4 DEF save_peer_registry
    <3> QED
      BY <3>1, <3>2
  <2> QED
    BY <2>3
<1>22. CASE quit
  BY <1>22 DEF quit, fvars, files
<1>23. CASE UNCHANGED lvars
  BY <1>23 DEF lvars, lanVars, fvars, files
<1> QED
  BY <1>1, <1>2, <1>3, <1>4, <1>5, <1>6, <1>7, <1>8, <1>9, <1>10, <1>11, <1>12, <1>13,
    <1>14, <1>15, <1>16, <1>17, <1>18, <1>19, <1>20, <1>21, <1>22, <1>23 DEF LNext, Listener, Console

(* LanInv holds at first.                                                  *)
LEMMA LanInvAtFirst == LInit => LanInv
<1> SUFFICES ASSUME LInit PROVE LanInv
  OBVIOUS
<1>1. FileInv
  BY FileInvInductive DEF LInit
<1>2. ShapeInv /\ PairingInv /\ ApprovedInv /\ CommandInv /\ BarredInv
  BY DEF LInit, FInit, NoPeers, ShapeInv, PairingInv, ApprovedInv, CommandInv, BarredInv
<1> QED
  BY <1>1, <1>2 DEF LanInv

(* LanInv is an invariant of the launcher.                                 *)
THEOREM LanInvHolds == LSpec => []LanInv
<1>1. LanInv /\ [LNext]_lvars => LanInv'
  <2> SUFFICES ASSUME LanInv, [LNext]_lvars PROVE LanInv'
    OBVIOUS
  <2>1. FileInv'
    BY LanStepIsFileStep, FileInvInductive DEF LanInv
  <2> QED
    BY <2>1, ShapeKept, PairingKept, ApprovedKept, CommandKept, BarredKept DEF LanInv
<1> QED
  BY <1>1, LanInvAtFirst, PTL DEF LSpec

(* Only peers whose own pairing the operator confirmed are trusted.        *)
THEOREM OnlyConfirmedPeersHolds == LSpec => []OnlyConfirmedPeers
<1>1. LanInv => OnlyConfirmedPeers
  BY DEF LanInv, ApprovedInv, OnlyConfirmedPeers, load_peer_registry, Recoverable, NoPeers
<1> QED
  BY <1>1, LanInvHolds, PTL

(* A revocation that the console reported successful stays in force, in    *)
(* memory and in what a restart of this launcher, alone on its directory,  *)
(* reads.                                                                  *)
THEOREM RevocationIsFinalHolds == LSpec => []RevocationIsFinal
<1>1. LanInv => RevocationIsFinal
  BY DEF LanInv, BarredInv, RevocationIsFinal
<1> QED
  BY <1>1, LanInvHolds, PTL

(* Every save the launcher makes, and every crash of it, is one of the     *)
(* atomic file's.                                                          *)
THEOREM LanSavesAtomically == LSpec => SaveIsAtomic
<1>1. LInit => FInit
  BY DEF LInit
<1>2. LanInv /\ [LNext]_lvars => [FNext]_fvars
  BY LanStepIsFileStep DEF LanInv
<1>3. LSpec => FSpec
  BY <1>1, <1>2, LanInvHolds, PTL DEF LSpec, FSpec
<1> QED
  BY <1>3, StateFileIsAtomic, PTL

-----------------------------------------------------------------------------
(* Answers to a revoked peer *)

(* A peer that was answered once since its revocation can reach neither of *)
(* the two places at which a message is answered: it is still revoked, and *)
(* the registry is read on every way there.  A service that is down keeps  *)
(* no connection and no count.                                             *)
LateInv ==
  /\ late \in [Peers -> Nat]
  /\ server = "down" => conn = NoConn /\ \A p \in Peers : late[p] = 0
  /\ \A p \in Peers :
       late[p] # 0 =>
         /\ late[p] = 1
         /\ registry[p] = "revoked"
         /\ conn.phase \in {"authenticated", "reading"} => conn.peer # p

(* Every step keeps the count of late answers.                             *)
LEMMA LateKept ==
  ASSUME LanInv, LateInv, [LNext]_lvars
  PROVE  LateInv'
<1> USE DEF LanInv, ShapeInv, LateInv
<1>1. CASE serve
  BY <1>1 DEF serve
<1>2. CASE crash
  BY <1>2 DEF crash, Ends
<1>3. CASE \E p \in Peers, mode \in {"xx", "ik"} : accept(p, mode)
  BY <1>3 DEF accept, Serving
<1>4. CASE fail_connection
  BY <1>4 DEF fail_connection, Serving, Close
<1>5. CASE register_attempt
  BY <1>5 DEF register_attempt, Serving, Close, Enters
<1>6. CASE \E c \in Codes : publish(c)
  <2>1. UNCHANGED <<server, registry, late>> /\ conn.phase = "handshake"
    BY <1>6 DEF publish, Serving
  <2>2. conn' = NoConn \/ conn'.phase = "woken"
    BY <1>6 DEF publish, Close
  <2> QED
    BY <2>1, <2>2
<1>7. CASE wait_checks_shutdown
  BY <1>7 DEF wait_checks_shutdown, Serving, Close, Enters
<1>8. CASE wait_takes_decision
  BY <1>8 DEF wait_takes_decision, Serving, Close, Enters
<1>9. CASE wait_times_out
  BY <1>9 DEF wait_times_out, Serving, Enters
<1>10. CASE wait_expires
  BY <1>10 DEF wait_expires, Serving, Close
<1>11. CASE confirm_registry
  BY <1>11 DEF confirm_registry, Serving, Close, Enters
<1>12. CASE authenticate_ik
  BY <1>12 DEF authenticate_ik, Serving, Close, Enters
<1>13. CASE attach
  BY <1>13 DEF attach, Serving, Enters, Answer
<1>14. CASE look_up
  BY <1>14 DEF look_up, Serving, Close, Enters
<1>15. CASE read_frame
  <2>0. /\ conn.phase = "reading" /\ conn.peer \in Peers /\ conn'.phase = "attached"
        /\ UNCHANGED <<server, registry>>
    BY <1>15 DEF read_frame, Serving, Enters
  <2>1. late[conn.peer] = 0 /\ server # "down"
    BY <2>0
  <2>2. CASE late' = late
    BY <2>0, <2>1, <2>2
  <2>3. CASE late' # late
    <3>1. registry[conn.peer] = "revoked" /\ late' = [late EXCEPT ![conn.peer] = @ + 1]
      BY <1>15, <2>3 DEF read_frame, Answer
    <3>2. late' = [late EXCEPT ![conn.peer] = 1]
      BY <2>1, <3>1
    <3> QED
      BY <2>0, <2>1, <3>1, <3>2
  <2> QED
    BY <2>2, <2>3
<1>16. CASE stop
  BY <1>16 DEF stop, Ends
<1>17. CASE \E id \in 1 .. MaxAttempts, code \in Codes : confirm(id, code)
  BY <1>17 DEF confirm, Wakes
<1>18. CASE \E id \in 1 .. MaxAttempts : reject(id)
  BY <1>18 DEF reject, Wakes
<1>19. CASE \E p \in Peers : revoke(p)
  BY <1>19 DEF revoke, ConsoleReady
<1>20. CASE persist_live_registry
  BY <1>20 DEF persist_live_registry
<1>21. CASE save_peer_registry
  BY <1>21 DEF save_peer_registry
<1>22. CASE quit
  BY <1>22 DEF quit
<1>23. CASE UNCHANGED lvars
  BY <1>23 DEF lvars, lanVars
<1> QED
  BY <1>1, <1>2, <1>3, <1>4, <1>5, <1>6, <1>7, <1>8, <1>9, <1>10, <1>11, <1>12, <1>13,
    <1>14, <1>15, <1>16, <1>17, <1>18, <1>19, <1>20, <1>21, <1>22, <1>23 DEF LNext, Listener, Console

(* However revocation falls between the steps of a pairing, a reconnection *)
(* or a session, the launcher answers at most one more message.            *)
THEOREM AtMostOneLateAnswerHolds == LSpec => []AtMostOneLateAnswer
<1>1. LInit => LateInv
  BY DEF LInit, LateInv
<1>2. LanInv /\ LateInv /\ [LNext]_lvars => LateInv'
  BY LateKept
<1>3. LateInv => AtMostOneLateAnswer
  BY DEF LateInv, AtMostOneLateAnswer
<1> QED
  BY <1>1, <1>2, <1>3, LanInvHolds, PTL DEF LSpec
=============================================================================
