------------------------------ MODULE PairedLan ------------------------------
(***************************************************************************)
(* The paired-LAN launcher (session-broker/src/bin/ksa64-paired-lan.rs,    *)
(* lan.rs, and the registry and pairing window of noise.rs) over the       *)
(* persistent state of StateFile.  Three parties share the state:          *)
(*   - the listener thread, which serves one connection at a time through  *)
(*     authentication (XX pairing or IK reconnection) and the session;     *)
(*   - the local console, which decides pairings, revokes peers, saves the *)
(*     registry and stops the service;                                     *)
(*   - the condition variable and lock of the pairing coordinator.         *)
(* The process may crash at any point and starts again from its files.     *)
(* It is alone on its state directory: the separate command `revoke`,      *)
(* which rewrites the files without a lock, and a second launcher are not  *)
(* part of this specification.                                             *)
(*                                                                         *)
(* A peer stands for its static key.  Noise itself, frame contents and the *)
(* broker behind the session are left out: a connection may fail at every  *)
(* step at which the code reads, writes or calls them.  The role is always *)
(* the launcher's Guided Operator, so role mismatches do not occur.        *)
(***************************************************************************)
EXTENDS StateFile, Naturals, Sequences, FiniteSets

CONSTANTS
  Peers,        \* static public keys of the remote devices
  Codes,        \* comparison codes; two pairings may have the same one
  MaxPeers,     \* MAX_PAIRED_PEERS
  MaxAttempts   \* max_pairing_attempts

ASSUME LanAssumption == MaxPeers \in Nat \ {0} /\ MaxAttempts \in Nat \ {0}

VARIABLES
  server,      \* the launcher: "up", "stopping" (shutdown is set) or "down"
  registry,    \* PeerRegistry in memory: the status of every peer
  attempts,    \* PairingWindow.attempts
  pending,     \* PairingState.pending
  decision,    \* PairingState.decision
  conn,        \* the connection that the listener thread serves
  console,     \* the local command whose save is not finished
  published,   \* history: the peer published under each pairing id of this run
  approved,    \* history: peers for whose own pairing the operator confirmed
  barred,      \* history: peers whose console revocation reported success
  late         \* history: messages answered since the peer was revoked in this run

lanVars == <<server, registry, attempts, pending, decision, conn, console>>
ghosts == <<published, approved, barred, late>>
lvars == <<fvars, lanVars, ghosts>>

Statuses == {"unknown", "active", "revoked"}
Registries == [Peers -> Statuses]

(* The file holds an exported registry.                                    *)
ASSUME ContentsAssumption == Contents = Registries

NoPeers == [p \in Peers |-> "unknown"]
Known(r) == {p \in Peers : r[p] # "unknown"}

NoPending == [id |-> 0]
NoConn == [phase |-> "none"]
NoCommand == [name |-> "none"]

LInit ==
  /\ FInit
  /\ server = "down" /\ registry = NoPeers
  /\ attempts = 0
  /\ pending = NoPending /\ decision = "none"
  /\ conn = NoConn /\ console = NoCommand
  /\ published = <<>> /\ approved = {} /\ barred = {}
  /\ late = [p \in Peers |-> 0]

-----------------------------------------------------------------------------
(* The service: serve, start_inner and stop.                               *)

(* load_peer_registry: no file is an empty registry.                       *)
load_peer_registry == IF Recoverable = Absent THEN NoPeers ELSE Recoverable

serve ==
  /\ server = "down"
  /\ server' = "up" /\ registry' = load_peer_registry
  /\ UNCHANGED <<fvars, attempts, pending, decision, conn, console, ghosts>>

(* quit: the shutdown flag is stored and the waiter notified, without the  *)
(* coordinator's lock.                                                     *)
quit ==
  /\ server = "up" /\ console = NoCommand
  /\ server' = "stopping"
  /\ conn' = IF conn.phase = "asleep" THEN [conn EXCEPT !.phase = "woken"] ELSE conn
  /\ UNCHANGED <<fvars, registry, attempts, pending, decision, console, ghosts>>

(* What the process holds in memory goes with it.                          *)
Ends ==
  /\ server' = "down" /\ registry' = NoPeers
  /\ attempts' = 0
  /\ pending' = NoPending /\ decision' = "none"
  /\ published' = <<>> /\ late' = [p \in Peers |-> 0]

(* The listener thread sees the flag between two connections and is joined.*)
stop ==
  /\ server = "stopping" /\ conn = NoConn
  /\ Ends
  /\ UNCHANGED <<fvars, conn, console, approved, barred>>

crash ==
  /\ server # "down"
  /\ FCrash
  /\ Ends
  /\ conn' = NoConn /\ console' = NoCommand
  /\ UNCHANGED <<approved, barred>>

-----------------------------------------------------------------------------
(* The listener thread *)

Serving == UNCHANGED <<fvars, server, console>>

Enters(phase) == conn' = [conn EXCEPT !.phase = phase]

(* Every error of handle_lan_connection closes the connection.             *)
Close == conn' = NoConn

(* A message of a peer that is already revoked is answered.                *)
Answer(p) == late' = IF registry[p] = "revoked" THEN [late EXCEPT ![p] = @ + 1] ELSE late

accept(p, mode) ==
  /\ server = "up" /\ conn = NoConn
  /\ conn' = [phase |-> mode, peer |-> p, id |-> 0]
  /\ Serving /\ UNCHANGED <<registry, attempts, pending, decision, ghosts>>

(* read_selector, a handshake packet or the first frame does not arrive,   *)
(* or a later frame is refused; the guard then leaves the broker.          *)
fail_connection ==
  /\ conn.phase \in {"xx", "handshake", "ik", "authenticated", "attached", "reading"}
  /\ Close
  /\ Serving /\ UNCHANGED <<registry, attempts, pending, decision, ghosts>>

(* Refused when the attempts are used up or the window, open for a fixed   *)
(* time from the start of the service, has closed.                         *)
register_attempt ==
  /\ conn.phase = "xx"
  /\ \/ attempts < MaxAttempts /\ attempts' = attempts + 1 /\ Enters("handshake")
     \/ UNCHANGED attempts /\ Close
  /\ Serving /\ UNCHANGED <<registry, pending, decision, ghosts>>

LockFree == conn.phase # "checked"

(* The handshake is complete and its comparison code known.                *)
publish(code) ==
  /\ conn.phase = "handshake"
  /\ IF pending # NoPending
     THEN Close /\ UNCHANGED <<pending, decision, published>>
     ELSE /\ published' = Append(published, conn.peer)
          /\ pending' = [id |-> Len(published) + 1, peer |-> conn.peer, code |-> code]
          /\ decision' = "none"
          /\ conn' = [conn EXCEPT !.phase = "woken", !.id = Len(published) + 1]
  /\ Serving /\ UNCHANGED <<registry, attempts, approved, barred, late>>

(* wait, with the lock taken: the shutdown flag is read first.             *)
wait_checks_shutdown ==
  /\ conn.phase = "woken"
  /\ IF server = "stopping"
     THEN pending' = NoPending /\ decision' = "none" /\ Close
     ELSE UNCHANGED <<pending, decision>> /\ Enters("checked")
  /\ Serving /\ UNCHANGED <<registry, attempts, ghosts>>

(* The rest of the turn, still under the lock: another pairing's pending   *)
(* entry, a decision, a passed deadline, or sleep until notified.          *)
wait_takes_decision ==
  /\ conn.phase = "checked"
  /\ IF pending.id # conn.id
     THEN Close /\ UNCHANGED <<pending, decision>>
     ELSE \/ /\ decision # "none"
             /\ IF decision = "Confirmed" THEN Enters("confirmed") ELSE Close
             /\ pending' = NoPending /\ decision' = "none"
          \/ decision = "none" /\ Enters("asleep") /\ UNCHANGED <<pending, decision>>
          \/ decision = "none" /\ Close /\ pending' = NoPending /\ UNCHANGED decision
  /\ Serving /\ UNCHANGED <<registry, attempts, ghosts>>

WaitForNotification ==
  /\ conn.phase = "asleep" /\ decision # "none"
  /\ Enters("expired")
  /\ Serving /\ UNCHANGED <<registry, attempts, pending, decision, ghosts>>

(* wait_timeout gives up and waits for the lock, ...                       *)
wait_times_out ==
  /\ conn.phase = "asleep"
  /\ Enters("expired")
  /\ Serving /\ UNCHANGED <<registry, attempts, pending, decision, ghosts>>

(* ... and drops the pairing, with a decision made in the meantime.        *)
wait_expires ==
  /\ conn.phase = "expired"
  /\ pending' = NoPending /\ decision' = "none" /\ Close
  /\ Serving /\ UNCHANGED <<registry, attempts, ghosts>>

ReactivateOnConfirm ==
  /\ conn.phase = "confirmed"
  /\ IF registry[conn.peer] = "unknown" /\ Cardinality(Known(registry)) >= MaxPeers
     THEN Close /\ UNCHANGED registry
     ELSE Enters("authenticated") /\ registry' = [registry EXCEPT ![conn.peer] = "active"]
  /\ Serving /\ UNCHANGED <<attempts, pending, decision, ghosts>>

(* PeerRegistry::confirm_pairing *)
confirm_registry ==
  /\ conn.phase = "confirmed"
  /\ CASE registry[conn.peer] = "revoked" -> Close /\ UNCHANGED registry
       [] registry[conn.peer] = "active" -> Enters("authenticated") /\ UNCHANGED registry
       [] Cardinality(Known(registry)) >= MaxPeers -> Close /\ UNCHANGED registry
       [] OTHER -> /\ registry' = [registry EXCEPT ![conn.peer] = "active"]
                   /\ Enters("authenticated")
  /\ Serving /\ UNCHANGED <<attempts, pending, decision, ghosts>>

(* authenticate_ik: one lookup under the registry's lock.                  *)
authenticate_ik ==
  /\ conn.phase = "ik"
  /\ IF registry[conn.peer] = "active" THEN Enters("authenticated") ELSE Close
  /\ Serving /\ UNCHANGED <<registry, attempts, pending, decision, ghosts>>

(* The first frame is a handshake request: the peer is attached to the     *)
(* broker and sent the first publication.                                  *)
attach ==
  /\ conn.phase = "authenticated" /\ server # "down"
  /\ Answer(conn.peer)
  /\ Enters("attached")
  /\ Serving
  /\ UNCHANGED <<registry, attempts, pending, decision,
                 published, approved, barred>>

LookUpShutdownOnly ==
  /\ conn.phase = "attached"
  /\ IF server = "up" THEN Enters("reading") ELSE Close
  /\ Serving /\ UNCHANGED <<registry, attempts, pending, decision, ghosts>>

(* Each turn of the session loop reads the shutdown flag and looks the     *)
(* peer up before it reads a frame, ...                                    *)
look_up ==
  /\ conn.phase = "attached"
  /\ IF server = "up" /\ registry[conn.peer] = "active" THEN Enters("reading") ELSE Close
  /\ Serving /\ UNCHANGED <<registry, attempts, pending, decision, ghosts>>

(* ... and answers the frame, or none came within the poll interval.       *)
read_frame ==
  /\ conn.phase = "reading"
  /\ \/ Answer(conn.peer) \/ UNCHANGED late
  /\ Enters("attached")
  /\ Serving
  /\ UNCHANGED <<registry, attempts, pending, decision,
                 published, approved, barred>>

Listener ==
  \/ fail_connection \/ register_attempt \/ (\E c \in Codes : publish(c))
  \/ wait_checks_shutdown \/ wait_takes_decision \/ wait_times_out \/ wait_expires
  \/ confirm_registry \/ authenticate_ik \/ attach \/ look_up \/ read_frame \/ stop

-----------------------------------------------------------------------------
(* The local console.  A decision notifies the waiter under the lock.      *)

Wakes == conn' = IF conn.phase = "asleep" THEN [conn EXCEPT !.phase = "woken"] ELSE conn

ConsoleReady == server = "up" /\ console = NoCommand

Decidable(id) == LockFree /\ pending # NoPending /\ pending.id = id /\ decision = "none"

ConfirmAnyPending(id, code) ==
  /\ ConsoleReady /\ LockFree /\ id \in DOMAIN published
  /\ pending # NoPending /\ pending.code = code /\ decision = "none"
  /\ decision' = "Confirmed" /\ Wakes
  /\ approved' = approved \cup {published[id]}
  /\ console' = [name |-> "confirm", peer |-> pending.peer, saving |-> FALSE]
  /\ UNCHANGED <<fvars, server, registry, attempts, pending, published,
                 barred, late>>

(* confirm ID CODE; a refused command changes nothing.                     *)
confirm(id, code) ==
  /\ ConsoleReady /\ Decidable(id)
  /\ pending.code = code
  /\ decision' = "Confirmed" /\ Wakes
  /\ approved' = approved \cup {published[id]}
  /\ console' = [name |-> "confirm", peer |-> pending.peer, saving |-> FALSE]
  /\ UNCHANGED <<fvars, server, registry, attempts, pending, published,
                 barred, late>>

reject(id) ==
  /\ ConsoleReady /\ Decidable(id)
  /\ decision' = "Rejected" /\ Wakes
  /\ UNCHANGED <<fvars, server, registry, attempts, pending, console, ghosts>>

revoke(p) ==
  /\ ConsoleReady
  /\ registry[p] # "unknown"
  /\ registry' = [registry EXCEPT ![p] = "revoked"]
  /\ console' = [name |-> "revoke", peer |-> p, saving |-> FALSE]
  /\ UNCHANGED <<fvars, server, attempts, pending, decision, conn, ghosts>>

(* persist_live_registry exports the registry as it is now, ...            *)
persist_live_registry ==
  /\ console # NoCommand /\ ~console.saving
  /\ Begin(registry)
  /\ console' = [console EXCEPT !.saving = TRUE]
  /\ UNCHANGED <<server, registry, attempts, pending, decision, conn, ghosts>>

(* ... saves it, and only a saved registry lets the command report success.*)
save_peer_registry ==
  /\ atomic_write
  /\ console' = IF step' = "idle" THEN NoCommand ELSE console
  /\ barred' = IF step' = "idle" /\ result' = "ok" /\ console.name = "revoke"
               THEN barred \cup {console.peer}
               ELSE barred
  /\ UNCHANGED <<server, registry, attempts, pending, decision, conn,
                 published, approved, late>>

Console ==
  \/ \E id \in 1 .. MaxAttempts, code \in Codes : confirm(id, code)
  \/ \E id \in 1 .. MaxAttempts : reject(id)
  \/ \E p \in Peers : revoke(p)
  \/ persist_live_registry \/ save_peer_registry \/ quit

LNext ==
  \/ serve \/ crash
  \/ \E p \in Peers, mode \in {"xx", "ik"} : accept(p, mode)
  \/ Listener
  \/ Console

(* The listener thread runs, and its reads and waits are bounded by        *)
(* timeouts: it does not stay at one step for ever.                        *)
LSpec == LInit /\ [][LNext]_lvars /\ WF_lvars(Listener)

-----------------------------------------------------------------------------

(* A peer is trusted, in memory or on disk, only if the operator confirmed *)
(* the very pairing under which that peer was shown: a decision for one    *)
(* pairing, typed late or under an equal code, never admits another peer.  *)
OnlyConfirmedPeers ==
  Known(registry) \cup Known(load_peer_registry) \subseteq approved

(* session-broker/README.md: revocation "disconnects the peer on its next  *)
(* bounded transport poll; future Noise IK reconnects reject it".  However *)
(* its connection, a handshake or a pairing is interleaved with the        *)
(* command, at most one message of a revoked peer is still answered.       *)
AtMostOneLateAnswer == \A p \in Peers : late[p] <= 1

(* session-broker/README.md, "Revocation is persisted": after the console's *)
(* revoke has reported success, no pairing, later save, failed save, crash *)
(* or restart of a launcher that is alone on its directory makes the peer  *)
(* welcome again.                                                          *)
RevocationIsFinal ==
  \A p \in barred :
    /\ load_peer_registry[p] = "revoked"
    /\ server # "down" => registry[p] = "revoked"

(* Shutdown ends although the notification is sent without the lock and    *)
(* may come between the waiter's last look at the flag and its sleep.      *)
ShutdownCompletes == server = "stopping" ~> server = "down"

(* session-broker/README.md:83, "a new peer is persisted with its          *)
(* immutable Guided Operator role": when the last command has reported its *)
(* save successful, every active peer is in the saved registry.            *)
ConfirmedPeerIsPersisted ==
  server = "up" /\ console = NoCommand /\ result = "ok" =>
    \A p \in Peers : registry[p] = "active" => load_peer_registry[p] = "active"
=============================================================================
