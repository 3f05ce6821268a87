# A TLA+ development for ksa64

ksa64 is a deterministic flight-software and mission simulator: a fixed-point
world, a global flight computer that runs one tick per 32 Hz release, a flight
package that lets a ground station command it, a session in which an operator
works through a procedure, and a session broker that lets several viewers and
one operator, on this machine or on a paired device, watch and steer a running
mission. This directory holds TLA+ models of the parts that keep state and react
to messages, the TLC configurations that check them, and TLAPS proofs of all the
safety properties that the runs check.

Run a check with `tlc -config <run>.cfg <MC module>` and the proofs of a part with
`tlapm <module>Proofs.tla` (`Uplink`, `Operations`, `EventJournal`, `Flight`,
`ObjectReceiver`, `SessionBroker`, `PairedLan`; `Cycles` holds lemmas they share).
`PROJECT.json` lists runs, mutants, the map from
definitions to source lines, findings, hazards and theorems.

## Inventory

All paths are relative to the repository root.

| Component | State | Operations | Must be true of it |
|---|---|---|---|
| Atomic uplink, `flight/src/phase11.rs` `AtomicUplinkManager` | one slot (load, Staged or Committed, release), last executed identity | `stage`, `commit`, `cancel`, `release` | nothing executes uncommitted, late, or twice in a row; receipts are true; a commit is never lost |
| Event journal, same file `EventJournal` | 32 slots, start, length, sequence, hash chain | `append`, `recover_after` | the newest records, in order; a reader can tell what it missed |
| Reference package, same file `KsaG10rReferenceOpsV1` | plan, active-plan checksum, prediction and its dirty flag, the three components around it | plan initialisation, ground calls, `process_release` | only committed loads change what is flown; predictions are not stale; executions are journalled |
| Object receiver, same file `BoundedObjectReceiver` | header, next segment, complete flag, a buffer that reset does not clear | `receive`, `reset`, `activate_mission_plan` | only one whole, freshly received object activates |
| Flight computer, `flight/src/phase10.rs` `GlobalFlightComputer` | frame, missed samples, safe latch, powered/armed, descending count, deployment latches, mode, last command | `tick`, `operational_request_safe`, `record_deadline_miss` | old data drives nothing; safe is final; deployments once and in order |
| Closed loop, `sim/src/phase10_avionics.rs`, `sim/src/phase10.rs` | world segment, deployments, pending transition, fault schedule | `release_bundle`, `advance_to_next_release` | world and computer agree on the frame; the vehicle comes down under its parachutes |
| Session broker, `session-broker/src/worker.rs`, `network.rs`, streams in `presentation/src/stream.rs` | bounded command queue, client table, control lease, retained streams, one thread per connection | attach, disconnect, poll, control, autonomous pacing, request timeouts | one controller; no silent gaps; a lost viewer pauses nothing |
| Safehold package, `flight/src/phase11_safehold.rs` | segment, safe latch, recovery latches, last sample | `process_release` | the same as of the flight computer, with return transitions only |
| Procedure engine, `session/src/phase11_operations.rs` | state, current step, entry epoch | `tick`, `expire_at`, `accept_action` | every step is left by success, action or timeout, and never skipped |
| Full mission session, `session/src/phase12b_live.rs`, with `session/src/presentation_adapter.rs` | lifecycle, pace, mirror of the staged load, transcript, dispositions; reviewed and active proposal | lifecycle and pace, advance, stage, commit, cancel, review | its pictures of the package are true, what it reports of the operator was earned |
| Session bundle, `session/src/phase11_session.rs` | ordered action log and evidence | append, seal, parse | not modelled |
| Paired LAN, `session-broker/src/lan.rs`, `noise.rs`, `bin/ksa64-paired-lan.rs` | pairing window, pending pairing and decision, peer registry, one connection, the console's command | authenticate, publish, wait, confirm, reject, revoke, serve, quit | only confirmed peers are trusted, a revocation is final, a shutdown ends |
| Paired peers on disk, `session-broker/src/paired_state.rs` | target, backup and temporary file | `atomic_write`, `read_recoverable` | after any failure or stop the old or the new contents, whole |
| Browser admission, `session-broker/src/browser.rs` | live connections, outstanding commands, rate window | `admit`, `disconnect`, `begin_command`, `complete_command` | whatever ends a connection or a frame, its slot and count come back |

The physics and numerics (`core`), record codecs (`interface`, `presentation`),
earlier flight phases, host tools, viewers and vendored code are listed in
`PROJECT.json` with the reason they are left out: they are arithmetic, byte
layout, frozen predecessors of what is modelled, or user interface.

How they interact. The avionics runner calls the package's `process_release`
once per release; that calls `AtomicUplinkManager::release`, applies a due load
to the flight computer or the plan, journals, ticks the flight computer, and
renews the prediction. The world then steps under the command until the next
release. Ground calls reach the package between releases. The session owns the
package and the runner; the broker's worker thread owns the session, and
connection threads reach it only through a bounded channel with a reply channel
per request. The paired launcher runs the same authority behind a listener
thread; its console shares the registry and the pairing coordinator with that
thread through locks and a condition variable.

What is hard here:

* ground messages that are lost, repeated, delayed and reordered around a
  release that happens whether or not they arrive;
* values checked when a load is staged and used releases later;
* a ring that is overwritten while a slow reader catches up;
* a tick that latches, holds, safes and clears in an order that matters when a
  sample is missing on exactly the wrong release;
* requests that time out at the caller and are executed by the worker anyway;
* three pictures of one staged load, in the package, the session and the
  adapter, each updated and expired by its own code;
* a decision of the console that reaches a thread which may be asleep, timing
  out or gone, and a save that does not wait for it;
* a process that stops between two renames;
* counters at the end of their range: saturating epochs and sequences, a u16
  epoch that wraps.

## Modules

* `Uplink` has one action per early return of `stage`, `commit`, `cancel` and
  `release`. Any load or request of the constants may arrive at any time and
  any number of times, which is loss, repetition and reordering at once. Loads
  and requests are records of the fields the checks read; capability and
  command masks meet constants of the package and are Booleans of the load; the
  residual check is an input. `history` records commits and executions and is
  read by no action. With an empty slot the code returns the request it was
  given; the model does too.
* `JournalWindow` is the promise of the journal: the newest `Capacity` records,
  oldest first. `EventJournal` is the ring that implements it, with `start`,
  `len`, the saturating sequence and a hash chain abstracted to the number of
  records folded into it, which like the hash tells any two prefixes of a log
  apart. Its reader is the journal request of the C64 operations endpoint: ask
  for what follows the last known number.
* `FlightPackage` extends `Uplink` with the package: `stage_uplink`,
  `commit_uplink`, `cancel_uplink`, `record_ground_communications`,
  `initialize_mission_plan` and `process_release` in full. Of the flight
  computer it keeps the frame (a tick may change it) and the safe latch; the
  journal is the window of `JournalWindow` without numbers.
* `FlightComputer` is `tick`, as one action that computes the same intermediate
  values in the same order as the code, and the two calls that latch safe
  between ticks. A torque, gimbal or RCS demand is represented by the release
  whose sample it was computed from; of navigation a tick keeps the tests made
  on it (falling, low). Counters are capped where no test tells larger values
  apart. Alarm bits other than FRAME and RECOVERY repeat what other variables
  say and are left out.
* `GlobalMission` extends `FlightComputer` with the world: segments, apogee,
  deployments, landing, frame transitions and a fast-sensor dropout window. The
  trajectory chooses when segments end; the order, the frames and the effect of
  commands are the code's.
* `ObjectReceiver` is `receive` over segments that passed the codec, with named
  payloads; `bytes` survives a reset as the buffer does.
* `Safehold` extends `FlightComputer` with the other flight package, on the same
  variables: `process_release` with its narrower transition rule, its own
  acceptance, control, recovery and mode rules. The variable `package` says
  which one flies; it is chosen at the start and never changes.
* `ProcedureEngine` is the engine as pure operators on a procedure state and a
  pack of steps: `tick`, `expire_at`, `accept_action`.
* `MissionSession` extends `FlightPackage` and `ProcedureEngine` with
  `FullMissionSession` and the adapter in front of it. Every release runs the
  package's `process_release`, expires the mirror, ticks the procedure of the
  GNSS-loss pack and may complete the mission; the operator's calls go through
  adapter, session and package in the code's order. A client may advance the
  session at every pace but Paused; `Worker` is the pacing of the broker's worker,
  which advances a running session only, at Realtime, and at Fast while no
  proposal is outstanding (`Paced`). Whether GNSS is lost, whether the world is
  complete and what the ground estimator reports are inputs. Errors inside a
  release, which end the session, are left out. So is `safe_recovery_load`, the
  load for branch 2: `recommended_load` never offers it and the adapter stages
  nothing else, so that `TimelyAlternate` and `AlternateBranch`, which the
  dispositions keep, are not reached.
* `AtomicFile` is the promise of the state file: contents that change in one
  step. `StateFile` is `atomic_write`, one action per file operation, each of
  which may fail, with a stop of the process between any two.
* `PairedLan` extends `StateFile` with the launcher: the listener thread with one
  connection, the coordinator's lock, condition variable and timeout, the
  registry and pairing window, the console's `confirm`, `reject`, `revoke` and
  `quit`, crash and restart. The launcher is alone on its state directory. The
  condition variable is explicit: a waiter that is asleep is woken by a
  notification or its timeout, and a notification to nobody is lost.
* `SessionBroker` has one program counter per connection thread, the worker's
  queue, and a reply slot per connection. `Timeout` may happen at every wait;
  an abandoned command stays queued and is executed. One stream stands for the
  four retained ones and one Control request for pace, lifecycle, step and
  action, which differ only in what the authority makes of them.
  The admission counters of `browser.rs` are kept around every connection and
  every frame, up to the publication that ends it. The bounds are the number
  of connections or more, as in the defaults (4 connections, 32 commands, and a
  connection works on one frame at a time); being refused by a limit or by the
  rate window is what `Refuse` and `PeerGone` may do at any frame.

The `MC` modules give constants their values. Some definitions are followed by
no use: those listed as mutants in `PROJECT.json` (for instance `DueUncommitted`
before `Due`) are the plausible bugs each property is tested against, and no
action uses them.

## Runs

| Run | Bounds | Shows |
|---|---|---|
| `uplink` | 9 loads (5 acceptable, one amended twice under one identity, one at the last epoch), 11 requests, epochs 0..8 saturating | `ExecutesAsCommitted`, `CommittedNotOverdue`, `NoRepeatInSuccession`, `ReceiptsAreEarned`, `CommittedSurvives`; a commit ends in execution or cancellation (`CommittedGetsExecuted`), the slot is freed (`SlotIsFreed`) |
| `event_journal` | 3 slots, 8 appends, sequence saturating at 7, reads of 1 and 2 records | the ring implements `JournalWindow` (`WindowSpec`), `GapsAreVisible`, `SkipsOnlyOverwritten`, `CatchesUp` |
| `flight_package` | 2 loads, 7 releases, journal of 3, prediction every 4 releases, frame free at every tick | `OnlyCommitsChangeState`, `PredictionIsCurrent`, `ExecutionIsJournalled` |
| `flight_computer` | both packages, 6 releases, epoch wraps at 5 | `ActuationIsFresh`, `SafeIsFinal`, `DeploymentsInOrder`, `BackupIsNotSilent` |
| `global_mission` | 12 releases, one dropout of up to 3 anywhere | `FramesAgree`, `DeploysAsCommanded`, `CleanFlightRecovers` |
| `object_receiver` | 4 objects of 1 to 3 segments, one too large, corrupt payloads | `ActivatesWholeObject` |
| `session_broker` | 2 connections, 2 clients, table of 2, queue of 2, 2 records through a stream of 1 | `ServedIsAttached`, `SoleController`, `AdmissionIsReturned`, `NoSilentGap`, `DisconnectDoesNotPause` |
| `paired_lan` | 2 peers for a registry of 1, one code shared by all pairings, 2 attempts per run of the launcher, any number of runs, crashes and reconnections | `OnlyConfirmedPeers`, `AtMostOneLateAnswer`, `RevocationIsFinal`, `SaveIsAtomic` (the refinement), `ShutdownCompletes` |
| `mission_session` | a response window of 8 releases with both loads, 11 releases in all | `MirrorAgrees`, `ProcedureFollowsUplink`, `WindowIsRespected`, `DispositionIsEarned`, `ReviewPrecedesCommit`, `ProcedureResolves` |

Why these bounds are enough to be interesting. The uplink keeps one slot and one
identity, so three identities, an amended load and two executions in a row reach
every combination of what it remembers, and epoch 8 is where its additions
saturate. Three slots and eight appends wrap the ring more than twice and pass
the saturated sequence number. The flight computer's memory of missed samples
is at most three releases and every configured time falls on a different release.
Two connections are what it takes for one client to be served twice; a queue of
two is full while one request waits. Two peers and a registry of one make one
peer meet the full registry, and a shared comparison code is the worst case for
telling pairings apart. The session's releases are scaled so that each load can
expire, be renewed and be committed late, and the branch may be proposed while
the update still waits for its release. No run is simulation only: each explores
its whole state space.

Three passing runs are without a deadlock check because their instance ends:
`flight_computer` and `global_mission` by landing or at the bound on releases,
`mission_session` when the session is complete or aborted.

### Where the code and its documents disagree

Three runs state what a document or test of the repository says and end in a
counterexample.

1. `global_mission_recovery`: `phase10/PLAN.md` requires drogue and main
   recovery. `recovery_command` latches the drogue before the hold rule clears
   the command of a release without a sample. If the dropped sample falls on
   that release, the drogue is never commanded, the world refuses the main
   without it, and the flight is not safed. `global_mission` shows that flights
   without a dropout do recover.
2. `flight_computer_pulses`: `docs/decisions.md` D-093 says of RCS commands that
   "one-shot pulses are never replayed". A release without a sample restores the
   previous torque demand and derives the pulses from it again; the hold rule
   clears only the discrete commands. `PulsesAreNotReplayed` compares the samples
   that two successive commands' pulses come from. `ActuationIsFresh`, which
   bounds what is held by two releases, is about torque and gimbal only.
3. `paired_lan_persistence`: `session-broker/README.md` says a confirmed peer is
   persisted. The console saves the registry right after leaving its decision,
   before the listener thread has inserted the peer, and nothing saves it later:
   after a restart the peer is unknown.

Seen while modelling, without a run of their own:

* a navigation update whose frame was left between commit and release is
  acknowledged as Executed and not applied; only an argument of a journal record
  says so (`flight/src/phase11.rs:284`);
* the safehold package counts the separation of the parachutes from the time of
  the last sample, so that after a dropout the main may follow the drogue's
  command sooner (`flight/src/phase11_safehold.rs:425`); `DeploymentsInOrder`
  therefore counts the separation from the time the latch recorded;
* a commit that the package rejects clears the adapter's active proposal, and the
  load can then be neither committed nor cancelled before it expires
  (`session/src/presentation_adapter.rs:601`);
* a control frame's lifecycle change is made before its advance limit is checked
  (`session-broker/src/network.rs:645`);
* an Attach that times out at its connection is executed later
  (`session-broker/src/worker.rs:350`); no disconnect guard exists yet
  (`network.rs:501`), so the client stays attached with nobody to disconnect it
  and each later attach is refused, although a test is named for the same client
  reconnecting. A disconnect refused by a full queue ends the same way;
* `ksa64-paired-lan revoke` loads and rewrites the registry without a lock
  (`session-broker/src/bin/ksa64-paired-lan.rs:233`), and nothing says that the
  launcher has to be stopped first. A running launcher does not learn of it,
  keeps serving the peer, and its next save makes the peer active again; in the
  other order the command can write back a registry it loaded before the console
  revoked somebody. Both writers also use one temporary and one backup name. The
  model leaves the command out, and `RevocationIsFinal` is a statement about the
  console's `revoke` and a launcher that is alone on its directory;
* a proposal that expires is renewed under the same identity, and the adapter
  compares identities: a review of the earlier contents allows the renewed ones
  to be staged (`session/src/presentation_adapter.rs:571`). `ReviewPrecedesCommit`
  compares identities too.

## Fairness

* `Uplink!FairSpec`: weak fairness of `release`, because the runner calls
  `process_release` on every release of a running mission. The ground is never
  obliged to send anything.
* `EventJournal!Spec`: weak fairness of `Read`, the ground station in contact
  that keeps asking. Appending is not fair. Loss of contact is any delay.
* `SessionBroker!FairSpec`: weak fairness of `Handle` and `Pace`, the worker
  thread, whose loop always either takes a command or times out. Connections and
  clients have none.
* `PairedLan!LSpec`: weak fairness of `Listener`, the listener thread: its reads
  have timeouts, and the wait for a decision is bounded by the pairing timeout.
  The console is never obliged to type anything, and crashes never to happen.
* `MissionSession!SSpec`: weak fairness of `Worker`, the release that a broker
  worker makes of a session when its wait for a command times out. That is, only
  while the lifecycle is Running and the pace is Realtime, or Fast with no
  proposal outstanding (`worker.rs:442` and `467`); never at SingleStep, and never
  of a release that a client would have to ask for. Each command restarts the
  worker's wait, so that a client which sends commands faster than releases are
  due holds it up for ever; `ProcedureResolves` therefore assumes that commands
  come to an end. It then says: whatever the operator has left undone, a session
  that is being paced does not stay so with its procedure undecided. At Realtime
  the procedure is decided or the mission over; at Fast the session may instead
  be held at an outstanding proposal, where the code leaves it until someone
  acts. The operator has no fairness; a paused session may stay paused.

## Proofs

`UplinkProofs` proves the uplink's type invariant and five safety properties
for every set of loads, requests, frames and events and every epoch width:
`TypeCorrect`, `CommandingIsAtomic`, `NoImmediateReplay`, `ReceiptsAreTrue`,
`CommittedNeverExpires` and `CommitIsKept`.

Assumptions, all evaluated by TLC in the `uplink` run: `MaxEpoch >= 2`; loads and
requests are well-typed records; identities are positive, since zero is the
initial `last_executed_identity`; a request carries the state Staged, as
`commit_request_for_staged` writes it (it is needed because an empty slot
returns the request itself).

The properties are not inductive as they stand. `ExecutesAsCommitted` speaks of
executions in the past, but a release only looks at the slot, so the slot must
carry the evidence: `SlotInv` says that what is in it passed the window test of
`validate_stage` and is not the identity last executed, `CommitInv` that a
committed one has its commit on record two releases ahead and its release not
yet past, and `LastInv` that `lastExecuted` is the identity of a newest
execution. `UplinkInv` is their conjunction with the properties. There is one
lemma per call (`StageStep`, `CommitStep`, `CancelStep`, `ReleaseStep`), each
split by early return; the messages that only answer share `ReplyOnly`.
`CommittedNeverExpires` and `CommitIsKept` follow from the invariant.

`OperationsProofs` proves the flight package and the session above it, for every
load set, journal capacity, prediction period and response window.

* Package: `PredictionStaysCurrent`, `GroundNeverChangesState`,
  `ExecutionsAreJournalled`. `PackageInv` extends `UplinkInv` by three facts.
  The age of a prediction is bounded by the place of the last release in its
  cycle (`AgeInv`), because a period is only kept if the first release of every
  cycle renews; this is where the remainders of `Cycles` come in. Without a plan
  nothing is staged or predicted (`PlanInv`). Effects carry earlier epochs until
  the epoch saturates (`EffectInv`), so that what a release applies is new.
* Session: `MirrorStaysTrue`, `ProcedureStaysBehindUplink`,
  `WindowStaysRespected`, `DebriefIsTrue`, `CommitsAreReviewed`. `SessionInv` is
  the package's invariant with: the counts of session and package are equal
  (`CountInv`); a mirrored load is the staged one and was proposed in the window
  (`MirrorInv`); a step that can ask for a load does not outlive the release
  after the window (`EngineInv`); every step past a request has its commit
  behind it (`StepInv`, `BranchInv`); the transcript has the epoch of every
  commit (`TranscriptInv`); a proposal that could be committed was reviewed
  (`ReviewInv`). The lemmas for `stage`, `commit`, `cancel` and `release` of the
  uplink are used again; they were stated for any request, not only those of
  the constant, because the session makes its own.

Assumptions beyond the uplink's, evaluated in `flight_package` and
`mission_session`: periods and capacities are positive, the window opens before it
closes, a load leads by the two releases a commit needs, the session ends before
the epoch saturates, and what the session proposes is among `Loads`
(`ProposalAssumption`), which is what makes `Loads` the loads of this package.

`EventJournalProofs` proves `RingImplementsWindow`, `GapsStayVisible` and
`ReadsSkipOnlyOverwritten` for every capacity, counter width and buffer size.
For the refinement it is enough that a ring that is not full starts at slot 0
(`RingInv`): a write then goes to the slot after the last record or over the
oldest one, and `AppendIsWrite` follows the remainders slot by slot. The two
properties of the reader need the whole history: the log numbers its records
until the counter saturates (`LogInv`), the ring is its newest part
(`NewestInv`), and what was heard is the log in order with every retained record
up to the last known one in it (`HeardInv`). `AfterIsACopy` and `ReadContinues`
say what `recover_after` returns: the log from the last known or the last
overwritten record on. `After` finds the k-th later record by counting, so that
it can be reasoned about without induction over sequences.

`FlightProofs` proves the flight computer, the safehold package and the closed
loop, for every configuration, epoch span and number of releases.

* `ActuationStaysFresh`, `DeploymentsStayInOrder`, `BackupIsNeverSilent`,
  `SafeStaysFinal` of both packages. `FlightInv` ties the three clocks together
  (releases, samples and commands, `ShapeInv`), says that a held demand is as
  old as the count of missing samples (`DemandInv`), and that the latches of a
  package say exactly what was ever commanded (`DeploymentInv`).
* `FramesAlwaysAgree`, `WorldDeploysAsCommanded`, `CleanFlightsRecover` of the
  mission. A crossing that was recorded and not yet released is all that
  separates the two frames (`TrackingInv`); what the world deployed was commanded
  (`WorldInv`). `CleanInv` bounds the wait for the drogue after the backup time by
  the distance to the next aid frame, across the wrap of the u16 epoch.

Assumptions, evaluated in `flight_computer` and `global_mission`: the aid age is
below the epoch span, the configured times are in the order `validate` demands,
cadence and burn time are positive (`core/src/phase10_vehicle.rs:86` refuses a
vehicle with a burn time of zero; with it no release would be powered and the
computer never arm). `CleanFlightsRecover` has one more hypothesis, `Burnout <=
DrogueBackup`: a vehicle that still burns at its backup time deploys later. The
configurations of both mission runs satisfy it.

`ObjectReceiverProofs` proves `OnlyWholeObjectsActivate` for any objects and
payloads. The buffer survives a reset, so the invariant says which of its places
were written since the object was begun: exactly those below `next_segment`.

`SessionBrokerProofs` proves `ServedStaysAttached`, `ControllerStaysSole`,
`AdmissionStaysReturned` and `GapsAreAnnounced` for any number of connections and
clients, queue length, table and stream. The difficulty is in what timeouts leave
behind. `ReplyInv`: a request somebody waits for belongs to a
connection that waits for it and for nothing else, every other request was
abandoned. `HolderInv`: an attachment has at most one holder, a connection that
serves the client, one whose answer says so, or the one Disconnect in the queue.
`AnswerInv` and `LeaseInv`: an answer is still true when it is read, since only
the holder can end what it says. `CursorInv` does the same for the stream and
`AdmissionInv` makes the counters exact. A step of a connection is a `Turn` in
all of them, which gives one lemma per part of the invariant rather than one per
part and action. Assumptions: the limits are those of `BrokerAssumption`, and
`NoClient` is not a client; both are evaluated in `session_broker`.

`PairedLanProofs` has two parts. `StateFileIsAtomic`: for every set of contents,
`atomic_write` with failures and stops implements `AtomicFile`. What is stored is
what `read_recoverable` would return, and a write is installed once the
temporary file has its name. `FileInv` carries what the mapping needs: the
temporary file is complete before it is renamed, and while the old file is set
aside there is no primary, so that the backup is what a reader finds.

The launcher: `OnlyConfirmedPeersHolds`, `RevocationIsFinalHolds`,
`LanSavesAtomically` and `AtMostOneLateAnswerHolds` for every set of peers and
codes and every limit, of a launcher that is alone on its directory. The first two
speak of the registry and of what a restart would read, but a registry on its way
to the disk is in neither, and a decision is on its way to the listener.
`LanInv` therefore adds to `FileInv` and the shape of the state: `PairingInv`, a
pending pairing is the one published under its number and a positive decision
belongs to a peer the operator approved; `ApprovedInv`, memory, files and the
bytes being written hold approved peers only; `CommandInv`, what a revocation is
saving has its peer revoked, and the launcher is up until the save is finished; `BarredInv`, a peer whose revocation was reported is revoked in
every copy that can still become the registry. `LanStepIsFileStep` shows that
the launcher touches its files only as `StateFile` does, which carries `FileInv`
and the refinement over. `LateInv` says that a peer answered once since its
revocation is at neither place of the code that answers, and that every way there
reads the registry. Assumptions: limits are positive, the file holds
registries, and a missing or partial file is not one; TLC evaluates them in
`paired_lan`.

Every inductive invariant was first checked by TLC as an invariant of the run of
its module.

Only model-checked: the liveness properties, since fairness is beyond the prover
(`CommittedGetsExecuted`, `SlotIsFreed`, `CatchesUp`, `DisconnectDoesNotPause`,
`ShutdownCompletes`, `ProcedureResolves`), and the three counterexamples.

## Plan

Done, with proofs: `Uplink`, `StateFile`, `PairedLan`, `JournalWindow`,
`EventJournal`, `FlightPackage`, `FlightComputer`, `Safehold`, `GlobalMission`,
`ObjectReceiver`, `SessionBroker`, `ProcedureEngine`, `MissionSession`.

Next, in this order:

1. The session bundle: every operator action logged in the order it was applied;
   abstract specification: a log that replays to the same state.
2. Fragment reassembly of the Noise channel: fragments of two messages never mix.
3. Aid, GNSS and clock faults in `GlobalMission`; the older live session.

Every safety property a run checks has its theorem; what is added next gets one
with it.

## Not modelled

Trajectories, attitude, navigation filters and control laws (fixed-point
arithmetic, compared with reference vectors by the repository's own tests);
record layouts and CRCs (the models take what the codecs accept); HTTP,
WebSocket and Noise cryptography; the session bundle (see the plan); sealed evidence and global display transfers, which change neither the
broker nor the authority; the procedure engine's `acknowledge`, `use_hint` and
`override_step`, which nothing but its tests calls; the older live session;
viewers and tools. Most of the repository's lines are in these parts: the models
cover the stateful core, which is a small share of them.

A crash is a stop of the process: renames that were made are on the disk
afterwards, as `sync_all` and the rename give it to a process, and a power
failure that reorders them is not modelled. No other process writes the state
directory: neither the separate `revoke` command nor a second launcher. A paired peer always has the role of Guided Operator, the
only one the launcher gives.

Hazards
that no property covers yet are marked in `PROJECT.json`.
