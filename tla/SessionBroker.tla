---------------------------- MODULE SessionBroker ----------------------------
(***************************************************************************)
(* The session broker: connection threads (session-broker/src/network.rs)  *)
(* talk to the one worker thread that owns the authority                   *)
(* (session-broker/src/worker.rs) through a bounded queue.  A request      *)
(* waits for its answer until a deadline; a request whose deadline passed  *)
(* stays in the queue and is executed all the same, its answer discarded.  *)
(* The authority publishes records into a retained stream                  *)
(* (presentation/src/stream.rs) that keeps the newest StreamCapacity.      *)
(* Connections and the frames they are working on are counted by the       *)
(* admission controller (browser.rs), under its own lock; whether a rate   *)
(* window is exhausted depends on the clock and may be found at any frame. *)
(*                                                                         *)
(* One stream stands for the four retained ones; one Control request for   *)
(* Pace, Lifecycle, Step and Action, which differ only in what the         *)
(* authority makes of them.  Every client has the session's role, one that *)
(* permits operator actions.  Evidence and GlobalDisplay requests change   *)
(* neither the broker nor the authority and are left out.                  *)
(***************************************************************************)
EXTENDS Integers, Sequences, FiniteSets

CONSTANTS
  Connections,      \* connection threads
  Clients,          \* client_instance values
  QueueCapacity,    \* config.command_capacity
  MaxClients,       \* MAX_ATTACHED_CLIENTS
  MaxConnections,   \* config.max_connections
  MaxOutstanding,   \* config.max_outstanding_commands
  StreamCapacity,   \* RetainedStream capacity
  PollLimit,        \* records per poll, 256
  MaxPublished      \* bound of the instance: records published

ASSUME BrokerAssumption ==
  /\ QueueCapacity \in Nat \ {0} /\ MaxClients \in Nat
  /\ MaxConnections \in Nat \ {0} /\ MaxOutstanding \in Nat \ {0}
  /\ StreamCapacity \in Nat \ {0} /\ PollLimit \in Nat \ {0}
  /\ MaxPublished \in Nat

VARIABLES
  queue,       \* the mpsc channel: [kind, conn, client, cursor, waiting]
  attached,    \* attached_clients
  owner,       \* controller_owner, or NoClient
  next,        \* next_sequence of the stream
  running,     \* the authority advances by itself: lifecycle Running, pace
               \* Realtime or Fast, and no operator action awaited at Fast
  admitted,    \* active_connection_ids
  outstanding, \* outstanding_commands
  conn,        \* per connection: where it is, its client, cursor and lease, and
               \* whether complete_command is still to come
  answer,      \* per connection: what its reply channel holds
  have,        \* per client: the next record it has not received
  told         \* per client: the oldest cursor a resync notice named, or 0

authority == <<attached, owner, next, running>>
admission == <<admitted, outstanding>>
vars == <<queue, authority, admission, conn, answer, have, told>>

NoClient == "nobody"

ASSUME ClientAssumption == NoClient \notin Clients

NoAnswer == [result |-> "none"]
Idle == [pc |-> "idle", client |-> NoClient, cursor |-> 1, controlling |-> FALSE,
         busy |-> FALSE]

Beyond == MaxPublished + 2   \* a cursor no record will ever reach

Lesser(a, b) == IF a < b THEN a ELSE b

oldest == IF next > StreamCapacity THEN next - StreamCapacity ELSE 1

Init ==
  /\ queue = <<>> /\ attached = {} /\ owner = NoClient /\ next = 1 /\ running \in BOOLEAN
  /\ admitted = {} /\ outstanding = 0
  /\ conn = [c \in Connections |-> Idle]
  /\ answer = [c \in Connections |-> NoAnswer]
  /\ have = [k \in Clients |-> 1]
  /\ told = [k \in Clients |-> 0]

-----------------------------------------------------------------------------
(* Requests: try_send fails when the queue is full.  A request whose       *)
(* receiver is gone stays queued, its answer discarded.                    *)

Room(q) == Len(q) < QueueCapacity

Command(kind, c, k, cursor) ==
  [kind |-> kind, conn |-> c, client |-> k, cursor |-> cursor, waiting |-> TRUE]

Abandoned(c) ==
  [i \in 1 .. Len(queue) |->
     IF queue[i].conn = c THEN [queue[i] EXCEPT !.waiting = FALSE] ELSE queue[i]]

Taken(c) == answer[c] # NoAnswer /\ answer' = [answer EXCEPT ![c] = NoAnswer]

-----------------------------------------------------------------------------
(* The admission controller *)

admit(c) == Cardinality(admitted) < MaxConnections /\ admitted' = admitted \cup {c}

disconnect(c) == admitted' = admitted \ {c}

begin_command == outstanding < MaxOutstanding /\ outstanding' = outstanding + 1

(* As if an error answer returned before the frame was counted off.        *)
CompletesOnSuccess(c) ==
  outstanding' = IF conn[c].busy /\ answer[c].result = "ok" THEN outstanding - 1 ELSE outstanding

complete_command(c) ==
  outstanding' = IF conn[c].busy /\ outstanding > 0 THEN outstanding - 1 ELSE outstanding

-----------------------------------------------------------------------------
(* A connection: handle_connection and run_websocket *)

Hangup(c) == disconnect(c) /\ conn' = [conn EXCEPT ![c] = Idle]

(* BrokerDisconnectGuard::drop: the disconnect is requested once, and what *)
(* becomes of the request is ignored.                                      *)
Close(c, q) ==
  /\ complete_command(c)
  /\ IF Room(q)
     THEN /\ queue' = Append(q, Command("Disconnect", c, conn[c].client, 1))
          /\ conn' = [conn EXCEPT ![c].pc = "close", ![c].busy = FALSE]
          /\ UNCHANGED admitted
     ELSE /\ queue' = q
          /\ Hangup(c)

(* An open connection's request; a full queue is an error that ends it.    *)
Ask(c, kind, pc) ==
  IF Room(queue)
  THEN /\ queue' = Append(queue, Command(kind, c, conn[c].client, conn[c].cursor))
       /\ conn' = [conn EXCEPT ![c].pc = pc]
       /\ UNCHANGED admission
  ELSE Close(c, queue)

(* A connection over the limit is refused and changes nothing.             *)
Accept(c) ==
  /\ conn[c].pc = "idle" /\ admit(c)
  /\ conn' = [conn EXCEPT ![c].pc = "admitted"]
  /\ UNCHANGED <<queue, authority, outstanding, answer, have, told>>

(* Before the handshake is through: the peer goes away, its frame is       *)
(* malformed or over a limit, or the queue is full.                        *)
Refuse(c) ==
  /\ conn[c].pc = "admitted" /\ Hangup(c)
  /\ UNCHANGED <<queue, authority, outstanding, answer, have, told>>

(* The handshake presents the client's identity and retained cursor.       *)
Connect(c, k) ==
  /\ conn[c].pc = "admitted" /\ Room(queue) /\ begin_command
  /\ queue' = Append(queue, Command("Attach", c, k, have[k]))
  /\ conn' = [conn EXCEPT ![c] = [pc |-> "attach", client |-> k, cursor |-> have[k],
                                  controlling |-> FALSE, busy |-> TRUE]]
  /\ UNCHANGED <<authority, admitted, answer, have, told>>

(* From here on the guard exists; a publication is due at once.            *)
Attached(c) ==
  /\ conn[c].pc = "attach" /\ Taken(c) /\ complete_command(c)
  /\ IF answer[c].result = "ok"
     THEN /\ conn' = [conn EXCEPT ![c].pc = "due", ![c].busy = FALSE,
                                  ![c].controlling = answer[c].controlling]
          /\ UNCHANGED admitted
     ELSE Hangup(c)
  /\ UNCHANGED <<queue, authority, have, told>>

(* A frame arrives and is counted.                                         *)
ReadFrame(c) ==
  /\ conn[c].pc = "open" /\ begin_command
  /\ conn' = [conn EXCEPT ![c].pc = "frame", ![c].busy = TRUE]
  /\ UNCHANGED <<queue, authority, admitted, answer, have, told>>

(* handle_client_frame: a control frame asks the worker, a lifecycle or    *)
(* pace change may ask for a bounded advance as well, and a replay frame   *)
(* moves the cursor: to where a resync notice said, or anywhere.  Each is  *)
(* followed by a publication.                                              *)
Control(c) ==
  /\ conn[c].pc = "frame" /\ Ask(c, "Control", "control")
  /\ UNCHANGED <<authority, answer, have, told>>

Replay(c) ==
  /\ conn[c].pc = "frame"
  /\ \E cursor \in {IF told[conn[c].client] # 0 THEN told[conn[c].client]
                    ELSE have[conn[c].client], Beyond} :
       conn' = [conn EXCEPT ![c].pc = "due", ![c].cursor = cursor]
  /\ UNCHANGED <<queue, authority, admission, answer, have, told>>

(* An error answer ends the connection; so does, once the change was made, *)
(* an advance over the limit or an action receipt that cannot be sent.     *)
ControlDone(c) ==
  /\ conn[c].pc \in {"control", "advance"} /\ Taken(c)
  /\ \/ /\ answer[c].result = "ok"
        /\ conn' = [conn EXCEPT ![c].pc = "due"]
        /\ UNCHANGED <<queue, admission>>
     \/ /\ answer[c].result = "ok" /\ conn[c].pc = "control"
        /\ Ask(c, "Control", "advance")
     \/ /\ answer[c].result # "ok" \/ conn[c].pc = "control"
        /\ Close(c, queue)
  /\ UNCHANGED <<authority, have, told>>

(* poll_and_send_websocket_publication: the cursor moves once everything   *)
(* was sent; a retention gap or a cursor ahead is reported; any other      *)
(* error ends the connection.                                              *)
PollDue(c) ==
  /\ conn[c].pc = "due" /\ Ask(c, "Poll", "poll")
  /\ UNCHANGED <<authority, answer, have, told>>

(* A publication, or the report in its place, ends the frame that asked.   *)
FrameDone(c, cursor) ==
  /\ complete_command(c)
  /\ conn' = [conn EXCEPT ![c].pc = "open", ![c].busy = FALSE, ![c].cursor = cursor]
  /\ UNCHANGED <<queue, authority, admitted>>

Published(c) ==
  LET k == conn[c].client
  IN /\ conn[c].pc = "poll" /\ Taken(c) /\ answer[c].result = "ok"
     /\ FrameDone(c, answer[c].upto)
     /\ have' = [have EXCEPT ![k] = answer[c].upto]
     /\ told' = [told EXCEPT ![k] = 0]

ResyncReported(c) ==
  /\ conn[c].pc = "poll" /\ Taken(c) /\ answer[c].result = "ResyncRequired"
  /\ FrameDone(c, conn[c].cursor)
  /\ told' = [told EXCEPT ![conn[c].client] = answer[c].oldest]
  /\ UNCHANGED have

AheadReported(c) ==
  /\ conn[c].pc = "poll" /\ Taken(c) /\ answer[c].result = "Ahead"
  /\ FrameDone(c, conn[c].cursor)
  /\ UNCHANGED <<have, told>>

(* The peer goes away, seen when reading or when sending, or its frame is  *)
(* over a limit or malformed.                                              *)
PeerGone(c) ==
  /\ \/ conn[c].pc \in {"open", "frame"} /\ UNCHANGED answer
     \/ conn[c].pc = "poll" /\ Taken(c)
  /\ Close(c, queue)
  /\ UNCHANGED <<authority, have, told>>

Closed(c) ==
  /\ conn[c].pc = "close" /\ Taken(c)
  /\ Hangup(c)
  /\ UNCHANGED <<queue, authority, outstanding, have, told>>

(* recv_timeout: until the handshake is answered no guard exists, and the  *)
(* guard's own request is not repeated; any other request leaves the guard *)
(* to disconnect.                                                          *)
Timeout(c) ==
  /\ answer[c] = NoAnswer
  /\ \/ /\ conn[c].pc \in {"attach", "close"}
        /\ queue' = Abandoned(c) /\ complete_command(c) /\ Hangup(c)
     \/ conn[c].pc \in {"control", "advance", "poll"} /\ Close(c, Abandoned(c))
  /\ UNCHANGED <<authority, answer, have, told>>

-----------------------------------------------------------------------------
(* The worker *)

Reply(cmd, a) ==
  answer' = IF cmd.waiting THEN [answer EXCEPT ![cmd.conn] = a] ELSE answer

Failed(e) == [result |-> e]

(* WorkerState::attach refuses a client that is attached already and one   *)
(* more than the table holds.                                              *)
RefusedWhenFull(k) == Cardinality(attached) >= MaxClients
AttachRefused(k) == k \in attached \/ Cardinality(attached) >= MaxClients

(* The first client to attach gets the control lease, and keeps it when it *)
(* disconnects.                                                            *)
LeaseAfterAttach(k) == IF owner = NoClient THEN k ELSE owner
LeaseReleased(k) == IF owner = k THEN NoClient ELSE owner
LeaseAfterDisconnect(k) == owner

HandleAttach(cmd) ==
  /\ cmd.kind = "Attach"
  /\ IF AttachRefused(cmd.client)
     THEN /\ Reply(cmd, Failed("ClientAlreadyAttached"))
          /\ UNCHANGED <<attached, owner>>
     ELSE /\ attached' = attached \cup {cmd.client}
          /\ owner' = LeaseAfterAttach(cmd.client)
          /\ Reply(cmd, [result |-> "ok", controlling |-> owner' = cmd.client])
  /\ UNCHANGED <<next, running>>

HandleDisconnect(cmd) ==
  /\ cmd.kind = "Disconnect"
  /\ attached' = attached \ {cmd.client}
  /\ owner' = LeaseAfterDisconnect(cmd.client)
  /\ Reply(cmd, IF cmd.client \in attached THEN [result |-> "ok"] ELSE Failed("Client"))
  /\ UNCHANGED <<next, running>>

(* RetainedStream::read *)
ReadClamped(cursor) ==
  LET from == IF cursor < oldest THEN oldest ELSE cursor
  IN [result |-> "ok", from |-> from, upto |-> Lesser(from + PollLimit, next)]

read(cursor) ==
  IF cursor < oldest THEN [result |-> "ResyncRequired", oldest |-> oldest]
  ELSE IF cursor > next THEN Failed("Ahead")
  ELSE [result |-> "ok", from |-> cursor, upto |-> Lesser(cursor + PollLimit, next)]

HandlePoll(cmd) ==
  /\ cmd.kind = "Poll"
  /\ Reply(cmd, IF cmd.client \in attached THEN read(cmd.cursor) ELSE Failed("Client"))
  /\ UNCHANGED <<attached, owner, next, running>>

(* RetainedStream::push: one record more; the oldest may go.               *)
publish == next' = next + 1

Controls(k) == k \in attached /\ owner = k

(* The authority may refuse; otherwise it may publish and may start or     *)
(* stop running.                                                           *)
HandleControl(cmd) ==
  /\ cmd.kind = "Control"
  /\ \/ /\ Controls(cmd.client)
        /\ Reply(cmd, [result |-> "ok"])
        /\ UNCHANGED next \/ (next <= MaxPublished /\ publish)
        /\ running' \in BOOLEAN
     \/ /\ Reply(cmd, Failed("Refused"))
        /\ UNCHANGED <<next, running>>
  /\ UNCHANGED <<attached, owner>>

Handle ==
  /\ queue # <<>>
  /\ queue' = Tail(queue)
  /\ LET cmd == Head(queue)
     IN HandleAttach(cmd) \/ HandleDisconnect(cmd) \/ HandlePoll(cmd) \/ HandleControl(cmd)
  /\ UNCHANGED <<admission, conn, have, told>>

(* receive_with_pacing timed out: the authority advances by itself, and    *)
(* may come to where an operator action is awaited.                        *)
PacedWhileAttached == queue = <<>> /\ running /\ attached # {}
Paced == queue = <<>> /\ running

Pace ==
  /\ Paced
  /\ next <= MaxPublished
  /\ publish
  /\ running' \in BOOLEAN
  /\ UNCHANGED <<queue, attached, owner, admission, conn, answer, have, told>>

Connection(c) ==
  \/ Accept(c) \/ Refuse(c) \/ \E k \in Clients : Connect(c, k)
  \/ Attached(c) \/ ReadFrame(c) \/ Control(c) \/ Replay(c) \/ ControlDone(c)
  \/ PollDue(c) \/ Published(c) \/ ResyncReported(c) \/ AheadReported(c)
  \/ PeerGone(c) \/ Closed(c) \/ Timeout(c)

Next == Handle \/ Pace \/ \E c \in Connections : Connection(c)

Spec == Init /\ [][Next]_vars

(* The worker thread runs, and its wait times out when nothing arrives.    *)
FairSpec == Spec /\ WF_vars(Handle) /\ WF_vars(Pace)

-----------------------------------------------------------------------------

Serving(c) == conn[c].pc \in {"due", "poll", "open", "frame", "control", "advance"}

(* A connection past its handshake is served: its client is attached, and  *)
(* no other connection serves the same client, whatever requests timed out *)
(* or were lost before.                                                    *)
ServedIsAttached ==
  \A c \in Connections : Serving(c) =>
    /\ conn[c].client \in attached
    /\ \A d \in Connections \ {c} : Serving(d) => conn[d].client # conn[c].client

(* session-broker/README.md: at most one controlling client lease.  A      *)
(* connection that was told it controls is the lease owner's, and the only *)
(* such connection being served.                                           *)
SoleController ==
  /\ \A c \in Connections : conn[c].controlling => conn[c].client = owner
  /\ \A c, d \in Connections : conn[c].controlling /\ conn[d].controlling /\ Serving(c) /\ Serving(d)
                               => c = d

(* However connections end, refused, timed out, failing in the middle of a *)
(* frame or closed, the admission counters show what is there: a slot for  *)
(* every live connection and a count for every frame being worked on, so   *)
(* that none is lost for later ones.  The publication that follows the     *)
(* handshake belongs to no frame.                                          *)
AdmissionIsReturned ==
  LET In(pcs) == Cardinality({c \in Connections : conn[c].pc \in pcs})
      working == {"attach", "frame", "control", "advance"}
  IN /\ admitted = {c \in Connections : conn[c].pc # "idle"}
     /\ outstanding \in In(working) .. In(working \cup {"due", "poll"})

(* Records reach a client in order and without a gap, over any number of   *)
(* reconnections, unless a resync notice announced the gap.                *)
NoSilentGap ==
  [][\A c \in Connections :
       have' # have /\ conn[c].pc = "poll" /\ conn'[c].pc = "open" /\ answer[c].result = "ok"
       => answer[c].from <= have[conn[c].client] \/ told[conn[c].client] # 0]_vars

(* session-broker/README.md: "Presentation disconnect never pauses the     *)
(* authority."  Left running, it runs to its end though every connection   *)
(* is gone.                                                                *)
DisconnectDoesNotPause ==
  (<>[](running /\ \A c \in Connections : conn[c].pc = "idle")) => <>(next > MaxPublished)
=============================================================================
