------------------------ MODULE SessionBrokerProofs ------------------------
(***************************************************************************)
(* Four guarantees of the session broker for any number of connections and *)
(* clients and every capacity.  The difficulty they share is the request   *)
(* that outlives its connection: BrokerInv says what may still be in the   *)
(* queue, from whom, and what it can do when the worker gets to it.        *)
(***************************************************************************)
EXTENDS SessionBroker, FiniteSetTheorems, TLAPS

Kinds == {"Attach", "Disconnect", "Control", "Poll"}

(* Where a connection is while it waits for the answer to a request.       *)
WaitingAt(kind) ==
  CASE kind = "Attach"     -> {"attach"}
    [] kind = "Disconnect" -> {"close"}
    [] kind = "Control"    -> {"control", "advance"}
    [] kind = "Poll"       -> {"poll"}
Waiting == {"attach", "close", "control", "advance", "poll"}
Serves == {"due", "poll", "open", "frame", "control", "advance"}
Works == {"attach", "frame", "control", "advance"}
Nameless == {"idle", "admitted"}
Pcs == Nameless \cup Waiting \cup Serves

Positions == 1 .. MaxPublished + 1   \* a next_sequence or retained cursor
Cursors == 1 .. Beyond
Requests == [kind : Kinds, conn : Connections, client : Clients, cursor : Cursors,
             waiting : BOOLEAN]
ConnStates == [pc : Pcs, client : Clients \cup {NoClient}, cursor : Cursors,
               controlling : BOOLEAN, busy : BOOLEAN]

ShapeInv ==
  /\ queue \in Seq(Requests)
  /\ attached \subseteq Clients
  /\ next \in Positions
  /\ conn \in [Connections -> ConnStates]
  /\ \A c \in Connections : conn[c].pc \notin Nameless => conn[c].client \in Clients
  /\ DOMAIN answer = Connections
  /\ have \in [Clients -> Positions] /\ told \in [Clients -> Positions \cup {0}]

(* A request that is waited for belongs to a connection that waits for it  *)
(* and for nothing else; every other request in the queue was abandoned.   *)
ReplyInv ==
  /\ \A i \in 1 .. Len(queue) : queue[i].waiting =>
       /\ conn[queue[i].conn].pc \in WaitingAt(queue[i].kind)
       /\ queue[i].client = conn[queue[i].conn].client
       /\ queue[i].kind # "Disconnect" => queue[i].cursor = conn[queue[i].conn].cursor
       /\ answer[queue[i].conn] = NoAnswer
  /\ \A i, j \in 1 .. Len(queue) :
       queue[i].waiting /\ queue[j].waiting /\ queue[i].conn = queue[j].conn => i = j
  /\ \A c \in Connections : answer[c] # NoAnswer => conn[c].pc \in Waiting

(* What an answer says is still true when it is read.                      *)
AnswerInv ==
  \A c \in Connections :
    /\ conn[c].pc = "attach" /\ answer[c].result = "ok" =>
         answer[c].controlling \in BOOLEAN /\ (answer[c].controlling => owner = conn[c].client)
    /\ conn[c].pc = "poll" /\ answer[c].result = "ok" =>
         /\ answer[c].from = conn[c].cursor /\ conn[c].cursor < Beyond
         /\ answer[c].upto \in Positions
    /\ conn[c].pc = "poll" /\ answer[c].result = "ResyncRequired" => answer[c].oldest \in Positions

(* An attachment has at most one holder: a connection that serves the      *)
(* client or is about to, or the one request that will end it.             *)
Holds(c) == conn[c].pc \in Serves \/ (conn[c].pc = "attach" /\ answer[c].result = "ok")

HolderInv ==
  /\ \A c \in Connections : Holds(c) => conn[c].client \in attached
  /\ \A c, d \in Connections : Holds(c) /\ Holds(d) /\ conn[c].client = conn[d].client => c = d
  /\ \A i \in 1 .. Len(queue) : queue[i].kind = "Disconnect" =>
       /\ queue[i].client \in attached
       /\ \A c \in Connections : Holds(c) => conn[c].client # queue[i].client
  /\ \A i, j \in 1 .. Len(queue) :
       queue[i].kind = "Disconnect" /\ queue[j].kind = "Disconnect"
       /\ queue[i].client = queue[j].client => i = j

LeaseInv ==
  /\ owner \in Clients \cup {NoClient}
  /\ \A c \in Connections : conn[c].controlling => conn[c].client = owner /\ owner # NoClient

(* An attach request that will be refused: its client is attached and no   *)
(* request before it ends that.                                            *)
Doomed(i) ==
  /\ queue[i].client \in attached
  /\ \A j \in 1 .. i - 1 : queue[j].kind = "Disconnect" => queue[j].client # queue[i].client

(* A connection that serves a client, or will, reads on from what the      *)
(* client has, from nowhere, or after a notice.                            *)
CursorInv ==
  /\ \A c \in Connections : Holds(c) =>
       conn[c].cursor \in {have[conn[c].client], Beyond} \/ told[conn[c].client] # 0
  /\ \A i \in 1 .. Len(queue) : queue[i].kind = "Attach" /\ queue[i].waiting =>
       queue[i].cursor = have[queue[i].client] \/ Doomed(i)

(* The admission counters, exactly.                                        *)
Busy == {c \in Connections : conn[c].busy}

AdmissionInv ==
  /\ admitted = {c \in Connections : conn[c].pc # "idle"} /\ IsFiniteSet(admitted)
  /\ outstanding = Cardinality(Busy)
  /\ \A c \in Connections :
       /\ conn[c].pc \in Works => conn[c].busy
       /\ conn[c].busy => conn[c].pc \in Works \cup {"due", "poll"}

BrokerInv ==
  ShapeInv /\ ReplyInv /\ AnswerInv /\ HolderInv /\ LeaseInv /\ CursorInv /\ AdmissionInv

-----------------------------------------------------------------------------
(* Publication numbers and cursors are natural numbers.                    *)
LEMMA BoundsAreTyped ==
  /\ Beyond \in Nat /\ MaxPublished \in Nat /\ Positions \subseteq Cursors
  /\ Positions \subseteq Nat /\ Cursors \subseteq Nat
  BY BrokerAssumption DEF Beyond, Positions, Cursors

(* An empty reply channel holds no result.                                 *)
LEMMA NoAnswerIsNone == NoAnswer.result = "none"
  BY DEF NoAnswer

(* The requests of the queue.                                              *)
LEMMA QueueIsTyped ==
  ASSUME ShapeInv
  PROVE  /\ Len(queue) \in Nat
         /\ \A i \in 1 .. Len(queue) :
              /\ queue[i] \in Requests /\ queue[i].conn \in Connections
              /\ queue[i].client \in Clients /\ queue[i].kind \in Kinds
<1>1. Len(queue) \in Nat /\ \A i \in 1 .. Len(queue) : queue[i] \in Requests
  BY DEF ShapeInv
<1>2. \A r \in Requests : r.conn \in Connections /\ r.client \in Clients /\ r.kind \in Kinds
  BY DEF Requests
<1> QED
  BY <1>1, <1>2

(* What connection c has asked and given up on: q is the queue without any *)
(* request that c still waits for.                                         *)
Withdrawn(c, q) ==
  /\ q \in Seq(Requests) /\ Len(q) = Len(queue)
  /\ \A i \in 1 .. Len(queue) :
       /\ q[i].kind = queue[i].kind /\ q[i].conn = queue[i].conn
       /\ q[i].client = queue[i].client /\ q[i].cursor = queue[i].cursor
       /\ q[i].waiting => queue[i].waiting /\ q[i].conn # c

(* What every step of a connection has in common: it withdraws from what   *)
(* it waited for, and goes on without waiting or with one new request.     *)
Turn(c, q) ==
  /\ Withdrawn(c, q)
  /\ UNCHANGED authority
  /\ conn' = [conn EXCEPT ![c] = conn'[c]] /\ conn'[c] \in ConnStates
  /\ conn'[c].pc \notin Nameless => conn'[c].client \in Clients
  /\ DOMAIN answer' = Connections
  /\ \A d \in Connections : answer'[d] = IF d = c THEN NoAnswer ELSE answer[d]
  /\ \/ queue' = q /\ conn'[c].pc \notin Waiting
     \/ \E kind \in Kinds, cursor \in Cursors :
          /\ queue' = Append(q, Command(kind, c, conn'[c].client, cursor))
          /\ conn'[c].pc \in WaitingAt(kind)
          /\ kind # "Disconnect" => cursor = conn'[c].cursor
          /\ kind = "Disconnect" => Holds(c) /\ conn'[c].client = conn[c].client
          /\ kind = "Attach" => cursor = have'[conn'[c].client]
  /\ conn'[c].pc \in Serves => Holds(c) /\ conn'[c].client = conn[c].client
  /\ conn'[c].controlling => conn'[c].client = owner /\ owner # NoClient
  /\ have' \in [Clients -> Positions] /\ told' \in [Clients -> Positions \cup {0}]
  /\ \A k \in Clients : have'[k] # have[k] \/ told'[k] # told[k] => Holds(c) /\ k = conn[c].client
  /\ conn'[c].pc \in Serves =>
       conn'[c].cursor \in {have'[conn'[c].client], Beyond} \/ told'[conn'[c].client] # 0

(* The queue after a turn, request by request.                             *)
LEMMA TurnQueue ==
  ASSUME ShapeInv, NEW c \in Connections, NEW q, Turn(c, q)
  PROVE  /\ queue' \in Seq(Requests)
         /\ Len(queue') \in {Len(queue), Len(queue) + 1} /\ Len(queue) \in Nat
         /\ \A i \in 1 .. Len(queue) :
              /\ queue'[i].kind = queue[i].kind /\ queue'[i].conn = queue[i].conn
              /\ queue'[i].client = queue[i].client /\ queue'[i].cursor = queue[i].cursor
              /\ queue'[i].waiting => queue[i].waiting /\ queue'[i].conn # c
         /\ Len(queue') = Len(queue) => conn'[c].pc \notin Waiting
         /\ Len(queue') = Len(queue) + 1 =>
              LET e == queue'[Len(queue')]
              IN /\ e \in Requests /\ e.conn = c /\ e.client = conn'[c].client
                 /\ conn'[c].pc \in WaitingAt(e.kind)
                 /\ e.kind # "Disconnect" => e.cursor = conn'[c].cursor
                 /\ e.kind = "Disconnect" => Holds(c) /\ conn'[c].client = conn[c].client
                 /\ e.kind = "Attach" => e.cursor = have'[conn'[c].client]
<1>1. /\ q \in Seq(Requests) /\ Len(q) = Len(queue) /\ Len(queue) \in Nat
      /\ \A i \in 1 .. Len(queue) :
           /\ q[i].kind = queue[i].kind /\ q[i].conn = queue[i].conn
           /\ q[i].client = queue[i].client /\ q[i].cursor = queue[i].cursor
           /\ q[i].waiting => queue[i].waiting /\ q[i].conn # c
  BY DEF Turn, Withdrawn, ShapeInv
<1>2. CASE queue' = q /\ conn'[c].pc \notin Waiting
  BY <1>1, <1>2
<1>3. ASSUME NEW kind \in Kinds, NEW cursor \in Cursors,
             queue' = Append(q, Command(kind, c, conn'[c].client, cursor)),
             conn'[c].pc \in WaitingAt(kind),
             kind # "Disconnect" => cursor = conn'[c].cursor,
             kind = "Disconnect" => Holds(c) /\ conn'[c].client = conn[c].client,
             kind = "Attach" => cursor = have'[conn'[c].client]
      PROVE  /\ queue' \in Seq(Requests)
             /\ Len(queue') = Len(queue) + 1
             /\ \A i \in 1 .. Len(queue) : queue'[i] = q[i]
             /\ queue'[Len(queue')] = Command(kind, c, conn'[c].client, cursor)
             /\ Command(kind, c, conn'[c].client, cursor) \in Requests
  <2>1. conn'[c].client \in Clients
    BY <1>3 DEF Turn, WaitingAt, Kinds, Nameless
  <2>2. Command(kind, c, conn'[c].client, cursor) \in Requests
    BY <2>1 DEF Command, Requests
  <2> QED
    BY <1>1, <1>3, <2>2
<1>4. CASE \E kind \in Kinds, cursor \in Cursors :
             /\ queue' = Append(q, Command(kind, c, conn'[c].client, cursor))
             /\ conn'[c].pc \in WaitingAt(kind)
             /\ kind # "Disconnect" => cursor = conn'[c].cursor
             /\ kind = "Disconnect" => Holds(c) /\ conn'[c].client = conn[c].client
             /\ kind = "Attach" => cursor = have'[conn'[c].client]
  <2>1. PICK kind \in Kinds, cursor \in Cursors :
             /\ queue' = Append(q, Command(kind, c, conn'[c].client, cursor))
             /\ conn'[c].pc \in WaitingAt(kind)
             /\ kind # "Disconnect" => cursor = conn'[c].cursor
             /\ kind = "Disconnect" => Holds(c) /\ conn'[c].client = conn[c].client
             /\ kind = "Attach" => cursor = have'[conn'[c].client]
    BY <1>4
  <2>2. /\ queue' \in Seq(Requests)
        /\ Len(queue') = Len(queue) + 1
        /\ \A i \in 1 .. Len(queue) : queue'[i] = q[i]
        /\ queue'[Len(queue')] = Command(kind, c, conn'[c].client, cursor)
        /\ Command(kind, c, conn'[c].client, cursor) \in Requests
    BY <1>3, <2>1
  <2> QED
    BY <1>1, <2>1, <2>2 DEF Command
<1> QED
  BY <1>2, <1>4 DEF Turn

(* The connections after a turn.                                           *)
LEMMA TurnConns ==
  ASSUME ShapeInv, NEW c \in Connections, NEW q, Turn(c, q)
  PROVE  /\ conn' \in [Connections -> ConnStates]
         /\ \A d \in Connections \ {c} : conn'[d] = conn[d] /\ answer'[d] = answer[d]
         /\ answer'[c] = NoAnswer
         /\ \A d \in Connections \ {c} : Holds(d)' <=> Holds(d)
         /\ Holds(c)' <=> conn'[c].pc \in Serves
<1>1. conn' \in [Connections -> ConnStates]
  BY DEF Turn, ShapeInv
<1>2. \A d \in Connections \ {c} : conn'[d] = conn[d] /\ answer'[d] = answer[d]
  BY DEF Turn, ShapeInv
<1>3. answer'[c] = NoAnswer
  BY DEF Turn
<1>4. \A d \in Connections \ {c} : Holds(d)' <=> Holds(d)
  BY <1>2 DEF Holds
<1>5. Holds(c)' <=> conn'[c].pc \in Serves
  BY <1>3, NoAnswerIsNone DEF Holds
<1> QED
  BY <1>1, <1>2, <1>3, <1>4, <1>5

(* A turn of one connection keeps the shape of the state,                  *)
LEMMA TurnShape ==
  ASSUME ShapeInv, NEW c \in Connections, NEW q, Turn(c, q)
  PROVE  ShapeInv'
<1>1. queue' \in Seq(Requests)
  BY TurnQueue
<1>2. /\ conn' \in [Connections -> ConnStates]
      /\ \A d \in Connections : conn'[d].pc \notin Nameless => conn'[d].client \in Clients
  BY TurnConns DEF ShapeInv, Turn
<1> QED
  BY <1>1, <1>2 DEF ShapeInv, Turn, authority

(* the match of requests and reply channels,                               *)
LEMMA TurnReply ==
  ASSUME ShapeInv, ReplyInv, NEW c \in Connections, NEW q, Turn(c, q)
  PROVE  ReplyInv'
<1>1. \A d \in Connections : answer'[d] # NoAnswer => conn'[d].pc \in Waiting
  BY TurnConns DEF ReplyInv
<1>2. \A i \in 1 .. Len(queue) : queue[i].conn \in Connections
  BY QueueIsTyped
<1>3. ASSUME NEW i \in 1 .. Len(queue), queue'[i].waiting
      PROVE  /\ queue'[i].conn # c /\ queue[i].waiting
             /\ conn'[queue'[i].conn].pc \in WaitingAt(queue'[i].kind)
             /\ queue'[i].client = conn'[queue'[i].conn].client
             /\ queue'[i].kind # "Disconnect" => queue'[i].cursor = conn'[queue'[i].conn].cursor
             /\ answer'[queue'[i].conn] = NoAnswer
  BY <1>2, <1>3, TurnQueue, TurnConns DEF ReplyInv
<1>4. CASE Len(queue') = Len(queue)
  BY <1>1, <1>3, <1>4, TurnQueue DEF ReplyInv
<1>5. CASE Len(queue') = Len(queue) + 1
  <2> DEFINE n == Len(queue')
  <2>1. /\ queue'[n].conn = c /\ queue'[n].client = conn'[c].client
        /\ conn'[c].pc \in WaitingAt(queue'[n].kind)
        /\ queue'[n].kind # "Disconnect" => queue'[n].cursor = conn'[c].cursor
        /\ answer'[c] = NoAnswer
    BY <1>5, TurnQueue, TurnConns
  <2>2. \A i \in 1 .. n : i \in 1 .. Len(queue) \/ i = n
    BY <1>5, TurnQueue
  <2>3. \A i \in 1 .. n : queue'[i].waiting =>
          /\ conn'[queue'[i].conn].pc \in WaitingAt(queue'[i].kind)
          /\ queue'[i].client = conn'[queue'[i].conn].client
          /\ queue'[i].kind # "Disconnect" => queue'[i].cursor = conn'[queue'[i].conn].cursor
          /\ answer'[queue'[i].conn] = NoAnswer
    BY <1>3, <2>1, <2>2
  <2>4. ASSUME NEW i \in 1 .. n, NEW j \in 1 .. n,
               queue'[i].waiting, queue'[j].waiting, queue'[i].conn = queue'[j].conn
        PROVE  i = j
    <3>1. CASE i \in 1 .. Len(queue) /\ j \in 1 .. Len(queue)
      BY <1>3, <2>4, <3>1, TurnQueue DEF ReplyInv
    <3>2. CASE i = n \/ j = n
      BY <1>3, <2>1, <2>2, <2>4, <3>2
    <3> QED
      BY <2>2, <3>1, <3>2
  <2> QED
    BY <1>1, <2>3, <2>4 DEF ReplyInv
<1> QED
  BY <1>4, <1>5, TurnQueue

(* the truth of the answers under way,                                     *)
LEMMA TurnAnswer ==
  ASSUME ShapeInv, AnswerInv, NEW c \in Connections, NEW q, Turn(c, q)
  PROVE  AnswerInv'
<1>1. owner' = owner
  BY DEF Turn, authority
<1> QED
  BY <1>1, TurnConns, NoAnswerIsNone DEF AnswerInv

(* the holders of attachments                                              *)
LEMMA TurnHolder ==
  ASSUME ShapeInv, HolderInv, NEW c \in Connections, NEW q, Turn(c, q)
  PROVE  HolderInv'
<1>1. attached' = attached
  BY DEF Turn, authority
<1>2. \A d \in Connections : Holds(d)' => Holds(d) /\ conn'[d].client = conn[d].client
  BY TurnConns DEF Turn
<1>3. \A d \in Connections : Holds(d)' => conn'[d].client \in attached'
  BY <1>1, <1>2 DEF HolderInv
<1>4. \A d, e \in Connections : Holds(d)' /\ Holds(e)' /\ conn'[d].client = conn'[e].client => d = e
  BY <1>2 DEF HolderInv
<1>5. ASSUME NEW i \in 1 .. Len(queue), queue'[i].kind = "Disconnect"
      PROVE  /\ queue[i].kind = "Disconnect" /\ queue'[i].client = queue[i].client
             /\ queue'[i].client \in attached'
             /\ \A d \in Connections : Holds(d)' => conn'[d].client # queue'[i].client
  BY <1>1, <1>2, <1>5, TurnQueue DEF HolderInv
<1>6. CASE Len(queue') = Len(queue)
  BY <1>3, <1>4, <1>5, <1>6 DEF HolderInv
<1>7. CASE Len(queue') = Len(queue) + 1
  <2> DEFINE n == Len(queue')
  <2>1. \A i \in 1 .. n : i \in 1 .. Len(queue) \/ i = n
    BY <1>7, TurnQueue
  <2>2. queue'[n].kind = "Disconnect" =>
          /\ Holds(c) /\ queue'[n].client = conn[c].client /\ ~Holds(c)'
    <3>1. queue'[n].kind = "Disconnect" =>
            /\ Holds(c) /\ queue'[n].client = conn[c].client /\ conn'[c].pc = "close"
      BY <1>7, TurnQueue DEF WaitingAt
    <3> QED
      BY <3>1, TurnConns DEF Serves
  <2>3. queue'[n].kind = "Disconnect" =>
          /\ queue'[n].client \in attached'
          /\ \A d \in Connections : Holds(d)' => conn'[d].client # queue'[n].client
          /\ \A i \in 1 .. Len(queue) : queue'[i].kind = "Disconnect" =>
               queue'[i].client # queue'[n].client
    BY <1>1, <1>2, <1>5, <2>2 DEF HolderInv
  <2> HIDE DEF n
  <2>4. \A i \in 1 .. n : queue'[i].kind = "Disconnect" =>
          /\ queue'[i].client \in attached'
          /\ \A d \in Connections : Holds(d)' => conn'[d].client # queue'[i].client
    BY <1>5, <2>1, <2>3
  <2>5. \A i, j \in 1 .. n :
          queue'[i].kind = "Disconnect" /\ queue'[j].kind = "Disconnect"
          /\ queue'[i].client = queue'[j].client => i = j
    BY <1>5, <2>1, <2>3 DEF HolderInv
  <2> QED
    BY <1>3, <1>4, <2>4, <2>5 DEF HolderInv, n
<1> QED
  BY <1>6, <1>7, TurnQueue

(* and the holder of the control lease.                                    *)
LEMMA TurnLease ==
  ASSUME ShapeInv, LeaseInv, NEW c \in Connections, NEW q, Turn(c, q)
  PROVE  LeaseInv'
<1>1. owner' = owner
  BY DEF Turn, authority
<1>2. \A d \in Connections : conn'[d].controlling => conn'[d].client = owner /\ owner # NoClient
  BY TurnConns DEF LeaseInv, Turn
<1> QED
  BY <1>1, <1>2 DEF LeaseInv

(* What a client has changes only at the turn of the connection that       *)
(* serves it, and then every attach request for that client is doomed.     *)
LEMMA TurnCursor ==
  ASSUME ShapeInv, HolderInv, CursorInv, NEW c \in Connections, NEW q, Turn(c, q)
  PROVE  CursorInv'
<1>1. attached' = attached
  BY DEF Turn, authority
<1>2. \A d \in Connections : Holds(d) => conn[d].client \in Clients
  BY DEF HolderInv, ShapeInv
<1>3. \A k \in Clients : have'[k] # have[k] \/ told'[k] # told[k] => Holds(c) /\ k = conn[c].client
  BY DEF Turn
<1>4. ASSUME NEW d \in Connections, Holds(d)'
      PROVE  conn'[d].cursor \in {have'[conn'[d].client], Beyond} \/ told'[conn'[d].client] # 0
  <2>1. CASE d = c
    BY <1>4, <2>1, TurnConns DEF Turn
  <2>2. CASE d # c
    <3>1. Holds(d) /\ conn'[d] = conn[d]
      BY <1>4, <2>2, TurnConns
    <3>2. have'[conn[d].client] = have[conn[d].client] /\ told'[conn[d].client] = told[conn[d].client]
      BY <1>2, <1>3, <2>2, <3>1 DEF HolderInv
    <3> QED
      BY <3>1, <3>2 DEF CursorInv
  <2> QED
    BY <2>1, <2>2
<1>5. ASSUME NEW i \in 1 .. Len(queue), queue'[i].kind = "Attach", queue'[i].waiting
      PROVE  queue'[i].cursor = have'[queue'[i].client] \/ Doomed(i)'
  <2>1. /\ queue[i].kind = "Attach" /\ queue[i].waiting
        /\ queue'[i].cursor = queue[i].cursor /\ queue'[i].client = queue[i].client
        /\ queue[i].client \in Clients
    BY <1>5, TurnQueue, QueueIsTyped
  <2>2. Doomed(i) => Doomed(i)'
    BY <1>1, TurnQueue DEF Doomed
  <2>3. CASE have'[queue[i].client] = have[queue[i].client]
    BY <2>1, <2>2, <2>3 DEF CursorInv
  <2>4. CASE have'[queue[i].client] # have[queue[i].client]
    <3>1. Holds(c) /\ queue[i].client = conn[c].client
      BY <1>3, <2>1, <2>4
    <3>2. Doomed(i)
      BY <3>1, TurnQueue DEF Doomed, HolderInv
    <3> QED
      BY <2>2, <3>2
  <2> QED
    BY <2>3, <2>4
<1>6. CASE Len(queue') = Len(queue)
  BY <1>4, <1>5, <1>6 DEF CursorInv
<1>7. CASE Len(queue') = Len(queue) + 1
  <2> DEFINE n == Len(queue')
  <2>1. \A i \in 1 .. n : i \in 1 .. Len(queue) \/ i = n
    BY <1>7, TurnQueue
  <2>2. queue'[n].kind = "Attach" => queue'[n].cursor = have'[queue'[n].client]
    BY <1>7, TurnQueue
  <2> QED
    BY <1>4, <1>5, <2>1, <2>2 DEF CursorInv
<1> QED
  BY <1>6, <1>7, TurnQueue

-----------------------------------------------------------------------------
(* How a turn is counted by the admission controller.                      *)
Counted(c) ==
  /\ admitted' = IF conn'[c].pc = "idle" THEN admitted \ {c} ELSE admitted \cup {c}
  /\ outstanding' = IF conn'[c].busy /\ ~conn[c].busy THEN outstanding + 1
                    ELSE IF conn[c].busy /\ ~conn'[c].busy THEN outstanding - 1
                    ELSE outstanding
  /\ conn'[c].pc \in Works => conn'[c].busy
  /\ conn'[c].busy => conn'[c].pc \in Works \cup {"due", "poll"}

(* The frames being worked on are finitely many and there is a count for   *)
(* each of them.                                                           *)
LEMMA BusyIsFinite ==
  ASSUME AdmissionInv
  PROVE  /\ IsFiniteSet(Busy) /\ outstanding \in Nat
         /\ \A c \in Connections : conn[c].busy => outstanding > 0
<1>1. Busy \subseteq admitted
  BY DEF AdmissionInv, Busy, Works
<1>2. IsFiniteSet(Busy)
  BY <1>1, FS_Subset DEF AdmissionInv
<1>3. outstanding \in Nat
  BY <1>2, FS_CardinalityType DEF AdmissionInv
<1>4. ASSUME NEW c \in Connections, conn[c].busy
      PROVE  outstanding > 0
  <2>1. Busy # {}
    BY <1>4 DEF Busy
  <2> QED
    BY <1>2, <1>3, <2>1, FS_EmptySet DEF AdmissionInv
<1> QED
  BY <1>2, <1>3, <1>4

(* A turn that counts its own command keeps the admission count.           *)
LEMMA CountedInv ==
  ASSUME ShapeInv, AdmissionInv, NEW c \in Connections,
         conn' = [conn EXCEPT ![c] = conn'[c]], conn'[c] \in ConnStates, Counted(c)
  PROVE  AdmissionInv'
<1>1. \A d \in Connections \ {c} : conn'[d] = conn[d]
  BY DEF ShapeInv
<1>2. conn[c].busy \in BOOLEAN /\ conn'[c].busy \in BOOLEAN
  BY DEF ShapeInv, ConnStates
<1>3. admitted' = {d \in Connections : conn'[d].pc # "idle"}
  BY <1>1 DEF AdmissionInv, Counted
<1>4. IsFiniteSet(admitted')
  BY FS_AddElement, FS_RemoveElement DEF AdmissionInv, Counted
<1>5. \A d \in Connections : /\ conn'[d].pc \in Works => conn'[d].busy
                             /\ conn'[d].busy => conn'[d].pc \in Works \cup {"due", "poll"}
  BY <1>1 DEF AdmissionInv, Counted
<1>6. outstanding' = Cardinality(Busy')
  <2>1. IsFiniteSet(Busy) /\ outstanding = Cardinality(Busy)
    BY BusyIsFinite DEF AdmissionInv
  <2>2. CASE conn'[c].busy /\ ~conn[c].busy
    <3>1. Busy' = Busy \cup {c} /\ c \notin Busy
      BY <1>1, <2>2 DEF Busy
    <3> QED
      BY <2>1, <2>2, <3>1, FS_AddElement DEF Counted
  <2>3. CASE conn[c].busy /\ ~conn'[c].busy
    <3>1. Busy' = Busy \ {c} /\ c \in Busy
      BY <1>1, <2>3 DEF Busy
    <3> QED
      BY <2>1, <2>3, <3>1, FS_RemoveElement DEF Counted
  <2>4. CASE conn'[c].busy <=> conn[c].busy
    <3>1. Busy' = Busy
      BY <1>1, <2>4 DEF Busy
    <3>2. outstanding' = outstanding
      BY <2>4 DEF Counted
    <3> QED
      BY <2>1, <3>1, <3>2
  <2> QED
    BY <1>2, <2>2, <2>3, <2>4
<1> QED
  BY <1>3, <1>4, <1>5, <1>6 DEF AdmissionInv

(* A turn that is counted keeps the invariant.                             *)
LEMMA TurnInv ==
  ASSUME BrokerInv, NEW c \in Connections, NEW q, Turn(c, q), Counted(c)
  PROVE  BrokerInv'
<1>1. AdmissionInv'
  BY CountedInv DEF BrokerInv, Turn
<1> QED
  BY <1>1, TurnShape, TurnReply, TurnAnswer, TurnHolder, TurnLease, TurnCursor DEF BrokerInv

-----------------------------------------------------------------------------
(* The parts turns are made of.                                            *)
Answered(c) ==
  /\ DOMAIN answer' = Connections
  /\ \A d \in Connections : answer'[d] = IF d = c THEN NoAnswer ELSE answer[d]

(* A connection that took its answer has none left,                        *)
LEMMA AnswerIsTaken ==
  ASSUME ShapeInv, NEW c \in Connections, Taken(c)
  PROVE  Answered(c)
  BY DEF Taken, Answered, ShapeInv

(* and one that does not wait has none.                                    *)
LEMMA AnswerIsAbsent ==
  ASSUME ShapeInv, ReplyInv, NEW c \in Connections, UNCHANGED answer,
         answer[c] = NoAnswer \/ conn[c].pc \notin Waiting
  PROVE  Answered(c)
  BY DEF Answered, ShapeInv, ReplyInv

(* A connection that is not waiting has no request in the queue.           *)
LEMMA NothingToWithdraw ==
  ASSUME ShapeInv, ReplyInv, NEW c \in Connections,
         answer[c] # NoAnswer \/ conn[c].pc \notin Waiting
  PROVE  Withdrawn(c, queue)
<1>1. \A kind \in Kinds : WaitingAt(kind) \subseteq Waiting
  BY DEF Kinds, WaitingAt, Waiting
<1> QED
  BY <1>1, QueueIsTyped DEF Withdrawn, ReplyInv, ShapeInv

(* A timeout leaves no request of its connection that could be answered.   *)
LEMMA AbandonedIsWithdrawn ==
  ASSUME ShapeInv, NEW c \in Connections
  PROVE  Withdrawn(c, Abandoned(c))
<1>1. \A i \in 1 .. Len(queue) : Abandoned(c)[i] =
        IF queue[i].conn = c THEN [queue[i] EXCEPT !.waiting = FALSE] ELSE queue[i]
  BY DEF Abandoned
<1>2. \A r \in Requests : /\ [r EXCEPT !.waiting = FALSE] \in Requests
                          /\ [r EXCEPT !.waiting = FALSE].kind = r.kind
                          /\ [r EXCEPT !.waiting = FALSE].conn = r.conn
                          /\ [r EXCEPT !.waiting = FALSE].client = r.client
                          /\ [r EXCEPT !.waiting = FALSE].cursor = r.cursor
                          /\ [r EXCEPT !.waiting = FALSE].waiting = FALSE
  BY DEF Requests
<1>3. \A i \in 1 .. Len(queue) : Abandoned(c)[i] \in Requests
  BY <1>1, <1>2, QueueIsTyped
<1>4. Abandoned(c) \in Seq(Requests) /\ Len(Abandoned(c)) = Len(queue)
  BY <1>3, QueueIsTyped DEF Abandoned
<1> QED
  BY <1>1, <1>2, <1>4, QueueIsTyped DEF Withdrawn

(* complete_command returns the slot of a busy connection.                 *)
LEMMA CompleteCounts ==
  ASSUME ShapeInv, AdmissionInv, NEW c \in Connections, complete_command(c)
  PROVE  outstanding' = IF conn[c].busy THEN outstanding - 1 ELSE outstanding
  BY BusyIsFinite DEF complete_command

(* A connection that is not in use.                                        *)
LEMMA IdleIsTyped == Idle \in ConnStates /\ Idle.pc = "idle" /\ ~Idle.busy /\ ~Idle.controlling
  BY BoundsAreTyped, BrokerAssumption DEF Idle, ConnStates, Pcs, Nameless, Cursors, Beyond

(* A connection that ends without a request, its slot returned.            *)
LEMMA HangupTurn ==
  ASSUME BrokerInv, NEW c \in Connections, NEW q, Withdrawn(c, q), queue' = q, Answered(c),
         Hangup(c), UNCHANGED <<authority, have, told>>,
         outstanding' = IF conn[c].busy THEN outstanding - 1 ELSE outstanding
  PROVE  Turn(c, q) /\ Counted(c)
<1>1. conn' = [conn EXCEPT ![c] = Idle] /\ conn'[c] = Idle /\ admitted' = admitted \ {c}
  BY DEF Hangup, disconnect, BrokerInv, ShapeInv
<1>2. conn'[c].pc \notin Waiting \cup Serves /\ conn'[c].pc \in Nameless \ Works
  BY <1>1, IdleIsTyped DEF Waiting, Serves, Nameless, Works
<1>3. Counted(c)
  BY <1>1, <1>2, IdleIsTyped DEF Counted
<1>4. Turn(c, q)
  BY <1>1, <1>2, IdleIsTyped DEF Turn, Answered, BrokerInv, ShapeInv
<1> QED
  BY <1>3, <1>4

(* A connection that ends while it serves: with its disconnect request,    *)
(* or, the queue being full, without.                                      *)
LEMMA CloseTurn ==
  ASSUME BrokerInv, NEW c \in Connections, NEW q, Withdrawn(c, q), Answered(c),
         conn[c].pc \in Serves, Close(c, q), UNCHANGED <<authority, have, told>>
  PROVE  Turn(c, q) /\ Counted(c)
<1>1. outstanding' = IF conn[c].busy THEN outstanding - 1 ELSE outstanding
  BY CompleteCounts DEF Close, BrokerInv
<1>2. CASE ~Room(q)
  BY <1>1, <1>2, HangupTurn DEF Close
<1>3. CASE Room(q)
  <2>1. /\ queue' = Append(q, Command("Disconnect", c, conn[c].client, 1))
        /\ conn' = [conn EXCEPT ![c].pc = "close", ![c].busy = FALSE]
        /\ admitted' = admitted
    BY <1>3 DEF Close
  <2>2. conn[c] \in ConnStates /\ conn[c].client \in Clients
    BY DEF BrokerInv, ShapeInv, Serves, Nameless
  <2>3. conn' = [conn EXCEPT ![c] = [conn[c] EXCEPT !.pc = "close", !.busy = FALSE]]
    BY <2>1 DEF BrokerInv, ShapeInv
  <2>4. conn'[c] = [conn[c] EXCEPT !.pc = "close", !.busy = FALSE]
    BY <2>3 DEF BrokerInv, ShapeInv
  <2>5. /\ conn'[c] \in ConnStates /\ conn'[c].pc = "close" /\ conn'[c].busy = FALSE
        /\ conn'[c].client = conn[c].client /\ conn'[c].controlling = conn[c].controlling
    BY <2>2, <2>4 DEF ConnStates, Pcs, Waiting
  <2>6. conn' = [conn EXCEPT ![c] = conn'[c]]
    BY <2>3, <2>4
  <2>7. Holds(c)
    BY DEF Holds
  <2>8. c \in admitted
    BY DEF BrokerInv, AdmissionInv, Serves
  <2>9. Counted(c)
    BY <1>1, <2>1, <2>5, <2>8 DEF Counted, Works
  <2>10. 1 \in Cursors /\ "Disconnect" \in Kinds
    BY BrokerAssumption DEF Cursors, Beyond, Kinds
  <2>11. \E kind \in Kinds, cursor \in Cursors :
          /\ queue' = Append(q, Command(kind, c, conn'[c].client, cursor))
          /\ conn'[c].pc \in WaitingAt(kind)
          /\ kind # "Disconnect" => cursor = conn'[c].cursor
          /\ kind = "Disconnect" => Holds(c) /\ conn'[c].client = conn[c].client
          /\ kind = "Attach" => cursor = have'[conn'[c].client]
    BY <2>1, <2>5, <2>7, <2>10 DEF WaitingAt
  <2>12. Turn(c, q)
    BY <2>2, <2>5, <2>6, <2>11 DEF Turn, Answered, BrokerInv, ShapeInv, Serves, LeaseInv
  <2> QED
    BY <2>9, <2>12
<1> QED
  BY <1>2, <1>3

(* A step that leaves the connection serving, at another place and perhaps *)
(* another cursor, and asks for nothing.                                   *)
LEMMA ServingTurn ==
  ASSUME BrokerInv, NEW c \in Connections, Withdrawn(c, queue), queue' = queue, Answered(c),
         UNCHANGED <<authority, admitted>>, Holds(c),
         NEW s \in ConnStates, conn' = [conn EXCEPT ![c] = s],
         s.pc \in Serves \ Waiting, s.client = conn[c].client,
         s.controlling => s.client = owner /\ owner # NoClient,
         s.busy => s.pc \in {"due", "frame"}, s.pc = "frame" => s.busy,
         have' \in [Clients -> Positions], told' \in [Clients -> Positions \cup {0}],
         \A k \in Clients \ {s.client} : have'[k] = have[k] /\ told'[k] = told[k],
         s.cursor \in {have'[s.client], Beyond} \/ told'[s.client] # 0,
         outstanding' = IF s.busy /\ ~conn[c].busy THEN outstanding + 1
                        ELSE IF conn[c].busy /\ ~s.busy THEN outstanding - 1 ELSE outstanding
  PROVE  Turn(c, queue) /\ Counted(c)
<1>1. conn'[c] = s
  BY DEF BrokerInv, ShapeInv
<1>2. conn[c].client \in Clients
  BY DEF BrokerInv, ShapeInv, HolderInv
<1>3. c \in admitted /\ s.pc # "idle"
  BY DEF BrokerInv, AdmissionInv, Holds, Serves
<1>4. Counted(c)
  BY <1>1, <1>3 DEF Counted, Works, Serves, Waiting
<1>5. Turn(c, queue)
  BY <1>1, <1>2 DEF Turn, Answered
<1> QED
  BY <1>4, <1>5

(* A request of a connection that serves; the cursor it sends is its own.  *)
LEMMA AskTurn ==
  ASSUME BrokerInv, NEW c \in Connections, Withdrawn(c, queue), Answered(c),
         conn[c].pc \in Serves, NEW kind \in {"Control", "Poll"}, NEW pc \in WaitingAt(kind),
         kind = "Control" => conn[c].busy,
         Ask(c, kind, pc), UNCHANGED <<authority, have, told>>
  PROVE  Turn(c, queue) /\ Counted(c)
<1>1. CASE ~Room(queue)
  BY <1>1, CloseTurn DEF Ask
<1>2. CASE Room(queue)
  <2> DEFINE s == [conn[c] EXCEPT !.pc = pc]
  <2>1. /\ queue' = Append(queue, Command(kind, c, conn[c].client, conn[c].cursor))
        /\ conn' = [conn EXCEPT ![c] = s]
        /\ admitted' = admitted /\ outstanding' = outstanding
    BY <1>2 DEF Ask, admission, BrokerInv, ShapeInv
  <2>2. conn[c] \in ConnStates /\ conn[c].client \in Clients
    BY DEF BrokerInv, ShapeInv, Serves, Nameless
  <2>3. /\ kind \in Kinds /\ pc \in Waiting /\ pc \in Serves
        /\ pc \in Works \cup {"poll"} /\ (pc \in Works => kind = "Control")
    BY DEF Kinds, WaitingAt, Waiting, Serves, Works
  <2>4. /\ s \in ConnStates /\ s.pc = pc /\ s.client = conn[c].client /\ s.cursor = conn[c].cursor
        /\ s.controlling = conn[c].controlling /\ s.busy = conn[c].busy
    BY <2>2, <2>3 DEF ConnStates, Pcs
  <2> HIDE DEF s
  <2>5. conn'[c] = s
    BY <2>1 DEF BrokerInv, ShapeInv
  <2>6. Holds(c) /\ c \in admitted /\ pc # "idle"
    BY <2>3 DEF Holds, BrokerInv, AdmissionInv, Serves
  <2>7. Counted(c)
    BY <2>1, <2>3, <2>4, <2>5, <2>6 DEF Counted, Works
  <2>8. \E k \in Kinds, cursor \in Cursors :
          /\ queue' = Append(queue, Command(k, c, conn'[c].client, cursor))
          /\ conn'[c].pc \in WaitingAt(k)
          /\ k # "Disconnect" => cursor = conn'[c].cursor
          /\ k = "Disconnect" => Holds(c) /\ conn'[c].client = conn[c].client
          /\ k = "Attach" => cursor = have'[conn'[c].client]
    <3>1. conn[c].cursor \in Cursors
      BY <2>2 DEF ConnStates
    <3> QED
      BY <2>1, <2>3, <2>4, <2>5, <3>1
  <2>9. conn[c].cursor \in {have[conn[c].client], Beyond} \/ told[conn[c].client] # 0
    BY <2>6 DEF BrokerInv, CursorInv
  <2>10. conn[c].controlling => conn[c].client = owner /\ owner # NoClient
    BY DEF BrokerInv, LeaseInv
  <2>11. Turn(c, queue)
    BY <2>1, <2>2, <2>4, <2>5, <2>6, <2>8, <2>9, <2>10 DEF Turn, Answered, BrokerInv, ShapeInv
  <2> QED
    BY <2>7, <2>11
<1> QED
  BY <1>1, <1>2

-----------------------------------------------------------------------------
(* Each action of a connection is a turn.                                  *)
LEMMA AcceptTurn ==
  ASSUME BrokerInv, NEW c \in Connections, Accept(c)
  PROVE  Turn(c, queue) /\ Counted(c)
<1> DEFINE s == [conn[c] EXCEPT !.pc = "admitted"]
<1>1. conn[c].pc = "idle" /\ conn[c] \in ConnStates /\ ~conn[c].busy
  BY DEF Accept, BrokerInv, ShapeInv, AdmissionInv, Works
<1>2. conn' = [conn EXCEPT ![c] = s] /\ admitted' = admitted \cup {c}
  BY DEF Accept, admit, BrokerInv, ShapeInv
<1>3. /\ s \in ConnStates /\ s.pc = "admitted" /\ s.client = conn[c].client
      /\ s.busy = conn[c].busy /\ s.controlling = conn[c].controlling
  BY <1>1 DEF ConnStates, Pcs, Nameless
<1> HIDE DEF s
<1>4. conn'[c] = s
  BY <1>2 DEF BrokerInv, ShapeInv
<1>5. Withdrawn(c, queue) /\ Answered(c)
  BY <1>1, NothingToWithdraw, AnswerIsAbsent DEF Accept, BrokerInv, Waiting
<1>6. Counted(c)
  BY <1>1, <1>2, <1>3, <1>4 DEF Accept, Counted, Works
<1>7. Turn(c, queue)
  BY <1>2, <1>3, <1>4, <1>5
  DEF Accept, Turn, Answered, BrokerInv, ShapeInv, LeaseInv, Waiting, Serves, Nameless
<1> QED
  BY <1>6, <1>7

(* A connection that ends before its handshake hangs up.                   *)
LEMMA RefuseTurn ==
  ASSUME BrokerInv, NEW c \in Connections, Refuse(c)
  PROVE  Turn(c, queue) /\ Counted(c)
<1>1. conn[c].pc = "admitted" /\ ~conn[c].busy
  BY DEF Refuse, BrokerInv, AdmissionInv, Works
<1>2. Withdrawn(c, queue) /\ Answered(c)
  BY <1>1, NothingToWithdraw, AnswerIsAbsent DEF Refuse, BrokerInv, Waiting
<1> QED
  BY <1>1, <1>2, HangupTurn DEF Refuse

(* A new connection asks to be attached.                                   *)
LEMMA ConnectTurn ==
  ASSUME BrokerInv, NEW c \in Connections, NEW k \in Clients, Connect(c, k)
  PROVE  Turn(c, queue) /\ Counted(c)
<1> DEFINE s == [pc |-> "attach", client |-> k, cursor |-> have[k], controlling |-> FALSE,
                 busy |-> TRUE]
<1>1. conn[c].pc = "admitted" /\ ~conn[c].busy /\ have[k] \in Cursors
  BY BoundsAreTyped DEF Connect, BrokerInv, ShapeInv, AdmissionInv, Works
<1>2. /\ conn' = [conn EXCEPT ![c] = s] /\ admitted' = admitted /\ outstanding' = outstanding + 1
      /\ queue' = Append(queue, Command("Attach", c, k, have[k]))
  BY DEF Connect, begin_command
<1>3. s \in ConnStates
  BY <1>1 DEF ConnStates, Pcs, Waiting
<1>4. /\ s.pc = "attach" /\ s.client = k /\ s.cursor = have[k] /\ s.controlling = FALSE
      /\ s.busy = TRUE
  OBVIOUS
<1> HIDE DEF s
<1>5. conn'[c] = s /\ c \in admitted
  BY <1>1, <1>2 DEF BrokerInv, ShapeInv, AdmissionInv
<1>6. Withdrawn(c, queue) /\ Answered(c)
  BY <1>1, NothingToWithdraw, AnswerIsAbsent DEF Connect, BrokerInv, Waiting
<1>7. Counted(c)
  BY <1>1, <1>2, <1>4, <1>5 DEF Counted, Works
<1>8. \E kind \in Kinds, cursor \in Cursors :
          /\ queue' = Append(queue, Command(kind, c, conn'[c].client, cursor))
          /\ conn'[c].pc \in WaitingAt(kind)
          /\ kind # "Disconnect" => cursor = conn'[c].cursor
          /\ kind = "Disconnect" => Holds(c) /\ conn'[c].client = conn[c].client
          /\ kind = "Attach" => cursor = have'[conn'[c].client]
  <2>1. "Attach" \in Kinds /\ have' = have
    BY DEF Kinds, Connect
  <2> QED
    BY <1>1, <1>2, <1>4, <1>5, <2>1 DEF WaitingAt
<1>9. Turn(c, queue)
  BY <1>2, <1>3, <1>4, <1>5, <1>6, <1>8 DEF Connect, Turn, Answered, BrokerInv, ShapeInv, Serves
<1> QED
  BY <1>7, <1>9

(* The answer to the attachment is taken.                                  *)
LEMMA AttachedTurn ==
  ASSUME BrokerInv, NEW c \in Connections, Attached(c)
  PROVE  Turn(c, queue) /\ Counted(c)
<1>1. Withdrawn(c, queue) /\ Answered(c) /\ conn[c].pc = "attach" /\ conn[c].busy
  BY NothingToWithdraw, AnswerIsTaken DEF Attached, Taken, BrokerInv, AdmissionInv, Works
<1>2. outstanding' = outstanding - 1
  BY <1>1, CompleteCounts DEF Attached, BrokerInv
<1>3. CASE answer[c].result # "ok"
  BY <1>1, <1>2, <1>3, HangupTurn DEF Attached
<1>4. CASE answer[c].result = "ok"
  <2> DEFINE s == [conn[c] EXCEPT !.pc = "due", !.busy = FALSE,
                                  !.controlling = answer[c].controlling]
  <2>1. /\ answer[c].controlling \in BOOLEAN
        /\ answer[c].controlling => owner = conn[c].client
        /\ conn[c] \in ConnStates /\ conn[c].client \in Clients
    BY <1>1, <1>4 DEF BrokerInv, AnswerInv, ShapeInv, Nameless
  <2>2. conn' = [conn EXCEPT ![c] = s] /\ admitted' = admitted
    BY <1>4 DEF Attached, BrokerInv, ShapeInv
  <2>3. /\ s \in ConnStates /\ s.pc = "due" /\ s.busy = FALSE /\ s.client = conn[c].client
        /\ s.cursor = conn[c].cursor /\ s.controlling = answer[c].controlling
    BY <2>1 DEF ConnStates, Pcs, Serves
  <2> HIDE DEF s
  <2>4. Holds(c)
    BY <1>1, <1>4 DEF Holds
  <2>5. s.cursor \in {have[s.client], Beyond} \/ told[s.client] # 0
    BY <2>3, <2>4 DEF BrokerInv, CursorInv
  <2>6. s.controlling => s.client = owner /\ owner # NoClient
    BY <2>1, <2>3, ClientAssumption
  <2>7. UNCHANGED <<queue, authority, have, told>>
    BY DEF Attached
  <2>8. have' \in [Clients -> Positions] /\ told' \in [Clients -> Positions \cup {0}]
    BY <2>7 DEF BrokerInv, ShapeInv
  <2> QED
    BY <1>1, <1>2, <2>2, <2>3, <2>4, <2>5, <2>6, <2>7, <2>8, ServingTurn DEF Serves, Waiting
<1> QED
  BY <1>3, <1>4

(* Facts about a connection that serves.                                   *)
LEMMA ServingFacts ==
  ASSUME BrokerInv, NEW c \in Connections, conn[c].pc \in Serves
  PROVE  /\ Holds(c) /\ conn[c] \in ConnStates /\ conn[c].client \in Clients
         /\ conn[c].cursor \in {have[conn[c].client], Beyond} \/ told[conn[c].client] # 0
         /\ conn[c].controlling => conn[c].client = owner /\ owner # NoClient
         /\ have \in [Clients -> Positions] /\ told \in [Clients -> Positions \cup {0}]
         /\ conn[c].pc \in Works => conn[c].busy
         /\ conn[c].busy => conn[c].pc \in Works \cup {"due", "poll"}
<1>1. Holds(c)
  BY DEF Holds
<1>2. conn[c] \in ConnStates /\ conn[c].client \in Clients
  BY DEF BrokerInv, ShapeInv, Serves, Nameless
<1> QED
  BY <1>1, <1>2 DEF BrokerInv, ShapeInv, CursorInv, LeaseInv, AdmissionInv

(* A frame is read.                                                        *)
LEMMA ReadFrameTurn ==
  ASSUME BrokerInv, NEW c \in Connections, ReadFrame(c)
  PROVE  Turn(c, queue) /\ Counted(c)
<1> DEFINE s == [conn[c] EXCEPT !.pc = "frame", !.busy = TRUE]
<1>1. conn[c].pc = "open" /\ ~conn[c].busy /\ conn[c] \in ConnStates
  BY ServingFacts DEF ReadFrame, Serves, Works
<1>2. /\ conn' = [conn EXCEPT ![c] = s] /\ outstanding' = outstanding + 1
      /\ UNCHANGED <<queue, authority, admitted, have, told>>
  BY DEF ReadFrame, begin_command, BrokerInv, ShapeInv
<1>3. /\ s \in ConnStates /\ s.pc = "frame" /\ s.busy = TRUE /\ s.client = conn[c].client
      /\ s.cursor = conn[c].cursor /\ s.controlling = conn[c].controlling
  BY <1>1 DEF ConnStates, Pcs, Serves
<1> HIDE DEF s
<1>4. Withdrawn(c, queue) /\ Answered(c)
  BY <1>1, NothingToWithdraw, AnswerIsAbsent DEF ReadFrame, BrokerInv, Waiting
<1>5. conn[c].pc \in Serves
  BY <1>1 DEF Serves
<1> QED
  BY <1>1, <1>2, <1>3, <1>4, <1>5, ServingFacts, ServingTurn DEF Serves, Waiting

(* A replay sets the cursor.                                               *)
LEMMA ReplayTurn ==
  ASSUME BrokerInv, NEW c \in Connections, Replay(c)
  PROVE  Turn(c, queue) /\ Counted(c)
<1> DEFINE k == conn[c].client
<1>1. conn[c].pc = "frame" /\ conn[c].pc \in Serves
  BY DEF Replay, Serves
<1>2. PICK cursor \in {IF told[k] # 0 THEN told[k] ELSE have[k], Beyond} :
        conn' = [conn EXCEPT ![c].pc = "due", ![c].cursor = cursor]
  BY DEF Replay
<1> DEFINE s == [conn[c] EXCEPT !.pc = "due", !.cursor = cursor]
<1>3. conn[c] \in ConnStates /\ k \in Clients /\ conn[c].busy
  BY <1>1, ServingFacts DEF Works
<1>4. /\ have \in [Clients -> Positions] /\ told \in [Clients -> Positions \cup {0}]
      /\ Beyond \in Cursors
  BY <1>1, ServingFacts, BrokerAssumption DEF Cursors, Beyond
<1>5. cursor \in Cursors
  BY <1>3, <1>4, BoundsAreTyped
<1>6. /\ s \in ConnStates /\ s.pc = "due" /\ s.busy = conn[c].busy /\ s.client = k
      /\ s.cursor = cursor /\ s.controlling = conn[c].controlling
  BY <1>3, <1>5 DEF ConnStates, Pcs, Serves
<1>7. conn' = [conn EXCEPT ![c] = s]
  BY <1>2 DEF BrokerInv, ShapeInv
<1>8. Withdrawn(c, queue) /\ Answered(c)
  BY <1>1, NothingToWithdraw, AnswerIsAbsent DEF Replay, BrokerInv, Waiting
<1>9. UNCHANGED <<queue, authority, admitted, outstanding, have, told>>
  BY DEF Replay, admission
<1>10. s.cursor \in {have'[s.client], Beyond} \/ told'[s.client] # 0
  BY <1>6, <1>9
<1> HIDE DEF s
<1>11. have' \in [Clients -> Positions] /\ told' \in [Clients -> Positions \cup {0}]
  BY <1>4, <1>9
<1>12. /\ Holds(c) /\ (s.controlling => s.client = owner /\ owner # NoClient)
       /\ s.pc \in Serves \ Waiting
  BY <1>1, <1>6, ServingFacts DEF Serves, Waiting
<1> QED
  BY <1>3, <1>6, <1>7, <1>8, <1>9, <1>10, <1>11, <1>12, ServingTurn

(* A control frame asks the worker.                                        *)
LEMMA ControlTurn ==
  ASSUME BrokerInv, NEW c \in Connections, Control(c)
  PROVE  Turn(c, queue) /\ Counted(c)
<1>1. conn[c].pc = "frame" /\ conn[c].pc \in Serves /\ "control" \in WaitingAt("Control")
  BY DEF Control, Serves, WaitingAt
<1>2. conn[c].busy
  BY <1>1, ServingFacts DEF Works
<1>3. Withdrawn(c, queue) /\ Answered(c)
  BY <1>1, NothingToWithdraw, AnswerIsAbsent DEF Control, BrokerInv, Waiting
<1> QED
  BY <1>1, <1>2, <1>3, AskTurn DEF Control

(* A poll is sent when it is due.                                          *)
LEMMA PollDueTurn ==
  ASSUME BrokerInv, NEW c \in Connections, PollDue(c)
  PROVE  Turn(c, queue) /\ Counted(c)
<1>1. conn[c].pc = "due" /\ conn[c].pc \in Serves /\ "poll" \in WaitingAt("Poll")
  BY DEF PollDue, Serves, WaitingAt
<1>2. Withdrawn(c, queue) /\ Answered(c)
  BY <1>1, NothingToWithdraw, AnswerIsAbsent DEF PollDue, BrokerInv, Waiting
<1> QED
  BY <1>1, <1>2, AskTurn DEF PollDue

(* The answer to a control command returns its slot.                       *)
LEMMA ControlDoneTurn ==
  ASSUME BrokerInv, NEW c \in Connections, ControlDone(c)
  PROVE  Turn(c, queue) /\ Counted(c)
<1>1. /\ conn[c].pc \in Serves /\ conn[c].pc \in Works
      /\ Withdrawn(c, queue) /\ Answered(c)
      /\ UNCHANGED <<authority, have, told>>
  BY NothingToWithdraw, AnswerIsTaken DEF ControlDone, Taken, BrokerInv, Serves, Works
<1>2. CASE Close(c, queue)
  BY <1>1, <1>2, CloseTurn
<1>3. CASE Ask(c, "Control", "advance")
  <2>1. conn[c].busy /\ "advance" \in WaitingAt("Control")
    BY <1>1, ServingFacts DEF WaitingAt
  <2> QED
    BY <1>1, <1>3, <2>1, AskTurn
<1>4. CASE conn' = [conn EXCEPT ![c].pc = "due"] /\ UNCHANGED <<queue, admission>>
  <2> DEFINE s == [conn[c] EXCEPT !.pc = "due"]
  <2>1. conn' = [conn EXCEPT ![c] = s]
    BY <1>4 DEF BrokerInv, ShapeInv
  <2>2. /\ s \in ConnStates /\ s.pc = "due" /\ s.busy = conn[c].busy /\ s.client = conn[c].client
        /\ s.cursor = conn[c].cursor /\ s.controlling = conn[c].controlling
    BY <1>1, ServingFacts DEF ConnStates, Pcs, Serves
  <2> HIDE DEF s
  <2> QED
    <3>1. /\ have' \in [Clients -> Positions] /\ told' \in [Clients -> Positions \cup {0}]
          /\ Holds(c) /\ conn[c].busy
          /\ s.cursor \in {have'[s.client], Beyond} \/ told'[s.client] # 0
          /\ s.controlling => s.client = owner /\ owner # NoClient
      BY <1>1, <2>2, ServingFacts
    <3>2. UNCHANGED <<queue, authority, admitted, outstanding, have, told>>
      BY <1>1, <1>4 DEF admission
    <3>3. s.pc \in Serves \ Waiting
      BY <2>2 DEF Serves, Waiting
    <3> QED
      BY <1>1, <2>1, <2>2, <3>1, <3>2, <3>3, ServingTurn
<1> QED
  BY <1>2, <1>3, <1>4 DEF ControlDone

(* The end of a frame: the connection is open again at a cursor.           *)
LEMMA FrameDoneTurn ==
  ASSUME BrokerInv, NEW c \in Connections, conn[c].pc = "poll", Taken(c), NEW cursor \in Cursors,
         FrameDone(c, cursor),
         have' \in [Clients -> Positions], told' \in [Clients -> Positions \cup {0}],
         \A k \in Clients \ {conn[c].client} : have'[k] = have[k] /\ told'[k] = told[k],
         cursor \in {have'[conn[c].client], Beyond} \/ told'[conn[c].client] # 0
  PROVE  Turn(c, queue) /\ Counted(c)
<1> DEFINE s == [conn[c] EXCEPT !.pc = "open", !.busy = FALSE, !.cursor = cursor]
<1>1. conn[c].pc \in Serves /\ Withdrawn(c, queue) /\ Answered(c)
  BY NothingToWithdraw, AnswerIsTaken DEF Taken, BrokerInv, Serves
<1>2. conn' = [conn EXCEPT ![c] = s] /\ UNCHANGED <<queue, authority, admitted>>
  BY DEF FrameDone, BrokerInv, ShapeInv
<1>3. outstanding' = IF conn[c].busy THEN outstanding - 1 ELSE outstanding
  BY CompleteCounts DEF FrameDone, BrokerInv
<1>4. /\ s \in ConnStates /\ s.pc = "open" /\ s.busy = FALSE /\ s.client = conn[c].client
      /\ s.cursor = cursor /\ s.controlling = conn[c].controlling
  BY <1>1, ServingFacts DEF ConnStates, Pcs, Serves
<1> HIDE DEF s
<1>5. /\ Holds(c) /\ (s.controlling => s.client = owner /\ owner # NoClient)
      /\ s.pc \in Serves \ Waiting
  BY <1>1, <1>4, ServingFacts DEF Serves, Waiting
<1> QED
  BY <1>1, <1>2, <1>3, <1>4, <1>5, ServingTurn

(* A publication is passed on,                                             *)
LEMMA PublishedTurn ==
  ASSUME BrokerInv, NEW c \in Connections, Published(c)
  PROVE  Turn(c, queue) /\ Counted(c)
<1> DEFINE k == conn[c].client
<1>1. /\ conn[c].pc = "poll" /\ conn[c].pc \in Serves /\ Taken(c) /\ FrameDone(c, answer[c].upto)
      /\ have' = [have EXCEPT ![k] = answer[c].upto] /\ told' = [told EXCEPT ![k] = 0]
  BY DEF Published, Serves
<1>2. answer[c].upto \in Positions /\ answer[c].upto \in Cursors
  BY <1>1, BoundsAreTyped DEF Published, BrokerInv, AnswerInv
<1>3. k \in Clients /\ have \in [Clients -> Positions] /\ told \in [Clients -> Positions \cup {0}]
  BY <1>1, ServingFacts
<1> QED
  BY <1>1, <1>2, <1>3, FrameDoneTurn

(* a lost stretch is announced,                                            *)
LEMMA ResyncReportedTurn ==
  ASSUME BrokerInv, NEW c \in Connections, ResyncReported(c)
  PROVE  Turn(c, queue) /\ Counted(c)
<1> DEFINE k == conn[c].client
<1>1. /\ conn[c].pc = "poll" /\ conn[c].pc \in Serves /\ Taken(c) /\ FrameDone(c, conn[c].cursor)
      /\ have' = have /\ told' = [told EXCEPT ![k] = answer[c].oldest]
  BY DEF ResyncReported, Serves
<1>2. answer[c].oldest \in Positions /\ answer[c].oldest # 0
  BY <1>1, BoundsAreTyped DEF ResyncReported, BrokerInv, AnswerInv, Positions
<1>3. /\ k \in Clients /\ have \in [Clients -> Positions] /\ told \in [Clients -> Positions \cup {0}]
      /\ conn[c].cursor \in Cursors
  BY <1>1, ServingFacts DEF ConnStates
<1> QED
  BY <1>1, <1>2, <1>3, FrameDoneTurn

(* and a cursor ahead of the log is reported.                              *)
LEMMA AheadReportedTurn ==
  ASSUME BrokerInv, NEW c \in Connections, AheadReported(c)
  PROVE  Turn(c, queue) /\ Counted(c)
<1>1. /\ conn[c].pc = "poll" /\ conn[c].pc \in Serves /\ Taken(c) /\ FrameDone(c, conn[c].cursor)
      /\ have' = have /\ told' = told
  BY DEF AheadReported, Serves
<1>2. conn[c].cursor \in Cursors
  BY <1>1, ServingFacts DEF ConnStates
<1> QED
  BY <1>1, <1>2, ServingFacts, FrameDoneTurn

(* The peer hangs up.                                                      *)
LEMMA PeerGoneTurn ==
  ASSUME BrokerInv, NEW c \in Connections, PeerGone(c)
  PROVE  Turn(c, queue) /\ Counted(c)
<1>1. conn[c].pc \in Serves /\ Close(c, queue) /\ UNCHANGED <<authority, have, told>>
  BY DEF PeerGone, Serves
<1>2. CASE conn[c].pc \in {"open", "frame"} /\ UNCHANGED answer
  BY <1>1, <1>2, NothingToWithdraw, AnswerIsAbsent, CloseTurn DEF BrokerInv, Waiting
<1>3. CASE conn[c].pc = "poll" /\ Taken(c)
  <2>1. Withdrawn(c, queue) /\ Answered(c)
    BY <1>3, NothingToWithdraw, AnswerIsTaken DEF BrokerInv, Taken
  <2> QED
    BY <1>1, <2>1, CloseTurn
<1> QED
  BY <1>2, <1>3 DEF PeerGone

(* The worker is found closed.                                             *)
LEMMA ClosedTurn ==
  ASSUME BrokerInv, NEW c \in Connections, Closed(c)
  PROVE  Turn(c, queue) /\ Counted(c)
<1>1. conn[c].pc = "close" /\ ~conn[c].busy /\ Withdrawn(c, queue) /\ Answered(c)
  BY NothingToWithdraw, AnswerIsTaken DEF Closed, Taken, BrokerInv, AdmissionInv, Works
<1> QED
  BY <1>1, HangupTurn DEF Closed

(* The wait for an answer gives up.                                        *)
LEMMA TimeoutTurn ==
  ASSUME BrokerInv, NEW c \in Connections, Timeout(c)
  PROVE  Turn(c, Abandoned(c)) /\ Counted(c)
<1>1. Withdrawn(c, Abandoned(c)) /\ Answered(c) /\ UNCHANGED <<authority, have, told>>
  BY AbandonedIsWithdrawn, AnswerIsAbsent DEF Timeout, BrokerInv
<1>2. CASE queue' = Abandoned(c) /\ complete_command(c) /\ Hangup(c)
  <2>1. outstanding' = IF conn[c].busy THEN outstanding - 1 ELSE outstanding
    BY <1>2, CompleteCounts DEF BrokerInv
  <2> QED
    BY <1>1, <1>2, <2>1, HangupTurn
<1>3. CASE conn[c].pc \in {"control", "advance", "poll"} /\ Close(c, Abandoned(c))
  <2>1. conn[c].pc \in Serves
    BY <1>3 DEF Serves
  <2> QED
    BY <1>1, <1>3, <2>1, CloseTurn
<1> QED
  BY <1>2, <1>3 DEF Timeout

(* Whatever a connection does keeps the invariant.                         *)
LEMMA ConnectionInv ==
  ASSUME BrokerInv, NEW c \in Connections, Connection(c)
  PROVE  BrokerInv'
<1>1. \E q : Turn(c, q) /\ Counted(c)
  BY AcceptTurn, RefuseTurn, ConnectTurn, AttachedTurn, ReadFrameTurn, ControlTurn, ReplayTurn,
     ControlDoneTurn, PollDueTurn, PublishedTurn, ResyncReportedTurn, AheadReportedTurn, PeerGoneTurn,
     ClosedTurn, TimeoutTurn, Zenon DEF Connection
<1> QED
  BY <1>1, TurnInv

-----------------------------------------------------------------------------
(* The worker takes the first request; the others move up by one.          *)
LEMMA HandledQueue ==
  ASSUME ShapeInv, Handle
  PROVE  /\ Len(queue) \in Nat \ {0} /\ Head(queue) = queue[1] /\ queue[1] \in Requests
         /\ queue' \in Seq(Requests) /\ Len(queue') = Len(queue) - 1
         /\ \A i \in 1 .. Len(queue') : i + 1 \in 1 .. Len(queue) /\ queue'[i] = queue[i + 1]
  BY DEF ShapeInv, Handle

(* A reply reaches only the connection that still waits for it.            *)
Replied(a) ==
  /\ DOMAIN answer' = Connections
  /\ \A d \in Connections :
       answer'[d] = IF queue[1].waiting /\ d = queue[1].conn THEN a ELSE answer[d]

(* A reply reaches the connection that asked, if it still waits.           *)
LEMMA ReplyIsDelivered ==
  ASSUME ShapeInv, Handle, NEW a, Reply(queue[1], a)
  PROVE  Replied(a)
<1>1. queue[1].conn \in Connections
  BY HandledQueue, QueueIsTyped
<1> QED
  BY <1>1 DEF Reply, Replied, ShapeInv

(* The request that was handled is the one that is answered.               *)
LEMMA HandledReply ==
  ASSUME ShapeInv, ReplyInv, Handle, NEW a, Replied(a)
  PROVE  ReplyInv'
<1>1. conn' = conn
  BY DEF Handle
<1>2. \A kind \in Kinds : WaitingAt(kind) \subseteq Waiting
  BY DEF Kinds, WaitingAt, Waiting
<1>3. queue[1].waiting => conn[queue[1].conn].pc \in Waiting
  BY <1>2, HandledQueue, QueueIsTyped DEF ReplyInv
<1>4. \A d \in Connections : answer'[d] # NoAnswer => conn'[d].pc \in Waiting
  BY <1>1, <1>3 DEF Replied, ReplyInv
<1>5. ASSUME NEW i \in 1 .. Len(queue'), queue'[i].waiting
      PROVE  /\ conn'[queue'[i].conn].pc \in WaitingAt(queue'[i].kind)
             /\ queue'[i].client = conn'[queue'[i].conn].client
             /\ queue'[i].kind # "Disconnect" => queue'[i].cursor = conn'[queue'[i].conn].cursor
             /\ answer'[queue'[i].conn] = NoAnswer
  <2>1. /\ i + 1 \in 1 .. Len(queue) /\ i + 1 # 1 /\ 1 \in 1 .. Len(queue)
        /\ queue'[i] = queue[i + 1] /\ queue[i + 1].conn \in Connections
    BY HandledQueue, QueueIsTyped
  <2>2. ~(queue[1].waiting /\ queue[i + 1].conn = queue[1].conn)
    BY <1>5, <2>1 DEF ReplyInv
  <2> QED
    BY <1>1, <1>5, <2>1, <2>2 DEF ReplyInv, Replied
<1>6. ASSUME NEW i \in 1 .. Len(queue'), NEW j \in 1 .. Len(queue'),
             queue'[i].waiting, queue'[j].waiting, queue'[i].conn = queue'[j].conn
      PROVE  i = j
  <2>1. i + 1 = j + 1
    BY <1>6, HandledQueue DEF ReplyInv
  <2> QED
    BY <2>1
<1> QED
  BY <1>4, <1>5, <1>6 DEF ReplyInv

(* Requests that stay doomed or fresh as they move up.                     *)
LEMMA HandledAttaches ==
  ASSUME ShapeInv, CursorInv, Handle,
         \A k \in attached \ attached' : queue[1].kind = "Disconnect" /\ queue[1].client = k
  PROVE  \A i \in 1 .. Len(queue') : queue'[i].kind = "Attach" /\ queue'[i].waiting =>
           queue'[i].cursor = have'[queue'[i].client] \/ Doomed(i)'
<1> SUFFICES ASSUME NEW i \in 1 .. Len(queue'), queue'[i].kind = "Attach", queue'[i].waiting
             PROVE  queue'[i].cursor = have'[queue'[i].client] \/ Doomed(i)'
  OBVIOUS
<1>1. queue'[i] = queue[i + 1] /\ i + 1 \in 1 .. Len(queue) /\ have' = have
  BY HandledQueue DEF Handle
<1>2. queue[i + 1].cursor = have[queue[i + 1].client] \/ Doomed(i + 1)
  BY <1>1 DEF CursorInv
<1>3. ASSUME Doomed(i + 1) PROVE Doomed(i)'
  <2>1. queue'[i].client \in attached'
    <3>1. 1 \in 1 .. (i + 1) - 1
      OBVIOUS
    <3>2. queue[1].kind = "Disconnect" => queue[1].client # queue[i + 1].client
      BY <1>3, <3>1 DEF Doomed
    <3> QED
      BY <1>1, <1>3, <3>2 DEF Doomed
  <2>2. ASSUME NEW j \in 1 .. i - 1, queue'[j].kind = "Disconnect"
        PROVE  queue'[j].client # queue'[i].client
    <3>1. j \in 1 .. Len(queue') /\ j + 1 \in 1 .. (i + 1) - 1
      BY HandledQueue
    <3> QED
      BY <1>1, <1>3, <2>2, <3>1, HandledQueue DEF Doomed
  <2> QED
    BY <2>1, <2>2 DEF Doomed
<1> QED
  BY <1>1, <1>2, <1>3

(* The admission counters are not the worker's.                            *)
LEMMA HandledAdmission == AdmissionInv /\ Handle => AdmissionInv'
  BY DEF AdmissionInv, Handle, admission, Busy

(* Attaching: the client was not attached, so nobody holds it.             *)
LEMMA HandleAttachInv ==
  ASSUME BrokerInv, Handle, HandleAttach(queue[1])
  PROVE  BrokerInv'
<1> USE DEF BrokerInv
<1> DEFINE c == queue[1].conn
           k == queue[1].client
<1>1. /\ 1 \in 1 .. Len(queue) /\ c \in Connections /\ k \in Clients /\ queue[1].kind = "Attach"
      /\ conn' = conn /\ have' = have /\ told' = told /\ next' = next
  BY HandledQueue, QueueIsTyped DEF HandleAttach, Handle
<1>2. queue[1].waiting => /\ conn[c].pc = "attach" /\ k = conn[c].client
                          /\ queue[1].cursor = conn[c].cursor /\ answer[c] = NoAnswer
  BY <1>1 DEF ReplyInv, WaitingAt
<1>3. CASE AttachRefused(k)
  <2>1. /\ Replied(Failed("ClientAlreadyAttached")) /\ UNCHANGED <<attached, owner>>
    BY <1>3, ReplyIsDelivered DEF HandleAttach
  <2>2. \A d \in Connections : Holds(d)' <=> Holds(d)
    BY <1>1, <1>2, <2>1, NoAnswerIsNone DEF Replied, Holds, Failed, Serves
  <2>3. ShapeInv'
    BY <1>1, <2>1, HandledQueue DEF ShapeInv, Replied
  <2>4. AnswerInv'
    BY <1>1, <1>2, <2>1 DEF AnswerInv, Replied, Failed
  <2>5. HolderInv'
    <3>1. \A i \in 1 .. Len(queue') : queue'[i] = queue[i + 1] /\ i + 1 \in 1 .. Len(queue)
      BY HandledQueue
    <3>2. \A i, j \in 1 .. Len(queue') : i + 1 = j + 1 => i = j
      OBVIOUS
    <3> QED
      BY <1>1, <2>1, <2>2, <3>1, <3>2 DEF HolderInv
  <2>6. LeaseInv'
    BY <1>1, <2>1 DEF LeaseInv
  <2>7. CursorInv'
    BY <1>1, <2>1, <2>2, HandledAttaches DEF CursorInv
  <2> QED
    BY <2>1, <2>3, <2>4, <2>5, <2>6, <2>7, HandledReply, HandledAdmission
<1>4. CASE ~AttachRefused(k)
  <2> DEFINE a == [result |-> "ok", controlling |-> owner' = k]
  <2>1. /\ Replied(a) /\ attached' = attached \cup {k} /\ k \notin attached
        /\ owner' = LeaseAfterAttach(k)
    BY <1>4, ReplyIsDelivered DEF HandleAttach, AttachRefused
  <2>2. owner' \in Clients /\ (owner # NoClient => owner' = owner)
    BY <1>1, <2>1 DEF LeaseAfterAttach, LeaseInv
  <2>3. \A d \in Connections : Holds(d)' => Holds(d) \/ (queue[1].waiting /\ d = c)
    BY <1>1, <2>1 DEF Replied, Holds
  <2>4. ShapeInv'
    BY <1>1, <2>1, HandledQueue DEF ShapeInv, Replied
  <2>5. AnswerInv'
    <3>1. ASSUME NEW d \in Connections, ~(queue[1].waiting /\ d = c), conn[d].pc = "attach",
                 answer[d].result = "ok"
          PROVE  /\ answer[d].controlling \in BOOLEAN
                 /\ answer[d].controlling => owner' = conn[d].client
      <4>1. conn[d].client \in Clients
        BY <3>1 DEF ShapeInv, Nameless
      <4> QED
        BY <2>2, <3>1, <4>1, ClientAssumption DEF AnswerInv
    <3>2. a.result = "ok" /\ a.controlling = (owner' = k)
      OBVIOUS
    <3> HIDE DEF a
    <3>3. \A d \in Connections : ~(queue[1].waiting /\ d = c) => answer'[d] = answer[d]
      BY <2>1 DEF Replied
    <3>4. queue[1].waiting => answer'[c] = a
      BY <1>1, <2>1 DEF Replied
    <3> QED
      BY <1>1, <1>2, <3>1, <3>2, <3>3, <3>4 DEF AnswerInv
  <2>6. HolderInv'
    <3>1. \A d \in Connections : Holds(d)' => conn'[d].client \in attached'
      BY <1>1, <1>2, <2>1, <2>3 DEF HolderInv
    <3>2. \A d, e \in Connections : Holds(d)' /\ Holds(e)' /\ conn'[d].client = conn'[e].client => d = e
      BY <1>1, <1>2, <2>1, <2>3 DEF HolderInv
    <3>3. \A i \in 1 .. Len(queue') : queue'[i].kind = "Disconnect" =>
            /\ queue'[i].client \in attached'
            /\ \A d \in Connections : Holds(d)' => conn'[d].client # queue'[i].client
      <4>1. \A i \in 1 .. Len(queue) : queue[i].kind = "Disconnect" =>
              /\ queue[i].client \in attached'
              /\ \A d \in Connections : Holds(d)' => conn[d].client # queue[i].client
        BY <1>2, <2>1, <2>3 DEF HolderInv
      <4> QED
        BY <1>1, <4>1, HandledQueue
    <3>4. \A i, j \in 1 .. Len(queue') :
            queue'[i].kind = "Disconnect" /\ queue'[j].kind = "Disconnect"
            /\ queue'[i].client = queue'[j].client => i + 1 = j + 1
      BY HandledQueue DEF HolderInv
    <3>5. \A i, j \in 1 .. Len(queue') : i + 1 = j + 1 => i = j
      OBVIOUS
    <3> QED
      BY <3>1, <3>2, <3>3, <3>4, <3>5 DEF HolderInv
  <2>7. LeaseInv'
    BY <1>1, <2>2 DEF LeaseInv
  <2>8. CursorInv'
    <3>1. queue[1].waiting => conn[c].cursor = have[k]
      BY <1>1, <1>2, <2>1 DEF CursorInv, Doomed
    <3>2. \A d \in Connections : Holds(d)' =>
            conn'[d].cursor \in {have'[conn'[d].client], Beyond} \/ told'[conn'[d].client] # 0
      BY <1>1, <1>2, <2>3, <3>1 DEF CursorInv
    <3> QED
      BY <2>1, <3>2, HandledAttaches DEF CursorInv
  <2> QED
    BY <2>1, <2>4, <2>5, <2>6, <2>7, <2>8, HandledReply, HandledAdmission
<1> QED
  BY <1>3, <1>4

(* Disconnecting: the request was the client's only holder.                *)
LEMMA HandleDisconnectInv ==
  ASSUME BrokerInv, Handle, HandleDisconnect(queue[1])
  PROVE  BrokerInv'
<1> USE DEF BrokerInv
<1> DEFINE c == queue[1].conn
           k == queue[1].client
<1>1. /\ 1 \in 1 .. Len(queue) /\ c \in Connections /\ k \in Clients
      /\ queue[1].kind = "Disconnect" /\ attached' = attached \ {k}
      /\ UNCHANGED <<conn, have, told, next, owner>>
  BY HandledQueue, QueueIsTyped DEF HandleDisconnect, Handle, LeaseAfterDisconnect
<1>2. PICK a : Replied(a)
  BY ReplyIsDelivered DEF HandleDisconnect
<1>3. queue[1].waiting => conn[c].pc = "close"
  BY <1>1 DEF ReplyInv, WaitingAt
<1>4. \A d \in Connections : Holds(d)' <=> Holds(d)
  BY <1>1, <1>2, <1>3 DEF Replied, Holds
<1>5. \A d \in Connections : Holds(d) => conn[d].client # k
  BY <1>1 DEF HolderInv
<1>6. ShapeInv'
  BY <1>1, <1>2, HandledQueue DEF ShapeInv, Replied
<1>7. AnswerInv'
  BY <1>1, <1>2, <1>3 DEF AnswerInv, Replied
<1>8. HolderInv'
  <2>1. \A i \in 1 .. Len(queue) : queue[i].kind = "Disconnect" /\ i # 1 =>
          /\ queue[i].client \in attached'
          /\ \A d \in Connections : Holds(d)' => conn[d].client # queue[i].client
    BY <1>1, <1>4 DEF HolderInv
  <2>2. \A i \in 1 .. Len(queue') : i + 1 # 1
    OBVIOUS
  <2>3. \A i \in 1 .. Len(queue') : queue'[i].kind = "Disconnect" =>
          /\ queue'[i].client \in attached'
          /\ \A d \in Connections : Holds(d)' => conn'[d].client # queue'[i].client
    BY <1>1, <2>1, <2>2, HandledQueue
  <2>4. \A i, j \in 1 .. Len(queue') :
          queue'[i].kind = "Disconnect" /\ queue'[j].kind = "Disconnect"
          /\ queue'[i].client = queue'[j].client => i + 1 = j + 1
    BY HandledQueue DEF HolderInv
  <2>5. \A i, j \in 1 .. Len(queue') : i + 1 = j + 1 => i = j
    OBVIOUS
  <2>6. \A d \in Connections : Holds(d)' => conn'[d].client \in attached'
    BY <1>1, <1>4, <1>5 DEF HolderInv
  <2>7. \A d, e \in Connections : Holds(d)' /\ Holds(e)' /\ conn'[d].client = conn'[e].client => d = e
    BY <1>1, <1>4 DEF HolderInv
  <2> QED
    BY <2>3, <2>4, <2>5, <2>6, <2>7 DEF HolderInv
<1>9. LeaseInv'
  BY <1>1 DEF LeaseInv
<1>10. CursorInv'
  BY <1>1, <1>4, HandledAttaches DEF CursorInv
<1> QED
  BY <1>2, <1>6, <1>7, <1>8, <1>9, <1>10, HandledReply, HandledAdmission

(* What a read returns is inside the stream.                               *)
LEMMA ReadIsInside ==
  ASSUME next \in Positions, NEW cursor \in Cursors
  PROVE  /\ read(cursor).result = "ok" =>
              /\ read(cursor).from = cursor /\ cursor < Beyond
              /\ read(cursor).upto \in Positions
         /\ read(cursor).result = "ResyncRequired" => read(cursor).oldest \in Positions
<1>1. oldest \in Positions
  BY BrokerAssumption DEF oldest, Positions
<1>2. CASE cursor < oldest
  BY <1>1, <1>2 DEF read
<1>3. CASE ~(cursor < oldest) /\ cursor > next
  BY <1>3 DEF read, Failed
<1>4. CASE ~(cursor < oldest) /\ ~(cursor > next)
  <2>1. cursor < Beyond /\ Lesser(cursor + PollLimit, next) \in Positions
    BY <1>4, BrokerAssumption DEF Cursors, Beyond, Positions, Lesser
  <2>2. read(cursor) = [result |-> "ok", from |-> cursor, upto |-> Lesser(cursor + PollLimit, next)]
    BY <1>4 DEF read
  <2> QED
    BY <2>1, <2>2
<1> QED
  BY <1>2, <1>3, <1>4

(* Requests that attach and detach nobody.                                 *)
LEMMA QuietHandleInv ==
  ASSUME BrokerInv, Handle, NEW a, Replied(a), queue[1].kind \in {"Control", "Poll"},
         UNCHANGED <<attached, owner>>, next' \in Positions,
         queue[1].kind = "Poll" =>
           /\ a.result = "ok" => /\ a.from = queue[1].cursor /\ queue[1].cursor < Beyond
                                 /\ a.upto \in Positions
           /\ a.result = "ResyncRequired" => a.oldest \in Positions
  PROVE  BrokerInv'
<1> USE DEF BrokerInv
<1> DEFINE c == queue[1].conn
<1>1. /\ 1 \in 1 .. Len(queue) /\ c \in Connections /\ UNCHANGED <<conn, have, told>>
  BY HandledQueue, QueueIsTyped DEF Handle
<1>2. queue[1].waiting => /\ conn[c].pc \in WaitingAt(queue[1].kind)
                          /\ queue[1].cursor = conn[c].cursor
  BY <1>1 DEF ReplyInv
<1>3. queue[1].waiting => /\ conn[c].pc \in Serves /\ conn[c].pc # "attach"
                          /\ conn[c].pc = "poll" => queue[1].kind = "Poll"
  BY <1>2 DEF WaitingAt, Serves
<1>4. \A d \in Connections : Holds(d)' <=> Holds(d)
  BY <1>1, <1>3 DEF Replied, Holds
<1>5. ShapeInv'
  BY <1>1, HandledQueue DEF ShapeInv, Replied
<1>6. AnswerInv'
  <2>1. \A d \in Connections : ~(queue[1].waiting /\ d = c) => answer'[d] = answer[d]
    BY DEF Replied
  <2>2. queue[1].waiting => answer'[c] = a
    BY <1>1 DEF Replied
  <2> QED
    BY <1>1, <1>2, <1>3, <2>1, <2>2 DEF AnswerInv
<1>7. HolderInv'
  <2>1. \A i \in 1 .. Len(queue') : queue'[i] = queue[i + 1] /\ i + 1 \in 1 .. Len(queue)
    BY HandledQueue
  <2>2. \A i, j \in 1 .. Len(queue') : i + 1 = j + 1 => i = j
    OBVIOUS
  <2> QED
    BY <1>1, <1>4, <2>1, <2>2 DEF HolderInv
<1>8. LeaseInv'
  BY <1>1 DEF LeaseInv
<1>9. CursorInv'
  BY <1>1, <1>4, HandledAttaches DEF CursorInv
<1> QED
  BY <1>5, <1>6, <1>7, <1>8, <1>9, HandledReply, HandledAdmission

(* A poll answered by the worker keeps the invariant,                      *)
LEMMA HandlePollInv ==
  ASSUME BrokerInv, Handle, HandlePoll(queue[1])
  PROVE  BrokerInv'
<1> DEFINE a == IF queue[1].client \in attached THEN read(queue[1].cursor) ELSE Failed("Client")
<1>1. Replied(a) /\ queue[1].kind = "Poll" /\ UNCHANGED <<attached, owner, next>>
  BY ReplyIsDelivered DEF HandlePoll, BrokerInv
<1>2. queue[1].cursor \in Cursors /\ next \in Positions
  BY HandledQueue DEF BrokerInv, ShapeInv, Requests
<1>3. /\ a.result = "ok" => /\ a.from = queue[1].cursor /\ queue[1].cursor < Beyond
                            /\ a.upto \in Positions
      /\ a.result = "ResyncRequired" => a.oldest \in Positions
  BY <1>2, ReadIsInside DEF Failed
<1> HIDE DEF a
<1> QED
  BY <1>1, <1>2, <1>3, QuietHandleInv

(* and so does a control command.                                          *)
LEMMA HandleControlInv ==
  ASSUME BrokerInv, Handle, HandleControl(queue[1])
  PROVE  BrokerInv'
<1>1. queue[1].kind = "Control" /\ UNCHANGED <<attached, owner>>
  BY DEF HandleControl
<1>2. PICK a : Replied(a)
  BY ReplyIsDelivered DEF HandleControl, BrokerInv
<1>3. next' \in Positions
  BY BrokerAssumption DEF HandleControl, publish, BrokerInv, ShapeInv, Positions
<1> QED
  BY <1>1, <1>2, <1>3, QuietHandleInv

(* A publication of the running authority keeps it.                        *)
LEMMA PaceInv == BrokerInv /\ Pace => BrokerInv'
<1> SUFFICES ASSUME BrokerInv, Pace PROVE BrokerInv'
  OBVIOUS
<1>1. UNCHANGED <<queue, attached, owner, admitted, outstanding, conn, answer, have, told>>
  BY DEF Pace, admission
<1>2. next' \in Positions
  BY BrokerAssumption DEF Pace, publish, BrokerInv, ShapeInv, Positions
<1> QED
  BY <1>1, <1>2
  DEF BrokerInv, ShapeInv, ReplyInv, AnswerInv, HolderInv, LeaseInv, CursorInv, AdmissionInv, Busy, Holds,
      Doomed

(* BrokerInv holds at first.                                               *)
LEMMA BrokerInvAtFirst == Init => BrokerInv
<1> SUFFICES ASSUME Init PROVE BrokerInv
  OBVIOUS
<1>1. /\ Len(queue) = 0 /\ queue \in Seq(Requests)
      /\ \A c \in Connections : conn[c] = Idle /\ answer[c] = NoAnswer
  BY DEF Init
<1>2. /\ Idle \in ConnStates /\ ~Idle.busy /\ ~Idle.controlling
      /\ Idle.pc \in Nameless /\ Idle.pc \notin Waiting \cup Serves \cup Works
  BY IdleIsTyped DEF Nameless, Waiting, Serves, Works
<1>3. 1 \in Positions
  BY BrokerAssumption DEF Positions
<1>4. ShapeInv
  BY <1>1, <1>2, <1>3 DEF Init, ShapeInv
<1>5. ReplyInv
  BY <1>1 DEF ReplyInv
<1>6. AnswerInv /\ \A c \in Connections : ~Holds(c)
  BY <1>1, <1>2, NoAnswerIsNone DEF AnswerInv, Holds
<1>7. HolderInv /\ LeaseInv /\ CursorInv
  BY <1>1, <1>2, <1>6 DEF Init, HolderInv, LeaseInv, CursorInv
<1>8. AdmissionInv
  <2>1. {c \in Connections : conn[c].pc # "idle"} = {} /\ Busy = {}
    BY <1>1, <1>2, IdleIsTyped DEF Busy
  <2> QED
    BY <1>1, <1>2, <2>1, FS_EmptySet DEF Init, AdmissionInv
<1> QED
  BY <1>4, <1>5, <1>6, <1>7, <1>8 DEF BrokerInv

(* BrokerInv is an invariant of the broker.                                *)
LEMMA BrokerInvHolds == Spec => []BrokerInv
<1>1. BrokerInv /\ [Next]_vars => BrokerInv'
  <2> SUFFICES ASSUME BrokerInv, [Next]_vars PROVE BrokerInv'
    OBVIOUS
  <2>1. CASE Handle
    <3>1. Head(queue) = queue[1]
      BY <2>1, HandledQueue DEF BrokerInv
    <3> QED
      BY <2>1, <3>1, HandleAttachInv, HandleDisconnectInv, HandlePollInv, HandleControlInv DEF Handle
  <2>2. CASE Pace
    BY <2>2, PaceInv
  <2>3. CASE \E c \in Connections : Connection(c)
    BY <2>3, ConnectionInv
  <2>4. CASE UNCHANGED vars
    BY <2>4
    DEF vars, authority, admission, BrokerInv, ShapeInv, ReplyInv, AnswerInv, HolderInv, LeaseInv, CursorInv,
        AdmissionInv, Busy, Holds, Doomed
  <2> QED
    BY <2>1, <2>2, <2>3, <2>4 DEF Next
<1> QED
  BY BrokerInvAtFirst, <1>1, PTL DEF Spec

-----------------------------------------------------------------------------
(* A connection past its handshake serves an attached client, alone,       *)
(* whatever requests were left in the queue by earlier ones.               *)
THEOREM ServedStaysAttached == Spec => []ServedIsAttached
<1>1. BrokerInv => ServedIsAttached
  <2>1. \A c : Serving(c) => Holds(c)
    BY DEF Serving, Holds, Serves
  <2> QED
    BY <2>1 DEF BrokerInv, HolderInv, ServedIsAttached
<1> QED
  BY BrokerInvHolds, <1>1, PTL

(* Whoever was told that it controls belongs to the lease owner, and no    *)
(* two such connections are served at once.                                *)
THEOREM ControllerStaysSole == Spec => []SoleController
<1>1. BrokerInv => SoleController
  <2>1. \A c : Serving(c) => Holds(c)
    BY DEF Serving, Holds, Serves
  <2> QED
    BY <2>1 DEF BrokerInv, HolderInv, LeaseInv, SoleController
<1> QED
  BY BrokerInvHolds, <1>1, PTL

(* No way in which a connection ends loses or frees a slot or a count too  *)
(* many.                                                                   *)
THEOREM AdmissionStaysReturned == Spec => []AdmissionIsReturned
<1>1. BrokerInv => AdmissionIsReturned
  <2> SUFFICES ASSUME BrokerInv PROVE AdmissionIsReturned
    OBVIOUS
  <2> DEFINE At(pcs) == {c \in Connections : conn[c].pc \in pcs}
             working == {"attach", "frame", "control", "advance"}
  <2>1. IsFiniteSet(admitted) /\ IsFiniteSet(Busy) /\ outstanding = Cardinality(Busy)
    BY BusyIsFinite DEF BrokerInv, AdmissionInv
  <2>2. /\ At(working) \subseteq Busy /\ Busy \subseteq At(working \cup {"due", "poll"})
        /\ At(working \cup {"due", "poll"}) \subseteq admitted
    BY DEF BrokerInv, AdmissionInv, Busy, Works
  <2>3. IsFiniteSet(At(working)) /\ IsFiniteSet(At(working \cup {"due", "poll"}))
    BY <2>1, <2>2, FS_Subset
  <2>4. Cardinality(At(working)) <= outstanding
    BY <2>1, <2>2, FS_Subset
  <2>5. outstanding <= Cardinality(At(working \cup {"due", "poll"}))
    BY <2>1, <2>2, <2>3, FS_Subset
  <2>6. /\ Cardinality(At(working)) \in Nat /\ outstanding \in Nat
        /\ Cardinality(At(working \cup {"due", "poll"})) \in Nat
    BY <2>1, <2>3, FS_CardinalityType
  <2> QED
    BY <2>4, <2>5, <2>6 DEF BrokerInv, AdmissionInv, AdmissionIsReturned
<1> QED
  BY BrokerInvHolds, <1>1, PTL

(* Records reach a client without a gap that no notice announced: the      *)
(* answer a connection acts on starts at what the client has.              *)
THEOREM GapsAreAnnounced == Spec => NoSilentGap
<1> DEFINE Contiguous ==
      \A c \in Connections :
        have' # have /\ conn[c].pc = "poll" /\ conn'[c].pc = "open" /\ answer[c].result = "ok"
        => answer[c].from <= have[conn[c].client] \/ told[conn[c].client] # 0
<1>1. BrokerInv => Contiguous
  <2> SUFFICES ASSUME BrokerInv, NEW c \in Connections, conn[c].pc = "poll", answer[c].result = "ok",
                      told[conn[c].client] = 0
               PROVE  answer[c].from <= have[conn[c].client]
    OBVIOUS
  <2>1. answer[c].from = conn[c].cursor /\ conn[c].cursor < Beyond
    BY DEF BrokerInv, AnswerInv
  <2>2. conn[c].pc \in Serves
    BY DEF Serves
  <2>3. /\ conn[c].cursor \in {have[conn[c].client], Beyond} /\ have[conn[c].client] \in Positions
    BY <2>2, ServingFacts
  <2>4. Beyond \in Nat /\ have[conn[c].client] \in Nat
    BY <2>3, BoundsAreTyped
  <2>5. conn[c].cursor = have[conn[c].client]
    BY <2>1, <2>3, <2>4
  <2> QED
    BY <2>1, <2>4, <2>5
<1>2. BrokerInv => [Contiguous]_vars
  BY <1>1
<1> HIDE DEF Contiguous
<1>3. Spec => [][Contiguous]_vars
  BY BrokerInvHolds, <1>2, PTL DEF Spec
<1> QED
  BY <1>3 DEF Contiguous, NoSilentGap
=============================================================================
