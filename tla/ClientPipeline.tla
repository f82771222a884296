--------------------------- MODULE ClientPipeline ---------------------------
(***************************************************************************)
(* The connection of the web tier to the directory (web/lib/               *)
(* dmoz-client.ts): requests of many callers share one TCP connection, are *)
(* sent one at a time through a promise chain and matched to replies by    *)
(* their order alone.  The client reconnects on demand; a read loop per    *)
(* connection takes replies off the socket.                                *)
(*                                                                         *)
(* A reply travels as two fragments, so that a frame may be cut anywhere   *)
(* by a read or by a lost connection.  One connection's two directions are *)
(* one sequence of frames: those executed are `served`, those read back    *)
(* are `taken`.                                                            *)
(*                                                                         *)
(* Two things put a connection out of step.  A write may take only the     *)
(* beginning of a frame, which the client does not notice: what it writes  *)
(* next is read as the rest (`short`).  And a read that resolved before    *)
(* its connection was closed is handled after that, so that its bytes go   *)
(* to the buffer and the queue of the next one (`mixed`).                  *)
(***************************************************************************)
EXTENDS Naturals, Sequences, FiniteSets, SequencesExt

CONSTANTS
    Request,     \* the requests callers make, each made once
    NoReply,     \* the reply of a request that has none
    Garbage,     \* a frame that is nobody's request, bytes that begin no frame
    Impatient,   \* bound: those that may run into their timers
    MaxConn,     \* bound: connections opened
    MaxSlips     \* bound: connections out of step before another slip

ASSUME RequestAssumption ==
    NoReply \notin Request /\ Garbage \notin Request /\ NoReply # Garbage
ASSUME MaxConnAssumption == MaxConn \in Nat

VARIABLES
    \* the callers
    outcome,     \* what request() told each caller so far
    reply,       \* the request whose reply a caller was given
    \* DmozClient
    chain,       \* sendChain: requests not yet sent, the head being sent
    step,        \* how far the head of the chain is
    via,         \* the connection its handler holds in a local variable
    conn,        \* this.conn, None when null
    running,     \* readLoopRunning
    queue,       \* responseQueue
    buffer,      \* readBuffer: owners of the fragments not yet parsed
    reads,       \* the connection whose read each read loop awaits
    \* the sockets and the server
    opened,      \* connections opened so far
    closed,      \* those the client closed
    up,          \* those the server still serves
    pipe,        \* the frames written to each connection
    served,      \* how many of them the server executed and answered
    taken,       \* how many replies were read completely
    half,        \* whether the first fragment of the next one was read
    executed,    \* how often each request was executed
    \* what went wrong, for the properties
    short,       \* connections on which a frame was cut short
    mixed,       \* connections whose bytes were mixed with another's
    lost         \* requests that waited on a connection while it was either

callers == <<outcome, reply>>
sender == <<chain, step, via>>
client == <<conn, running, queue, buffer, reads>>
sockets == <<opened, closed, up>>
frames == <<pipe, taken, half>>
server == <<served, executed>>
history == <<short, mixed, lost>>
vars == <<callers, sender, client, sockets, frames, server, history>>

OutOfStep == short \cup mixed
MaySlip == Cardinality(OutOfStep) < MaxSlips

None == 0
Conn == 1..MaxConn
Loop == Conn             \* the loop started when a connection was opened

Init ==
    /\ outcome = [r \in Request |-> "idle"]
    /\ reply = [r \in Request |-> NoReply]
    /\ chain = <<>> /\ step = "idle" /\ via = None
    /\ conn = None /\ running = FALSE /\ queue = <<>> /\ buffer = <<>>
    /\ reads = [i \in Loop |-> None]
    /\ opened = 0 /\ closed = {} /\ up = {}
    /\ pipe = [c \in Conn |-> <<>>]
    /\ served = [c \in Conn |-> 0]
    /\ taken = [c \in Conn |-> 0]
    /\ half = [c \in Conn |-> FALSE]
    /\ executed = [r \in Request |-> 0]
    /\ short = {} /\ mixed = {} /\ lost = {}

-----------------------------------------------------------------------------
(* request(): the caller's promise races a timer; sending is serialised.   *)

Call(r) ==
    /\ outcome[r] = "idle"
    /\ outcome' = [outcome EXCEPT ![r] = "pending"]
    /\ chain' = Append(chain, r)
    /\ UNCHANGED <<reply, step, via, client, sockets, frames, server, history>>

TimeoutDequeues(r) ==    \* mutant: the entry goes with its caller
    /\ r \in Impatient
    /\ outcome[r] = "pending"
    /\ outcome' = [outcome EXCEPT ![r] = "timedout"]
    /\ queue' = SelectSeq(queue, LAMBDA q : q # r)
    /\ UNCHANGED <<reply, sender, conn, running, buffer, reads, sockets, frames, server,
                   history>>

(* The entry of a request that timed out keeps its place in the queue.     *)
Timeout(r) ==
    /\ r \in Impatient
    /\ outcome[r] = "pending"
    /\ outcome' = [outcome EXCEPT ![r] = "timedout"]
    /\ UNCHANGED <<reply, sender, client, sockets, frames, server, history>>

DisconnectKeepsBuffer(failing) ==    \* mutant: half a reply outlives its connection
    /\ conn' = None
    /\ closed' = (closed \cup {conn}) \ {None}
    /\ running' = FALSE
    /\ UNCHANGED buffer
    /\ queue' = <<>>
    /\ outcome' = [r \in Request |->
                     IF outcome[r] = "pending" /\ r \in failing \cup ToSet(queue)
                     THEN "failed" ELSE outcome[r]]

DisconnectKeepsRunning(failing) ==    \* mutant: the flag outlives its loop
    /\ conn' = None
    /\ closed' = (closed \cup {conn}) \ {None}
    /\ UNCHANGED running
    /\ buffer' = <<>>
    /\ queue' = <<>>
    /\ outcome' = [r \in Request |->
                     IF outcome[r] = "pending" /\ r \in failing \cup ToSet(queue)
                     THEN "failed" ELSE outcome[r]]

(* disconnect(), and the rejection of the requests in failing besides.     *)
Disconnect(failing) ==
    /\ conn' = None
    /\ closed' = (closed \cup {conn}) \ {None}
    /\ running' = FALSE
    /\ buffer' = <<>>
    /\ queue' = <<>>
    /\ outcome' = [r \in Request |->
                     IF outcome[r] = "pending" /\ r \in failing \cup ToSet(queue)
                     THEN "failed" ELSE outcome[r]]

(* startReadLoop(): the new loop awaits a read of this.conn.               *)
StartReadLoop(c) ==
    IF running
    THEN UNCHANGED <<running, reads>>
    ELSE /\ running' = TRUE
         /\ reads' = [reads EXCEPT ![c] = c]

(* The chain reaches a request: ensureConnected() returns or connects.     *)
SendStart ==
    /\ step = "idle"
    /\ chain # <<>>
    /\ step' = IF conn = None THEN "connect" ELSE "push"
    /\ via' = conn
    /\ UNCHANGED <<callers, chain, client, sockets, frames, server, history>>

ConnectOk ==
    /\ step = "connect"
    /\ opened < MaxConn
    /\ LET c == opened + 1 IN
         /\ opened' = c
         /\ up' = up \cup {c}
         /\ conn' = c
         /\ StartReadLoop(c)
         /\ via' = c
         /\ mixed' = IF buffer = <<Garbage>> THEN mixed \cup {c} ELSE mixed
    /\ step' = "push"
    /\ UNCHANGED <<callers, chain, queue, buffer, closed, frames, server, short, lost>>

(* The catch block of request(): reject the request, drop the connection.  *)
SendFails ==
    /\ Disconnect({Head(chain)})
    /\ chain' = Tail(chain)
    /\ step' = "idle"
    /\ via' = None
    /\ UNCHANGED <<reply, reads, opened, up, frames, server, history>>

ConnectFails ==
    /\ step = "connect"
    /\ SendFails

(* The frames the server makes of the bytes of request r: itself; or, where*)
(* a frame was cut short, nothing or nobody's request or itself again.     *)
Framed(r) == IF via \in short THEN {<<>>, <<Garbage>>, <<r>>} ELSE {<<r>>}

(* The entry is queued, then the frame goes to the socket ensureConnected  *)
(* returned, which may have been closed since.  One write() takes the frame*)
(* or its beginning, and how much it took is not looked at.                *)
Push ==
    LET r == Head(chain) IN
    /\ step = "push"
    /\ queue' = Append(queue, r)
    /\ \/ /\ via \notin closed
          /\ \E read \in Framed(r) : pipe' = [pipe EXCEPT ![via] = @ \o read]
          /\ step' = "written"
          /\ UNCHANGED short
       \/ /\ via \notin closed
          /\ MaySlip
          /\ short' = short \cup {via}
          /\ step' = "written"
          /\ UNCHANGED pipe
       \/ /\ via \notin up \ closed
          /\ step' = "refused"
          /\ UNCHANGED <<pipe, short>>
    /\ UNCHANGED <<callers, chain, via, conn, running, buffer, reads, sockets,
                   taken, half, server, mixed>>
    /\ lost' = IF via \in OutOfStep' THEN lost \cup ToSet(queue') ELSE lost

WriteOk ==
    /\ step = "written"
    /\ chain' = Tail(chain)
    /\ step' = "idle"
    /\ via' = None
    /\ UNCHANGED <<callers, client, sockets, frames, server, history>>

(* A write is rejected, or was cancelled because its socket went away.     *)
WriteFails ==
    /\ \/ step = "refused"
       \/ step = "written" /\ via \notin up \ closed
    /\ SendFails

(* close(): a script is done with the client.                              *)
Close ==
    /\ Disconnect({})
    /\ UNCHANGED <<reply, sender, reads, opened, up, frames, server, history>>

-----------------------------------------------------------------------------
(* readLoop() and drainFrames().                                           *)

(* A complete frame settles the oldest entry of the queue, if there is one *)
(* and its caller has not been told something else by then.                *)
Deliver(owner) ==
    IF queue = <<>>
    THEN UNCHANGED <<queue, outcome, reply>>
    ELSE LET r == Head(queue) IN
           /\ queue' = Tail(queue)
           /\ IF outcome[r] = "pending"
              THEN /\ outcome' = [outcome EXCEPT ![r] = "answered"]
                   /\ reply' = [reply EXCEPT ![r] = owner]
              ELSE UNCHANGED <<outcome, reply>>

(* A read of loop i resolves with a fragment; the loop goes on with        *)
(* whatever connection is current.                                         *)
Reads(i) ==
    LET c == reads[i] IN
    /\ c # None
    /\ taken[c] < served[c]
    /\ half' = [half EXCEPT ![c] = ~@]
    /\ taken' = [taken EXCEPT ![c] = IF half[c] THEN @ + 1 ELSE @]
    /\ reads' = [reads EXCEPT ![i] = IF running THEN conn ELSE None]
    /\ UNCHANGED <<sender, conn, running, sockets, pipe, server, short>>

(* The fragment goes on where the buffer ends.                             *)
ReadData(i) ==
    LET c == reads[i]
        unparsed == Append(buffer, pipe[c][taken[c] + 1])
    IN
    /\ Reads(i)
    /\ c \notin closed \cup mixed
    /\ IF Len(unparsed) = 2
       THEN buffer' = <<>> /\ Deliver(Head(unparsed))
       ELSE buffer' = unparsed /\ UNCHANGED <<queue, outcome, reply>>
    /\ UNCHANGED <<mixed, lost>>

(* The first n entries of the queue are settled with whatever the bytes in *)
(* the buffer were taken for.                                              *)
Misdeliver(n) ==
    LET told == {r \in ToSet(SubSeq(queue, 1, n)) : outcome[r] = "pending"} IN
    /\ queue' = SubSeq(queue, n + 1, Len(queue))
    /\ outcome' = [r \in Request |-> IF r \in told THEN "answered" ELSE outcome[r]]
    /\ reply' = [r \in Request |-> IF r \in told THEN Garbage ELSE reply[r]]

(* A read of a connection that was closed meanwhile, or that follows such  *)
(* bytes: none, some or all of the entries waiting now are taken to be     *)
(* answered, and something may be left in the buffer, for which the next   *)
(* connection does not look.                                               *)
ReadStray(i) ==
    /\ Reads(i)
    /\ reads[i] \in mixed \/ (reads[i] \in closed /\ MaySlip)
    /\ \E n \in 0..Len(queue), rest \in {<<>>, <<Garbage>>} :
         /\ buffer # <<>> => rest = <<Garbage>>
         /\ Misdeliver(n)
         /\ buffer' = rest
         /\ IF n = 0 /\ rest = <<>>
            THEN UNCHANGED <<mixed, lost>>
            ELSE mixed' = (mixed \cup {conn}) \ {None} /\ lost' = lost \cup ToSet(queue)

(* The read ends or fails: the peer went away, or the client itself closed *)
(* the socket.  The loop drops the connection that is current by now.      *)
ReadEnd(i) ==
    /\ reads[i] # None
    /\ reads[i] \notin up \ closed
    /\ Disconnect({})
    /\ reads' = [reads EXCEPT ![i] = None]
    /\ UNCHANGED <<reply, sender, opened, up, frames, server, history>>

-----------------------------------------------------------------------------
(* The server: frames of a connection are executed and answered in order,  *)
(* whether or not the client still listens.                                *)

Execute(c) ==
    LET frame == pipe[c][served[c] + 1] IN
    /\ c \in up
    /\ served[c] < Len(pipe[c])
    /\ served' = [served EXCEPT ![c] = @ + 1]
    /\ executed' = [r \in Request |-> IF r = frame THEN executed[r] + 1 ELSE executed[r]]
    /\ UNCHANGED <<callers, sender, client, sockets, frames, history>>

(* The server stops, or the network drops the connection.                  *)
Drop(c) ==
    /\ c \in up
    /\ up' = up \ {c}
    /\ UNCHANGED <<callers, sender, client, opened, closed, frames, server, history>>

-----------------------------------------------------------------------------

Next ==
    \/ \E r \in Request : Call(r) \/ Timeout(r)
    \/ SendStart \/ ConnectOk \/ ConnectFails \/ Push \/ WriteOk \/ WriteFails
    \/ Close
    \/ \E i \in Loop : ReadData(i) \/ ReadStray(i) \/ ReadEnd(i)
    \/ \E c \in Conn : Execute(c) \/ Drop(c)

Spec == Init /\ [][Next]_vars

(* Promises, sockets and the server make progress; no fairness is asked of *)
(* callers, of their timers or of failures.                                *)
Fairness ==
    /\ WF_vars(SendStart)
    /\ WF_vars(ConnectOk \/ ConnectFails)
    /\ WF_vars(Push)
    /\ WF_vars(WriteOk \/ WriteFails)
    /\ \A i \in Loop : WF_vars(ReadData(i) \/ ReadStray(i) \/ ReadEnd(i))
    /\ \A c \in Conn : WF_vars(Execute(c))

FairSpec == Spec /\ Fairness

-----------------------------------------------------------------------------
(* Properties.                                                             *)

Outcome == {"idle", "pending", "answered", "failed", "timedout"}

Frame == Request \cup {Garbage}

TypeOK ==
    /\ outcome \in [Request -> Outcome]
    /\ reply \in [Request -> Frame \cup {NoReply}]
    /\ chain \in Seq(Request)
    /\ step \in {"idle", "connect", "push", "written", "refused"}
    /\ via \in Conn \cup {None}
    /\ conn \in Conn \cup {None}
    /\ running \in BOOLEAN
    /\ queue \in Seq(Request)
    /\ buffer \in Seq(Frame)
    /\ reads \in [Loop -> Conn \cup {None}]
    /\ opened \in 0..MaxConn
    /\ closed \in SUBSET Conn
    /\ up \in SUBSET Conn
    /\ pipe \in [Conn -> Seq(Frame)]
    /\ served \in [Conn -> Nat]
    /\ taken \in [Conn -> Nat]
    /\ half \in [Conn -> BOOLEAN]
    /\ executed \in [Request -> Nat]
    /\ short \in SUBSET (1..opened) /\ mixed \in SUBSET (1..opened)
    /\ lost \in SUBSET Request

(* The current connection is open and one loop was started to read it;     *)
(* every connection it replaced was closed, and only a loop of an older one*)
(* can have come to read it too.                                           *)
ConnectionsKept ==
    /\ conn # None => conn = opened /\ running /\ reads[conn] = conn
    /\ conn = None => ~running
    /\ closed = (1..opened) \ {conn}
    /\ up \subseteq 1..opened
    /\ \A i \in Loop : reads[i] # None => i <= reads[i] /\ reads[i] <= opened

(* The handler that sends holds the current connection or a closed one.    *)
SenderKept ==
    /\ step # "idle" => chain # <<>>
    /\ step = "connect" => conn = None
    /\ step \in {"push", "written", "refused"} => via \in 1..opened
    /\ step \in {"push", "written", "refused"} /\ conn # None => via = conn

FramesKept ==
    \A c \in Conn :
      /\ taken[c] <= served[c]
      /\ served[c] <= Len(pipe[c])
      /\ half[c] => taken[c] < served[c]
      /\ c > opened => pipe[c] = <<>>

Unread(c) == SubSeq(pipe[c], taken[c] + 1, Len(pipe[c]))

Refused == IF step = "refused" THEN <<Head(chain)>> ELSE <<>>

(* The queue holds the requests whose replies the current connection still *)
(* owes, in the order it will send them, and the buffer begins with the    *)
(* first of these.  What went wrong with an earlier connection went with it*)
(* but for bytes that came late.                                           *)
QueueMatchesWire ==
    /\ conn # None /\ conn \notin OutOfStep =>
         /\ queue = Unread(conn) \o Refused
         /\ buffer = IF half[conn] THEN <<pipe[conn][taken[conn] + 1]>> ELSE <<>>
    /\ conn = None =>
         /\ queue = <<>> \/ queue = Refused
         /\ buffer \in {<<>>, <<Garbage>>}
    /\ conn \in OutOfStep => ToSet(queue) \subseteq lost

(* A caller is given the reply to its own request or none, unless its      *)
(* connection was out of step.                                             *)
RepliesAreOwn ==
    \A r \in Request :
      /\ reply[r] \in {r, NoReply} \/ r \in lost
      /\ reply[r] # NoReply <=> outcome[r] = "answered"

(* Whatever is lost, dropped or late on whichever connection, replies and  *)
(* callers never get out of step on the next: code that matches replies by *)
(* position only is right as long as all of this is kept.                  *)
PipelineKept ==
    /\ TypeOK
    /\ ConnectionsKept
    /\ SenderKept
    /\ FramesKept
    /\ QueueMatchesWire
    /\ RepliesAreOwn

Promises == INSTANCE RequestPromises

(* The client gives its callers what RequestPromises promises: at most one *)
(* execution, and an answer only from it.                                  *)
ImplementsPromises == Promises!Spec

(* Every request settles without help of its timer: no request waits for a *)
(* connection nobody reads, or behind a send that never ends.  On one that *)
(* is out of step it may be left to its timer.                             *)
RequestsSettle ==
    \A r \in Request : outcome[r] = "pending" ~> outcome[r] # "pending" \/ r \in lost

=============================================================================
