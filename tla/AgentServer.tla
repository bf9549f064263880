---------------------------- MODULE AgentServer ----------------------------
(***************************************************************************)
(* The viewer's agent endpoint (host/agent/agent_server.cpp) with the part *)
(* of AgentCore that decides authentication (agent_core.cpp) and the frame *)
(* pacer that drives it (host/frame_pacer.cpp, the loop of main.cpp).      *)
(*                                                                         *)
(* Threads: the main (GL) thread, the accept thread, and one serve thread  *)
(* per connection.  A step is what a thread does between two points where  *)
(* another can be seen: a mutex-protected block, an atomic access, an      *)
(* io_context call.  asio's io_context and the peers are external.         *)
(*                                                                         *)
(* A connection that has been reaped or refused may be used again for a    *)
(* new peer, so behaviours are unbounded in length.  clients_ is not a     *)
(* variable: an entry exists exactly while its thread has a serve pc.      *)
(***************************************************************************)
EXTENDS Integers, Sequences, FiniteSets

CONSTANTS Conns,        \* connections that may exist at a time
          MAX_CLIENTS,  \* 8 in the source
          Inputs,       \* what a peer may send
          MayStop       \* whether the user may close the window

\* What one read can bring: part of a frame, a whole request, or garbage.
PeerInputs == {"part", "hello", "bad_hello", "method", "garbage"}

ASSUME ServerAssumption ==
    /\ IsFiniteSet(Conns)
    /\ MAX_CLIENTS \in Nat \ {0}
    /\ Inputs \subseteq PeerInputs
    /\ MayStop \in BOOLEAN

VARIABLES
    conn,       \* per connection: the ClientConnection, its thread and its peer
    pending,    \* pending_: requests queued, each owned by a serve thread
    stopped,    \* stopped_
    apc, io_stopped,  \* accept thread; its io_context has been stopped
    mpc,        \* main thread
    batch,      \* drain()'s local batch
    woken,      \* FramePacer: consumed_ < wakes_
    todo, signalling  \* stop(): clients still to be told; the one half told

vars == <<conn, pending, stopped, apc, io_stopped, mpc, batch, woken, todo, signalling>>
mainVars == <<mpc, batch, todo, signalling>>
acceptVars == <<apc, io_stopped>>

NoConn == "no_conn"
\* Where a serve thread can be; "unwound" has left the loop of serve_client().
ServePcs == {"next", "op", "check", "run", "drain", "drain_run", "enqueue",
             "wake", "notify", "wait", "unwound", "finished"}

NewConn == [pc |-> "none", op |-> "read",
            frame |-> "part", authed |-> FALSE, greeted |-> FALSE, expired |-> FALSE,
            stop_requested |-> FALSE, ctx_stopped |-> FALSE, done |-> TRUE,
            reply |-> "none", why |-> "none"]

Clients == {c \in Conns : conn[c].pc \in ServePcs}
\* Those whose thread has not set finished.
Served == {c \in Clients : conn[c].pc # "finished"}

Init ==
    /\ conn = [c \in Conns |-> NewConn]
    /\ pending = <<>> /\ batch = <<>>
    /\ stopped = FALSE /\ io_stopped = FALSE /\ woken = FALSE
    /\ apc = "accept" /\ mpc = "tick"
    /\ todo = {} /\ signalling = NoConn
-----------------------------------------------------------------------------
(* Peers and time *)

Connect(c) ==
    /\ conn[c].pc = "none" /\ apc # "exited"
    /\ conn' = [conn EXCEPT ![c].pc = "backlog"]
    /\ UNCHANGED <<pending, stopped, acceptVars, mainVars, woken>>

\* steady_clock passes the connection's handshake_deadline.
DeadlinePasses(c) ==
    /\ c \in Served /\ ~conn[c].expired
    /\ conn' = [conn EXCEPT ![c].expired = TRUE]
    /\ UNCHANGED <<pending, stopped, acceptVars, mainVars, woken>>
-----------------------------------------------------------------------------
(* The accept thread *)

AcceptCompletes(c) ==
    /\ apc = "accept" /\ ~io_stopped /\ conn[c].pc = "backlog"
    /\ conn' = [conn EXCEPT ![c].pc = "handed"]
    /\ apc' = "handle"
    /\ UNCHANGED <<pending, stopped, io_stopped, mainVars, woken>>

\* reap_finished_clients_locked(): joins and forgets every finished thread.
Reaped(cs) == [c \in Conns |-> IF cs[c].pc = "finished" THEN NewConn ELSE cs[c]]

\* Under clients_mutex_: reap, then refuse the peer or start its thread.
handle_accept(c) ==
    /\ apc = "handle" /\ conn[c].pc = "handed"
    /\ conn' = IF Cardinality(Served) >= MAX_CLIENTS
               THEN [Reaped(conn) EXCEPT ![c] = NewConn]
               ELSE [Reaped(conn) EXCEPT ![c].pc = "next"]
    /\ apc' = "accept"
    /\ UNCHANGED <<pending, stopped, io_stopped, mainVars, woken>>

\* A transient accept error: re-armed by a timer.
AcceptFails ==
    /\ apc = "accept" /\ ~io_stopped
    /\ apc' = "backoff"
    /\ UNCHANGED <<conn, pending, stopped, io_stopped, mainVars, woken>>

RetryAccept ==
    /\ apc = "backoff" /\ ~io_stopped
    /\ apc' = "accept"
    /\ UNCHANGED <<conn, pending, stopped, io_stopped, mainVars, woken>>

\* io_context_.run() returns once stopped, never in the middle of a handler.
AcceptLoopExits ==
    /\ apc \in {"accept", "backoff"} /\ io_stopped
    /\ apc' = "exited"
    /\ UNCHANGED <<conn, pending, stopped, io_stopped, mainVars, woken>>
-----------------------------------------------------------------------------
(* A serve thread *)

\* Mutant of the reader in serve_client(): a deadline per read.
Bug_DeadlinePerRead(c) ==
    /\ conn[c].pc = "next"
    /\ conn' = [conn EXCEPT ![c].pc = "op", ![c].op = "read", ![c].done = FALSE,
                            ![c].expired = FALSE]
    /\ UNCHANGED <<pending, stopped, acceptVars, mainVars, woken>>

\* The reader handed to decode_frame(): before hello, what is left of the one
\* handshake budget bounds the read, and none left is the end.
StartRead(c) ==
    /\ conn[c].pc = "next"
    /\ conn' = IF ~conn[c].authed /\ conn[c].expired
               THEN [conn EXCEPT ![c].pc = "unwound", ![c].why = "timeout"]
               ELSE [conn EXCEPT ![c].pc = "op", ![c].op = "read", ![c].done = FALSE]
    /\ UNCHANGED <<pending, stopped, acceptVars, mainVars, woken>>

\* run_async_op(): ctx.restart().
Restart(c) ==
    /\ conn[c].pc = "op"
    /\ conn' = [conn EXCEPT ![c].pc = "check", ![c].ctx_stopped = FALSE]
    /\ UNCHANGED <<pending, stopped, acceptVars, mainVars, woken>>

\* Mutant of run_async_op(): no look at the flag after restart().
Bug_NoFlagCheck(c) ==
    /\ conn[c].pc = "check"
    /\ conn' = [conn EXCEPT ![c].pc = "run"]
    /\ UNCHANGED <<pending, stopped, acceptVars, mainVars, woken>>

\* run_async_op(): stop_requested.load(), and socket.close() if it is set.
CheckStopRequested(c) ==
    /\ conn[c].pc = "check"
    /\ conn' = IF conn[c].stop_requested
               THEN [conn EXCEPT ![c].pc = "drain", ![c].why = "stopped"]
               ELSE [conn EXCEPT ![c].pc = "run"]
    /\ UNCHANGED <<pending, stopped, acceptVars, mainVars, woken>>

\* The read of this operation carries the handshake timeout.
Bounded(c) == conn[c].op = "read" /\ ~conn[c].authed

\* run() or run_for() returns because the operation's handler ran.  A read ends
\* with part of a frame, a whole request, or garbage; input that came before the
\* read is as if it came now, for nothing else looks at it.
ReadCompletes(c, input) ==
    /\ conn[c].pc = "run" /\ conn[c].op = "read" /\ ~conn[c].ctx_stopped
    /\ conn' = LET read == [conn EXCEPT ![c].done = TRUE] IN
               CASE input = "part" -> [read EXCEPT ![c].pc = "next"]
                 [] input = "garbage" -> [read EXCEPT ![c].pc = "unwound", ![c].why = "closed"]
                 [] OTHER -> [read EXCEPT ![c].pc = "enqueue", ![c].frame = input]
    /\ UNCHANGED <<pending, stopped, acceptVars, mainVars, woken>>

\* The peer takes the bytes.  A reply with a payload is a second write.
WriteCompletes(c) ==
    /\ conn[c].pc = "run" /\ conn[c].op = "write" /\ ~conn[c].ctx_stopped
    /\ conn' = IF conn[c].reply = "two"
               THEN [conn EXCEPT ![c].pc = "op", ![c].reply = "one"]
               ELSE [conn EXCEPT ![c].pc = "next", ![c].reply = "none", ![c].done = TRUE]
    /\ UNCHANGED <<pending, stopped, acceptVars, mainVars, woken>>

\* The peer hung up.
OpFails(c) ==
    /\ conn[c].pc = "run" /\ ~conn[c].ctx_stopped
    /\ conn' = [conn EXCEPT ![c].pc = "unwound", ![c].done = TRUE, ![c].why = "closed"]
    /\ UNCHANGED <<pending, stopped, acceptVars, mainVars, woken>>

\* It returns with the operation pending: out of time, or stopped.  The socket
\* is closed and drain_until_done() begins.
RunReturnsEarly(c) ==
    /\ conn[c].pc = "run"
    /\ conn[c].ctx_stopped \/ (Bounded(c) /\ conn[c].expired)
    /\ conn' = [conn EXCEPT ![c].pc = "drain",
                            ![c].why = IF Bounded(c) THEN "timeout" ELSE "stopped"]
    /\ UNCHANGED <<pending, stopped, acceptVars, mainVars, woken>>

\* drain_until_done(): restart(), then run().  A run() that finds the context
\* stopped again returns 0, which ends the loop like any other 0.
DrainRestart(c) ==
    /\ conn[c].pc = "drain"
    /\ conn' = [conn EXCEPT ![c].pc = "drain_run", ![c].ctx_stopped = FALSE]
    /\ UNCHANGED <<pending, stopped, acceptVars, mainVars, woken>>

DrainRun(c) ==
    /\ conn[c].pc = "drain_run"
    /\ conn' = [conn EXCEPT ![c].pc = "unwound", ![c].done = ~conn[c].ctx_stopped]
    /\ UNCHANGED <<pending, stopped, acceptVars, mainVars, woken>>

\* Mutant of enqueue(): queues without looking at stopped_.
Bug_EnqueueUnchecked(c) ==
    /\ conn[c].pc = "enqueue"
    /\ pending' = Append(pending, c)
    /\ conn' = [conn EXCEPT ![c].pc = "wake"]
    /\ UNCHANGED <<stopped, acceptVars, mainVars, woken>>

\* Under queue_mutex_.  Once stopped, the future already holds an exception.
enqueue(c) ==
    /\ conn[c].pc = "enqueue"
    /\ IF stopped
       THEN /\ conn' = [conn EXCEPT ![c].pc = "unwound", ![c].why = "broken"]
            /\ UNCHANGED pending
       ELSE /\ pending' = Append(pending, c)
            /\ conn' = [conn EXCEPT ![c].pc = "wake"]
    /\ UNCHANGED <<stopped, acceptVars, mainVars, woken>>

\* Mutant of wake(): relies on the notification alone.
Bug_WakeUncounted(c) ==
    /\ conn[c].pc = "wake"
    /\ conn' = [conn EXCEPT ![c].pc = "notify"]
    /\ UNCHANGED <<pending, stopped, acceptVars, mainVars, woken>>

\* The enqueue listener, FramePacer::wake(): ++wakes_ under the pacer's mutex,
wake(c) ==
    /\ conn[c].pc = "wake"
    /\ woken' = TRUE
    /\ conn' = [conn EXCEPT ![c].pc = "notify"]
    /\ UNCHANGED <<pending, stopped, acceptVars, mainVars>>

\* then cv_.notify_one(), which a main thread that is not waiting misses.
notify_one(c) ==
    /\ conn[c].pc = "notify"
    /\ conn' = [conn EXCEPT ![c].pc = "wait"]
    /\ mpc' = IF mpc = "waiting" THEN "pace" ELSE mpc
    /\ UNCHANGED <<pending, stopped, acceptVars, batch, todo, signalling, woken>>

\* Mutant of serve_client(): gives up waiting for the reply.
Bug_WaitTimesOut(c) ==
    /\ conn[c].pc = "wait"
    /\ conn' = IF conn[c].reply \in {"none", "broken"}
               THEN [conn EXCEPT ![c].pc = "unwound", ![c].why = "broken"]
               ELSE [conn EXCEPT ![c].pc = "op", ![c].op = "write", ![c].done = FALSE,
                                 ![c].frame = "part"]
    /\ UNCHANGED <<pending, stopped, acceptVars, mainVars, woken>>

\* future.get(), then write_reply() starts the first write.
GetReply(c) ==
    /\ conn[c].pc = "wait" /\ conn[c].reply # "none"
    /\ conn' = IF conn[c].reply = "broken"
               THEN [conn EXCEPT ![c].pc = "unwound", ![c].why = "broken"]
               ELSE [conn EXCEPT ![c].pc = "op", ![c].op = "write", ![c].done = FALSE,
                                 ![c].frame = "part"]
    /\ UNCHANGED <<pending, stopped, acceptVars, mainVars, woken>>

\* finished->store(true), the thread's last act; nothing looks at the rest again.
Finish(c) ==
    /\ conn[c].pc = "unwound"
    /\ conn' = [conn EXCEPT ![c] = [NewConn EXCEPT !.pc = "finished"]]
    /\ UNCHANGED <<pending, stopped, acceptVars, mainVars, woken>>
-----------------------------------------------------------------------------
(* The main thread: frame, drain(), pace(), stop() *)

\* FrameLoop::tick(): a frame, which drains, or the end of the loop: stop()
\* under queue_mutex_ sets stopped_ and drops the queue, breaking its promises.
Frame ==
    /\ mpc = "tick" /\ mpc' = "swap"
    /\ UNCHANGED <<conn, pending, stopped, acceptVars, batch, todo, signalling, woken>>

Queued == {pending[i] : i \in DOMAIN pending}

stop ==
    /\ mpc = "tick" /\ MayStop
    /\ stopped' = TRUE
    /\ conn' = [c \in Conns |-> IF c \in Queued THEN [conn[c] EXCEPT !.reply = "broken"]
                                                ELSE conn[c]]
    /\ pending' = <<>>
    /\ mpc' = "stop_io"
    /\ UNCHANGED <<acceptVars, batch, todo, signalling, woken>>

\* drain(): the swap under queue_mutex_.
DrainSwap ==
    /\ mpc = "swap"
    /\ batch' = pending /\ pending' = <<>>
    /\ mpc' = "dispatch"
    /\ UNCHANGED <<conn, stopped, acceptVars, todo, signalling, woken>>

\* Mutant of handle_hello(): a bad token revokes.
Bug_BadHelloRevokes(c) ==
    [conn EXCEPT ![c].authed = (conn[c].frame = "hello"),
                 ![c].greeted = @ \/ conn[c].frame = "hello",
                 ![c].reply = "one"]

\* AgentCore::handle_hello(): a good token grants, a bad one never revokes.
\* greeted is a history variable.
handle_hello(c) ==
    [conn EXCEPT ![c].authed = @ \/ conn[c].frame = "hello",
                 ![c].greeted = @ \/ conn[c].frame = "hello",
                 ![c].reply = "one"]

\* AgentCore::handle() for the head of the batch.  Before hello any other method
\* is answered with an error; after it the reply may carry a payload, and an
\* exception becomes the future's.
Dispatch ==
    /\ mpc = "dispatch" /\ batch # <<>>
    /\ batch' = Tail(batch)
    /\ LET c == Head(batch) IN
       IF conn[c].frame \in {"hello", "bad_hello"}
       THEN conn' = handle_hello(c)
       ELSE \E r \in IF conn[c].authed THEN {"one", "two", "broken"} ELSE {"one"} :
               conn' = [conn EXCEPT ![c].reply = r]
    /\ UNCHANGED <<pending, stopped, acceptVars, mpc, todo, signalling, woken>>

DrainDone ==
    /\ mpc = "dispatch" /\ batch = <<>>
    /\ mpc' = "pace"
    /\ UNCHANGED <<conn, pending, stopped, acceptVars, batch, todo, signalling, woken>>

\* FramePacer::pace() with its mutex held: serve a wake, leave at the frame's
\* deadline, or wait, which releases the mutex.
Pace ==
    /\ mpc = "pace"
    /\ \E late \in BOOLEAN :
          /\ mpc' = IF late THEN "tick" ELSE IF woken THEN "swap" ELSE "waiting"
          /\ woken' = (woken /\ late)
    /\ UNCHANGED <<conn, pending, stopped, acceptVars, batch, todo, signalling>>

\* wait_until() ends by itself: the deadline, or spuriously.
WaitEnds ==
    /\ mpc = "waiting" /\ mpc' = "pace"
    /\ UNCHANGED <<conn, pending, stopped, acceptVars, batch, todo, signalling, woken>>

StopIo ==
    /\ mpc = "stop_io"
    /\ io_stopped' = TRUE
    /\ mpc' = "stop_join"
    /\ UNCHANGED <<conn, pending, stopped, apc, batch, todo, signalling, woken>>

\* accept_thread_.join(), then the clients to tell, under clients_mutex_.
JoinAccept ==
    /\ mpc = "stop_join" /\ apc = "exited"
    /\ todo' = Clients
    /\ mpc' = "stop_signal"
    /\ UNCHANGED <<conn, pending, stopped, acceptVars, batch, signalling, woken>>

\* client->stop_requested->store(true)
SetStopRequested(c) ==
    /\ mpc = "stop_signal" /\ signalling = NoConn /\ c \in todo
    /\ conn' = [conn EXCEPT ![c].stop_requested = TRUE]
    /\ signalling' = c
    /\ UNCHANGED <<pending, stopped, acceptVars, mpc, batch, todo, woken>>

\* client->ctx->stop()
StopCtx(c) ==
    /\ mpc = "stop_signal" /\ signalling = c
    /\ conn' = [conn EXCEPT ![c].ctx_stopped = TRUE]
    /\ signalling' = NoConn /\ todo' = todo \ {c}
    /\ UNCHANGED <<pending, stopped, acceptVars, mpc, batch, woken>>

AllSignalled ==
    /\ mpc = "stop_signal" /\ signalling = NoConn /\ todo = {}
    /\ mpc' = "stop_reap"
    /\ UNCHANGED <<conn, pending, stopped, acceptVars, batch, todo, signalling, woken>>

\* One turn of stop()'s last loop.
StopReap ==
    /\ mpc = "stop_reap"
    /\ conn' = Reaped(conn)
    /\ mpc' = IF Served = {} THEN "stopped" ELSE "stop_reap"
    /\ UNCHANGED <<pending, stopped, acceptVars, batch, todo, signalling, woken>>
-----------------------------------------------------------------------------
Accepting == (\E c \in Conns : AcceptCompletes(c) \/ handle_accept(c)) \/ RetryAccept \/ AcceptLoopExits

\* What the thread of c does without the help of its peer.
Serving(c) ==
    \/ StartRead(c) \/ Restart(c) \/ CheckStopRequested(c)
    \/ RunReturnsEarly(c)
    \/ DrainRestart(c) \/ DrainRun(c)
    \/ enqueue(c) \/ wake(c) \/ notify_one(c) \/ GetReply(c)
    \/ Finish(c)

Main ==
    \/ Frame \/ DrainSwap \/ Dispatch \/ DrainDone \/ Pace \/ WaitEnds
    \/ StopIo \/ JoinAccept \/ AllSignalled \/ StopReap
    \/ \E c \in Conns : SetStopRequested(c) \/ StopCtx(c)

Peers == \E c \in Conns :
    \/ Connect(c) \/ WriteCompletes(c) \/ OpFails(c)
    \/ \E input \in Inputs : ReadCompletes(c, input)

Next ==
    \/ Peers \/ \E c \in Conns : DeadlinePasses(c)
    \/ Accepting \/ AcceptFails
    \/ \E c \in Conns : Serving(c)
    \/ Main \/ stop

\* Every thread keeps running and the clock advances; the peers owe nothing.
\* An idle stop_reap turn changes nothing, so it needs no fairness of its own.
Fairness ==
    /\ WF_vars(Main) /\ WF_vars(Accepting)
    /\ \A c \in Conns : WF_vars(Serving(c)) /\ WF_vars(DeadlinePasses(c))

Spec == Init /\ [][Next]_vars /\ Fairness
-----------------------------------------------------------------------------
\* The types of the state.
TypeOK ==
    /\ conn \in [Conns -> [pc : ServePcs \cup {"none", "backlog", "handed"},
                           op : {"read", "write"}, frame : PeerInputs, authed : BOOLEAN,
                           greeted : BOOLEAN, expired : BOOLEAN, stop_requested : BOOLEAN,
                           ctx_stopped : BOOLEAN, done : BOOLEAN,
                           reply : {"none", "one", "two", "broken"},
                           why : {"none", "timeout", "stopped", "closed", "broken"}]]
    /\ pending \in Seq(Conns) /\ batch \in Seq(Conns)
    /\ todo \subseteq Conns /\ signalling \in Conns \cup {NoConn}
    /\ apc \in {"accept", "handle", "backoff", "exited"}
    /\ mpc \in {"tick", "swap", "dispatch", "pace", "waiting", "stop_io", "stop_join",
                "stop_signal", "stop_reap", "stopped"}
    /\ stopped \in BOOLEAN /\ io_stopped \in BOOLEAN /\ woken \in BOOLEAN

\* A queued request points into its serve thread's stack (PendingRequest::authed):
\* for as long as it is in the queue or in drain()'s batch, that thread is
\* blocked on the request's future, and it has no other request.  So the queue is
\* "bounded to MAX_CLIENTS entries by construction" (agent_server.h), as the
\* threads are.
RequestOwned ==
    LET queue == pending \o batch IN
    /\ \A i \in DOMAIN queue : conn[queue[i]].pc \in {"wake", "notify", "wait"}
    /\ \A i \in DOMAIN queue : conn[queue[i]].reply = "none"
    /\ \A i, j \in DOMAIN queue : queue[i] = queue[j] => i = j
    /\ Len(queue) <= MAX_CLIENTS /\ Cardinality(Clients) <= MAX_CLIENTS

\* The handshake deadline never ends a connection that once said hello, however
\* long ago and whatever it said since (handle_hello()).
DeadlineSparesGreeted == \A c \in Conns : conn[c].why = "timeout" => ~conn[c].greeted

\* A request whose listener call is over never lies in the queue while the main
\* thread sleeps (FramePacer: "Interrupts pace() in progress; if none in
\* progress, it is served on the next pace() entry").
NoLostWake ==
    mpc = "waiting" => \A c \in Queued : conn[c].pc # "wait"

\* stop() returns -- every thread joined -- whatever the peers and the serve
\* threads were doing when it was called.
StopReturns == stopped ~> mpc = "stopped"

\* A serve thread never waits for its reply for ever.
RequestAnswered == \A c \in Conns : conn[c].pc = "wait" ~> conn[c].pc # "wait"

\* A connection that does not authenticate gives its slot back, even if it keeps
\* sending (the single handshake budget of serve_client()).  The one exception is
\* a peer that never takes the reply it was sent: replies have no deadline.
SilentPeerFreed ==
    \A c \in Conns :
        <>[](c \in Served /\ ~conn[c].authed)
            => <>[](conn[c].pc = "run" /\ conn[c].op = "write")
=============================================================================
