------------------------- MODULE AgentServerProofs -------------------------
(***************************************************************************)
(* Proofs about the viewer's agent endpoint (AgentServer) for any number   *)
(* of connections and any cap on clients: a queued request is owned by a   *)
(* thread that waits for it, the handshake deadline spares who said hello, *)
(* and no request is left lying while the main thread sleeps.              *)
(***************************************************************************)
EXTENDS AgentServer, FiniteSetTheorems, TLAPS

ConnPcs == ServePcs \cup {"none", "backlog", "handed"}
ConnType == [pc : ConnPcs, op : {"read", "write"}, frame : PeerInputs, authed : BOOLEAN,
             greeted : BOOLEAN, expired : BOOLEAN, stop_requested : BOOLEAN,
             ctx_stopped : BOOLEAN, done : BOOLEAN,
             reply : {"none", "one", "two", "broken"},
             why : {"none", "timeout", "stopped", "closed", "broken"}]

\* Where a thread is between queueing its request and taking the reply.
Waiting == {"wake", "notify", "wait"}

\* One connection: it holds a reply only from the dispatch to the end of the write,
\* it has a reason to end only once it is on its way out, and who was greeted is
\* authenticated.
Sound(r) ==
    /\ r \in ConnType
    /\ r.reply # "none" => \/ r.pc \in Waiting \cup {"unwound"}
                           \/ r.op = "write" /\ r.pc \in {"op", "check", "run", "drain", "drain_run"}
    /\ r.why # "none" => r.pc \in {"drain", "drain_run", "unwound"}
    /\ r.why = "timeout" => ~r.greeted
    /\ r.greeted => r.authed

InSeq(s) == {s[i] : i \in DOMAIN s}
Once(s) == \A i, j \in DOMAIN s : s[i] = s[j] => i = j
Waits(r) == r.pc \in Waiting /\ r.reply = "none"

\* The requests in the queue and in drain()'s batch, each with its thread waiting.
Owned(cs, queue, taken) ==
    /\ queue \in Seq(Conns) /\ taken \in Seq(Conns)
    /\ \A c \in InSeq(queue) : Waits(cs[c])
    /\ \A c \in InSeq(taken) : Waits(cs[c])
    /\ Once(queue) /\ Once(taken) /\ InSeq(queue) \cap InSeq(taken) = {}

\* A request whose wake() is over has its wake-up counted until the main thread is
\* about to take the queue.
Announced(cs, queue, counted, main) ==
    /\ \A c \in InSeq(queue) : cs[c].pc \in {"notify", "wait"} => counted \/ main = "swap"
    /\ main = "waiting" => \A c \in InSeq(queue) : cs[c].pc # "wait"

Serves(cs) == {c \in Conns : cs[c].pc \in ServePcs}

\* The inductive invariant.
Inv ==
    /\ conn \in [Conns -> ConnType]
    /\ \A c \in Conns : Sound(conn[c])
    /\ Owned(conn, pending, batch)
    /\ Announced(conn, pending, woken, mpc)
    /\ Cardinality(Serves(conn)) <= MAX_CLIENTS
    /\ todo \subseteq Conns
-----------------------------------------------------------------------------
\* A queued connection exists.
LEMMA QueuedExists ==
    \A q \in Seq(Conns) : \A d \in InSeq(q) : d \in Conns
BY DEF InSeq

\* With no more serve threads than before, the cap is kept.
LEMMA FewerClients ==
    ASSUME NEW cs, NEW ds, Cardinality(Serves(cs)) <= MAX_CLIENTS, Serves(ds) \subseteq Serves(cs)
    PROVE  Cardinality(Serves(ds)) <= MAX_CLIENTS
<1>1. IsFiniteSet(Conns) /\ MAX_CLIENTS \in Nat
  BY ServerAssumption
<1>2. IsFiniteSet(Serves(cs))
  BY <1>1, FS_Subset DEF Serves
<1>3. IsFiniteSet(Serves(ds)) /\ Cardinality(Serves(ds)) <= Cardinality(Serves(cs))
  BY <1>2, FS_Subset
<1>4. Cardinality(Serves(cs)) \in Nat /\ Cardinality(Serves(ds)) \in Nat
  BY <1>2, <1>3, FS_CardinalityType
<1> QED
  BY <1>1, <1>3, <1>4

\* A new connection, and one whose thread has finished.
LEMMA FreshIsSound ==
    Sound(NewConn) /\ Sound([NewConn EXCEPT !.pc = "finished"])
BY DEF Sound, NewConn, ConnType, ConnPcs, ServePcs, PeerInputs, Waiting

\* Only the connection c changes.
Moved(c) == conn' = [d \in Conns |-> IF d = c THEN conn'[c] ELSE conn[d]]

\* A step of one connection that takes no request from the queue or puts one there.
LEMMA OneMoves ==
    ASSUME Inv, NEW c \in Conns, Moved(c), Sound(conn'[c]),
           conn'[c].pc \in ServePcs => conn[c].pc \in ServePcs,
           \/ ~Waits(conn[c])
           \/ conn'[c].pc = conn[c].pc /\ conn'[c].reply = conn[c].reply,
           UNCHANGED <<pending, batch, woken, mpc>>, todo' \subseteq Conns
    PROVE  Inv'
<1>0. /\ conn \in [Conns -> ConnType] /\ (\A d \in Conns : Sound(conn[d]))
      /\ Owned(conn, pending, batch) /\ Announced(conn, pending, woken, mpc)
      /\ Cardinality(Serves(conn)) <= MAX_CLIENTS
  BY DEF Inv
<1>1. /\ \A d \in Conns : d # c => conn'[d] = conn[d]
      /\ conn' \in [Conns -> ConnType] /\ \A d \in Conns : Sound(conn'[d])
  <2>1. conn'[c] \in ConnType
    BY DEF Sound
  <2> QED
    BY <1>0, <2>1 DEF Moved
<1>2. Serves(conn') \subseteq Serves(conn)
  BY <1>1 DEF Serves
<1>3. Cardinality(Serves(conn')) <= MAX_CLIENTS
  BY <1>0, <1>2, FewerClients
<1>4. (\A d \in InSeq(pending) : d \in Conns) /\ \A d \in InSeq(batch) : d \in Conns
  <2>1. pending \in Seq(Conns) /\ batch \in Seq(Conns)
    BY <1>0 DEF Owned
  <2> QED
    BY <2>1, QueuedExists
<1>5. /\ \A d \in InSeq(pending) : conn'[d].pc = conn[d].pc /\ conn'[d].reply = conn[d].reply
      /\ \A d \in InSeq(batch) : conn'[d].pc = conn[d].pc /\ conn'[d].reply = conn[d].reply
  BY <1>0, <1>1, <1>4 DEF Owned
<1>6. Owned(conn', pending, batch)
  BY <1>0, <1>5 DEF Owned, Waits
<1>7. Announced(conn', pending, woken, mpc)
  BY <1>0, <1>5 DEF Announced
<1> QED
  BY <1>1, <1>3, <1>6, <1>7 DEF Inv

\* A step that moves no connection and leaves the queue and the pacer alone.
LEMMA NoneMoves ==
    ASSUME Inv, UNCHANGED <<conn, pending, batch>>, todo' \subseteq Conns,
           Announced(conn, pending, woken', mpc')
    PROVE  Inv'
BY DEF Inv
-----------------------------------------------------------------------------
\* Connections come, wait to be accepted, and time passes.
LEMMA PeersKeep ==
    ASSUME Inv, NEW c \in Conns, Connect(c) \/ DeadlinePasses(c) \/ AcceptCompletes(c)
    PROVE  Inv'
<1>0. conn \in [Conns -> ConnType] /\ Sound(conn[c]) /\ todo \subseteq Conns
  BY DEF Inv
<1> DEFINE s == conn[c]
<1>1. CASE Connect(c)
  <2>1. s.pc = "none" /\ Moved(c) /\ conn'[c] = [s EXCEPT !.pc = "backlog"]
    BY <1>0, <1>1 DEF Connect, Moved
  <2>2. Sound(conn'[c]) /\ conn'[c].pc = "backlog"
    <3> HIDE DEF s
    <3> QED
      BY <1>0, <2>1 DEF Sound, ConnType, ConnPcs, s, Waiting
  <2> QED
    BY <1>0, <1>1, <2>1, <2>2, OneMoves DEF Connect, mainVars, ServePcs, Waits, Waiting
<1>2. CASE DeadlinePasses(c)
  <2>1. Moved(c) /\ conn'[c] = [s EXCEPT !.expired = TRUE]
    BY <1>0, <1>2 DEF DeadlinePasses, Moved
  <2>2. Sound(conn'[c]) /\ conn'[c].pc = s.pc /\ conn'[c].reply = s.reply
    BY <1>0, <2>1 DEF Sound, ConnType
  <2> QED
    BY <1>0, <1>2, <2>1, <2>2, OneMoves DEF DeadlinePasses, mainVars
<1>3. CASE AcceptCompletes(c)
  <2>1. s.pc = "backlog" /\ Moved(c) /\ conn'[c] = [s EXCEPT !.pc = "handed"]
    BY <1>0, <1>3 DEF AcceptCompletes, Moved
  <2>2. Sound(conn'[c]) /\ conn'[c].pc = "handed"
    BY <1>0, <2>1 DEF Sound, ConnType, ConnPcs, Waiting
  <2> QED
    BY <1>0, <1>3, <2>1, <2>2, OneMoves DEF AcceptCompletes, mainVars, ServePcs, Waits, Waiting
<1> QED
  BY <1>1, <1>2, <1>3

\* Reaping forgets finished threads, which have no request
\* (reap_finished_clients_locked()).
LEMMA ReapKeeps ==
    ASSUME Inv
    PROVE  /\ Reaped(conn) \in [Conns -> ConnType]
           /\ \A d \in Conns : Sound(Reaped(conn)[d])
           /\ \A d \in InSeq(pending) \cup InSeq(batch) : Reaped(conn)[d] = conn[d] /\ d \in Conns
           /\ Serves(Reaped(conn)) = Served /\ Served \subseteq Serves(conn)
<1>0. /\ conn \in [Conns -> ConnType]
      /\ \A d \in Conns : Sound(conn[d])
      /\ Owned(conn, pending, batch)
  BY DEF Inv
<1>1. NewConn \in ConnType /\ Sound(NewConn)
  BY FreshIsSound DEF Sound
<1>2. \A d \in Conns : Reaped(conn)[d] = IF conn[d].pc = "finished" THEN NewConn ELSE conn[d]
  BY DEF Reaped
<1>3. Reaped(conn) \in [Conns -> ConnType]
  <2>1. \A d \in Conns : Reaped(conn)[d] \in ConnType
    BY <1>0, <1>1, <1>2
  <2>2. Reaped(conn) = [d \in Conns |-> Reaped(conn)[d]]
    BY DEF Reaped
  <2> HIDE DEF Reaped
  <2> QED
    BY <2>1, <2>2
<1>4. (\A d \in InSeq(pending) : d \in Conns) /\ \A d \in InSeq(batch) : d \in Conns
  <2>1. pending \in Seq(Conns) /\ batch \in Seq(Conns)
    BY <1>0 DEF Owned
  <2> QED
    BY <2>1, QueuedExists
<1>5. \A d \in InSeq(pending) \cup InSeq(batch) : Reaped(conn)[d] = conn[d] /\ d \in Conns
  <2>1. ASSUME NEW d \in InSeq(pending) \cup InSeq(batch)
        PROVE  Reaped(conn)[d] = conn[d] /\ d \in Conns
    <3>1. Waits(conn[d]) /\ d \in Conns
      BY <1>0, <1>4, <2>1 DEF Owned
    <3>2. conn[d].pc # "finished"
      BY <3>1 DEF Waits, Waiting
    <3> QED
      BY <1>2, <3>1, <3>2
  <2> QED
    BY <2>1
<1>6. NewConn.pc \notin ServePcs
  BY DEF NewConn, ServePcs
<1>7. Serves(Reaped(conn)) = Served /\ Served \subseteq Serves(conn)
  BY <1>2, <1>6 DEF Served, Clients, Serves
<1> QED
  BY <1>0, <1>1, <1>2, <1>3, <1>5, <1>7

\* A step that moves connections other than those in the queue.
LEMMA SomeMove ==
    ASSUME Inv, conn' \in [Conns -> ConnType], \A d \in Conns : Sound(conn'[d]),
           \A d \in InSeq(pending) \cup InSeq(batch) : conn'[d] = conn[d],
           Cardinality(Serves(conn')) <= MAX_CLIENTS,
           UNCHANGED <<pending, batch>>, Announced(conn, pending, woken', mpc'),
           todo' \subseteq Conns
    PROVE  Inv'
<1>0. Owned(conn, pending, batch)
  BY DEF Inv
<1>1. Owned(conn', pending, batch)
  BY <1>0 DEF Owned
<1>2. Announced(conn', pending, woken', mpc')
  BY DEF Announced
<1> QED
  BY <1>1, <1>2 DEF Inv

\* The accept thread: a peer past the cap is refused (handle_accept()).
LEMMA AcceptKeeps ==
    ASSUME Inv, NEW c \in Conns, handle_accept(c)
    PROVE  Inv'
<1>0. /\ conn \in [Conns -> ConnType] /\ Sound(conn[c]) /\ todo \subseteq Conns
      /\ Owned(conn, pending, batch) /\ Announced(conn, pending, woken, mpc)
      /\ Cardinality(Serves(conn)) <= MAX_CLIENTS
  BY DEF Inv
<1> DEFINE rs == Reaped(conn)
<1>1. /\ rs \in [Conns -> ConnType] /\ \A d \in Conns : Sound(rs[d])
      /\ \A d \in InSeq(pending) \cup InSeq(batch) : rs[d] = conn[d] /\ d \in Conns
      /\ Serves(rs) = Served /\ Served \subseteq Serves(conn)
  BY ReapKeeps
<1>2. /\ conn[c].pc = "handed"
      /\ conn' = IF Cardinality(Served) >= MAX_CLIENTS
                 THEN [rs EXCEPT ![c] = NewConn] ELSE [rs EXCEPT ![c].pc = "next"]
      /\ UNCHANGED <<pending, batch, woken, mpc, todo>>
  BY DEF handle_accept, mainVars
<1>3. c \notin InSeq(pending) \cup InSeq(batch) /\ rs[c] = conn[c]
  <2>1. ~Waits(conn[c])
    BY <1>2 DEF Waits, Waiting
  <2> QED
    BY <1>0, <1>2, <2>1 DEF Owned, Reaped
<1> HIDE DEF rs
<1>4. CASE Cardinality(Served) >= MAX_CLIENTS
  <2>1. Sound(NewConn) /\ NewConn \in ConnType /\ NewConn.pc \notin ServePcs
    BY FreshIsSound DEF Sound, NewConn, ServePcs
  <2>2. conn' = [rs EXCEPT ![c] = NewConn]
    BY <1>2, <1>4
  <2>3. /\ conn' \in [Conns -> ConnType] /\ conn'[c] = NewConn
        /\ \A d \in Conns : d # c => conn'[d] = rs[d]
    BY <1>1, <2>1, <2>2
  <2>4. Serves(conn') \subseteq Serves(conn)
    BY <1>1, <2>1, <2>3 DEF Serves
  <2>5. Cardinality(Serves(conn')) <= MAX_CLIENTS
    BY <1>0, <2>4, FewerClients
  <2>6. /\ \A d \in Conns : Sound(conn'[d])
        /\ \A d \in InSeq(pending) \cup InSeq(batch) : conn'[d] = conn[d]
    BY <1>1, <1>3, <2>1, <2>3
  <2> QED
    BY <1>0, <1>2, <2>3, <2>5, <2>6, SomeMove
<1>5. CASE ~(Cardinality(Served) >= MAX_CLIENTS)
  <2> DEFINE r == [conn[c] EXCEPT !.pc = "next"]
  <2>1. Sound(r)
    BY <1>0, <1>2 DEF Sound, ConnType, ConnPcs, ServePcs, Waiting
  <2>2. conn' = [rs EXCEPT ![c].pc = "next"]
    BY <1>2, <1>5
  <2>3. /\ conn'[c] = r /\ \A d \in Conns : d # c => conn'[d] = rs[d]
        /\ conn' = [d \in Conns |-> conn'[d]]
    BY <1>1, <1>3, <2>2
  <2> HIDE DEF r
  <2>4. /\ conn' \in [Conns -> ConnType] /\ \A d \in Conns : Sound(conn'[d])
        /\ \A d \in InSeq(pending) \cup InSeq(batch) : conn'[d] = conn[d]
    <3>1. \A d \in Conns : Sound(conn'[d]) /\ conn'[d] \in ConnType
      BY <1>1, <2>1, <2>3 DEF Sound
    <3> QED
      BY <1>1, <1>3, <2>3, <3>1
  <2>5. Serves(conn') \subseteq Served \cup {c}
    BY <1>1, <2>3 DEF Serves
  <2>6. Cardinality(Serves(conn')) <= MAX_CLIENTS
    <3>1. IsFiniteSet(Conns) /\ MAX_CLIENTS \in Nat
      BY ServerAssumption
    <3>2. IsFiniteSet(Served)
      BY <3>1, FS_Subset DEF Served, Clients
    <3>3. /\ IsFiniteSet(Served \cup {c}) /\ Cardinality(Served) \in Nat
          /\ Cardinality(Served \cup {c}) <= Cardinality(Served) + 1
      <4>1. Cardinality(Served) \in Nat
        BY <3>2, FS_CardinalityType
      <4>2. /\ IsFiniteSet(Served \cup {c})
            /\ Cardinality(Served \cup {c})
                 = IF c \in Served THEN Cardinality(Served) ELSE Cardinality(Served) + 1
        BY <3>2, FS_AddElement
      <4> QED
        BY <4>1, <4>2
    <3>4. /\ IsFiniteSet(Serves(conn'))
          /\ Cardinality(Serves(conn')) <= Cardinality(Served \cup {c})
      BY <2>5, <3>3, FS_Subset
    <3>5. Cardinality(Serves(conn')) \in Nat /\ Cardinality(Served \cup {c}) \in Nat
      BY <3>3, <3>4, FS_CardinalityType
    <3> QED
      BY <1>5, <3>1, <3>3, <3>4, <3>5
  <2> QED
    BY <1>0, <1>2, <2>4, <2>6, SomeMove
<1> QED
  BY <1>4, <1>5

\* What the thread of c does up to its request and after the reply
\* (serve_client(), run_async_op(), drain_until_done()).
LEMMA ServingKeeps ==
    ASSUME Inv, NEW c \in Conns,
           \/ StartRead(c) \/ Restart(c) \/ CheckStopRequested(c) \/ OpFails(c)
           \/ RunReturnsEarly(c) \/ DrainRestart(c) \/ DrainRun(c)
    PROVE  Inv'
<1> DEFINE s == conn[c]
<1>0. conn \in [Conns -> ConnType] /\ Sound(s) /\ s \in ConnType /\ todo \subseteq Conns
  BY DEF Inv
<1>1. CASE StartRead(c)
  <2>1. /\ s.pc = "next" /\ Moved(c)
        /\ conn'[c] = IF ~s.authed /\ s.expired
                   THEN [s EXCEPT !.pc = "unwound", !.why = "timeout"]
                   ELSE [s EXCEPT !.pc = "op", !.op = "read", !.done = FALSE]
        /\ UNCHANGED <<pending, batch, woken, mpc, todo>>
    BY <1>0, <1>1 DEF StartRead, Moved, mainVars
  <2>2. Sound(conn'[c])
    <3>1. CASE ~s.authed /\ s.expired
      <4>1. conn'[c] = [s EXCEPT !.pc = "unwound", !.why = "timeout"]
        BY <2>1, <3>1
      <4> HIDE DEF s
      <4> QED
        BY <1>0, <2>1, <3>1, <4>1, ZenonT(30) DEF Sound, ConnType, ConnPcs, ServePcs, Waiting
    <3>2. CASE ~(~s.authed /\ s.expired)
      <4>1. conn'[c] = [s EXCEPT !.pc = "op", !.op = "read", !.done = FALSE]
        BY <2>1, <3>2
      <4> HIDE DEF s
      <4> QED
        BY <1>0, <2>1, <3>2, <4>1, ZenonT(30) DEF Sound, ConnType, ConnPcs, ServePcs, Waiting
    <3> QED
      BY <3>1, <3>2
  <2>3. ~Waits(s) /\ s.pc \in ServePcs
    BY <2>1 DEF Waits, Waiting, ServePcs
  <2> QED
    BY <1>0, <2>1, <2>2, <2>3, OneMoves
<1>2. CASE Restart(c)
  <2>1. /\ s.pc = "op" /\ Moved(c)
        /\ conn'[c] = [s EXCEPT !.pc = "check", !.ctx_stopped = FALSE]
        /\ UNCHANGED <<pending, batch, woken, mpc, todo>>
    BY <1>0, <1>2 DEF Restart, Moved, mainVars
  <2>2. Sound(conn'[c])
    <3> HIDE DEF s
    <3> QED
      BY <1>0, <2>1, ZenonT(30) DEF Sound, ConnType, ConnPcs, ServePcs, Waiting
  <2>3. ~Waits(s) /\ s.pc \in ServePcs
    BY <2>1 DEF Waits, Waiting, ServePcs
  <2> QED
    BY <1>0, <2>1, <2>2, <2>3, OneMoves
<1>3. CASE CheckStopRequested(c)
  <2>1. /\ s.pc = "check" /\ Moved(c)
        /\ conn'[c] = IF s.stop_requested
                   THEN [s EXCEPT !.pc = "drain", !.why = "stopped"]
                   ELSE [s EXCEPT !.pc = "run"]
        /\ UNCHANGED <<pending, batch, woken, mpc, todo>>
    BY <1>0, <1>3 DEF CheckStopRequested, Moved, mainVars
  <2>2. Sound(conn'[c])
    <3>1. CASE s.stop_requested
      <4>1. conn'[c] = [s EXCEPT !.pc = "drain", !.why = "stopped"]
        BY <2>1, <3>1
      <4> HIDE DEF s
      <4> QED
        BY <1>0, <2>1, <3>1, <4>1, ZenonT(30) DEF Sound, ConnType, ConnPcs, ServePcs, Waiting
    <3>2. CASE ~(s.stop_requested)
      <4>1. conn'[c] = [s EXCEPT !.pc = "run"]
        BY <2>1, <3>2
      <4> HIDE DEF s
      <4> QED
        BY <1>0, <2>1, <3>2, <4>1 DEF Sound, ConnType, ConnPcs, ServePcs, Waiting
    <3> QED
      BY <3>1, <3>2
  <2>3. ~Waits(s) /\ s.pc \in ServePcs
    BY <2>1 DEF Waits, Waiting, ServePcs
  <2> QED
    BY <1>0, <2>1, <2>2, <2>3, OneMoves
<1>4. CASE OpFails(c)
  <2>1. /\ s.pc = "run" /\ Moved(c)
        /\ conn'[c] = [s EXCEPT !.pc = "unwound", !.done = TRUE, !.why = "closed"]
        /\ UNCHANGED <<pending, batch, woken, mpc, todo>>
    BY <1>0, <1>4 DEF OpFails, Moved, mainVars
  <2>2. Sound(conn'[c])
    <3> HIDE DEF s
    <3> QED
      BY <1>0, <2>1, ZenonT(30) DEF Sound, ConnType, ConnPcs, ServePcs, Waiting
  <2>3. ~Waits(s) /\ s.pc \in ServePcs
    BY <2>1 DEF Waits, Waiting, ServePcs
  <2> QED
    BY <1>0, <2>1, <2>2, <2>3, OneMoves
<1>5. CASE RunReturnsEarly(c)
  <2>1. /\ s.pc = "run" /\ Moved(c)
        /\ conn'[c] = [s EXCEPT !.pc = "drain", !.why =
                    IF s.op = "read" /\ ~s.authed THEN "timeout" ELSE "stopped"]
        /\ UNCHANGED <<pending, batch, woken, mpc, todo>>
    BY <1>0, <1>5 DEF RunReturnsEarly, Moved, mainVars, Bounded
  <2>2. Sound(conn'[c])
    <3> HIDE DEF s
    <3> QED
      BY <1>0, <2>1, ZenonT(30) DEF Sound, ConnType, ConnPcs, ServePcs, Waiting
  <2>3. ~Waits(s) /\ s.pc \in ServePcs
    BY <2>1 DEF Waits, Waiting, ServePcs
  <2> QED
    BY <1>0, <2>1, <2>2, <2>3, OneMoves
<1>6. CASE DrainRestart(c)
  <2>1. /\ s.pc = "drain" /\ Moved(c)
        /\ conn'[c] = [s EXCEPT !.pc = "drain_run", !.ctx_stopped = FALSE]
        /\ UNCHANGED <<pending, batch, woken, mpc, todo>>
    BY <1>0, <1>6 DEF DrainRestart, Moved, mainVars
  <2>2. Sound(conn'[c])
    <3> HIDE DEF s
    <3> QED
      BY <1>0, <2>1, ZenonT(30) DEF Sound, ConnType, ConnPcs, ServePcs, Waiting
  <2>3. ~Waits(s) /\ s.pc \in ServePcs
    BY <2>1 DEF Waits, Waiting, ServePcs
  <2> QED
    BY <1>0, <2>1, <2>2, <2>3, OneMoves
<1>7. CASE DrainRun(c)
  <2>1. /\ s.pc = "drain_run" /\ Moved(c)
        /\ conn'[c] = [s EXCEPT !.pc = "unwound", !.done = ~s.ctx_stopped]
        /\ UNCHANGED <<pending, batch, woken, mpc, todo>>
    BY <1>0, <1>7 DEF DrainRun, Moved, mainVars
  <2>2. Sound(conn'[c])
    <3> HIDE DEF s
    <3> QED
      BY <1>0, <2>1, ZenonT(30) DEF Sound, ConnType, ConnPcs, ServePcs, Waiting
  <2>3. ~Waits(s) /\ s.pc \in ServePcs
    BY <2>1 DEF Waits, Waiting, ServePcs
  <2> QED
    BY <1>0, <2>1, <2>2, <2>3, OneMoves
<1> QED
  BY <1>1, <1>2, <1>3, <1>4, <1>5, <1>6, <1>7

\* A read or a write ends, the reply is taken, the thread finishes.
LEMMA ExchangeKeeps ==
    ASSUME Inv, NEW c \in Conns,
           \/ \E input \in Inputs : ReadCompletes(c, input)
           \/ WriteCompletes(c) \/ GetReply(c) \/ Finish(c)
    PROVE  Inv'
<1> DEFINE s == conn[c]
<1>0. conn \in [Conns -> ConnType] /\ Sound(s) /\ s \in ConnType /\ todo \subseteq Conns
  BY DEF Inv
<1>1. ASSUME NEW input \in Inputs, ReadCompletes(c, input)
      PROVE  Inv'
  <2>0. input \in PeerInputs
    BY ServerAssumption
  <2>1. /\ s.pc = "run" /\ s.op = "read" /\ Moved(c)
        /\ \/ conn'[c] = [s EXCEPT !.done = TRUE, !.pc = "next"]
           \/ conn'[c] = [s EXCEPT !.done = TRUE, !.pc = "unwound", !.why = "closed"]
           \/ conn'[c] = [s EXCEPT !.done = TRUE, !.pc = "enqueue", !.frame = input]
        /\ UNCHANGED <<pending, batch, woken, mpc, todo>>
    <3>1. s.pc = "run" /\ s.op = "read" /\ UNCHANGED <<pending, batch, woken, mpc, todo>>
      BY <1>1 DEF ReadCompletes, mainVars
    <3> DEFINE read == [conn EXCEPT ![c].done = TRUE]
    <3>2. \/ conn' = [read EXCEPT ![c].pc = "next"]
          \/ conn' = [read EXCEPT ![c].pc = "unwound", ![c].why = "closed"]
          \/ conn' = [read EXCEPT ![c].pc = "enqueue", ![c].frame = input]
      BY <1>1 DEF ReadCompletes
    <3>3. read \in [Conns -> ConnType] /\ read[c] = [s EXCEPT !.done = TRUE]
          /\ \A d \in Conns : d # c => read[d] = conn[d]
      BY <1>0 DEF ConnType
    <3> HIDE DEF read
    <3>4. /\ conn' = [d \in Conns |-> conn'[d]]
          /\ \A d \in Conns : d # c => conn'[d] = read[d]
          /\ \/ conn'[c] = [read[c] EXCEPT !.pc = "next"]
             \/ conn'[c] = [read[c] EXCEPT !.pc = "unwound", !.why = "closed"]
             \/ conn'[c] = [read[c] EXCEPT !.pc = "enqueue", !.frame = input]
      BY <3>2, <3>3
    <3>5. Moved(c)
      BY <3>3, <3>4 DEF Moved
    <3>6. \/ conn'[c] = [s EXCEPT !.done = TRUE, !.pc = "next"]
          \/ conn'[c] = [s EXCEPT !.done = TRUE, !.pc = "unwound", !.why = "closed"]
          \/ conn'[c] = [s EXCEPT !.done = TRUE, !.pc = "enqueue", !.frame = input]
      <4> HIDE DEF s
      <4> QED
        BY <1>0, <3>3, <3>4 DEF ConnType
    <3> QED
      BY <3>1, <3>5, <3>6
  <2>2. Sound(conn'[c])
    <3> HIDE DEF s
    <3>1. CASE conn'[c] = [s EXCEPT !.done = TRUE, !.pc = "next"]
      BY <1>0, <2>1, <3>1 DEF Sound, ConnType, ConnPcs, ServePcs, Waiting
    <3>2. CASE conn'[c] = [s EXCEPT !.done = TRUE, !.pc = "unwound", !.why = "closed"]
      BY <1>0, <2>1, <3>2 DEF Sound, ConnType, ConnPcs, ServePcs, Waiting
    <3>3. CASE conn'[c] = [s EXCEPT !.done = TRUE, !.pc = "enqueue", !.frame = input]
      BY <1>0, <2>0, <2>1, <3>3, ZenonT(30) DEF Sound, ConnType, ConnPcs, ServePcs, Waiting
    <3> QED
      BY <2>1, <3>1, <3>2, <3>3
  <2>3. ~Waits(s) /\ s.pc \in ServePcs
    BY <2>1 DEF Waits, Waiting, ServePcs
  <2> QED
    BY <1>0, <2>1, <2>2, <2>3, OneMoves
<1>2. CASE WriteCompletes(c)
  <2>1. /\ s.pc = "run" /\ s.op = "write" /\ Moved(c)
        /\ UNCHANGED <<pending, batch, woken, mpc, todo>>
        /\ conn'[c] = IF s.reply = "two" THEN [s EXCEPT !.pc = "op", !.reply = "one"]
                      ELSE [s EXCEPT !.pc = "next", !.reply = "none", !.done = TRUE]
    BY <1>0, <1>2 DEF WriteCompletes, Moved, mainVars
  <2>2. Sound(conn'[c])
    <3>1. CASE s.reply = "two"
      <4>1. conn'[c] = [s EXCEPT !.pc = "op", !.reply = "one"]
        BY <2>1, <3>1
      <4> HIDE DEF s
      <4> QED
        BY <1>0, <2>1, <3>1, <4>1 DEF Sound, ConnType, ConnPcs, ServePcs, Waiting
    <3>2. CASE ~(s.reply = "two")
      <4>1. conn'[c] = [s EXCEPT !.pc = "next", !.reply = "none", !.done = TRUE]
        BY <2>1, <3>2
      <4> HIDE DEF s
      <4> QED
        BY <1>0, <2>1, <3>2, <4>1, ZenonT(30) DEF Sound, ConnType, ConnPcs, ServePcs, Waiting
    <3> QED
      BY <3>1, <3>2
  <2>3. ~Waits(s) /\ s.pc \in ServePcs
    BY <2>1 DEF Waits, Waiting, ServePcs
  <2> QED
    BY <1>0, <2>1, <2>2, <2>3, OneMoves
<1>3. CASE GetReply(c)
  <2>1. /\ s.pc = "wait" /\ s.reply # "none" /\ Moved(c)
        /\ UNCHANGED <<pending, batch, woken, mpc, todo>>
        /\ conn'[c] = IF s.reply = "broken" THEN [s EXCEPT !.pc = "unwound", !.why = "broken"]
                      ELSE [s EXCEPT !.pc = "op", !.op = "write", !.done = FALSE, !.frame = "part"]
    BY <1>0, <1>3 DEF GetReply, Moved, mainVars
  <2>2. Sound(conn'[c])
    <3>1. CASE s.reply = "broken"
      <4>1. conn'[c] = [s EXCEPT !.pc = "unwound", !.why = "broken"]
        BY <2>1, <3>1
      <4> HIDE DEF s
      <4> QED
        BY <1>0, <2>1, <3>1, <4>1 DEF Sound, ConnType, ConnPcs, ServePcs, Waiting
    <3>2. CASE ~(s.reply = "broken")
      <4>1. conn'[c] = [s EXCEPT !.pc = "op", !.op = "write", !.done = FALSE, !.frame = "part"]
        BY <2>1, <3>2
      <4> HIDE DEF s
      <4> QED
        BY <1>0, <2>1, <3>2, <4>1, ZenonT(30)
           DEF Sound, ConnType, ConnPcs, ServePcs, Waiting, PeerInputs
    <3> QED
      BY <3>1, <3>2
  <2>3. ~Waits(s) /\ s.pc \in ServePcs
    BY <2>1 DEF Waits, ServePcs
  <2> QED
    BY <1>0, <2>1, <2>2, <2>3, OneMoves
<1>4. CASE Finish(c)
  <2>1. /\ s.pc = "unwound" /\ Moved(c) /\ conn'[c] = [NewConn EXCEPT !.pc = "finished"]
        /\ UNCHANGED <<pending, batch, woken, mpc, todo>>
    BY <1>0, <1>4 DEF Finish, Moved, mainVars
  <2>2. ~Waits(s) /\ s.pc \in ServePcs
    BY <2>1 DEF Waits, Waiting, ServePcs
  <2> QED
    BY <1>0, <2>1, <2>2, FreshIsSound, OneMoves
<1> QED
  BY <1>1, <1>2, <1>3, <1>4
-----------------------------------------------------------------------------
\* A queue that does not hold c, with c at its end.
LEMMA Enqueued ==
    ASSUME NEW q \in Seq(Conns), NEW c \in Conns, c \notin InSeq(q), Once(q)
    PROVE  /\ Append(q, c) \in Seq(Conns) /\ InSeq(Append(q, c)) = InSeq(q) \cup {c}
           /\ Once(Append(q, c))
<1> DEFINE r == Append(q, c)
           m == Len(q)
<1>1. /\ r \in Seq(Conns) /\ m \in Nat /\ DOMAIN r = 1..(m + 1) /\ DOMAIN q = 1..m
      /\ r[m + 1] = c /\ \A i \in 1..m : r[i] = q[i]
  OBVIOUS
<1>2. \A i \in 1..(m + 1) : i \in 1..m \/ i = m + 1
  BY <1>1
<1> HIDE DEF r, m
<1>3. \A i \in 1..m : q[i] # c
  BY <1>1 DEF InSeq
<1>4. \A i \in 1..m : i \in 1..(m + 1)
  BY <1>1
<1>5. m + 1 \in 1..(m + 1)
  BY <1>1
<1>6. InSeq(r) = InSeq(q) \cup {c}
  BY <1>1, <1>2, <1>4, <1>5 DEF InSeq
<1>7. Once(r)
  BY <1>1, <1>2, <1>3 DEF Once
<1> QED
  BY <1>1, <1>6, <1>7 DEF r

\* The batch without its head.
LEMMA Dequeued ==
    ASSUME NEW q \in Seq(Conns), q # <<>>, Once(q)
    PROVE  /\ Head(q) \in InSeq(q) /\ Tail(q) \in Seq(Conns) /\ Once(Tail(q))
           /\ InSeq(Tail(q)) \subseteq InSeq(q) /\ Head(q) \notin InSeq(Tail(q))
<1> DEFINE r == Tail(q)
           m == Len(q)
<1>1. /\ m \in Nat \ {0} /\ DOMAIN q = 1..m /\ r \in Seq(Conns) /\ DOMAIN r = 1..(m - 1)
      /\ Head(q) = q[1] /\ \A i \in 1..(m - 1) : r[i] = q[i + 1]
  OBVIOUS
<1> HIDE DEF r, m
<1>2. 1 \in 1..m /\ \A i \in 1..(m - 1) : i + 1 \in 1..m /\ i + 1 # 1
  BY <1>1
<1>3. \A i, j \in 1..(m - 1) : i + 1 = j + 1 => i = j
  BY <1>1
<1>4. Once(r)
  BY <1>1, <1>2, <1>3 DEF Once
<1>5. InSeq(r) \subseteq InSeq(q) /\ Head(q) \in InSeq(q)
  BY <1>1, <1>2 DEF InSeq
<1>6. Head(q) \notin InSeq(r)
  BY <1>1, <1>2, SMTT(20) DEF InSeq, Once
<1> QED
  BY <1>1, <1>4, <1>5, <1>6 DEF r

\* A request is queued, announced and waited for (enqueue(), FramePacer::wake()).
LEMMA RequestKeeps ==
    ASSUME Inv, NEW c \in Conns, enqueue(c) \/ wake(c) \/ notify_one(c)
    PROVE  Inv'
<1> DEFINE s == conn[c]
<1>0. /\ conn \in [Conns -> ConnType] /\ Sound(s) /\ s \in ConnType /\ todo \subseteq Conns
      /\ Owned(conn, pending, batch) /\ Announced(conn, pending, woken, mpc)
      /\ Cardinality(Serves(conn)) <= MAX_CLIENTS
      /\ \A d \in Conns : Sound(conn[d])
  BY DEF Inv
<1>a. /\ pending \in Seq(Conns) /\ batch \in Seq(Conns) /\ Once(pending) /\ Once(batch)
      /\ InSeq(pending) \cap InSeq(batch) = {}
      /\ \A d \in InSeq(pending) : Waits(conn[d]) /\ d \in Conns
      /\ \A d \in InSeq(batch) : Waits(conn[d]) /\ d \in Conns
  BY <1>0, QueuedExists DEF Owned
<1>b. ASSUME Moved(c), Sound(conn'[c]), s.pc \in ServePcs
      PROVE  /\ conn' \in [Conns -> ConnType] /\ \A d \in Conns : d # c => conn'[d] = conn[d]
             /\ \A d \in Conns : Sound(conn'[d])
             /\ Cardinality(Serves(conn')) <= MAX_CLIENTS
  <2>1. conn'[c] \in ConnType
    BY <1>b DEF Sound
  <2>2. /\ conn' \in [Conns -> ConnType] /\ \A d \in Conns : d # c => conn'[d] = conn[d]
    BY <1>0, <1>b, <2>1 DEF Moved
  <2>3. Serves(conn') \subseteq Serves(conn)
    BY <1>b, <2>2 DEF Serves
  <2> QED
    BY <1>0, <1>b, <2>2, <2>3, FewerClients
<1>1. CASE enqueue(c) /\ stopped
  <2>1. /\ s.pc = "enqueue" /\ Moved(c) /\ conn'[c] = [s EXCEPT !.pc = "unwound", !.why = "broken"]
        /\ UNCHANGED <<pending, batch, woken, mpc, todo>>
    BY <1>0, <1>1 DEF enqueue, Moved, mainVars
  <2>2. Sound(conn'[c])
    <3> HIDE DEF s
    <3> QED
      BY <1>0, <2>1 DEF Sound, ConnType, ConnPcs, ServePcs, Waiting
  <2>3. ~Waits(s) /\ s.pc \in ServePcs
    BY <2>1 DEF Waits, Waiting, ServePcs
  <2> QED
    BY <1>0, <2>1, <2>2, <2>3, OneMoves
<1>2. CASE enqueue(c) /\ ~stopped
  <2>1. /\ s.pc = "enqueue" /\ Moved(c) /\ conn'[c] = [s EXCEPT !.pc = "wake"]
        /\ pending' = Append(pending, c) /\ UNCHANGED <<batch, woken, mpc, todo>>
    BY <1>0, <1>2 DEF enqueue, Moved, mainVars
  <2>2. Sound(conn'[c]) /\ Waits(conn'[c]) /\ conn'[c].pc = "wake"
    <3> HIDE DEF s
    <3> QED
      BY <1>0, <2>1 DEF Sound, ConnType, ConnPcs, ServePcs, Waiting, Waits
  <2>3. ~Waits(s) /\ s.pc \in ServePcs
    BY <2>1 DEF Waits, Waiting, ServePcs
  <2>4. c \notin InSeq(pending) /\ c \notin InSeq(batch)
    BY <1>a, <2>3
  <2>5. /\ pending' \in Seq(Conns) /\ InSeq(pending') = InSeq(pending) \cup {c} /\ Once(pending')
    BY <1>a, <2>1, <2>4, Enqueued
  <2>6. /\ conn' \in [Conns -> ConnType] /\ \A d \in Conns : d # c => conn'[d] = conn[d]
    BY <1>b, <2>1, <2>2, <2>3
  <2>7. Owned(conn', pending', batch)
    <3>1. InSeq(pending') \cap InSeq(batch) = {}
      BY <1>a, <2>4, <2>5
    <3>2. \A d \in InSeq(pending') : Waits(conn'[d])
      BY <1>a, <2>2, <2>5, <2>6
    <3>3. \A d \in InSeq(batch) : Waits(conn'[d])
      BY <1>a, <2>4, <2>6
    <3> QED
      BY <1>a, <2>5, <3>1, <3>2, <3>3 DEF Owned
  <2>8. Announced(conn', pending', woken, mpc)
    <3>1. \A d \in InSeq(pending') : d = c \/ (d \in InSeq(pending) /\ conn'[d] = conn[d])
      BY <1>a, <2>5, <2>6
    <3> QED
      BY <1>0, <2>2, <3>1 DEF Announced
  <2> QED
    BY <1>0, <1>b, <2>1, <2>2, <2>3, <2>7, <2>8 DEF Inv
<1>3. CASE wake(c)
  <2>1. /\ s.pc = "wake" /\ Moved(c) /\ conn'[c] = [s EXCEPT !.pc = "notify"]
        /\ woken' = TRUE /\ UNCHANGED <<pending, batch, mpc, todo>>
    BY <1>0, <1>3 DEF wake, Moved, mainVars
  <2>2. Sound(conn'[c]) /\ conn'[c].pc = "notify" /\ conn'[c].reply = s.reply
    <3> HIDE DEF s
    <3> QED
      BY <1>0, <2>1 DEF Sound, ConnType, ConnPcs, ServePcs, Waiting
  <2>3. s.pc \in ServePcs
    BY <2>1 DEF ServePcs
  <2>4. \A d \in Conns : d # c => conn'[d] = conn[d]
    BY <1>b, <2>1, <2>2, <2>3
  <2>5. Owned(conn', pending, batch)
    BY <1>a, <2>2, <2>4 DEF Owned, Waits, Waiting
  <2>6. Announced(conn', pending, TRUE, mpc)
    BY <1>0, <1>a, <2>2, <2>4 DEF Announced
  <2> QED
    BY <1>0, <1>b, <2>1, <2>2, <2>3, <2>5, <2>6 DEF Inv
<1>4. CASE notify_one(c)
  <2>1. /\ s.pc = "notify" /\ Moved(c) /\ conn'[c] = [s EXCEPT !.pc = "wait"]
        /\ mpc' = IF mpc = "waiting" THEN "pace" ELSE mpc
        /\ UNCHANGED <<pending, batch, woken, todo>>
    BY <1>0, <1>4 DEF notify_one, Moved
  <2>2. Sound(conn'[c]) /\ conn'[c].pc = "wait" /\ conn'[c].reply = s.reply
    <3> HIDE DEF s
    <3> QED
      BY <1>0, <2>1 DEF Sound, ConnType, ConnPcs, ServePcs, Waiting
  <2>3. s.pc \in ServePcs
    BY <2>1 DEF ServePcs
  <2>4. \A d \in Conns : d # c => conn'[d] = conn[d]
    BY <1>b, <2>1, <2>2, <2>3
  <2>5. Owned(conn', pending, batch)
    BY <1>a, <2>2, <2>4 DEF Owned, Waits, Waiting
  <2>6. Announced(conn', pending, woken, mpc')
    <3>1. mpc' # "waiting" /\ (mpc = "swap" => mpc' = "swap")
      BY <2>1
    <3>2. ASSUME NEW d \in InSeq(pending), conn'[d].pc \in {"notify", "wait"}
          PROVE  woken \/ mpc' = "swap"
      <4>1. conn[d].pc \in {"notify", "wait"}
        BY <1>a, <2>1, <2>4, <3>2
      <4>2. woken \/ mpc = "swap"
        BY <1>0, <4>1 DEF Announced
      <4> QED
        BY <3>1, <4>2
    <3> QED
      BY <3>1, <3>2 DEF Announced
  <2> QED
    BY <1>0, <1>b, <2>1, <2>2, <2>3, <2>5, <2>6 DEF Inv
<1> QED
  BY <1>1, <1>2, <1>3, <1>4
-----------------------------------------------------------------------------
\* The main thread answers the head of its batch: whoever asked is still waiting,
\* and keeps any authentication it has (AgentCore::handle_hello()).
LEMMA DispatchKeeps ==
    ASSUME Inv, Dispatch
    PROVE  Inv'
<1>0. /\ conn \in [Conns -> ConnType] /\ todo \subseteq Conns
      /\ Owned(conn, pending, batch) /\ Announced(conn, pending, woken, mpc)
      /\ Cardinality(Serves(conn)) <= MAX_CLIENTS
      /\ \A d \in Conns : Sound(conn[d])
  BY DEF Inv
<1>a. /\ pending \in Seq(Conns) /\ batch \in Seq(Conns) /\ Once(pending) /\ Once(batch)
      /\ InSeq(pending) \cap InSeq(batch) = {}
      /\ \A d \in InSeq(pending) : Waits(conn[d]) /\ d \in Conns
      /\ \A d \in InSeq(batch) : Waits(conn[d]) /\ d \in Conns
  BY <1>0, QueuedExists DEF Owned
<1> DEFINE c == Head(batch)
           s == conn[c]
<1>1. /\ batch # <<>> /\ batch' = Tail(batch) /\ mpc = "dispatch"
      /\ UNCHANGED <<pending, woken, mpc, todo>>
  BY DEF Dispatch
<1>2. /\ c \in InSeq(batch) /\ batch' \in Seq(Conns) /\ Once(batch')
      /\ InSeq(batch') \subseteq InSeq(batch) /\ c \notin InSeq(batch')
  BY <1>a, <1>1, Dequeued
<1>3. c \in Conns /\ Waits(s) /\ Sound(s) /\ s \in ConnType /\ c \notin InSeq(pending)
  BY <1>0, <1>a, <1>2
<1>4. /\ Moved(c)
      /\ \/ conn'[c] = [s EXCEPT !.authed = @ \/ s.frame = "hello",
                                 !.greeted = @ \/ s.frame = "hello", !.reply = "one"]
         \/ \E r \in {"one", "two", "broken"} : conn'[c] = [s EXCEPT !.reply = r]
  <2>1. CASE s.frame \in {"hello", "bad_hello"}
    <3>1. conn' = [conn EXCEPT ![c].authed = @ \/ s.frame = "hello",
                               ![c].greeted = @ \/ s.frame = "hello", ![c].reply = "one"]
      BY <2>1 DEF Dispatch, handle_hello
    <3> HIDE DEF c
    <3> QED
      BY <1>0, <1>3, <3>1 DEF Moved
  <2>2. CASE s.frame \notin {"hello", "bad_hello"}
    <3>1. \E r \in {"one", "two", "broken"} : conn' = [conn EXCEPT ![c].reply = r]
      BY <2>2 DEF Dispatch
    <3> HIDE DEF c
    <3> QED
      BY <1>0, <1>3, <3>1 DEF Moved
  <2> QED
    BY <2>1, <2>2
<1> HIDE DEF c
<1>5. Sound(conn'[c]) /\ conn'[c].pc = s.pc
  <2> HIDE DEF s
  <2>1. s.pc \in Waiting /\ s.why = "none"
    BY <1>3 DEF Waits, Sound, Waiting
  <2>2. ASSUME NEW r \in {"one", "two", "broken"}, conn'[c] = [s EXCEPT !.reply = r]
        PROVE  Sound(conn'[c]) /\ conn'[c].pc = s.pc
    BY <1>3, <2>1, <2>2 DEF Sound, ConnType
  <2>3. ASSUME conn'[c] = [s EXCEPT !.authed = @ \/ s.frame = "hello",
                                    !.greeted = @ \/ s.frame = "hello", !.reply = "one"]
        PROVE  Sound(conn'[c]) /\ conn'[c].pc = s.pc
    <3> DEFINE a == s.authed \/ s.frame = "hello"
               g == s.greeted \/ s.frame = "hello"
    <3>1. a \in BOOLEAN /\ g \in BOOLEAN /\ (g => a)
      BY <1>3 DEF Sound
    <3>2. conn'[c] = [s EXCEPT !.authed = a, !.greeted = g, !.reply = "one"]
      BY <2>3
    <3> HIDE DEF a, g
    <3>3. /\ conn'[c] \in ConnType /\ conn'[c].pc = s.pc /\ conn'[c].why = s.why
          /\ conn'[c].reply = "one"
      BY <1>3, <3>1, <3>2 DEF ConnType
    <3>4. conn'[c].authed = a /\ conn'[c].greeted = g
      BY <1>3, <3>2 DEF ConnType
    <3> QED
      BY <2>1, <3>1, <3>3, <3>4 DEF Sound
  <2> QED
    BY <1>4, <2>2, <2>3
<1>6. /\ conn' \in [Conns -> ConnType] /\ \A d \in Conns : d # c => conn'[d] = conn[d]
  <2>1. conn'[c] \in ConnType
    BY <1>5 DEF Sound
  <2> QED
    BY <1>0, <1>4, <2>1 DEF Moved
<1>7. Cardinality(Serves(conn')) <= MAX_CLIENTS
  <2>1. Serves(conn') \subseteq Serves(conn)
    BY <1>5, <1>6 DEF Serves
  <2> QED
    BY <1>0, <2>1, FewerClients
<1>8. \A d \in InSeq(pending) \cup InSeq(batch') : conn'[d] = conn[d]
  BY <1>a, <1>2, <1>3, <1>6
<1>9. Owned(conn', pending, batch')
  BY <1>a, <1>2, <1>8 DEF Owned
<1>10. Announced(conn', pending, woken, mpc)
  BY <1>0, <1>8 DEF Announced
<1> QED
  BY <1>0, <1>1, <1>5, <1>6, <1>7, <1>9, <1>10 DEF Inv

\* The queue is taken, or dropped with every promise in it broken (drain(), stop()).
LEMMA TakeKeeps ==
    ASSUME Inv, DrainSwap \/ stop
    PROVE  Inv'
<1>0. /\ conn \in [Conns -> ConnType] /\ todo \subseteq Conns
      /\ Owned(conn, pending, batch) /\ Announced(conn, pending, woken, mpc)
      /\ Cardinality(Serves(conn)) <= MAX_CLIENTS
      /\ \A d \in Conns : Sound(conn[d])
  BY DEF Inv
<1>a. /\ pending \in Seq(Conns) /\ batch \in Seq(Conns) /\ Once(pending) /\ Once(batch)
      /\ InSeq(pending) \cap InSeq(batch) = {}
      /\ \A d \in InSeq(pending) : Waits(conn[d]) /\ d \in Conns
      /\ \A d \in InSeq(batch) : Waits(conn[d]) /\ d \in Conns
  BY <1>0, QueuedExists DEF Owned
<1>b. <<>> \in Seq(Conns) /\ InSeq(<<>>) = {} /\ Once(<<>>)
  BY DEF InSeq, Once
<1>c. \A cs, w, m : Announced(cs, <<>>, w, m)
  BY <1>b DEF Announced
<1>1. CASE DrainSwap
  <2>1. batch' = pending /\ pending' = <<>> /\ UNCHANGED <<conn, woken, todo>>
    BY <1>1 DEF DrainSwap
  <2>2. Owned(conn, <<>>, pending)
    BY <1>a, <1>b DEF Owned
  <2> QED
    BY <1>0, <1>c, <2>1, <2>2 DEF Inv
<1>2. CASE stop
  <2>1. /\ conn' = [d \in Conns |-> IF d \in InSeq(pending)
                                    THEN [conn[d] EXCEPT !.reply = "broken"] ELSE conn[d]]
        /\ pending' = <<>> /\ UNCHANGED <<batch, woken, todo>>
    BY <1>2 DEF stop, Queued, InSeq
  <2>2. ASSUME NEW d \in Conns
        PROVE  Sound(conn'[d]) /\ conn'[d] \in ConnType /\ conn'[d].pc = conn[d].pc
    <3> DEFINE s == conn[d]
    <3>1. CASE d \in InSeq(pending)
      <4>1. conn'[d] = [s EXCEPT !.reply = "broken"] /\ s.pc \in Waiting /\ Sound(s)
            /\ s \in ConnType
        BY <1>0, <1>a, <2>1, <3>1 DEF Waits
      <4> HIDE DEF s
      <4>2. Sound(conn'[d]) /\ conn'[d].pc = s.pc
        BY <4>1 DEF Sound, ConnType
      <4> QED
        BY <4>2 DEF Sound, s
    <3>2. CASE d \notin InSeq(pending)
      BY <1>0, <2>1, <3>2
    <3> QED
      BY <3>1, <3>2
  <2>3. conn' \in [Conns -> ConnType]
    BY <2>1, <2>2
  <2>4. Cardinality(Serves(conn')) <= MAX_CLIENTS
    <3>1. Serves(conn') \subseteq Serves(conn)
      BY <2>2 DEF Serves
    <3> QED
      BY <1>0, <3>1, FewerClients
  <2>5. \A d \in InSeq(batch) : conn'[d] = conn[d]
    BY <1>a, <2>1
  <2>6. Owned(conn', <<>>, batch)
    BY <1>a, <1>b, <2>5 DEF Owned
  <2> QED
    BY <1>0, <1>c, <2>1, <2>2, <2>3, <2>4, <2>6 DEF Inv
<1> QED
  BY <1>1, <1>2

\* The pacer sleeps only on a queue whose requests are still being announced
\* (FramePacer::pace()).
LEMMA PaceKeeps ==
    ASSUME Inv, Frame \/ DrainDone \/ Pace \/ WaitEnds
    PROVE  Inv'
<1>0. Announced(conn, pending, woken, mpc) /\ todo \subseteq Conns
  BY DEF Inv
<1>1. UNCHANGED <<conn, pending, todo>>
  BY DEF Frame, DrainDone, Pace, WaitEnds
<1>2. CASE Frame
  BY <1>0, <1>1, <1>2, NoneMoves DEF Frame, Announced
<1>3. CASE DrainDone
  BY <1>0, <1>1, <1>3, NoneMoves DEF DrainDone, Announced
<1>4. CASE Pace
  <2>1. mpc = "pace" /\ UNCHANGED batch
    BY <1>4 DEF Pace
  <2>2. PICK late \in BOOLEAN :
          /\ mpc' = IF late THEN "tick" ELSE IF woken THEN "swap" ELSE "waiting"
          /\ woken' = (woken /\ late)
    BY <1>4 DEF Pace
  <2>3. \A c \in InSeq(pending) : conn[c].pc \in {"notify", "wait"} => woken
    BY <1>0, <2>1 DEF Announced
  <2>4. CASE late
    BY <1>0, <1>1, <2>1, <2>2, <2>3, <2>4, NoneMoves DEF Announced
  <2>5. CASE ~late /\ woken
    BY <1>0, <1>1, <2>1, <2>2, <2>3, <2>5, NoneMoves DEF Announced
  <2>6. CASE ~late /\ ~woken
    <3>1. \A c \in InSeq(pending) : conn[c].pc \notin {"notify", "wait"}
      BY <2>3, <2>6
    <3>2. Announced(conn, pending, woken', mpc')
      BY <3>1 DEF Announced
    <3> QED
      BY <1>0, <1>1, <2>1, <3>2, NoneMoves
  <2> QED
    BY <2>4, <2>5, <2>6
<1>5. CASE WaitEnds
  BY <1>0, <1>1, <1>5, NoneMoves DEF WaitEnds, Announced
<1> QED
  BY <1>2, <1>3, <1>4, <1>5

\* The rest of stop(): it tells every client and reaps.
LEMMA StopKeeps ==
    ASSUME Inv,
           \/ StopIo \/ JoinAccept \/ AllSignalled \/ StopReap
           \/ \E c \in Conns : SetStopRequested(c) \/ StopCtx(c)
    PROVE  Inv'
<1>0. /\ conn \in [Conns -> ConnType] /\ todo \subseteq Conns
      /\ Announced(conn, pending, woken, mpc) /\ Cardinality(Serves(conn)) <= MAX_CLIENTS
      /\ \A d \in Conns : Sound(conn[d])
  BY DEF Inv
<1>1. CASE StopIo
  BY <1>0, <1>1, NoneMoves DEF StopIo, Announced
<1>2. CASE JoinAccept
  BY <1>0, <1>2, NoneMoves DEF JoinAccept, Announced, Clients
<1>3. CASE AllSignalled
  BY <1>0, <1>3, NoneMoves DEF AllSignalled, Announced
<1>4. CASE StopReap
  <2>1. /\ conn' = Reaped(conn) /\ mpc = "stop_reap" /\ mpc' # "waiting"
        /\ UNCHANGED <<pending, batch, woken, todo>>
    BY <1>4 DEF StopReap
  <2>2. /\ conn' \in [Conns -> ConnType] /\ \A d \in Conns : Sound(conn'[d])
        /\ \A d \in InSeq(pending) \cup InSeq(batch) : conn'[d] = conn[d]
    BY <2>1, ReapKeeps
  <2>3. Cardinality(Serves(conn')) <= MAX_CLIENTS
    BY <1>0, <2>1, ReapKeeps, FewerClients
  <2>4. Announced(conn, pending, woken', mpc')
    BY <1>0, <2>1 DEF Announced
  <2> QED
    BY <1>0, <2>1, <2>2, <2>3, <2>4, SomeMove
<1>5. ASSUME NEW c \in Conns, SetStopRequested(c)
      PROVE  Inv'
  <2> DEFINE s == conn[c]
  <2>1. /\ Moved(c) /\ conn'[c] = [s EXCEPT !.stop_requested = TRUE]
        /\ UNCHANGED <<pending, batch, woken, mpc, todo>>
    BY <1>0, <1>5 DEF SetStopRequested, Moved
  <2>2. Sound(s) /\ s \in ConnType
    BY <1>0
  <2>3. Sound(conn'[c]) /\ conn'[c].pc = s.pc /\ conn'[c].reply = s.reply
    <3> HIDE DEF s
    <3> QED
      BY <2>1, <2>2 DEF Sound, ConnType
  <2> QED
    BY <1>0, <2>1, <2>3, OneMoves
<1>6. ASSUME NEW c \in Conns, StopCtx(c)
      PROVE  Inv'
  <2> DEFINE s == conn[c]
  <2>1. /\ Moved(c) /\ conn'[c] = [s EXCEPT !.ctx_stopped = TRUE]
        /\ UNCHANGED <<pending, batch, woken, mpc>> /\ todo' \subseteq Conns
    BY <1>0, <1>6 DEF StopCtx, Moved
  <2>2. Sound(s) /\ s \in ConnType
    BY <1>0
  <2>3. Sound(conn'[c]) /\ conn'[c].pc = s.pc /\ conn'[c].reply = s.reply
    <3> HIDE DEF s
    <3> QED
      BY <2>1, <2>2 DEF Sound, ConnType
  <2> QED
    BY <1>0, <2>1, <2>3, OneMoves
<1> QED
  BY <1>1, <1>2, <1>3, <1>4, <1>5, <1>6
-----------------------------------------------------------------------------
\* No connection at the start.
LEMMA InitInv == Init => Inv
<1> SUFFICES ASSUME Init PROVE Inv
  OBVIOUS
<1>1. Sound(NewConn) /\ NewConn \in ConnType /\ NewConn.pc \notin ServePcs
  BY FreshIsSound DEF Sound, NewConn, ServePcs
<1>2. /\ conn = [c \in Conns |-> NewConn] /\ pending = <<>> /\ batch = <<>> /\ todo = {}
      /\ mpc = "tick"
  BY DEF Init
<1>3. conn \in [Conns -> ConnType] /\ \A c \in Conns : Sound(conn[c])
  BY <1>1, <1>2
<1>4. <<>> \in Seq(Conns) /\ InSeq(<<>>) = {} /\ Once(<<>>)
  BY DEF InSeq, Once
<1>5. Owned(conn, pending, batch) /\ Announced(conn, pending, woken, mpc)
  BY <1>2, <1>4 DEF Owned, Announced
<1>6. Serves(conn) = {}
  BY <1>1, <1>2 DEF Serves
<1>7. Cardinality(Serves(conn)) <= MAX_CLIENTS
  BY <1>6, FS_EmptySet, ServerAssumption
<1> QED
  BY <1>2, <1>3, <1>5, <1>7 DEF Inv

\* The accept thread's other steps.
LEMMA AcceptorKeeps ==
    ASSUME Inv, AcceptFails \/ RetryAccept \/ AcceptLoopExits
    PROVE  Inv'
<1>1. UNCHANGED <<conn, pending, batch, woken, mpc, todo>>
  BY DEF AcceptFails, RetryAccept, AcceptLoopExits, mainVars
<1> QED
  BY <1>1, NoneMoves DEF Inv

\* Every reachable state satisfies the invariant.
LEMMA Invariance == Spec => []Inv
<1>1. Inv /\ [Next]_vars => Inv'
  <2> SUFFICES ASSUME Inv PROVE [Next]_vars => Inv'
    OBVIOUS
  <2>1. CASE Next
    <3>1. CASE Peers
      BY <3>1, PeersKeep, ServingKeeps, ExchangeKeeps DEF Peers
    <3>2. CASE \E c \in Conns : DeadlinePasses(c)
      BY <3>2, PeersKeep
    <3>3. CASE Accepting \/ AcceptFails
      BY <3>3, PeersKeep, AcceptKeeps, AcceptorKeeps DEF Accepting
    <3>4. CASE \E c \in Conns : Serving(c)
      BY <3>4, ServingKeeps, ExchangeKeeps, RequestKeeps DEF Serving
    <3>5. CASE Main \/ stop
      BY <3>5, DispatchKeeps, TakeKeeps, PaceKeeps, StopKeeps DEF Main
    <3> QED
      BY <2>1, <3>1, <3>2, <3>3, <3>4, <3>5 DEF Next
  <2>2. CASE UNCHANGED vars
    BY <2>2, NoneMoves DEF vars, mainVars, Inv
  <2> QED
    BY <2>1, <2>2
<1> QED
  BY <1>1, InitInv, PTL DEF Spec

\* What a queue of distinct waiting connections and a batch of others make together:
\* no connection twice, and no more than the threads there are.
LEMMA QueueBounded ==
    ASSUME Inv
    PROVE  RequestOwned
<1> DEFINE queue == pending \o batch
           m == Len(pending)
           n == Len(batch)
<1>0. /\ pending \in Seq(Conns) /\ batch \in Seq(Conns) /\ Once(pending) /\ Once(batch)
      /\ InSeq(pending) \cap InSeq(batch) = {}
      /\ \A d \in InSeq(pending) : Waits(conn[d]) /\ d \in Conns
      /\ \A d \in InSeq(batch) : Waits(conn[d]) /\ d \in Conns
      /\ Cardinality(Serves(conn)) <= MAX_CLIENTS
  BY QueuedExists DEF Inv, Owned
<1>1. /\ queue \in Seq(Conns) /\ m \in Nat /\ n \in Nat /\ Len(queue) = m + n
      /\ DOMAIN queue = 1..(m + n) /\ DOMAIN pending = 1..m /\ DOMAIN batch = 1..n
      /\ \A i \in 1..(m + n) : queue[i] = IF i <= m THEN pending[i] ELSE batch[i - m]
  BY <1>0
<1> HIDE DEF queue, m, n
<1>2. \A i \in 1..(m + n) :
         \/ i \in 1..m /\ queue[i] = pending[i] /\ queue[i] \in InSeq(pending)
         \/ i - m \in 1..n /\ queue[i] = batch[i - m] /\ queue[i] \in InSeq(batch)
  <2>1. ASSUME NEW i \in 1..(m + n), i <= m
        PROVE  i \in 1..m /\ queue[i] = pending[i] /\ queue[i] \in InSeq(pending)
    <3>1. i \in 1..m
      BY <1>1, <2>1
    <3> QED
      BY <1>1, <2>1, <3>1 DEF InSeq
  <2>2. ASSUME NEW i \in 1..(m + n), ~(i <= m)
        PROVE  i - m \in 1..n /\ queue[i] = batch[i - m] /\ queue[i] \in InSeq(batch)
    <3>1. i - m \in 1..n
      BY <1>1, <2>2
    <3> QED
      BY <1>1, <2>2, <3>1 DEF InSeq
  <2> QED
    BY <2>1, <2>2
<1>3. \A i \in DOMAIN queue : Waits(conn[queue[i]]) /\ queue[i] \in Conns
  BY <1>0, <1>1, <1>2
<1>4. ASSUME NEW i \in DOMAIN queue, NEW j \in DOMAIN queue, queue[i] = queue[j]
      PROVE  i = j
  <2>0. i \in Int /\ j \in Int
    BY <1>1
  <2>1. CASE i \in 1..m /\ queue[i] = pending[i] /\ queue[i] \in InSeq(pending)
    <3>1. j \in 1..m /\ queue[j] = pending[j]
      BY <1>0, <1>1, <1>2, <1>4, <2>1
    <3> QED
      BY <1>0, <1>1, <1>4, <2>1, <3>1 DEF Once
  <2>2. CASE i - m \in 1..n /\ queue[i] = batch[i - m] /\ queue[i] \in InSeq(batch)
    <3>1. j - m \in 1..n /\ queue[j] = batch[j - m]
      BY <1>0, <1>1, <1>2, <1>4, <2>2
    <3>2. i - m = j - m
      BY <1>0, <1>1, <1>4, <2>2, <3>1 DEF Once
    <3> QED
      BY <1>1, <2>0, <3>2
  <2> QED
    BY <1>1, <1>2, <2>1, <2>2
<1>5. IsFiniteSet(Serves(conn)) /\ Cardinality(Serves(conn)) \in Nat /\ MAX_CLIENTS \in Nat
  BY ServerAssumption, FS_Subset, FS_CardinalityType DEF Serves
<1>6. Len(queue) <= Cardinality(Serves(conn))
  <2> DEFINE f == [i \in 1..(m + n) |-> queue[i]]
  <2>1. \A i \in 1..(m + n) : queue[i] \in Serves(conn)
    BY <1>1, <1>3 DEF Serves, Waits, Waiting, ServePcs
  <2>2. f \in Injection(1..(m + n), Serves(conn))
    BY <1>1, <1>4, <2>1 DEF Injection, IsInjective
  <2>3. Cardinality(1..(m + n)) <= Cardinality(Serves(conn))
    BY <1>5, <2>2, FS_Injection
  <2>4. Cardinality(1..(m + n)) = m + n
    <3>1. m + n \in Nat
      BY <1>1
    <3> QED
      BY <3>1, FS_Interval
  <2> QED
    BY <1>1, <2>3, <2>4
<1>7. Clients = Serves(conn)
  BY DEF Clients, Serves
<1>8. /\ \A i \in DOMAIN queue : conn[queue[i]].pc \in {"wake", "notify", "wait"}
      /\ \A i \in DOMAIN queue : conn[queue[i]].reply = "none"
  BY <1>3 DEF Waits, Waiting
<1>9. Len(queue) <= MAX_CLIENTS /\ Cardinality(Clients) <= MAX_CLIENTS
  <2>1. Len(queue) \in Nat
    BY <1>1
  <2> QED
    BY <1>0, <1>5, <1>6, <1>7, <2>1
<1> QED
  BY <1>4, <1>8, <1>9 DEF RequestOwned, queue

\* A request in the queue or in drain()'s batch is owned by a thread that is blocked
\* on it and has no other, for any number of connections; so the queue and the
\* threads stay within MAX_CLIENTS (agent_server.h: "bounded to MAX_CLIENTS entries
\* by construction").
THEOREM RequestsOwned == Spec => []RequestOwned
BY Invariance, QueueBounded, PTL

\* The handshake deadline ends no connection that ever said a good hello
\* (serve_client(), handle_hello()).
THEOREM DeadlineSpares == Spec => []DeadlineSparesGreeted
<1>1. Inv => DeadlineSparesGreeted
  BY DEF Inv, Sound, DeadlineSparesGreeted
<1> QED
  BY <1>1, Invariance, PTL

\* The main thread never sleeps on a request whose notification is over
\* (FramePacer::wake(), pace()).
THEOREM WakeIsKept == Spec => []NoLostWake
<1>1. Inv => NoLostWake
  BY DEF Inv, Announced, NoLostWake, Queued, InSeq
<1> QED
  BY <1>1, Invariance, PTL
=============================================================================
