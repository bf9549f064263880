------------------------ MODULE AgentEndpointProofs ------------------------
(***************************************************************************)
(* Proofs about the debugger thread (DebuggerThread) and the agent         *)
(* endpoint that runs its requests on it (AgentEndpoint), for any number   *)
(* of stops, launches, plots, clients and requests.                        *)
(***************************************************************************)
EXTENDS AgentEndpoint, FiniteSetTheorems, FunctionTheorems, SequenceTheorems, TLAPS

TaskType == [kind : {"loop", "plot", "get", "do_plot"}, handle : Nat]
BoxType == [done : BOOLEAN, ok : BOOLEAN, data : Nat]
PingType == [key : Nat, at : Nat]
EntryType == [key : Nat, data : Nat]
ServedType == [ping : PingType, data : Nat]
ClientPcs == {"off", "accepted", "hello", "authenticated", "pinged", "fetching", "plotting"}

Loops(q) == {i \in DOMAIN q : q[i].kind = "loop"}

\* The windows: only that of the present handle may run without having been told
\* to end, and the debugger thread leaves the launch with it connected.
WindowsInv(pc, h, pr, cl, fr) ==
    /\ pc \in PCs
    /\ h \in Handles
    /\ pr \in [Launches -> {"none", "starting", "up", "gone"}]
    /\ cl \subseteq Launches
    /\ \A g \in Launches : pr[g] \in {"starting", "up"} /\ g \notin fr => g = h
    /\ pc = "idle" => h \in cl \cup {0}
    /\ pc \in {"refresh", "symbols"} => h \in cl
    /\ pc \in {"waitForStart", "accept"} => h \in Nat \ {0}

\* The queue: its plots go to connected windows.
Queued(cl, q) ==
    /\ q \in Seq(TaskType)
    /\ \A i \in DOMAIN q : q[i].kind = "plot" => q[i].handle \in cl \cup {0}
    /\ IsFiniteSet(Loops(q))

\* A loop per launch, but for the one that is under way.
LoopsInv(pc, h, q) ==
    pc # "aborted" => Cardinality(Loops(q))
                        = IF pc \in {"waitForStart", "accept"} THEN h - 1 ELSE h

\* The announcements of stops.
NotifiedInv(st, gen, ns) ==
    /\ st \in Nat /\ ns \in Seq(Nat) /\ gen = Len(ns)
    /\ \A g \in DOMAIN ns : ns[g] <= st

ThreadInv ==
    /\ WindowsInv(dpc, handle, proc, client, freed)
    /\ Queued(client, queue)
    /\ LoopsInv(dpc, handle, queue)
    /\ NotifiedInv(stop, stop_generation, notified)

\* Bytes not older than the stop the generation was announced at.
NotOlder(key, data, ns) == key \in 0..Len(ns) /\ (key > 0 => data >= ns[key])

\* The slots are those of serving threads.
SlotsInv ==
    /\ cpc \in [Clients -> ClientPcs]
    /\ slots = {c \in Clients : cpc[c] \notin {"off", "accepted"}}
    /\ IsFiniteSet(slots) /\ Cardinality(slots) <= MAX_CLIENTS

\* Each request has a number of its own, and a plot request's is not that of a
\* fetch some thread waits for.
NumbersInv(q) ==
    /\ requests \in Nat
    /\ current \in [Clients -> 0..requests]
    /\ \A i \in DOMAIN q : q[i].kind \in {"get", "do_plot"} => q[i].handle \in 1..requests
    /\ \A i \in DOMAIN q, c \in Clients :
          q[i].kind = "do_plot" /\ cpc[c] = "fetching" => q[i].handle # current[c]

\* All bytes on their way to a client are as new as the ping they belong to.
BytesAt(pc, b, p, s, v, ns) ==
    /\ p.key \in 0..Len(ns)
    /\ pc = "fetching" /\ b.ok => NotOlder(p.key, b.data, ns)
    /\ NotOlder(v.ping.key, v.data, ns)
    /\ \A i \in DOMAIN s : NotOlder(s[i].key, s[i].data, ns)

BytesInv(ns) ==
    /\ box \in [Clients -> BoxType]
    /\ pinged \in [Clients -> PingType]
    /\ cache \in [Clients -> Seq(EntryType)]
    /\ served \in [Clients -> ServedType]
    /\ \A c \in Clients : BytesAt(cpc[c], box[c], pinged[c], cache[c], served[c], ns)

\* The inductive invariant.
Inv == ThreadInv /\ SlotsInv /\ NumbersInv(queue) /\ BytesInv(notified)
-----------------------------------------------------------------------------
(* The queue *)

\* A callback put behind a queue adds a loop if it is one.
LEMMA LoopsAppend ==
    ASSUME NEW q \in Seq(TaskType), IsFiniteSet(Loops(q)), NEW e \in TaskType
    PROVE  /\ IsFiniteSet(Loops(Append(q, e)))
           /\ Cardinality(Loops(Append(q, e)))
                = Cardinality(Loops(q)) + (IF e.kind = "loop" THEN 1 ELSE 0)
<1> DEFINE r == Append(q, e)
<1>1. /\ Len(q) \in Nat /\ DOMAIN q = 1..Len(q)
      /\ DOMAIN r = 1..(Len(q) + 1) /\ r[Len(q) + 1] = e
      /\ \A i \in 1..Len(q) : r[i] = q[i]
  OBVIOUS
<1>2. Len(q) + 1 \notin Loops(q)
  BY <1>1 DEF Loops
<1>3. Cardinality(Loops(q)) \in Nat
  BY FS_CardinalityType
<1>4. CASE e.kind = "loop"
  <2>1. Loops(r) = Loops(q) \cup {Len(q) + 1}
    <3> HIDE DEF r
    <3> QED
      BY <1>1, <1>4 DEF Loops
  <2>2. /\ IsFiniteSet(Loops(q) \cup {Len(q) + 1})
        /\ Cardinality(Loops(q) \cup {Len(q) + 1}) = Cardinality(Loops(q)) + 1
    BY <1>2, FS_AddElement
  <2> QED
    BY <1>4, <2>1, <2>2
<1>5. CASE e.kind # "loop"
  <2>1. Loops(r) = Loops(q)
    <3> HIDE DEF r
    <3> QED
      BY <1>1, <1>5 DEF Loops
  <2> QED
    BY <1>3, <1>5, <2>1
<1> QED
  BY <1>4, <1>5

\* The rest of a queue has the other loops.
LEMMA LoopsTail ==
    ASSUME NEW q \in Seq(TaskType), q # <<>>, IsFiniteSet(Loops(q))
    PROVE  /\ IsFiniteSet(Loops(Tail(q)))
           /\ Cardinality(Loops(Tail(q)))
                = Cardinality(Loops(q)) - (IF Head(q).kind = "loop" THEN 1 ELSE 0)
<1> DEFINE r == Tail(q)
           f == [j \in Loops(q) \ {1} |-> j - 1]
<1>1. /\ Len(q) \in Nat \ {0} /\ DOMAIN q = 1..Len(q)
      /\ DOMAIN r = 1..(Len(q) - 1) /\ Head(q) = q[1]
      /\ \A i \in 1..(Len(q) - 1) : r[i] = q[i + 1]
  OBVIOUS
<1>2. /\ IsFiniteSet(Loops(q) \ {1})
      /\ Cardinality(Loops(q) \ {1}) = Cardinality(Loops(q)) - (IF Head(q).kind = "loop" THEN 1 ELSE 0)
  <2>1. 1 \in Loops(q) <=> Head(q).kind = "loop"
    BY <1>1 DEF Loops
  <2>2. Cardinality(Loops(q)) \in Nat
    BY FS_CardinalityType
  <2>3. /\ IsFiniteSet(Loops(q) \ {1})
        /\ Cardinality(Loops(q) \ {1})
             = IF 1 \in Loops(q) THEN Cardinality(Loops(q)) - 1 ELSE Cardinality(Loops(q))
    BY FS_RemoveElement
  <2> QED
    BY <2>1, <2>2, <2>3
<1>3. f \in Bijection(Loops(q) \ {1}, Loops(r))
  <2>1. \A j \in Loops(q) \ {1} : j \in 2..Len(q) /\ q[j].kind = "loop"
    BY <1>1 DEF Loops
  <2>2. \A i \in Loops(r) : i \in 1..(Len(q) - 1) /\ r[i].kind = "loop"
    BY <1>1 DEF Loops
  <2>3. \A j \in Loops(q) \ {1} : j - 1 \in Loops(r)
    <3> HIDE DEF r
    <3> QED
      BY <1>1, <2>1 DEF Loops
  <2>4. \A i \in Loops(r) : i + 1 \in Loops(q) \ {1}
    <3> HIDE DEF r
    <3> QED
      BY <1>1, <2>2 DEF Loops
  <2>5. f \in [Loops(q) \ {1} -> Loops(r)]
    BY <2>3
  <2>6. \A i \in Loops(r) : \E j \in Loops(q) \ {1} : f[j] = i
    <3> TAKE i \in Loops(r)
    <3>1. i + 1 \in Loops(q) \ {1} /\ i \in Nat
      BY <2>2, <2>4
    <3>2. f[i + 1] = i
      BY <3>1
    <3> QED
      BY <3>1, <3>2
  <2>7. \A j, k \in Loops(q) \ {1} : f[j] = f[k] => j = k
    BY <2>1
  <2> HIDE DEF f
  <2> QED
    BY <2>5, <2>6, <2>7, Fun_IsBij
<1>4. ExistsBijection(Loops(q) \ {1}, Loops(r))
  BY <1>3 DEF ExistsBijection
<1>5. IsFiniteSet(Loops(r)) /\ Cardinality(Loops(r)) = Cardinality(Loops(q) \ {1})
  BY <1>2, <1>4, FS_Bijection
<1> QED
  BY <1>2, <1>5

\* The tasks of the queue r are tasks of q, or of the debugger thread itself.
Grown(q, r) ==
    \A i \in DOMAIN r : r[i].kind \in {"loop", "plot"} \/ \E j \in DOMAIN q : r[i] = q[j]

\* A callback is queued.
LEMMA Put ==
    ASSUME NEW cl, NEW q, Queued(cl, q), NEW e \in TaskType,
           e.kind = "plot" => e.handle \in cl \cup {0}
    PROVE  /\ Queued(cl, Append(q, e))
           /\ Cardinality(Loops(Append(q, e)))
                = Cardinality(Loops(q)) + (IF e.kind = "loop" THEN 1 ELSE 0)
           /\ \A i \in DOMAIN Append(q, e) :
                 Append(q, e)[i] = e \/ \E j \in DOMAIN q : Append(q, e)[i] = q[j]
<1> DEFINE r == Append(q, e)
<1>1. q \in Seq(TaskType) /\ IsFiniteSet(Loops(q))
  BY DEF Queued
<1>2. r \in Seq(TaskType) /\ \A i \in DOMAIN r : r[i] = e \/ \E j \in DOMAIN q : r[i] = q[j]
  BY <1>1
<1>3. /\ IsFiniteSet(Loops(r))
      /\ Cardinality(Loops(r)) = Cardinality(Loops(q)) + (IF e.kind = "loop" THEN 1 ELSE 0)
  BY <1>1, LoopsAppend
<1>4. \A i \in DOMAIN r : r[i].kind = "plot" => r[i].handle \in cl \cup {0}
  <2> HIDE DEF r
  <2> QED
    BY <1>2 DEF Queued
<1> QED
  BY <1>2, <1>3, <1>4 DEF Queued

\* A callback is taken from the queue.
LEMMA Take ==
    ASSUME NEW cl, NEW q, Queued(cl, q), q # <<>>
    PROVE  /\ Queued(cl, Tail(q))
           /\ Head(q) \in TaskType
           /\ \E j \in DOMAIN q : Head(q) = q[j]
           /\ Cardinality(Loops(Tail(q)))
                = Cardinality(Loops(q)) - (IF Head(q).kind = "loop" THEN 1 ELSE 0)
           /\ \A i \in DOMAIN Tail(q) : \E j \in DOMAIN q : Tail(q)[i] = q[j]
           /\ Grown(q, Tail(q))
<1> DEFINE r == Tail(q)
<1>1. q \in Seq(TaskType) /\ IsFiniteSet(Loops(q))
  BY DEF Queued
<1>2. /\ Len(q) \in Nat \ {0} /\ DOMAIN q = 1..Len(q)
      /\ r \in Seq(TaskType) /\ DOMAIN r = 1..(Len(q) - 1)
      /\ Head(q) = q[1] /\ \A i \in 1..(Len(q) - 1) : r[i] = q[i + 1]
  BY <1>1
<1>3. \A i \in DOMAIN r : \E j \in DOMAIN q : r[i] = q[j]
  <2> TAKE i \in DOMAIN r
  <2>1. i + 1 \in DOMAIN q /\ r[i] = q[i + 1]
    BY <1>2
  <2> QED
    BY <2>1
<1>4. 1 \in DOMAIN q /\ Head(q) = q[1] /\ q[1] \in TaskType
  BY <1>1, <1>2
<1>5. /\ IsFiniteSet(Loops(r))
      /\ Cardinality(Loops(r)) = Cardinality(Loops(q)) - (IF Head(q).kind = "loop" THEN 1 ELSE 0)
  BY <1>1, LoopsTail
<1>6. Queued(cl, r)
  <2> HIDE DEF r
  <2> QED
    BY <1>2, <1>3, <1>5 DEF Queued
<1> QED
  BY <1>3, <1>4, <1>5, <1>6 DEF Grown

\* What a task was put into, or taken from, stays the thread's own.
LEMMA GrownPut ==
    ASSUME NEW cl, NEW q, NEW r, Queued(cl, r), Grown(q, r),
           NEW e \in TaskType, e.kind \in {"loop", "plot"},
           e.kind = "plot" => e.handle \in cl \cup {0}
    PROVE  Grown(q, Append(r, e))
<1>1. \A i \in DOMAIN Append(r, e) :
         Append(r, e)[i] = e \/ \E j \in DOMAIN r : Append(r, e)[i] = r[j]
  BY Put
<1> QED
  BY <1>1 DEF Grown

\* The thread's own callbacks are tasks.
LEMMA OwnTasks ==
    /\ EventLoop \in TaskType /\ EventLoop.kind = "loop"
    /\ \A h \in Handles : Plot(h) \in TaskType /\ Plot(h).kind = "plot" /\ Plot(h).handle = h
BY ThreadAssumption DEF EventLoop, Plot, TaskType, Handles
-----------------------------------------------------------------------------
(* The debugger thread *)

\* What has been announced stays announced.
Told(ns, ms) == Len(ns) <= Len(ms) /\ \A g \in DOMAIN ns : ms[g] = ns[g]

\* A step that neither queues a callback nor announces a stop.
LEMMA Quiet ==
    ASSUME ThreadInv, queue' = queue, client \subseteq client',
           UNCHANGED <<stop_generation, notified>>, stop' = stop \/ stop' = stop + 1
    PROVE  /\ Queued(client', queue') /\ Grown(queue, queue')
           /\ NotifiedInv(stop', stop_generation', notified') /\ Told(notified, notified')
<1>1. Queued(client, queue) /\ NotifiedInv(stop, stop_generation, notified)
  BY DEF ThreadInv
<1>2. Queued(client', queue') /\ Grown(queue, queue')
  BY <1>1 DEF Queued, Grown
<1>3. NotifiedInv(stop', stop_generation', notified') /\ Told(notified, notified')
  BY <1>1 DEF NotifiedInv, Told
<1> QED
  BY <1>2, <1>3

\* The windows' and the handler's state does not change, but for an abort.
LEMMA Steady ==
    ASSUME WindowsInv(dpc, handle, proc, client, freed),
           UNCHANGED <<handle, proc, client>>, freed \subseteq freed',
           dpc' = dpc \/ dpc' = "aborted"
    PROVE  WindowsInv(dpc', handle', proc', client', freed')
BY DEF WindowsInv, PCs

\* An event loop is queued when a launch returns.
LEMMA LaunchReturns ==
    ASSUME ThreadInv, dpc = "accept", ExecReturns, client \subseteq client',
           UNCHANGED <<handle, stop, stop_generation, notified>>
    PROVE  /\ Queued(client', queue') /\ LoopsInv(dpc', handle', queue')
           /\ Grown(queue, queue')
           /\ NotifiedInv(stop', stop_generation', notified') /\ Told(notified, notified')
<1>0. /\ Queued(client, queue) /\ LoopsInv(dpc, handle, queue)
      /\ NotifiedInv(stop, stop_generation, notified)
      /\ handle \in Nat \ {0}
  BY DEF ThreadInv, WindowsInv
<1>1. /\ Queued(client, Append(queue, EventLoop))
      /\ Cardinality(Loops(Append(queue, EventLoop))) = Cardinality(Loops(queue)) + 1
  BY <1>0, Put, OwnTasks
<1>2. Grown(queue, queue) /\ Grown(queue, Append(queue, EventLoop))
  <2>1. Grown(queue, queue)
    BY DEF Grown
  <2> QED
    BY <1>0, <2>1, GrownPut, OwnTasks
<1>3. Queued(client', queue') /\ Grown(queue, queue')
  BY <1>1, <1>2 DEF ExecReturns, Queued
<1>4. LoopsInv(dpc', handle', queue')
  BY <1>0, <1>1 DEF ExecReturns, LoopsInv
<1>5. NotifiedInv(stop', stop_generation', notified') /\ Told(notified, notified')
  BY <1>0 DEF NotifiedInv, Told
<1> QED
  BY <1>3, <1>4, <1>5

\* The stop handler, from the launch it waits for to its end.
LEMMA HandlerKeeps ==
    ASSUME ThreadInv, HandlerStep
    PROVE  ThreadInv' /\ Grown(queue, queue') /\ Told(notified, notified')
<1>0. /\ WindowsInv(dpc, handle, proc, client, freed)
      /\ Queued(client, queue) /\ LoopsInv(dpc, handle, queue)
      /\ NotifiedInv(stop, stop_generation, notified)
  BY DEF ThreadInv
<1>1. CASE waitForStart
  <2>1. WindowsInv(dpc', handle', proc', client', freed') /\ LoopsInv(dpc', handle', queue')
    BY <1>0, <1>1 DEF waitForStart, windowVars, WindowsInv, PCs, LoopsInv
  <2>2. /\ queue' = queue /\ client' = client /\ stop' = stop
        /\ UNCHANGED <<stop_generation, notified>>
    BY <1>1 DEF waitForStart, windowVars, programVars, agentVars
  <2> QED
    BY <2>1, <2>2, Quiet DEF ThreadInv
<1>2. CASE wait_for_client
  <2>1. /\ dpc = "accept" /\ ExecReturns /\ dpc' = "poll" /\ client' = client \cup {handle}
        /\ UNCHANGED <<handle, proc, freed, stop, stop_generation, notified>>
    BY <1>2 DEF wait_for_client, programVars, agentVars, ExecReturns
  <2>2. WindowsInv(dpc', handle', proc', client', freed')
    <3>1. handle \in Launches
      BY <1>0, <2>1 DEF WindowsInv, Handles, Launches
    <3> QED
      BY <1>0, <2>1, <3>1 DEF WindowsInv, PCs
  <2> QED
    BY <2>1, <2>2, LaunchReturns DEF ThreadInv
<1>3. CASE AcceptTimesOut
  <2>1. /\ dpc = "accept" /\ ExecReturns /\ dpc' = "poll"
        /\ UNCHANGED <<client, handle, proc, freed, stop, stop_generation, notified>>
    BY <1>3 DEF AcceptTimesOut, programVars, windowVars, agentVars, ExecReturns
  <2>2. WindowsInv(dpc', handle', proc', client', freed')
    BY <1>0, <2>1 DEF WindowsInv, PCs
  <2> QED
    BY <2>1, <2>2, LaunchReturns DEF ThreadInv
<1>4. CASE WaitUntilReady
  <2>1. WindowsInv(dpc', handle', proc', client', freed') /\ LoopsInv(dpc', handle', queue')
    BY <1>0, <1>4 DEF WaitUntilReady, is_window_ready, windowVars, WindowsInv, PCs, LoopsInv
  <2>2. /\ queue' = queue /\ client' = client /\ stop' = stop
        /\ UNCHANGED <<stop_generation, notified>>
    BY <1>4 DEF WaitUntilReady, windowVars, programVars, agentVars
  <2> QED
    BY <2>1, <2>2, Quiet DEF ThreadInv
<1>5. CASE ReplotObserved
  <2>0. /\ dpc = "refresh" /\ handle \in client /\ handle \in Handles
        /\ UNCHANGED <<handle, proc, client, freed, stop, stop_generation, notified>>
    BY <1>0, <1>5 DEF ReplotObserved, windowVars, programVars, agentVars, WindowsInv
  <2>1. CASE dpc' = "symbols" /\ queue' = Append(queue, Plot(handle))
    <3>1. /\ Queued(client, queue')
          /\ Cardinality(Loops(queue')) = Cardinality(Loops(queue)) + 0
      BY <1>0, <2>0, <2>1, Put, OwnTasks
    <3>2. Cardinality(Loops(queue)) \in Nat
      BY <1>0, FS_CardinalityType DEF Queued
    <3>3. Grown(queue, queue')
      <4>1. Grown(queue, queue)
        BY DEF Grown
      <4> QED
        BY <1>0, <2>0, <2>1, <4>1, GrownPut, OwnTasks
    <3>4. LoopsInv(dpc', handle', queue')
      BY <1>0, <2>0, <2>1, <3>1, <3>2 DEF LoopsInv
    <3>5. WindowsInv(dpc', handle', proc', client', freed')
      BY <1>0, <2>0, <2>1 DEF WindowsInv, PCs
    <3>6. NotifiedInv(stop', stop_generation', notified') /\ Told(notified, notified')
      BY <1>0, <2>0 DEF NotifiedInv, Told
    <3> QED
      BY <2>0, <3>1, <3>3, <3>4, <3>5, <3>6 DEF ThreadInv
  <2>2. CASE dpc' \in {"symbols", "aborted"} /\ queue' = queue
    <3>1. WindowsInv(dpc', handle', proc', client', freed') /\ LoopsInv(dpc', handle', queue')
      BY <1>0, <2>0, <2>2 DEF WindowsInv, PCs, LoopsInv
    <3> QED
      BY <2>0, <2>2, <3>1, Quiet DEF ThreadInv
  <2> QED
    BY <1>5, <2>1, <2>2 DEF ReplotObserved, MayAbort, oid_get_observed_buffers
<1>6. CASE AnnounceStop
  <2>0. /\ dpc = "symbols" /\ dpc' \in {"idle", "aborted"}
        /\ UNCHANGED <<queue, handle, proc, client, freed, stop>>
        /\ notify_stop \/ UNCHANGED agentVars
    BY <1>6 DEF AnnounceStop, windowVars, programVars, MayAbort
  <2>1. WindowsInv(dpc', handle', proc', client', freed') /\ LoopsInv(dpc', handle', queue')
    BY <1>0, <2>0 DEF WindowsInv, PCs, LoopsInv
  <2>2. Queued(client', queue') /\ Grown(queue, queue')
    BY <1>0, <2>0 DEF Grown
  <2>3. CASE UNCHANGED agentVars
    BY <2>0, <2>1, <2>3, Quiet DEF ThreadInv, agentVars
  <2>4. CASE stop_generation' = stop_generation + 1 /\ notified' = Append(notified, stop)
    <3>1. NotifiedInv(stop', stop_generation', notified') /\ Told(notified, notified')
      BY <1>0, <2>0, <2>4 DEF NotifiedInv, Told
    <3> QED
      BY <2>1, <2>2, <3>1 DEF ThreadInv
  <2> QED
    BY <2>0, <2>3, <2>4 DEF notify_stop
<1>7. CASE HandlerRaises
  <2>1. WindowsInv(dpc', handle', proc', client', freed') /\ LoopsInv(dpc', handle', queue')
    BY <1>0, <1>7 DEF HandlerRaises, windowVars, WindowsInv, PCs, LoopsInv
  <2>2. /\ queue' = queue /\ client' = client /\ stop' = stop
        /\ UNCHANGED <<stop_generation, notified>>
    BY <1>7 DEF HandlerRaises, windowVars, programVars, agentVars
  <2> QED
    BY <2>1, <2>2, Quiet DEF ThreadInv
<1> QED
  BY <1>1, <1>2, <1>3, <1>4, <1>5, <1>6, <1>7 DEF HandlerStep

\* A new window is launched only when no other is left running.
LEMMA LaunchKeeps ==
    ASSUME WindowsInv(dpc, handle, proc, client, freed), LoopsInv(dpc, handle, queue),
           dpc = "idle", FALSE \in is_ready, initialize_window, queue' = queue
    PROVE  WindowsInv(dpc', handle', proc', client', freed') /\ LoopsInv(dpc', handle', queue')
<1>1. PICK h \in Launches : /\ oid_initialize(h) /\ handle' = h /\ oid_exec(h)
                            /\ dpc' = "waitForStart" /\ UNCHANGED <<connected, client, freed>>
  BY DEF initialize_window
<1>2. /\ MaxStops \in Nat /\ handle \in 0..MaxStops /\ h \in 1..MaxStops
      /\ proc \in [Launches -> {"none", "starting", "up", "gone"}]
  BY ThreadAssumption DEF WindowsInv, Handles, Launches
<1>3. h = handle + 1
  <2>1. ~(h <= handle)
    BY <1>1, <1>2 DEF oid_initialize
  <2>2. handle + 1 \in Launches
    BY <1>2, <2>1 DEF Launches
  <2>3. ~(handle + 1 < h)
    BY <1>1, <1>2, <2>2 DEF oid_initialize
  <2> QED
    BY <1>2, <2>1, <2>3
<1>4. \A g \in Launches : proc[g] \in {"starting", "up"} => g \in freed
  <2> SUFFICES ASSUME NEW g \in Launches, proc[g] \in {"starting", "up"}, g \notin freed
               PROVE  FALSE
    OBVIOUS
  <2>1. g = handle /\ handle # 0
    BY <1>2 DEF WindowsInv, Launches
  <2>2. handle \in client
    BY <2>1 DEF WindowsInv
  <2>3. is_window_ready(handle)
    BY <2>1, <2>2 DEF is_window_ready, isRunning
  <2> QED
    BY <2>1, <2>3 DEF is_ready, oid_is_window_ready
<1>5. /\ proc' \in [Launches -> {"none", "starting", "up", "gone"}]
      /\ \A g \in Launches : g # h => proc'[g] = proc[g]
  BY <1>1, <1>2 DEF oid_exec
<1>6. WindowsInv(dpc', handle', proc', client', freed')
  BY <1>1, <1>2, <1>4, <1>5 DEF WindowsInv, PCs, Handles
<1>7. LoopsInv(dpc', handle', queue')
  BY <1>1, <1>2, <1>3 DEF LoopsInv
<1> QED
  BY <1>6, <1>7

\* The events of the program: its stops, its end, and what the user does.
LEMMA EventKeeps ==
    ASSUME ThreadInv, EventStep
    PROVE  ThreadInv' /\ Grown(queue, queue') /\ Told(notified, notified')
<1>0. /\ WindowsInv(dpc, handle, proc, client, freed)
      /\ Queued(client, queue) /\ LoopsInv(dpc, handle, queue)
      /\ NotifiedInv(stop, stop_generation, notified)
  BY DEF ThreadInv
<1>1. CASE stop_handler
  <2>0. /\ dpc = "idle" /\ queue' = queue /\ stop' = stop + 1
        /\ UNCHANGED <<stop_generation, notified>>
    BY <1>1 DEF stop_handler, agentVars
  <2>1. CASE TRUE \in is_ready /\ dpc' = "refresh" /\ UNCHANGED windowVars
    <3>1. handle \in client
      BY <1>0, <2>0, <2>1 DEF is_ready, WindowsInv
    <3>2. WindowsInv(dpc', handle', proc', client', freed') /\ LoopsInv(dpc', handle', queue')
      BY <1>0, <2>0, <2>1, <3>1 DEF WindowsInv, PCs, LoopsInv, windowVars
    <3> QED
      BY <2>0, <2>1, <3>2, Quiet DEF ThreadInv, windowVars
  <2>2. CASE FALSE \in is_ready /\ initialize_window
    <3>1. WindowsInv(dpc', handle', proc', client', freed') /\ LoopsInv(dpc', handle', queue')
      BY <1>0, <2>0, <2>2, LaunchKeeps
    <3>2. client' = client
      BY <2>2 DEF initialize_window
    <3> QED
      BY <2>0, <3>1, <3>2, Quiet DEF ThreadInv
  <2>3. CASE MayAbort(handle) /\ UNCHANGED windowVars
    <3>1. WindowsInv(dpc', handle', proc', client', freed')
      BY <1>0, <2>3, Steady DEF MayAbort, windowVars
    <3>2. LoopsInv(dpc', handle', queue')
      BY <2>3 DEF MayAbort, LoopsInv
    <3> QED
      BY <2>0, <2>3, <3>1, <3>2, Quiet DEF ThreadInv, windowVars
  <2> QED
    BY <1>1, <2>1, <2>2, <2>3 DEF stop_handler
<1>2. CASE Resume
  <2>1. UNCHANGED <<dpc, stop, queue, handle, proc, client, freed, stop_generation, notified>>
    BY <1>2 DEF Resume, windowVars, agentVars
  <2>2. WindowsInv(dpc', handle', proc', client', freed') /\ LoopsInv(dpc', handle', queue')
    BY <1>0, <2>1
  <2> QED
    BY <2>1, <2>2, Quiet DEF ThreadInv
<1>3. CASE exit_handler
  <2>1. /\ UNCHANGED <<stop, queue, handle, proc, client, stop_generation, notified>>
        /\ freed \subseteq freed'
        /\ dpc' = dpc \/ dpc' = "aborted"
    BY <1>3 DEF exit_handler, MayAbort
  <2>2. WindowsInv(dpc', handle', proc', client', freed')
    BY <1>0, <2>1, Steady
  <2>3. LoopsInv(dpc', handle', queue')
    BY <1>0, <2>1 DEF LoopsInv
  <2> QED
    BY <2>1, <2>2, <2>3, Quiet DEF ThreadInv
<1>4. CASE plot_handler
  <2>0. /\ queue' = Append(queue, Plot(handle)) /\ dpc = "idle"
        /\ UNCHANGED <<dpc, stop, handle, proc, client, freed, stop_generation, notified>>
        /\ handle \in Handles /\ handle \in client \cup {0}
    BY <1>0, <1>4 DEF plot_handler, windowVars, programVars, agentVars, WindowsInv
  <2>1. /\ Queued(client, queue')
        /\ Cardinality(Loops(queue')) = Cardinality(Loops(queue)) + 0
    BY <1>0, <2>0, Put, OwnTasks
  <2>2. Cardinality(Loops(queue)) \in Nat
    BY <1>0, FS_CardinalityType DEF Queued
  <2>3. Grown(queue, queue')
    <3>1. Grown(queue, queue)
      BY DEF Grown
    <3> QED
      BY <1>0, <2>0, <3>1, GrownPut, OwnTasks
  <2>4. LoopsInv(dpc', handle', queue')
    BY <1>0, <2>0, <2>1, <2>2 DEF LoopsInv
  <2>5. NotifiedInv(stop', stop_generation', notified') /\ Told(notified, notified')
    BY <1>0, <2>0 DEF NotifiedInv, Told
  <2>6. WindowsInv(dpc', handle', proc', client', freed') /\ client' = client
    BY <1>0, <2>0
  <2> QED
    BY <2>1, <2>3, <2>4, <2>5, <2>6 DEF ThreadInv
<1> QED
  BY <1>1, <1>2, <1>3, <1>4 DEF EventStep

\* The queue: a loop goes to its end again, a plot leaves it.
LEMMA QueueKeeps ==
    ASSUME ThreadInv, QueueStep
    PROVE  ThreadInv' /\ Grown(queue, queue') /\ Told(notified, notified')
<1>0. /\ WindowsInv(dpc, handle, proc, client, freed)
      /\ Queued(client, queue) /\ LoopsInv(dpc, handle, queue)
      /\ NotifiedInv(stop, stop_generation, notified)
  BY DEF ThreadInv
<1>1. /\ dpc = "idle" /\ queue # <<>>
      /\ UNCHANGED <<handle, proc, client, freed, stop, stop_generation, notified>>
      /\ dpc' = dpc \/ dpc' = "aborted"
  BY DEF QueueStep, run_event_loop, DeferredVariablePlotter, TaskAtHead, MayAbort, windowVars,
         programVars, agentVars
<1>2. /\ WindowsInv(dpc', handle', proc', client', freed')
      /\ NotifiedInv(stop', stop_generation', notified') /\ Told(notified, notified')
  <2>1. WindowsInv(dpc', handle', proc', client', freed')
    BY <1>0, <1>1, Steady
  <2> QED
    BY <1>0, <1>1, <2>1 DEF NotifiedInv, Told
<1>3. /\ Queued(client, Tail(queue)) /\ Grown(queue, Tail(queue))
      /\ Cardinality(Loops(Tail(queue)))
           = Cardinality(Loops(queue)) - (IF Head(queue).kind = "loop" THEN 1 ELSE 0)
  BY <1>0, <1>1, Take
<1>4. Cardinality(Loops(queue)) \in Nat /\ handle \in Handles /\ handle \in client \cup {0}
  BY <1>0, <1>1, FS_CardinalityType DEF Queued, WindowsInv
<1>5. CASE TaskAtHead("loop") /\ queue' = Append(Tail(queue), EventLoop)
  <2>1. /\ Queued(client, queue')
        /\ Cardinality(Loops(queue')) = Cardinality(Loops(Tail(queue))) + 1
    BY <1>3, <1>5, Put, OwnTasks
  <2>2. Grown(queue, queue')
    BY <1>3, <1>5, GrownPut, OwnTasks
  <2>3. LoopsInv(dpc', handle', queue')
    BY <1>0, <1>1, <1>3, <1>4, <1>5, <2>1 DEF LoopsInv, TaskAtHead
  <2> QED
    BY <1>1, <1>2, <2>1, <2>2, <2>3 DEF ThreadInv
<1>6. CASE TaskAtHead("loop") /\ queue' = Tail(queue) \o <<Plot(handle), EventLoop>>
  <2> DEFINE r == Append(Tail(queue), Plot(handle))
  <2>1. /\ Queued(client, r) /\ Grown(queue, r)
        /\ Cardinality(Loops(r)) = Cardinality(Loops(Tail(queue))) + 0
    <3>1. Plot(handle) \in TaskType /\ Plot(handle).kind = "plot" /\ Plot(handle).handle = handle
      BY <1>4, OwnTasks
    <3> QED
      BY <1>3, <1>4, <3>1, Put, GrownPut
  <2>2. queue' = Append(r, EventLoop)
    BY <1>3, <1>4, <1>6, OwnTasks DEF Queued
  <2>3. /\ Queued(client, queue') /\ Grown(queue, queue')
        /\ Cardinality(Loops(queue')) = Cardinality(Loops(r)) + 1
    <3> HIDE DEF r
    <3> QED
      BY <2>1, <2>2, Put, GrownPut, OwnTasks
  <2>4. LoopsInv(dpc', handle', queue')
    BY <1>0, <1>1, <1>3, <1>4, <1>6, <2>1, <2>3 DEF LoopsInv, TaskAtHead
  <2> QED
    BY <1>1, <1>2, <2>3, <2>4 DEF ThreadInv
<1>7. CASE queue' = queue /\ dpc' = "aborted"
  <2>1. LoopsInv(dpc', handle', queue')
    BY <1>7 DEF LoopsInv
  <2> QED
    BY <1>1, <1>2, <1>7, <2>1, Quiet DEF ThreadInv
<1>8. CASE TaskAtHead("plot") /\ queue' = Tail(queue)
  <2>1. LoopsInv(dpc', handle', queue')
    BY <1>0, <1>1, <1>3, <1>4, <1>8 DEF LoopsInv, TaskAtHead
  <2> QED
    BY <1>1, <1>2, <1>3, <1>8, <2>1 DEF ThreadInv
<1> QED
  BY <1>5, <1>6, <1>7, <1>8 DEF QueueStep, run_event_loop, DeferredVariablePlotter, MayAbort

\* The windows come up and go by themselves.
LEMMA WindowKeeps ==
    ASSUME ThreadInv, NEW h \in Launches, WindowConnects(h) \/ WindowExits(h)
    PROVE  ThreadInv' /\ Grown(queue, queue') /\ Told(notified, notified')
<1>0. /\ WindowsInv(dpc, handle, proc, client, freed) /\ LoopsInv(dpc, handle, queue)
  BY DEF ThreadInv
<1>1. UNCHANGED <<dpc, queue, handle, client, freed, stop, stop_generation, notified>>
  BY DEF WindowConnects, WindowExits, programVars, agentVars
<1>2. /\ proc' \in [Launches -> {"none", "starting", "up", "gone"}]
      /\ \A g \in Launches : proc'[g] \in {"starting", "up"} => proc[g] \in {"starting", "up"}
  BY <1>0 DEF WindowConnects, WindowExits, isRunning, WindowsInv
<1>3. WindowsInv(dpc', handle', proc', client', freed') /\ LoopsInv(dpc', handle', queue')
  BY <1>0, <1>1, <1>2 DEF WindowsInv
<1> QED
  BY <1>1, <1>3, Quiet DEF ThreadInv

\* Every step of the debugger thread and of the windows.
LEMMA ThreadKeeps ==
    ASSUME ThreadInv, ThreadNext
    PROVE  ThreadInv' /\ Grown(queue, queue') /\ Told(notified, notified')
BY HandlerKeeps, QueueKeeps, EventKeeps, WindowKeeps DEF ThreadNext
-----------------------------------------------------------------------------
(* The cache *)

\* A part of a cache has entries of that cache.
LEMMA PartOf ==
    ASSUME NEW s \in Seq(EntryType), NEW m \in Nat \ {0}, NEW n \in Nat, n <= Len(s)
    PROVE  /\ SubSeq(s, m, n) \in Seq(EntryType)
           /\ \A i \in DOMAIN SubSeq(s, m, n) : \E j \in DOMAIN s : SubSeq(s, m, n)[i] = s[j]
<1> DEFINE a == SubSeq(s, m, n)
<1>1. Len(s) \in Nat /\ DOMAIN s = 1..Len(s)
  OBVIOUS
<1>2. m \in Int /\ n \in Int /\ \A i \in m..n : s[i] \in EntryType
  BY <1>1
<1>3. /\ a \in Seq(EntryType) /\ Len(a) = IF m <= n THEN n - m + 1 ELSE 0
      /\ \A i \in 1..(n - m + 1) : a[i] = s[m + i - 1]
  BY <1>2, SubSeqProperties
<1> HIDE DEF a
<1>4. ASSUME NEW i \in DOMAIN a
      PROVE  \E j \in DOMAIN s : a[i] = s[j]
  <2>1. i \in 1..(n - m + 1) /\ m + i - 1 \in 1..Len(s)
    BY <1>3
  <2> QED
    BY <1>1, <1>3, <2>1
<1> QED
  BY <1>3, <1>4 DEF a

\* An entry is left out of a cache.
LEMMA WithoutEntry ==
    ASSUME NEW s \in Seq(EntryType), NEW g
    PROVE  /\ Without(s, g) \in Seq(EntryType)
           /\ \A i \in DOMAIN Without(s, g) : \E j \in DOMAIN s : Without(s, g)[i] = s[j]
<1>1. CASE \E i \in DOMAIN s : s[i].key = g
  <2> DEFINE k == CHOOSE i \in DOMAIN s : s[i].key = g
             a == SubSeq(s, 1, k - 1)
             b == SubSeq(s, k + 1, Len(s))
  <2>1. k \in DOMAIN s
    BY <1>1
  <2> HIDE DEF k
  <2>2. Len(s) \in Nat /\ k - 1 \in Nat /\ k - 1 <= Len(s) /\ k + 1 \in Nat \ {0}
    BY <2>1
  <2>3. Without(s, g) = a \o b
    BY <1>1 DEF Without, RemoveAt, k
  <2>4. a \in Seq(EntryType) /\ \A i \in DOMAIN a : \E j \in DOMAIN s : a[i] = s[j]
    BY <2>2, PartOf
  <2>5. b \in Seq(EntryType) /\ \A i \in DOMAIN b : \E j \in DOMAIN s : b[i] = s[j]
    BY <2>2, PartOf
  <2> HIDE DEF a, b
  <2>6. /\ a \o b \in Seq(EntryType)
        /\ \A i \in DOMAIN (a \o b) :
              \/ i \in DOMAIN a /\ (a \o b)[i] = a[i]
              \/ i - Len(a) \in DOMAIN b /\ (a \o b)[i] = b[i - Len(a)]
    BY <2>4, <2>5
  <2> QED
    BY <2>3, <2>4, <2>5, <2>6
<1>2. CASE ~ \E i \in DOMAIN s : s[i].key = g
  BY <1>2 DEF Without
<1> QED
  BY <1>1, <1>2

\* BufferCache.put() leaves the new entry and entries that were there.
LEMMA PutEntry ==
    ASSUME NEW s \in Seq(EntryType), NEW e \in EntryType
    PROVE  /\ put(s, e) \in Seq(EntryType)
           /\ \A i \in DOMAIN put(s, e) :
                 put(s, e)[i] = e \/ \E j \in DOMAIN s : put(s, e)[i] = s[j]
<1> DEFINE u == Without(s, e.key)
           t == Append(u, e)
           m == Len(t) - (IF Len(t) > CacheCapacity THEN CacheCapacity ELSE Len(t))
<1>1. u \in Seq(EntryType) /\ \A i \in DOMAIN u : \E j \in DOMAIN s : u[i] = s[j]
  BY WithoutEntry
<1> HIDE DEF u
<1>2. t \in Seq(EntryType) /\ \A i \in DOMAIN t : t[i] = e \/ \E j \in DOMAIN u : t[i] = u[j]
  BY <1>1
<1> HIDE DEF t
<1>3. \A i \in DOMAIN t : t[i] = e \/ \E j \in DOMAIN s : t[i] = s[j]
  BY <1>1, <1>2
<1>4. m + 1 \in Nat \ {0} /\ Len(t) \in Nat /\ Len(t) <= Len(t)
  BY <1>2, EndpointAssumption
<1> HIDE DEF m
<1>5. put(s, e) = SubSeq(t, m + 1, Len(t))
  BY DEF put, t, u, m
<1>6. /\ SubSeq(t, m + 1, Len(t)) \in Seq(EntryType)
      /\ \A i \in DOMAIN SubSeq(t, m + 1, Len(t)) :
            \E j \in DOMAIN t : SubSeq(t, m + 1, Len(t))[i] = t[j]
  BY <1>2, <1>4, PartOf
<1> QED
  BY <1>3, <1>5, <1>6
-----------------------------------------------------------------------------
(* The tasks of the endpoint, on the debugger thread *)

\* Bytes that were new enough stay so when stops are announced.
LEMMA StillNotOlder ==
    ASSUME NEW ns \in Seq(Nat), NEW ms \in Seq(Nat), Told(ns, ms), NEW k, NEW d, NotOlder(k, d, ns)
    PROVE  NotOlder(k, d, ms)
<1>1. Len(ns) \in Nat /\ Len(ms) \in Nat /\ DOMAIN ns = 1..Len(ns) /\ Len(ns) <= Len(ms)
  BY DEF Told
<1>2. CASE k = 0
  BY <1>1, <1>2 DEF NotOlder
<1>3. CASE k \in 1..Len(ns)
  <2>1. k \in 0..Len(ms) /\ k > 0
    BY <1>1, <1>3
  <2>2. ms[k] = ns[k]
    BY <1>1, <1>3 DEF Told
  <2>3. d >= ns[k]
    BY <2>1 DEF NotOlder
  <2> QED
    BY <2>1, <2>2, <2>3 DEF NotOlder
<1> QED
  BY <1>1, <1>2, <1>3 DEF NotOlder

\* The requests' numbers, when the thread works on its queue.
LEMMA NumbersKept ==
    ASSUME NumbersInv(queue), Grown(queue, queue'), UNCHANGED <<cpc, requests, current>>
    PROVE  NumbersInv(queue)'
BY DEF NumbersInv, Grown

\* A step of the debugger thread alone.
LEMMA ThreadStepKeeps ==
    ASSUME Inv, ThreadStep
    PROVE  Inv'
<1>0. /\ ThreadInv /\ SlotsInv /\ NumbersInv(queue) /\ BytesInv(notified)
      /\ ThreadNext /\ UNCHANGED <<cpc, slots, requests, current, box, pinged, cache, served>>
  BY DEF Inv, ThreadStep
<1>1. ThreadInv' /\ Grown(queue, queue') /\ Told(notified, notified')
  BY <1>0, ThreadKeeps
<1>2. notified \in Seq(Nat) /\ notified' \in Seq(Nat)
  BY <1>0, <1>1 DEF ThreadInv, NotifiedInv
<1>3. SlotsInv'
  BY <1>0 DEF SlotsInv
<1>4. NumbersInv(queue)'
  BY <1>0, <1>1, NumbersKept
<1>5. BytesInv(notified)'
  <2>1. ASSUME NEW c \in Clients
        PROVE  BytesAt(cpc[c], box[c], pinged[c], cache[c], served[c], notified')
    <3>1. BytesAt(cpc[c], box[c], pinged[c], cache[c], served[c], notified)
      BY <1>0 DEF BytesInv
    <3>2. \A k, d : NotOlder(k, d, notified) => NotOlder(k, d, notified')
      BY <1>1, <1>2, StillNotOlder
    <3>3. \A k \in 0..Len(notified) : k \in 0..Len(notified')
      BY <1>1, <1>2 DEF Told
    <3> QED
      BY <3>1, <3>2, <3>3 DEF BytesAt
  <2> QED
    BY <1>0, <2>1 DEF BytesInv
<1> QED
  BY <1>1, <1>3, <1>4, <1>5 DEF Inv

\* A task leaves its result in the box of its own request.
LEMMA FinishKeeps ==
    ASSUME BytesInv(notified), NEW n, NEW result \in BoxType, Finish(n, result),
           UNCHANGED <<cpc, pinged, cache, served, notified>>,
           \A c \in Clients : cpc[c] = "fetching" /\ current[c] = n /\ result.ok
                                => NotOlder(pinged[c].key, result.data, notified)
    PROVE  BytesInv(notified)'
<1>1. /\ box' \in [Clients -> BoxType]
      /\ \A c \in Clients : box'[c] = IF current[c] = n THEN result ELSE box[c]
  BY DEF Finish, BytesInv
<1>2. ASSUME NEW c \in Clients
      PROVE  BytesAt(cpc[c], box'[c], pinged[c], cache[c], served[c], notified)
  <2>1. BytesAt(cpc[c], box[c], pinged[c], cache[c], served[c], notified)
    BY DEF BytesInv
  <2>2. CASE current[c] = n
    BY <1>1, <2>1, <2>2 DEF BytesAt
  <2>3. CASE current[c] # n
    BY <1>1, <2>1, <2>3
  <2> QED
    BY <2>2, <2>3
<1> QED
  BY <1>1, <1>2 DEF BytesInv

\* A fetch reads the program at its present stop, which no announcement is after.
LEMMA FetchTaskKeeps ==
    ASSUME Inv, FetchTask
    PROVE  Inv'
<1>0. /\ ThreadInv /\ SlotsInv /\ NumbersInv(queue) /\ BytesInv(notified)
      /\ WindowsInv(dpc, handle, proc, client, freed)
      /\ Queued(client, queue) /\ LoopsInv(dpc, handle, queue)
      /\ NotifiedInv(stop, stop_generation, notified)
  BY DEF Inv, ThreadInv
<1>1. /\ queue # <<>> /\ Head(queue).kind = "get" /\ queue' = Tail(queue)
      /\ Finish(Head(queue).handle, IF running THEN Failed ELSE Result(stop))
      /\ UNCHANGED <<dpc, handle, proc, client, freed, stop, stop_generation, notified,
                     cpc, slots, requests, current, pinged, cache, served>>
  BY DEF FetchTask, TaskAtHead, programVars, windowVars, agentVars
<1>2. /\ Queued(client, queue') /\ Grown(queue, queue')
      /\ Cardinality(Loops(queue')) = Cardinality(Loops(queue)) - 0
  BY <1>0, <1>1, Take
<1>3. Cardinality(Loops(queue)) \in Nat
  BY <1>0, FS_CardinalityType DEF Queued
<1>4. ThreadInv'
  <2>1. LoopsInv(dpc', handle', queue')
    BY <1>0, <1>1, <1>2, <1>3 DEF LoopsInv
  <2>2. /\ WindowsInv(dpc', handle', proc', client', freed') /\ Queued(client', queue')
        /\ NotifiedInv(stop', stop_generation', notified')
    BY <1>0, <1>1, <1>2
  <2> QED
    BY <2>1, <2>2 DEF ThreadInv
<1>5. SlotsInv'
  BY <1>0, <1>1 DEF SlotsInv
<1>6. NumbersInv(queue)'
  BY <1>0, <1>1, <1>2, NumbersKept
<1>7. BytesInv(notified)'
  <2> DEFINE result == IF running THEN Failed ELSE Result(stop)
  <2>1. result \in BoxType /\ (result.ok => result.data = stop)
    BY <1>0 DEF Failed, Result, BoxType, NotifiedInv
  <2>2. \A c \in Clients : NotOlder(pinged[c].key, stop, notified)
    <3> TAKE c \in Clients
    <3>1. pinged[c].key \in 0..Len(notified)
      BY <1>0 DEF BytesInv, BytesAt
    <3> QED
      BY <1>0, <3>1 DEF NotOlder, NotifiedInv
  <2> HIDE DEF result
  <2>3. \A c \in Clients : result.ok => NotOlder(pinged[c].key, result.data, notified)
    BY <2>1, <2>2
  <2>4. Finish(Head(queue).handle, result)
    BY <1>1 DEF result
  <2> QED
    BY <1>0, <1>1, <2>1, <2>3, <2>4, FinishKeeps
<1> QED
  BY <1>4, <1>5, <1>6, <1>7 DEF Inv

\* A plot's task: no thread waits for it as for a fetch.
LEMMA do_plotKeeps ==
    ASSUME Inv, do_plot
    PROVE  Inv'
<1>0. /\ ThreadInv /\ SlotsInv /\ NumbersInv(queue) /\ BytesInv(notified)
      /\ WindowsInv(dpc, handle, proc, client, freed)
      /\ Queued(client, queue) /\ LoopsInv(dpc, handle, queue)
      /\ NotifiedInv(stop, stop_generation, notified)
  BY DEF Inv, ThreadInv
<1>1. /\ dpc = "idle" /\ queue # <<>> /\ Head(queue).kind = "do_plot"
      /\ UNCHANGED <<handle, proc, client, freed, stop, stop_generation, notified,
                     cpc, slots, requests, current, pinged, cache, served>>
      /\ dpc' = dpc \/ dpc' = "aborted"
  BY DEF do_plot, TaskAtHead, MayAbort, programVars, windowVars, agentVars
<1>2. /\ Queued(client, Tail(queue)) /\ Grown(queue, Tail(queue))
      /\ Cardinality(Loops(Tail(queue))) = Cardinality(Loops(queue)) - 0
      /\ \E j \in DOMAIN queue : Head(queue) = queue[j]
  BY <1>0, <1>1, Take
<1>3. Cardinality(Loops(queue)) \in Nat /\ handle \in Handles /\ handle \in client \cup {0}
  BY <1>0, <1>1, FS_CardinalityType DEF Queued, WindowsInv
<1>4. /\ WindowsInv(dpc', handle', proc', client', freed')
      /\ NotifiedInv(stop', stop_generation', notified')
  BY <1>0, <1>1, Steady
<1>5. SlotsInv'
  BY <1>0, <1>1 DEF SlotsInv
<1>6. \A c \in Clients : cpc[c] = "fetching" => current[c] # Head(queue).handle
  BY <1>0, <1>1, <1>2 DEF NumbersInv
<1>7. Failed \in BoxType /\ Result(0) \in BoxType
  BY DEF Failed, Result, BoxType
<1>8. ASSUME NEW result \in BoxType, Finish(Head(queue).handle, result)
      PROVE  BytesInv(notified)'
  <2>1. \A c \in Clients : cpc[c] = "fetching" /\ current[c] = Head(queue).handle /\ result.ok
                             => NotOlder(pinged[c].key, result.data, notified)
    BY <1>6
  <2> QED
    BY <1>0, <1>1, <1>8, <2>1, FinishKeeps
<1>9. CASE queue' = Append(Tail(queue), Plot(handle)) /\ Finish(Head(queue).handle, Result(0))
  <2>1. /\ Queued(client, queue') /\ Grown(queue, queue')
        /\ Cardinality(Loops(queue')) = Cardinality(Loops(Tail(queue))) + 0
    <3>1. Plot(handle) \in TaskType /\ Plot(handle).kind = "plot" /\ Plot(handle).handle = handle
      BY <1>3, OwnTasks
    <3> QED
      BY <1>2, <1>3, <1>9, <3>1, Put, GrownPut
  <2>2. LoopsInv(dpc', handle', queue')
    BY <1>0, <1>1, <1>2, <1>3, <2>1 DEF LoopsInv
  <2>3. ThreadInv'
    BY <1>1, <1>4, <2>1, <2>2 DEF ThreadInv
  <2>4. NumbersInv(queue)'
    BY <1>0, <1>1, <2>1, NumbersKept
  <2>5. BytesInv(notified)'
    BY <1>7, <1>8, <1>9
  <2> QED
    BY <1>5, <2>3, <2>4, <2>5 DEF Inv
<1>10. CASE queue' = Tail(queue) /\ Finish(Head(queue).handle, Failed)
  <2>1. LoopsInv(dpc', handle', queue')
    BY <1>0, <1>1, <1>2, <1>3, <1>10 DEF LoopsInv
  <2>2. ThreadInv'
    BY <1>1, <1>2, <1>4, <1>10, <2>1 DEF ThreadInv
  <2>3. NumbersInv(queue)'
    BY <1>0, <1>1, <1>2, <1>10, NumbersKept
  <2>4. BytesInv(notified)'
    BY <1>7, <1>8, <1>10
  <2> QED
    BY <1>5, <2>2, <2>3, <2>4 DEF Inv
<1>11. CASE dpc' = "aborted" /\ UNCHANGED <<queue, box>>
  <2>1. Queued(client', queue') /\ LoopsInv(dpc', handle', queue')
    BY <1>0, <1>1, <1>11 DEF LoopsInv
  <2>2. ThreadInv'
    BY <1>4, <2>1 DEF ThreadInv
  <2>3. NumbersInv(queue)'
    BY <1>0, <1>1, <1>11 DEF NumbersInv
  <2>4. BytesInv(notified)'
    BY <1>0, <1>1, <1>11 DEF BytesInv
  <2> QED
    BY <1>5, <2>2, <2>3, <2>4 DEF Inv
<1> QED
  BY <1>9, <1>10, <1>11 DEF do_plot, MayAbort
-----------------------------------------------------------------------------
(* The clients and their connections *)

\* One connection moves: a slot is taken when there is one, or given back.
LEMMA SlotsKept ==
    ASSUME SlotsInv, NEW c \in Clients, NEW pc \in ClientPcs, Goto(c, pc),
           \/ pc \in {"off", "accepted"} /\ slots' = slots \ {c}
           \/ pc \notin {"off", "accepted"} /\ c \in slots /\ slots' = slots
           \/ /\ pc \notin {"off", "accepted"} /\ Cardinality(slots) < MAX_CLIENTS
              /\ slots' = slots \cup {c}
    PROVE  SlotsInv'
<1>1. /\ cpc' \in [Clients -> ClientPcs] /\ cpc'[c] = pc
      /\ \A d \in Clients : d # c => cpc'[d] = cpc[d]
  BY DEF SlotsInv, Goto
<1>2. slots' = {d \in Clients : cpc'[d] \notin {"off", "accepted"}}
  BY <1>1 DEF SlotsInv
<1>3. /\ MAX_CLIENTS \in Nat /\ IsFiniteSet(slots) /\ Cardinality(slots) <= MAX_CLIENTS
      /\ Cardinality(slots) \in Nat
  BY EndpointAssumption, FS_CardinalityType DEF SlotsInv
<1>4. IsFiniteSet(slots') /\ Cardinality(slots') <= MAX_CLIENTS
  <2>1. CASE slots' = slots
    BY <1>3, <2>1
  <2>2. CASE slots' = slots \ {c}
    <3>1. /\ IsFiniteSet(slots \ {c})
          /\ Cardinality(slots \ {c})
                = IF c \in slots THEN Cardinality(slots) - 1 ELSE Cardinality(slots)
      BY <1>3, FS_RemoveElement
    <3>2. Cardinality(slots \ {c}) <= Cardinality(slots)
      BY <1>3, <3>1
    <3> QED
      BY <1>3, <2>2, <3>1, <3>2
  <2>3. CASE slots' = slots \cup {c} /\ Cardinality(slots) < MAX_CLIENTS
    <3>1. /\ IsFiniteSet(slots \cup {c})
          /\ Cardinality(slots \cup {c})
                = IF c \in slots THEN Cardinality(slots) ELSE Cardinality(slots) + 1
      BY <1>3, FS_AddElement
    <3>2. Cardinality(slots \cup {c}) <= MAX_CLIENTS
      BY <1>3, <2>3, <3>1
    <3> QED
      BY <2>3, <3>1, <3>2
  <2> QED
    BY <2>1, <2>2, <2>3
<1> QED
  BY <1>1, <1>2, <1>4 DEF SlotsInv

\* A connection that moves without a request keeps the requests' numbers.
LEMMA NumbersStay ==
    ASSUME NumbersInv(queue), cpc \in [Clients -> ClientPcs], NEW c \in Clients, NEW pc,
           pc # "fetching", Goto(c, pc),
           UNCHANGED <<queue, requests>>, current' = current \/ current' = [current EXCEPT ![c] = 0]
    PROVE  NumbersInv(queue)'
<1>1. /\ requests \in Nat /\ current \in [Clients -> 0..requests]
      /\ cpc'[c] # "fetching" /\ \A d \in Clients : d # c => cpc'[d] = cpc[d]
  BY DEF NumbersInv, Goto
<1>2. /\ current' \in [Clients -> 0..requests]
      /\ \A d \in Clients : d # c => current'[d] = current[d]
  BY <1>1
<1> QED
  BY <1>1, <1>2 DEF NumbersInv

\* The bytes of one client move.
LEMMA BytesKept ==
    ASSUME BytesInv(notified), notified' = notified, NEW c \in Clients,
           \A d \in Clients : d # c =>
              /\ cpc'[d] = cpc[d] /\ box'[d] = box[d] /\ pinged'[d] = pinged[d]
              /\ cache'[d] = cache[d] /\ served'[d] = served[d],
           box' \in [Clients -> BoxType], pinged' \in [Clients -> PingType],
           cache' \in [Clients -> Seq(EntryType)], served' \in [Clients -> ServedType],
           BytesAt(cpc'[c], box'[c], pinged'[c], cache'[c], served'[c], notified)
    PROVE  BytesInv(notified)'
<1>1. ASSUME NEW d \in Clients
      PROVE  BytesAt(cpc'[d], box'[d], pinged'[d], cache'[d], served'[d], notified')
  <2>1. CASE d = c
    BY <2>1
  <2>2. CASE d # c
    BY <2>2 DEF BytesInv
  <2> QED
    BY <2>1, <2>2
<1> QED
  BY <1>1 DEF BytesInv

\* A queued request with a number of its own.
LEMMA RequestKeeps ==
    ASSUME Inv, NEW c \in Clients, c \in slots,
           \/ queue_request(c, "do_plot", "plotting")
           \/ queue_request(c, "get", "fetching"),
           UNCHANGED <<slots, pinged, cache, served>>
    PROVE  Inv'
<1>0. /\ ThreadInv /\ SlotsInv /\ NumbersInv(queue) /\ BytesInv(notified)
      /\ WindowsInv(dpc, handle, proc, client, freed)
      /\ Queued(client, queue) /\ LoopsInv(dpc, handle, queue)
      /\ NotifiedInv(stop, stop_generation, notified)
      /\ requests \in Nat /\ current \in [Clients -> 0..requests]
      /\ cpc \in [Clients -> ClientPcs]
  BY DEF Inv, ThreadInv, NumbersInv, SlotsInv
<1>1. PICK kind \in {"do_plot", "get"}, pc \in {"plotting", "fetching"} :
         /\ queue_request(c, kind, pc)
         /\ kind = "do_plot" => pc = "plotting"
  OBVIOUS
<1>2. /\ requests' = requests + 1 /\ queue' = Append(queue, Task(kind, requests + 1))
      /\ current' = [current EXCEPT ![c] = requests + 1]
      /\ box' = [box EXCEPT ![c] = Empty] /\ Goto(c, pc)
      /\ UNCHANGED <<dpc, handle, proc, client, freed, stop, stop_generation, notified>>
  BY <1>1 DEF queue_request, programVars, windowVars, agentVars
<1>3. /\ Task(kind, requests + 1) \in TaskType
      /\ Task(kind, requests + 1).kind = kind
      /\ Task(kind, requests + 1).handle = requests + 1
  BY <1>0 DEF Task, TaskType
<1>4. /\ Queued(client, queue')
      /\ Cardinality(Loops(queue')) = Cardinality(Loops(queue)) + 0
      /\ \A i \in DOMAIN queue' :
            queue'[i] = Task(kind, requests + 1) \/ \E j \in DOMAIN queue : queue'[i] = queue[j]
  BY <1>0, <1>2, <1>3, Put
<1>5. Cardinality(Loops(queue)) \in Nat
  BY <1>0, FS_CardinalityType DEF Queued
<1>6. ThreadInv'
  <2>1. LoopsInv(dpc', handle', queue')
    BY <1>0, <1>2, <1>4, <1>5 DEF LoopsInv
  <2>2. /\ WindowsInv(dpc', handle', proc', client', freed') /\ Queued(client', queue')
        /\ NotifiedInv(stop', stop_generation', notified')
    BY <1>0, <1>2, <1>4
  <2> QED
    BY <2>1, <2>2 DEF ThreadInv
<1>7. SlotsInv'
  <2>1. pc \in ClientPcs /\ pc \notin {"off", "accepted"}
    BY DEF ClientPcs
  <2> QED
    BY <1>0, <1>2, <2>1, SlotsKept
<1>8. /\ cpc'[c] = pc /\ \A d \in Clients : d # c => cpc'[d] = cpc[d]
  BY <1>0, <1>2 DEF Goto
<1>9. NumbersInv(queue)'
  <2>1. /\ requests' \in Nat /\ current' \in [Clients -> 0..requests']
        /\ current'[c] = requests + 1 /\ \A d \in Clients : d # c => current'[d] = current[d]
    BY <1>0, <1>2
  <2>2. \A i \in DOMAIN queue' :
           queue'[i].kind \in {"get", "do_plot"} => queue'[i].handle \in 1..requests'
    BY <1>0, <1>2, <1>3, <1>4 DEF NumbersInv
  <2>3. ASSUME NEW i \in DOMAIN queue', NEW d \in Clients,
               queue'[i].kind = "do_plot", cpc'[d] = "fetching"
        PROVE  queue'[i].handle # current'[d]
    <3>1. CASE queue'[i] = Task(kind, requests + 1)
      <4>1. d # c
        BY <1>1, <1>3, <1>8, <2>3, <3>1
      <4>2. current'[d] \in 0..requests
        BY <1>0, <2>1, <4>1
      <4> QED
        BY <1>0, <1>3, <3>1, <4>2
    <3>2. CASE \E j \in DOMAIN queue : queue'[i] = queue[j]
      <4>1. PICK j \in DOMAIN queue : queue'[i] = queue[j]
        BY <3>2
      <4>2. CASE d = c
        BY <1>0, <2>1, <2>3, <4>1, <4>2 DEF NumbersInv
      <4>3. CASE d # c
        BY <1>0, <1>8, <2>1, <2>3, <4>1, <4>3 DEF NumbersInv
      <4> QED
        BY <4>2, <4>3
    <3> QED
      BY <1>4, <3>1, <3>2
  <2> QED
    BY <2>1, <2>2, <2>3 DEF NumbersInv
<1>10. BytesInv(notified)'
  <2>1. /\ box' \in [Clients -> BoxType] /\ box'[c] = Empty /\ ~Empty.ok
        /\ \A d \in Clients : d # c => box'[d] = box[d]
    BY <1>0, <1>2 DEF BytesInv, Empty, BoxType
  <2>2. BytesAt(cpc'[c], box'[c], pinged'[c], cache'[c], served'[c], notified)
    BY <1>0, <2>1 DEF BytesInv, BytesAt
  <2> QED
    BY <1>0, <1>2, <1>8, <2>1, <2>2, BytesKept DEF BytesInv
<1> QED
  BY <1>6, <1>7, <1>9, <1>10 DEF Inv

\* A thread ends its connection, whatever its client got for it.
LEMMA LeaveKeeps ==
    ASSUME Inv, NEW c \in Clients, Leave(c), UNCHANGED <<threadVars, requests>>,
           \/ UNCHANGED cache
           \/ \E e \in EntryType : /\ NotOlder(e.key, e.data, notified)
                                   /\ cache' = [cache EXCEPT ![c] = put(cache[c], e)],
           \/ UNCHANGED served
           \/ \E v \in ServedType : /\ NotOlder(v.ping.key, v.data, notified)
                                    /\ served' = [served EXCEPT ![c] = v]
    PROVE  Inv'
<1>0. /\ ThreadInv /\ SlotsInv /\ NumbersInv(queue) /\ BytesInv(notified)
      /\ UNCHANGED <<queue, notified>> /\ notified \in Seq(Nat)
      /\ cpc \in [Clients -> ClientPcs]
  BY DEF Inv, SlotsInv, threadVars, agentVars, ThreadInv, NotifiedInv
<1>1. ThreadInv'
  BY <1>0 DEF ThreadInv, threadVars, programVars, windowVars, agentVars
<1>2. SlotsInv'
  <2>1. "off" \in ClientPcs /\ Goto(c, "off") /\ slots' = slots \ {c}
    BY DEF ClientPcs, Leave
  <2> QED
    BY <1>0, <2>1, SlotsKept
<1>3. NumbersInv(queue)'
  BY <1>0, NumbersStay DEF Leave
<1>4. BytesInv(notified)'
  <2>1. /\ cpc'[c] = "off" /\ \A d \in Clients : d # c => cpc'[d] = cpc[d]
    BY <1>0 DEF Leave, Goto
  <2>2. /\ box' \in [Clients -> BoxType] /\ \A d \in Clients : d # c => box'[d] = box[d]
    BY <1>0 DEF Leave, BytesInv, Empty, BoxType
  <2>3. /\ pinged' \in [Clients -> PingType] /\ pinged'[c] = NoPing
        /\ \A d \in Clients : d # c => pinged'[d] = pinged[d]
    BY <1>0 DEF Leave, BytesInv, NoPing, PingType
  <2>4. /\ cache' \in [Clients -> Seq(EntryType)]
        /\ \A d \in Clients : d # c => cache'[d] = cache[d]
        /\ \A i \in DOMAIN cache'[c] : NotOlder(cache'[c][i].key, cache'[c][i].data, notified)
    <3>0. /\ cache \in [Clients -> Seq(EntryType)]
          /\ \A i \in DOMAIN cache[c] : NotOlder(cache[c][i].key, cache[c][i].data, notified)
      BY <1>0 DEF BytesInv, BytesAt
    <3>1. CASE UNCHANGED cache
      BY <3>0, <3>1
    <3>2. ASSUME NEW e \in EntryType, NotOlder(e.key, e.data, notified),
                 cache' = [cache EXCEPT ![c] = put(cache[c], e)]
          PROVE  /\ cache' \in [Clients -> Seq(EntryType)]
                 /\ \A d \in Clients : d # c => cache'[d] = cache[d]
                 /\ \A i \in DOMAIN cache'[c] :
                       NotOlder(cache'[c][i].key, cache'[c][i].data, notified)
      <4> DEFINE r == put(cache[c], e)
      <4>1. /\ r \in Seq(EntryType)
            /\ \A i \in DOMAIN r : r[i] = e \/ \E j \in DOMAIN cache[c] : r[i] = cache[c][j]
        BY <3>0, PutEntry
      <4> HIDE DEF r
      <4>2. \A i \in DOMAIN r : NotOlder(r[i].key, r[i].data, notified)
        BY <3>0, <3>2, <4>1
      <4>3. cache' = [cache EXCEPT ![c] = r]
        BY <3>2 DEF r
      <4> QED
        BY <3>0, <4>1, <4>2, <4>3
    <3> QED
      BY <3>1, <3>2
  <2>5. /\ served' \in [Clients -> ServedType]
        /\ \A d \in Clients : d # c => served'[d] = served[d]
        /\ NotOlder(served'[c].ping.key, served'[c].data, notified)
    <3>0. /\ served \in [Clients -> ServedType]
          /\ NotOlder(served[c].ping.key, served[c].data, notified)
      BY <1>0 DEF BytesInv, BytesAt
    <3> QED
      BY <3>0
  <2>6. BytesAt(cpc'[c], box'[c], pinged'[c], cache'[c], served'[c], notified)
    BY <1>0, <2>1, <2>3, <2>4, <2>5 DEF BytesAt, NoPing
  <2> QED
    BY <1>0, <2>1, <2>2, <2>3, <2>4, <2>5, <2>6, BytesKept
<1> QED
  BY <1>1, <1>2, <1>3, <1>4 DEF Inv

\* A connection goes on without a request, as far as its hello.
LEMMA GotoKeeps ==
    ASSUME Inv, NEW c \in Clients, NEW pc \in ClientPcs \ {"fetching"}, Goto(c, pc),
           \/ pc \in {"off", "accepted"} /\ slots' = slots \ {c}
           \/ pc \notin {"off", "accepted"} /\ c \in slots /\ slots' = slots
           \/ /\ pc \notin {"off", "accepted"} /\ Cardinality(slots) < MAX_CLIENTS
              /\ slots' = slots \cup {c},
           UNCHANGED <<threadVars, requests, current, box, cache>>,
           served' = served \/ served' = [served EXCEPT ![c] = Unserved],
           \/ pinged' = pinged
           \/ \E p \in PingType : /\ p.key \in 0..Len(notified)
                                  /\ pinged' = [pinged EXCEPT ![c] = p]
    PROVE  Inv'
<1>0. /\ ThreadInv /\ SlotsInv /\ NumbersInv(queue) /\ BytesInv(notified)
      /\ UNCHANGED <<queue, notified>> /\ notified \in Seq(Nat)
      /\ cpc \in [Clients -> ClientPcs]
  BY DEF Inv, SlotsInv, threadVars, agentVars, ThreadInv, NotifiedInv
<1>1. ThreadInv'
  BY <1>0 DEF ThreadInv, threadVars, programVars, windowVars, agentVars
<1>2. SlotsInv'
  BY <1>0, SlotsKept
<1>3. NumbersInv(queue)'
  BY <1>0, NumbersStay
<1>4. BytesInv(notified)'
  <2>0. /\ BytesAt(cpc[c], box[c], pinged[c], cache[c], served[c], notified)
        /\ pinged \in [Clients -> PingType] /\ served \in [Clients -> ServedType]
    BY <1>0 DEF BytesInv
  <2>1. /\ cpc'[c] = pc /\ pc # "fetching" /\ \A d \in Clients : d # c => cpc'[d] = cpc[d]
    BY <1>0 DEF Goto
  <2>2. /\ box' \in [Clients -> BoxType] /\ cache' \in [Clients -> Seq(EntryType)]
        /\ UNCHANGED <<box, cache>>
    BY <1>0 DEF BytesInv
  <2>3. /\ pinged' \in [Clients -> PingType] /\ pinged'[c].key \in 0..Len(notified)
        /\ \A d \in Clients : d # c => pinged'[d] = pinged[d]
    BY <2>0 DEF BytesAt
  <2>4. /\ served' \in [Clients -> ServedType]
        /\ NotOlder(served'[c].ping.key, served'[c].data, notified)
        /\ \A d \in Clients : d # c => served'[d] = served[d]
    <3>1. CASE served' = served
      BY <2>0, <3>1 DEF BytesAt
    <3>2. CASE served' = [served EXCEPT ![c] = Unserved]
      <4>1. Unserved \in ServedType /\ Unserved.ping.key = 0
        BY DEF Unserved, NoPing, ServedType, PingType
      <4>2. NotOlder(0, Unserved.data, notified)
        BY <1>0 DEF NotOlder
      <4> QED
        BY <2>0, <3>2, <4>1, <4>2
    <3> QED
      BY <3>1, <3>2
  <2>5. BytesAt(cpc'[c], box'[c], pinged'[c], cache'[c], served'[c], notified)
    BY <2>0, <2>1, <2>2, <2>3, <2>4 DEF BytesAt
  <2> QED
    BY <1>0, <2>1, <2>2, <2>3, <2>4, <2>5, BytesKept
<1> QED
  BY <1>1, <1>2, <1>3, <1>4 DEF Inv

\* Every step of a client and its connection.
LEMMA ClientKeeps ==
    ASSUME Inv, NEW c \in Clients, ClientStep(c)
    PROVE  Inv'
<1>0. /\ cpc \in [Clients -> ClientPcs]
      /\ slots = {d \in Clients : cpc[d] \notin {"off", "accepted"}}
      /\ BytesAt(cpc[c], box[c], pinged[c], cache[c], served[c], notified)
      /\ box[c] \in BoxType /\ pinged[c] \in PingType /\ cache[c] \in Seq(EntryType)
      /\ notified \in Seq(Nat) /\ stop_generation = Len(notified) /\ stop \in Nat
  BY DEF Inv, SlotsInv, BytesInv, ThreadInv, NotifiedInv
<1>1. CASE Accepted(c)
  <2>1. "accepted" \in ClientPcs \ {"fetching"} /\ c \notin slots /\ slots' = slots \ {c}
    BY <1>0, <1>1 DEF Accepted, ClientPcs
  <2> QED
    BY <1>1, <2>1, GotoKeeps DEF Accepted
<1>2. CASE _accept_loop(c)
  <2>1. {"hello", "off"} \subseteq ClientPcs \ {"fetching"} /\ c \notin slots /\ slots \ {c} = slots
    BY <1>0, <1>2 DEF _accept_loop, ClientPcs
  <2> QED
    BY <1>2, <2>1, GotoKeeps DEF _accept_loop
<1>3. CASE _handle_hello(c)
  <2>1. "authenticated" \in ClientPcs \ {"fetching"} /\ c \in slots
    BY <1>0, <1>3 DEF _handle_hello, ClientPcs
  <2>2. CASE c \in cut
    BY <1>3, <2>2, LeaveKeeps DEF _handle_hello
  <2>3. CASE c \notin cut
    BY <1>3, <2>1, <2>3, GotoKeeps DEF _handle_hello
  <2> QED
    BY <2>2, <2>3
<1>4. CASE Disconnects(c)
  BY <1>4, LeaveKeeps DEF Disconnects
<1>5. CASE _handle_ping(c)
  <2> DEFINE p == [key |-> stop_generation, at |-> IF dpc = "idle" /\ ~running THEN stop ELSE 0]
  <2>1. "pinged" \in ClientPcs \ {"fetching"} /\ c \in slots
    BY <1>0, <1>5 DEF _handle_ping, ClientPcs
  <2>2. p \in PingType /\ p.key \in 0..Len(notified)
    BY <1>0 DEF PingType
  <2>3. CASE c \in cut
    BY <1>5, <2>3, LeaveKeeps DEF _handle_ping
  <2>4. CASE c \notin cut
    <3>1. /\ pinged' = [pinged EXCEPT ![c] = p] /\ Goto(c, "pinged")
          /\ UNCHANGED <<threadVars, slots, requests, current, box, cache, served>>
      BY <1>5, <2>4 DEF _handle_ping
    <3> HIDE DEF p
    <3> QED
      BY <2>1, <2>2, <3>1, GotoKeeps
  <2> QED
    BY <2>3, <2>4
<1>6. CASE CacheHit(c)
  <2>1. PICK i \in Cached(c, pinged[c].key) :
           /\ served' = [served EXCEPT ![c] = [ping |-> pinged[c], data |-> cache[c][i].data]]
           /\ cache' = [cache EXCEPT ![c] = put(@, cache[c][i])]
    BY <1>6 DEF CacheHit
  <2> DEFINE e == cache[c][i]
             v == [ping |-> pinged[c], data |-> cache[c][i].data]
  <2>2. i \in DOMAIN cache[c] /\ e.key = pinged[c].key
    BY <2>1 DEF Cached
  <2>3. e \in EntryType /\ NotOlder(e.key, e.data, notified)
    BY <1>0, <2>2 DEF BytesAt
  <2>4. v \in ServedType /\ NotOlder(v.ping.key, v.data, notified)
    BY <1>0, <2>2, <2>3 DEF ServedType, EntryType
  <2>5. /\ Leave(c) /\ UNCHANGED <<threadVars, requests>>
        /\ cache' = [cache EXCEPT ![c] = put(cache[c], e)]
        /\ served' = [served EXCEPT ![c] = v]
    BY <1>6, <2>1 DEF CacheHit
  <2> HIDE DEF e, v
  <2> QED
    BY <2>3, <2>4, <2>5, LeaveKeeps
<1>7. CASE CacheMiss(c)
  <2>1. c \in slots
    BY <1>0, <1>7 DEF CacheMiss
  <2>2. CASE c \in cut
    BY <1>7, <2>2, LeaveKeeps DEF CacheMiss
  <2>3. CASE c \notin cut
    BY <1>7, <2>1, <2>3, RequestKeeps DEF CacheMiss
  <2> QED
    BY <2>2, <2>3
<1>8. CASE _handle_get_buffer(c)
  <2> DEFINE e == [key |-> pinged[c].key, data |-> box[c].data]
             v == [ping |-> pinged[c], data |-> box[c].data]
  <2>1. CASE box[c].ok /\ c \notin cut
    <3>1. /\ Leave(c) /\ UNCHANGED <<threadVars, requests>>
          /\ cache' = [cache EXCEPT ![c] = put(cache[c], e)]
          /\ served' = [served EXCEPT ![c] = v]
      BY <1>8, <2>1 DEF _handle_get_buffer
    <3>2. NotOlder(pinged[c].key, box[c].data, notified)
      BY <1>0, <1>8, <2>1 DEF _handle_get_buffer, BytesAt
    <3>3. e \in EntryType /\ NotOlder(e.key, e.data, notified)
      BY <1>0, <3>2 DEF EntryType, PingType, BoxType
    <3>4. v \in ServedType /\ NotOlder(v.ping.key, v.data, notified)
      BY <1>0, <3>2 DEF ServedType, BoxType
    <3> HIDE DEF e, v
    <3> QED
      BY <3>1, <3>3, <3>4, LeaveKeeps
  <2>2. CASE ~(box[c].ok /\ c \notin cut)
    BY <1>8, <2>2, LeaveKeeps DEF _handle_get_buffer
  <2> QED
    BY <2>1, <2>2
<1>9. CASE _handle_plot(c)
  <2>1. c \in slots
    BY <1>0, <1>9 DEF _handle_plot
  <2>2. CASE /\ queue_request(c, "do_plot", "plotting")
             /\ UNCHANGED <<slots, cut, pinged, cache, served>>
    BY <2>1, <2>2, RequestKeeps
  <2>3. CASE Leave(c) /\ UNCHANGED <<threadVars, requests, cache, served>>
    BY <2>3, LeaveKeeps
  <2> QED
    BY <1>9, <2>2, <2>3 DEF _handle_plot
<1>10. CASE TimesOut(c)
  BY <1>10, LeaveKeeps DEF TimesOut
<1> QED
  BY <1>1, <1>2, <1>3, <1>4, <1>5, <1>6, <1>7, <1>8, <1>9, <1>10 DEF ClientStep
-----------------------------------------------------------------------------
(* The invariant of the whole *)

\* It holds when the debugger has loaded the visualizer.
LEMMA InitInv == EndpointInit => Inv
<1> SUFFICES ASSUME EndpointInit PROVE Inv
  OBVIOUS
<1>1. Loops(<<>>) = {} /\ IsFiniteSet({}) /\ Cardinality({}) = 0
  BY FS_EmptySet DEF Loops
<1>2. ThreadInv
  <2>1. WindowsInv(dpc, handle, proc, client, freed)
    BY ThreadAssumption DEF EndpointInit, Init, WindowsInv, PCs, Handles
  <2>2. Queued(client, queue) /\ LoopsInv(dpc, handle, queue)
    <3>1. queue = <<>> /\ dpc = "idle" /\ handle = 0
      BY DEF EndpointInit, Init
    <3>2. IsFiniteSet(Loops(queue)) /\ Cardinality(Loops(queue)) = 0
      BY <1>1, <3>1
    <3>3. queue \in Seq(TaskType) /\ DOMAIN queue = {}
      BY <3>1
    <3> QED
      BY <3>1, <3>2, <3>3 DEF Queued, LoopsInv
  <2>3. NotifiedInv(stop, stop_generation, notified)
    BY DEF EndpointInit, Init, NotifiedInv
  <2> QED
    BY <2>1, <2>2, <2>3 DEF ThreadInv
<1>3. SlotsInv
  BY <1>1, EndpointAssumption DEF EndpointInit, SlotsInv, ClientPcs
<1>4. NumbersInv(queue)
  BY DEF EndpointInit, Init, NumbersInv
<1>5. BytesInv(notified)
  <2>1. Empty \in BoxType /\ NoPing \in PingType /\ Unserved \in ServedType
    BY DEF Empty, BoxType, NoPing, PingType, Unserved, ServedType
  <2>2. \A c \in Clients : BytesAt(cpc[c], box[c], pinged[c], cache[c], served[c], notified)
    BY DEF EndpointInit, Init, BytesAt, NotOlder, NoPing, Unserved, Empty
  <2> QED
    BY <2>1, <2>2 DEF EndpointInit, BytesInv
<1> QED
  BY <1>2, <1>3, <1>4, <1>5 DEF Inv

\* Every step of the debugger thread, the windows and the clients keeps it.
LEMMA NextInv == Inv /\ [Next]_vars => Inv'
<1> SUFFICES ASSUME Inv, [Next]_vars PROVE Inv'
  OBVIOUS
<1>1. CASE ThreadStep
  BY <1>1, ThreadStepKeeps
<1>2. CASE FetchTask
  BY <1>2, FetchTaskKeeps
<1>3. CASE do_plot
  BY <1>3, do_plotKeeps
<1>4. CASE \E c \in Clients : ClientStep(c)
  BY <1>4, ClientKeeps
<1>5. CASE UNCHANGED vars
  BY <1>5 DEF Inv, ThreadInv, SlotsInv, NumbersInv, BytesInv, vars, threadVars, endpointVars,
              programVars, windowVars, agentVars
<1> QED
  BY <1>1, <1>2, <1>3, <1>4, <1>5 DEF Next

\* It holds in every state.
LEMMA Invariant == Spec => []Inv
BY InitInv, NextInv, PTL DEF Spec

\* No two windows run that nobody told to end: the readiness loop of
\* stop_handler() launches one only when is_window_ready() has seen the last one
\* gone.
THEOREM OneWindow == Spec => []OneLiveWindow
<1>1. Inv => OneLiveWindow
  <2> SUFFICES ASSUME Inv PROVE OneLiveWindow
    OBVIOUS
  <2> DEFINE live == {h \in Launches : isRunning(h) /\ h \notin freed}
  <2>1. live \subseteq {handle}
    BY DEF Inv, ThreadInv, WindowsInv, isRunning
  <2>2. IsFiniteSet({handle}) /\ Cardinality({handle}) = 1
    BY FS_Singleton
  <2>3. IsFiniteSet(live) /\ Cardinality(live) <= 1
    BY <2>1, <2>2, FS_Subset
  <2> QED
    BY <2>3 DEF OneLiveWindow
<1> QED
  BY <1>1, Invariant, PTL

\* The assertion of get_observed_symbols() and plot_buffer() holds for every
\* call the thread and its queue make: an OidBridge they reach has its client.
THEOREM BridgeHasClient == Spec => []ClientAsserted
<1>1. Inv => ClientAsserted
  BY DEF Inv, ThreadInv, WindowsInv, Queued, ClientAsserted
<1> QED
  BY <1>1, Invariant, PTL

\* There is one run_event_loop() in the queue for every window launched.
THEOREM LoopForEachLaunch == Spec => []LoopPerLaunch
<1>1. Inv => LoopPerLaunch
  BY DEF Inv, ThreadInv, LoopsInv, Loops, LoopPerLaunch
<1> QED
  BY <1>1, Invariant, PTL

\* The endpoint's slots are those of its serving threads, and no more than
\* MAX_CLIENTS, whatever fails, times out or is closed meanwhile.
THEOREM SlotsServed == Spec => []SlotsAreServed
<1>1. Inv => SlotsAreServed
  BY DEF Inv, SlotsInv, SlotsAreServed
<1> QED
  BY <1>1, Invariant, PTL

\* What SessionManager.fetch() returns is never older than the stop its ping was
\* told of, through the cache, the queue of the debugger and any further stop.
THEOREM FetchIsNotOlder == Spec => []FetchNotOlder
<1>1. Inv => FetchNotOlder
  BY DEF Inv, BytesInv, BytesAt, NotOlder, FetchNotOlder
<1> QED
  BY <1>1, Invariant, PTL
=============================================================================
