--------------------------- MODULE DebuggerThread ---------------------------
(***************************************************************************)
(* The debugger's own thread: the stop and exit handlers (events.py), the  *)
(* queue of callbacks it drains (gdbbridge.py, lldbbridge.py), and the     *)
(* launch of the viewer window those handlers wait for (oidwindow.py,      *)
(* OidBridge::start() and system/process).                                 *)
(*                                                                         *)
(* Each launch of a window makes a new native OidBridge, its handle: the   *)
(* handle of launch h is h, and 0 is Python's None.  What travels between  *)
(* a connected window and its bridge is the business of BridgeSession; here *)
(* a window is a process that starts, connects, and may end at any moment. *)
(*                                                                         *)
(* oid_cleanup() frees the bridge but leaves the handle in place, so a     *)
(* later call through it is undefined: it has no effect, answers anything, *)
(* or ends the debugger (dpc = "aborted").                                 *)
(***************************************************************************)
EXTENDS Integers, Sequences, FiniteSets, SequencesExt

CONSTANTS MaxStops,         \* bound: stops of the program
          MaxExits,         \* bound: times the program runs to its end
          MaxPlots,         \* bound: plots asked for by the user
          SlowWindow,       \* a window may need more than the 10 s of accept()
          SpawnMayFail,     \* posix_spawn() may fail
          HandlerMayRaise   \* get_available_symbols() may raise

ASSUME ThreadAssumption ==
    /\ MaxStops \in Nat /\ MaxExits \in Nat /\ MaxPlots \in Nat
    /\ SlowWindow \in BOOLEAN /\ SpawnMayFail \in BOOLEAN /\ HandlerMayRaise \in BOOLEAN

VARIABLES
    dpc,        \* what the debugger thread is doing
    running,    \* the program runs, as opposed to being stopped
    stop,       \* number of stops so far, and of the present one
    exits, plots,
    queue,      \* _pending_requests, with what gdb has already been posted
    handle,     \* _native_handler
    proc,       \* the window process of each launch, as the kernel has it
    connected,  \* launches whose window has connected to their port
    client,     \* launches whose bridge has adopted that connection: client_
    freed,      \* handles oid_cleanup() has deleted
    shows,      \* launches whose window was sent a buffer
    active,           \* agentendpoint._active
    stop_generation,  \* AgentEndpoint._stop_generation
    notified          \* history: the stop each generation was announced at

windowVars == <<handle, proc, connected, client, freed>>
programVars == <<running, stop, exits>>
agentVars == <<active, stop_generation, notified>>
threadVars == <<dpc, programVars, plots, queue, windowVars, shows, agentVars>>

Launches == 1..MaxStops
EventLoop == [kind |-> "loop", handle |-> 0]
Plot(h) == [kind |-> "plot", handle |-> h]

Init ==
    /\ dpc = "idle"
    /\ running = TRUE /\ stop = 0 /\ exits = 0 /\ plots = 0
    /\ queue = <<>>
    /\ handle = 0
    /\ proc = [h \in Launches |-> "none"]
    /\ connected = {} /\ client = {} /\ freed = {} /\ shows = {}
    /\ active = TRUE /\ stop_generation = 0 /\ notified = <<>>

\* Process::isRunning(): it reaps a child that has exited.
isRunning(h) == proc[h] \in {"starting", "up"}

\* OidBridge::is_window_ready()
is_window_ready(h) == h \in client /\ isRunning(h)

\* The answers it may give: through a freed handle, any.
oid_is_window_ready(h) == IF h \in freed THEN BOOLEAN ELSE {is_window_ready(h)}

is_ready == IF handle = 0 THEN {FALSE} ELSE oid_is_window_ready(handle)

\* h is the handle of a new bridge, which has no connection yet.
oid_initialize(h) == \A g \in Launches : g < h <=> g <= handle

\* OidBridge::start() spawns the window.  When that fails the process id stays 0.
oid_exec(h) ==
    \E spawned \in IF SpawnMayFail THEN BOOLEAN ELSE {TRUE} :
        proc' = [proc EXCEPT ![h] = IF spawned THEN "starting" ELSE "none"]

\* Whether the window names a buffer: one that is gone, or silent for 3 s, does
\* not.
oid_get_observed_buffers(h) ==
    IF h \in shows /\ isRunning(h) THEN BOOLEAN ELSE {FALSE}

\* Whether the bridge may find a plot request of its window.
oid_run_event_loop(h) == h \in client \ freed /\ proc[h] = "up"

\* Whether a buffer handed to the bridge reaches its window.
oid_plot_buffer(h) == h \in client \ freed /\ proc[h] = "up"

\* A native call through h may end the debugger.
MayAbort(h) == h \in freed /\ dpc' = "aborted"
-----------------------------------------------------------------------------
(* The stop handler *)

\* initialize_window(), to where oid_exec() waits for the window.
initialize_window ==
    \E h \in Launches :
        /\ oid_initialize(h)
        /\ handle' = h
        /\ oid_exec(h)
        /\ dpc' = "waitForStart"
        /\ UNCHANGED <<connected, client, freed>>

\* The program stops and stop_handler() begins.
stop_handler ==
    /\ dpc = "idle" /\ running
    /\ stop < MaxStops
    /\ running' = FALSE /\ stop' = stop + 1
    /\ \/ TRUE \in is_ready /\ dpc' = "refresh" /\ UNCHANGED windowVars
       \/ FALSE \in is_ready /\ initialize_window
       \/ MayAbort(handle) /\ UNCHANGED windowVars
    /\ UNCHANGED <<exits, plots, queue, shows, agentVars>>

\* Process::waitForStart() spins until the child is seen alive.
waitForStart ==
    /\ dpc = "waitForStart"
    /\ isRunning(handle)
    /\ dpc' = "accept"
    /\ UNCHANGED <<programVars, plots, queue, windowVars, shows, agentVars>>

\* Mutant of initialize_window(): a relaunch relies on the earlier event loop.
Bug_LoopOnce ==
    /\ queue' = IF EventLoop \in ToSet(queue) THEN queue ELSE Append(queue, EventLoop)
    /\ dpc' = "poll"

\* oid_exec() returns and initialize_window() schedules the event loop.
ExecReturns ==
    /\ queue' = Append(queue, EventLoop)
    /\ dpc' = "poll"

\* wait_for_client(): a connection is adopted even when its window has gone
\* since.
wait_for_client ==
    /\ dpc = "accept" /\ handle \in connected
    /\ client' = client \cup {handle}
    /\ ExecReturns
    /\ UNCHANGED <<programVars, plots, handle, proc, connected, freed, shows, agentVars>>

\* Mutant of wait_for_client(): no deadline once the window was seen alive.
Bug_AcceptForever ==
    /\ dpc = "accept" /\ handle \notin connected
    /\ isRunning(handle)
    /\ ExecReturns
    /\ UNCHANGED <<programVars, plots, windowVars, shows, agentVars>>

\* The 10 s of accept() pass: the window has died, or needs longer.
AcceptTimesOut ==
    /\ dpc = "accept" /\ handle \notin connected
    /\ SlowWindow \/ ~isRunning(handle)
    /\ ExecReturns
    /\ UNCHANGED <<programVars, plots, windowVars, shows, agentVars>>

\* Mutant of the readiness loop: it gives up on a window that does not come.
Bug_GivesUpWaiting ==
    /\ dpc = "poll"
    /\ dpc' = "refresh"
    /\ UNCHANGED <<programVars, plots, queue, windowVars, shows, agentVars>>

\* Mutant of the readiness loop: it launches another window instead.
Bug_RetriesLaunch ==
    /\ dpc = "poll"
    /\ IF is_window_ready(handle) THEN dpc' = "refresh" /\ UNCHANGED windowVars
                                  ELSE initialize_window
    /\ UNCHANGED <<programVars, plots, queue, shows, agentVars>>

\* while not self._window.is_ready(): time.sleep(0.1)
WaitUntilReady ==
    /\ dpc = "poll"
    /\ is_window_ready(handle)
    /\ dpc' = "refresh"
    /\ UNCHANGED <<programVars, plots, queue, windowVars, shows, agentVars>>

\* get_observed_buffers(), and a plot of each: one stands for all.
ReplotObserved ==
    /\ dpc = "refresh"
    /\ \/ dpc' = "symbols"
          /\ \E observed \in oid_get_observed_buffers(handle) :
                queue' = IF observed THEN Append(queue, Plot(handle)) ELSE queue
       \/ MayAbort(handle) /\ UNCHANGED queue
    /\ UNCHANGED <<programVars, plots, windowVars, shows, agentVars>>

\* agentendpoint.notify_stop()
notify_stop ==
    IF active
    THEN /\ stop_generation' = stop_generation + 1
         /\ notified' = Append(notified, stop)
         /\ UNCHANGED active
    ELSE UNCHANGED agentVars

\* _set_symbol_complete_list(), which sends the list only to a window that is
\* still ready, and the announcement of the stop to the agent clients.
AnnounceStop ==
    /\ dpc = "symbols"
    /\ \/ dpc' = "idle" /\ notify_stop
       \/ MayAbort(handle) /\ UNCHANGED agentVars
    /\ UNCHANGED <<programVars, plots, queue, windowVars, shows>>

\* get_available_symbols() raises in a frame without debug information: the
\* handler ends there and the stop is not announced.
HandlerRaises ==
    /\ HandlerMayRaise
    /\ dpc = "symbols"
    /\ dpc' = "idle"
    /\ UNCHANGED <<programVars, plots, queue, windowVars, shows, agentVars>>
-----------------------------------------------------------------------------
(* The other events of the program *)

\* The user continues the program; its next stop ends this.
Resume ==
    /\ dpc = "idle" /\ ~running
    /\ running' = TRUE
    /\ UNCHANGED <<dpc, stop, exits, plots, queue, windowVars, shows, agentVars>>

\* exit_handler(): the endpoint shuts down and terminate() deletes the bridge
\* of the present handle, which sends its window a SIGTERM.  The program may
\* then be run again.
exit_handler ==
    /\ dpc = "idle" /\ running
    /\ exits < MaxExits
    /\ exits' = exits + 1
    /\ active' = FALSE
    /\ \/ dpc' = dpc
       \/ MayAbort(handle)
    /\ freed' = freed \cup ({handle} \ {0})
    /\ UNCHANGED <<running, stop, plots, queue, handle, proc, connected, client,
                   shows, stop_generation, notified>>

\* plot_handler(): the debugger's plot command.
plot_handler ==
    /\ dpc = "idle"
    /\ plots < MaxPlots
    /\ plots' = plots + 1
    /\ queue' = Append(queue, Plot(handle))
    /\ UNCHANGED <<dpc, programVars, windowVars, shows, agentVars>>
-----------------------------------------------------------------------------
(* The queue *)

TaskAtHead(kind) == dpc = "idle" /\ queue # <<>> /\ Head(queue).kind = kind

\* Mutant of run_event_loop(): the loop keeps the head of the queue.
Bug_LoopFirst ==
    /\ TaskAtHead("loop")
    /\ \/ queue' = queue /\ UNCHANGED <<dpc, plots>>
       \/ MayAbort(handle) /\ UNCHANGED <<queue, plots>>
    /\ UNCHANGED <<programVars, windowVars, shows, agentVars>>

\* run_event_loop() reads the window's requests, queues a plot for the one it
\* found, and queues itself again.
run_event_loop ==
    /\ TaskAtHead("loop")
    /\ \/ /\ queue' = Append(Tail(queue), EventLoop)
          /\ UNCHANGED <<dpc, plots>>
       \/ /\ oid_run_event_loop(handle) /\ plots < MaxPlots
          /\ plots' = plots + 1
          /\ queue' = Tail(queue) \o <<Plot(handle), EventLoop>>
          /\ UNCHANGED dpc
       \/ MayAbort(handle) /\ UNCHANGED <<queue, plots>>
    /\ UNCHANGED <<programVars, windowVars, shows, agentVars>>

\* DeferredVariablePlotter: it reads the variable, which fails while the
\* program runs, and sends it to the window of the handle it was made with.
DeferredVariablePlotter ==
    /\ TaskAtHead("plot")
    /\ queue' = Tail(queue)
    /\ LET h == Head(queue).handle
           sent == ~running /\ oid_plot_buffer(h)
       IN /\ shows' = IF sent THEN shows \cup {h} ELSE shows
          /\ \/ UNCHANGED dpc
             \/ ~running /\ MayAbort(h)
    /\ UNCHANGED <<programVars, plots, windowVars, agentVars>>
-----------------------------------------------------------------------------
(* The window processes *)

WindowConnects(h) ==
    /\ proc[h] = "starting"
    /\ proc' = [proc EXCEPT ![h] = "up"]
    /\ connected' = connected \cup {h}
    /\ UNCHANGED <<dpc, programVars, plots, queue, handle, client, freed, shows, agentVars>>

\* The user closes it, it crashes, or it gets the SIGTERM.
WindowExits(h) ==
    /\ isRunning(h)
    /\ proc' = [proc EXCEPT ![h] = "gone"]
    /\ UNCHANGED <<dpc, programVars, plots, queue, handle, connected, client, freed,
                   shows, agentVars>>

HandlerStep ==
    \/ waitForStart \/ wait_for_client \/ AcceptTimesOut \/ WaitUntilReady
    \/ ReplotObserved \/ AnnounceStop \/ HandlerRaises
QueueStep == run_event_loop \/ DeferredVariablePlotter
EventStep == stop_handler \/ Resume \/ exit_handler \/ plot_handler

ThreadNext ==
    \/ HandlerStep \/ QueueStep \/ EventStep
    \/ \E h \in Launches : WindowConnects(h) \/ WindowExits(h)
-----------------------------------------------------------------------------
Handles == 0..MaxStops
PCs == {"idle", "waitForStart", "accept", "poll", "refresh", "symbols", "aborted"}

ThreadTypeOK ==
    /\ dpc \in PCs
    /\ running \in BOOLEAN /\ active \in BOOLEAN
    /\ stop \in Nat /\ exits \in Nat /\ plots \in Nat
    /\ handle \in Handles
    /\ proc \in [Launches -> {"none", "starting", "up", "gone"}]
    /\ connected \subseteq Launches /\ client \subseteq connected
    /\ freed \subseteq Launches /\ shows \subseteq client
    /\ stop_generation = Len(notified)
    /\ stop_generation <= stop

\* One window at a time: whatever order stops, closed windows, slow starts and
\* relaunches come in, no two windows run that nobody told to end (the
\* readiness loop of stop_handler() and OidBridge::is_window_ready()).
OneLiveWindow == Cardinality({h \in Launches : isRunning(h) /\ h \notin freed}) <= 1

\* The assert(client_ != nullptr) of get_observed_symbols() and plot_buffer():
\* neither the stop handler nor any plot that was ever queued calls into a
\* bridge that has no connection, although start() may return without one.
ClientAsserted ==
    /\ dpc \in {"refresh", "symbols"} => handle \in client
    /\ \A i \in DOMAIN queue :
          queue[i].kind = "plot" => queue[i].handle \in client \cup {0}

\* One event loop for every launch there has been: none is lost when windows
\* are closed and relaunched, and none of an earlier window ends
\* (initialize_window() and run_event_loop() in oidwindow.py).
LoopPerLaunch ==
    dpc # "aborted" =>
        Cardinality({i \in DOMAIN queue : queue[i].kind = "loop"})
          = IF dpc \in {"waitForStart", "accept"} THEN handle - 1 ELSE handle

\* The stop handler is waiting for a window that is not going to come: it was
\* never started, it is gone, or nobody accepts its connection any more.
WindowFailed ==
    \/ dpc = "waitForStart" /\ ~isRunning(handle)
    \/ dpc = "poll" /\ ~is_window_ready(handle)

\* The debugger gets its thread back after every stop, unless the window
\* failed to come up (events.py's readiness loop, waitForStart()).
HandlerReturns == dpc # "idle" ~> (dpc \in {"idle", "aborted"} \/ WindowFailed)

\* Every queued plot gets its turn, although each event loop queues itself
\* again behind it; only a thread that waits for a failed window runs none
\* (run_event_loop() and queue_request()).
PlotsRun ==
    \A h \in Launches :
        (\E i \in DOMAIN queue : queue[i] = Plot(h))
            ~> (dpc = "aborted" \/ WindowFailed \/ \A i \in DOMAIN queue : queue[i] # Plot(h))
=============================================================================
