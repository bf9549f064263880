--------------------------- MODULE BridgeSession ---------------------------
(***************************************************************************)
(* One debugger, one viewer window and the TCP stream between them:        *)
(* OidBridge (oidbridge/oid_bridge.cpp), the Python stop handler and       *)
(* request queue that drive it (events.py, oidwindow.py, the debugger      *)
(* bridges), and the viewer's IpcClient on the other end.                  *)
(*                                                                         *)
(* The debugger side is one thread: it runs a stop handler or one queued   *)
(* callback at a time.  The viewer is one thread: it handles one message,  *)
(* or one user action, at a time.  The two run concurrently, and the only  *)
(* waiting is the bridge's bounded read.                                   *)
(*                                                                         *)
(* A buffer's content is the number of the stop at which the debugger read *)
(* the program's memory; shown[n] = 0 means n is not on display.           *)
(***************************************************************************)
EXTENDS Integers, Sequences, FiniteSets, SequencesExt

CONSTANTS Symbols,        \* plottable variables of the program
          RestoreBuffers, \* buffers a former session left for this one
          Expirable,      \* those of RestoreBuffers whose lease may run out
          MaxStops,       \* bound on debugger stops
          MaxRequests,    \* bound on the user's plot requests
          MaxRemovals,    \* bound on the user's Delete key
          ViewerSlow,     \* the viewer may stay silent past the 3 s of a fetch
          WindowMayClose

\* The two words that are no symbol's name mark a callback and an empty slot.
ASSUME SessionAssumption ==
    /\ IsFiniteSet(Symbols) /\ {"evloop", "none"} \cap Symbols = {}
    /\ RestoreBuffers \subseteq Symbols
    /\ Expirable \subseteq RestoreBuffers
    /\ MaxStops \in Nat /\ MaxRequests \in Nat /\ MaxRemovals \in Nat
    /\ ViewerSlow \in BOOLEAN /\ WindowMayClose \in BOOLEAN

VARIABLES
    dpc,       \* debugger thread: "idle", "fetch" (get_observed_symbols), "loop"
    first,     \* try_read_incoming_messages(): no message read yet
    stop,      \* number of the current stop
    in_scope,  \* symbols the current frame can plot
    queue,     \* callbacks handed to queue_request(): "evloop" or a symbol
    stored_request,   \* received_messages_[PLOT_BUFFER_REQUEST]
    stored_response,  \* received_messages_[GET_OBSERVED_SYMBOLS_RESPONSE]
    answer,    \* which question the stop handler's last answer belonged to
    to_window, to_bridge,   \* the two directions of the stream
    shown, available, restore_requested, expired,  \* the viewer
    closed,    \* the window's process is gone
    requests, removals      \* user actions so far

debuggerVars == <<dpc, first, stop, in_scope, queue, stored_request, stored_response, answer>>
viewerVars == <<shown, available, restore_requested, expired, closed, requests, removals>>
vars == <<debuggerVars, to_window, to_bridge, viewerVars>>

EventLoop == "evloop"
None == "none"
NoResponse == [names |-> {}, asked |-> 0]

Messages ==
    [type : {"SET_AVAILABLE_SYMBOLS"}, names : SUBSET Symbols]
    \cup [type : {"GET_OBSERVED_SYMBOLS"}, asked : 1..MaxStops]
    \cup [type : {"PLOT_BUFFER_CONTENTS"}, name : Symbols, content : 1..MaxStops]
Replies ==
    [type : {"PLOT_BUFFER_REQUEST", "BUFFER_REMOVED"}, name : Symbols]
    \cup [type : {"GET_OBSERVED_SYMBOLS_RESPONSE"}, names : SUBSET Symbols, asked : 1..MaxStops]

\* The session begins when the window has connected and initialize_window()
\* has queued the event loop.
Init ==
    /\ dpc = "idle" /\ first = FALSE /\ stop = 0 /\ in_scope = {}
    /\ queue = <<EventLoop>>
    /\ stored_request = None /\ stored_response = NoResponse
    /\ answer = [stop |-> 0, asked |-> 0]
    /\ to_window = <<>> /\ to_bridge = <<>>
    /\ shown = [n \in Symbols |-> 0]
    /\ available = {} /\ restore_requested = {} /\ expired = {}
    /\ closed = FALSE /\ requests = 0 /\ removals = 0
-----------------------------------------------------------------------------
(* The debugger thread *)

\* send_to_window(): a dead peer makes the send fail; the message is dropped.
send_to_window(ms) == to_window' = IF closed THEN to_window ELSE to_window \o ms

\* The messages of the bridge.
get_observed_symbols(k) == [type |-> "GET_OBSERVED_SYMBOLS", asked |-> k]
set_available_symbols(names) == [type |-> "SET_AVAILABLE_SYMBOLS", names |-> names]
plot_buffer(n) == [type |-> "PLOT_BUFFER_CONTENTS", name |-> n, content |-> stop]

\* Mutant of stop_handler(): plots one observed buffer and forgets the others.
Bug_PlotsFirstOnly(response, ms) ==
    /\ answer' = [stop |-> stop', asked |-> response.asked]
    /\ queue' = queue \o (IF response.names = {} THEN <<>>
                          ELSE <<CHOOSE n \in response.names : TRUE>>)
    /\ send_to_window(ms \o <<set_available_symbols(in_scope')>>)

\* The second half of OpenImageDebuggerEvents.stop_handler(): queue a plot of
\* every observed buffer, then send the list of available symbols.
StopHandlerTail(response, ms) ==
    /\ answer' = [stop |-> stop', asked |-> response.asked]
    /\ queue' = queue \o SetToSeq(response.names)
    /\ send_to_window(ms \o <<set_available_symbols(in_scope')>>)

\* The debugger stops: stop_handler() calls get_observed_symbols(), which sends
\* its question and then takes a response that is already stored, or reads.
stop_handler(scope) ==
    /\ dpc = "idle" /\ ~closed
    /\ stop < MaxStops
    /\ stop' = stop + 1
    /\ in_scope' = scope
    /\ stored_response' = NoResponse
    /\ IF stored_response # NoResponse
       THEN /\ StopHandlerTail(stored_response, <<get_observed_symbols(stop + 1)>>)
            /\ UNCHANGED <<dpc, first>>
       ELSE /\ send_to_window(<<get_observed_symbols(stop + 1)>>)
            /\ dpc' = "fetch" /\ first' = TRUE
            /\ UNCHANGED <<queue, answer>>
    /\ UNCHANGED <<stored_request, to_bridge, viewerVars>>

\* What is stored of a message.
decode_plot_buffer_request(m) == m.name
decode_get_observed_symbols_response(m) == [names |-> m.names, asked |-> m.asked]

\* try_read_incoming_messages(): one message.  Each type has one slot, and a
\* later message of the type takes the place of an earlier one.
ReadMessage ==
    /\ dpc \in {"fetch", "loop"}
    /\ to_bridge # <<>>
    /\ first' = FALSE
    /\ to_bridge' = Tail(to_bridge)
    /\ LET m == Head(to_bridge) IN
       /\ stored_request' = IF m.type = "PLOT_BUFFER_REQUEST"
                            THEN decode_plot_buffer_request(m) ELSE stored_request
       /\ stored_response' = IF m.type = "GET_OBSERVED_SYMBOLS_RESPONSE"
                             THEN decode_get_observed_symbols_response(m)
                             ELSE stored_response
    /\ UNCHANGED <<dpc, stop, in_scope, queue, answer, to_window, viewerVars>>

\* The read is over: nothing more is buffered after a message, or nothing came
\* within the timeout, or the peer is gone.  All three find the stream empty.
ReadOver == to_bridge = <<>>

\* Mutant of fetch_message(): empties every slot.
Bug_FetchEmptiesSlots ==
    /\ dpc = "fetch" /\ ReadOver
    /\ first => ViewerSlow \/ closed
    /\ UNCHANGED <<stop, in_scope>>
    /\ StopHandlerTail(stored_response, <<>>)
    /\ stored_response' = NoResponse /\ stored_request' = None
    /\ dpc' = "idle" /\ first' = FALSE
    /\ UNCHANGED <<to_bridge, viewerVars>>

\* fetch_message() returns and the stop handler goes on with what is stored.
FetchReturns ==
    /\ dpc = "fetch" /\ ReadOver
    /\ first => ViewerSlow \/ closed
    /\ UNCHANGED <<stop, in_scope>>
    /\ StopHandlerTail(stored_response, <<>>)
    /\ stored_response' = NoResponse
    /\ dpc' = "idle" /\ first' = FALSE
    /\ UNCHANGED <<stored_request, to_bridge, viewerVars>>

\* The event-loop callback comes up: OpenImageDebuggerWindow.run_event_loop()
\* -> OidBridge::run_event_loop() starts its 200 ms read.
run_event_loop ==
    /\ dpc = "idle" /\ queue # <<>> /\ Head(queue) = EventLoop
    /\ queue' = Tail(queue)
    /\ dpc' = "loop" /\ first' = TRUE
    /\ UNCHANGED <<stop, in_scope, stored_request, stored_response, answer,
                   to_window, to_bridge, viewerVars>>

\* It came up again within _event_loop_wait_time: queued again, nothing read.
EventLoopTooSoon ==
    /\ dpc = "idle" /\ queue # <<>> /\ Head(queue) = EventLoop
    /\ queue' = Append(Tail(queue), EventLoop)
    /\ UNCHANGED <<dpc, first, stop, in_scope, stored_request, stored_response, answer,
                   to_window, to_bridge, viewerVars>>

\* The read is over: hand the stored request to the plot callback, which queues
\* a plot, then queue the event loop again.
EventLoopReturns ==
    /\ dpc = "loop" /\ ReadOver
    /\ queue' = queue \o (IF stored_request = None THEN <<>> ELSE <<stored_request>>)
                      \o <<EventLoop>>
    /\ stored_request' = None
    /\ dpc' = "idle" /\ first' = FALSE
    /\ UNCHANGED <<stop, in_scope, stored_response, answer, to_window, to_bridge, viewerVars>>

\* DeferredVariablePlotter.__call__(): reads the buffer from the program as it
\* is now; a symbol outside the current frame yields nothing.
DeferredPlot ==
    /\ dpc = "idle" /\ queue # <<>> /\ Head(queue) # EventLoop
    /\ queue' = Tail(queue)
    /\ IF Head(queue) \in in_scope
       THEN send_to_window(<<plot_buffer(Head(queue))>>)
       ELSE UNCHANGED to_window
    /\ UNCHANGED <<dpc, first, stop, in_scope, stored_request, stored_response, answer,
                   to_bridge, viewerVars>>
-----------------------------------------------------------------------------
(* The viewer *)

Request(n) == [type |-> "PLOT_BUFFER_REQUEST", name |-> n]
Observed == {n \in Symbols : shown[n] # 0}

\* Buffers of the former session that handle_set_available_symbols() asks for.
ToRestore(names) == ((RestoreBuffers \ expired) \cap names) \ (restore_requested \cup Observed)

Receive(type) ==
    /\ ~closed
    /\ to_window # <<>> /\ Head(to_window).type = type
    /\ to_window' = Tail(to_window)

\* The requests of one restore burst leave back to back: one step.
handle_set_available_symbols ==
    /\ Receive("SET_AVAILABLE_SYMBOLS")
    /\ LET names == Head(to_window).names IN
       /\ available' = names
       /\ to_bridge' = to_bridge \o SetToSeq({Request(n) : n \in ToRestore(names)})
       /\ restore_requested' = restore_requested \cup ToRestore(names)
    /\ UNCHANGED <<debuggerVars, shown, expired, closed, requests, removals>>

handle_get_observed_symbols ==
    /\ Receive("GET_OBSERVED_SYMBOLS")
    /\ to_bridge' = Append(to_bridge, [type |-> "GET_OBSERVED_SYMBOLS_RESPONSE",
                                       names |-> Observed, asked |-> Head(to_window).asked])
    /\ UNCHANGED <<debuggerVars, viewerVars>>

handle_plot_buffer_contents ==
    /\ Receive("PLOT_BUFFER_CONTENTS")
    /\ shown' = [shown EXCEPT ![Head(to_window).name] = Head(to_window).content]
    /\ UNCHANGED <<debuggerVars, to_bridge, available, restore_requested, expired, closed,
                   requests, removals>>

\* The user picks a symbol in the search box: IpcClient::request_plot().
request_plot(n) ==
    /\ ~closed /\ n \in available
    /\ requests < MaxRequests
    /\ requests' = requests + 1
    /\ to_bridge' = Append(to_bridge, Request(n))
    /\ UNCHANGED <<debuggerVars, to_window, shown, available, restore_requested, expired,
                   closed, removals>>

\* The Delete key in the buffer list: notify_removed(), then model.remove().
remove(n) ==
    /\ ~closed /\ shown[n] # 0
    /\ removals < MaxRemovals
    /\ removals' = removals + 1
    /\ to_bridge' = Append(to_bridge, [type |-> "BUFFER_REMOVED", name |-> n])
    /\ shown' = [shown EXCEPT ![n] = 0]
    /\ UNCHANGED <<debuggerVars, to_window, available, restore_requested, expired, closed, requests>>

\* The lease of a former session's buffer runs out.
Expire(n) ==
    /\ n \in Expirable \ expired
    /\ expired' = expired \cup {n}
    /\ UNCHANGED <<debuggerVars, to_window, to_bridge, shown, available, restore_requested,
                   closed, requests, removals>>

\* The user closes the window; what it had not read is lost.
CloseWindow ==
    /\ WindowMayClose /\ ~closed
    /\ closed' = TRUE
    /\ to_window' = <<>>
    /\ UNCHANGED <<debuggerVars, to_bridge, shown, available, restore_requested, expired,
                   requests, removals>>
-----------------------------------------------------------------------------
Debugger ==
    \/ ReadMessage \/ FetchReturns
    \/ run_event_loop \/ EventLoopTooSoon \/ EventLoopReturns
    \/ DeferredPlot
Viewer == handle_set_available_symbols \/ handle_get_observed_symbols \/ handle_plot_buffer_contents

Next ==
    \/ \E scope \in SUBSET Symbols : stop_handler(scope)
    \/ Debugger
    \/ Viewer
    \/ \E n \in Symbols : request_plot(n) \/ remove(n) \/ Expire(n)
    \/ CloseWindow

\* The debugger keeps running queued callbacks, its reads are bounded and its
\* clock advances (an event loop alone in the queue that comes up too soon
\* changes nothing); the viewer polls on every frame.  Nothing forces the program to stop again or
\* the user to act.
Spec == Init /\ [][Next]_vars /\ WF_vars(Debugger) /\ WF_vars(Viewer)
-----------------------------------------------------------------------------
\* The types of the session's state; in particular a queued plot always names a
\* symbol and only former buffers are ever restored.
TypeOK ==
    /\ dpc \in {"idle", "fetch", "loop"} /\ first \in BOOLEAN
    /\ stop \in 0..MaxStops /\ in_scope \subseteq Symbols
    /\ queue \in Seq(Symbols \cup {EventLoop})
    /\ stored_request \in Symbols \cup {None}
    /\ stored_response \in [names : SUBSET Symbols, asked : 0..MaxStops]
    /\ answer \in [stop : 0..MaxStops, asked : 0..MaxStops]
    /\ to_window \in Seq(Messages) /\ to_bridge \in Seq(Replies)
    /\ shown \in [Symbols -> 0..MaxStops]
    /\ available \subseteq Symbols /\ restore_requested \subseteq RestoreBuffers
    /\ expired \subseteq Expirable /\ closed \in BOOLEAN
    /\ requests \in 0..MaxRequests /\ removals \in 0..MaxRemovals

\* Nothing is on its way and no callback but the event loop is pending.
Quiet ==
    /\ dpc = "idle" /\ ~closed
    /\ to_window = <<>> /\ to_bridge = <<>>
    /\ queue = <<EventLoop>>

\* Once a stop has been worked off, every buffer on display that the frame can
\* plot shows the program as it is at this stop -- provided the stop handler
\* got the answer to its own question: an answer that came after its fetch had
\* returned stays stored and is taken for the next one's (fetch_message()).
FreshAfterStop ==
    (Quiet /\ answer = [stop |-> stop, asked |-> stop]) =>
        \A n \in Observed \cap in_scope : shown[n] = stop

\* Buffers of the former session come back: one the program offers, and whose
\* lease holds, is eventually on display, gone again, out of scope or given up
\* because the window closed (handle_set_available_symbols()).
RestoredReappear ==
    \A n \in RestoreBuffers \ Expirable :
        (n \in available) ~> (shown[n] # 0 \/ n \notin in_scope \/ closed)

\* The newest PLOT_BUFFER_REQUEST on its way to the bridge.
Newest(n) ==
    \E i \in DOMAIN to_bridge :
        /\ to_bridge[i] = Request(n)
        /\ \A j \in DOMAIN to_bridge : j > i => to_bridge[j].type # "PLOT_BUFFER_REQUEST"

\* A request is lost only to a newer one: otherwise it leads to the buffer on
\* display, whatever stops, late answers and removals race it, unless the frame
\* loses the symbol or the window closes.
NewestRequestShown ==
    \A n \in Symbols :
        Newest(n) ~> (\/ shown[n] # 0 \/ n \notin in_scope \/ closed
                      \/ \E m \in Symbols \ {n} : Newest(m))
=============================================================================
