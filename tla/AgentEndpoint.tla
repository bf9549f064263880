--------------------------- MODULE AgentEndpoint ---------------------------
(***************************************************************************)
(* The agent endpoint inside the debugger (agentendpoint.py) on the        *)
(* debugger thread of DebuggerThread, and the MCP servers that use it      *)
(* (oidmcp/server.py, protocol.py, buffers.py).                            *)
(*                                                                         *)
(* Every connection has a serving thread.  A request that needs the        *)
(* debugger is queued as a task; the thread waits 15 s for the task to be  *)
(* done and only then, on its own, reads the stop generation it answers    *)
(* with.  An MCP server makes one call at a time, each on a connection of  *)
(* its own; Clients are the MCP servers, with the cache each keeps.        *)
(*                                                                         *)
(* The content of a buffer is the number of the stop it was read at.       *)
(***************************************************************************)
EXTENDS DebuggerThread

CONSTANTS Clients,
          MAX_CLIENTS,
          CacheCapacity,   \* BufferCache(capacity=4)
          MaxRequests      \* bound: requests of all the clients together

ASSUME EndpointAssumption ==
    MAX_CLIENTS \in Nat \ {0} /\ CacheCapacity \in Nat \ {0} /\ MaxRequests \in Nat

VARIABLES
    cpc,       \* the serving thread of each client's connection
    slots,     \* _EndpointServer._clients
    cut,       \* connections close() has closed under their thread
    requests,  \* number of the last request
    current,   \* the request each thread waits for
    box,       \* what that request's task left: nothing yet, or its result
    pinged,    \* the generation the client's ping returned, its cache key, and
               \* the stop the program was at then, 0 unless the debugger was idle
    cache,     \* BufferCache: (generation, data), least recently used first
    served     \* the last fetch of each client: its ping and the data

endpointVars == <<cpc, slots, cut, requests, current, box, pinged, cache, served>>
vars == <<threadVars, endpointVars>>

Task(kind, n) == [kind |-> kind, handle |-> n]
Empty == [done |-> FALSE, ok |-> FALSE, data |-> 0]
Failed == [done |-> TRUE, ok |-> FALSE, data |-> 0]
Result(d) == [done |-> TRUE, ok |-> TRUE, data |-> d]
NoPing == [key |-> 0, at |-> 0]
Unserved == [ping |-> NoPing, data |-> 0]

EndpointInit ==
    /\ Init
    /\ cpc = [c \in Clients |-> "off"]
    /\ slots = {} /\ cut = {} /\ requests = 0
    /\ current = [c \in Clients |-> 0]
    /\ box = [c \in Clients |-> Empty]
    /\ pinged = [c \in Clients |-> NoPing]
    /\ cache = [c \in Clients |-> <<>>]
    /\ served = [c \in Clients |-> Unserved]

Goto(c, pc) == cpc' = [cpc EXCEPT ![c] = pc]
-----------------------------------------------------------------------------
(* Connections *)

\* accept() returns a connection to _accept_loop().
Accepted(c) ==
    /\ active
    /\ cpc[c] = "off" /\ requests < MaxRequests
    /\ Goto(c, "accepted")
    /\ served' = [served EXCEPT ![c] = Unserved]
    /\ UNCHANGED <<threadVars, slots, cut, requests, current, box, pinged, cache>>

\* Mutant of _accept_loop(): a failed thread start keeps the slot.
Bug_KeepsSlot(c) ==
    /\ cpc[c] = "accepted"
    /\ IF Cardinality(slots) >= MAX_CLIENTS
       THEN Goto(c, "off") /\ UNCHANGED slots
       ELSE /\ slots' = slots \cup {c}
            /\ Goto(c, "hello") \/ Goto(c, "off")
    /\ UNCHANGED <<threadVars, cut, requests, current, box, pinged, cache, served>>

\* _accept_loop() registers the connection and starts its thread, or closes it
\* because the slots are taken; a failed start gives the slot back.  close()
\* may have come in between: it does not know this connection.
_accept_loop(c) ==
    /\ cpc[c] = "accepted"
    /\ \/ /\ Cardinality(slots) < MAX_CLIENTS
          /\ slots' = slots \cup {c}
          /\ Goto(c, "hello")
       \/ Goto(c, "off") /\ UNCHANGED slots
    /\ UNCHANGED <<threadVars, cut, requests, current, box, pinged, cache, served>>

\* _serve_client() ends, and its finally gives the slot back.
Leave(c) ==
    /\ slots' = slots \ {c}
    /\ cut' = cut \ {c}
    /\ Goto(c, "off")
    /\ current' = [current EXCEPT ![c] = 0]
    /\ box' = [box EXCEPT ![c] = Empty]
    /\ pinged' = [pinged EXCEPT ![c] = NoPing]

\* hello with the right token; the reply fails on a connection that is cut.
_handle_hello(c) ==
    /\ cpc[c] = "hello"
    /\ IF c \in cut THEN Leave(c)
       ELSE Goto(c, "authenticated") /\ UNCHANGED <<slots, cut, current, box, pinged>>
    /\ UNCHANGED <<threadVars, requests, cache, served>>

\* A bad first request, the handshake deadline, or a client that goes away.
Disconnects(c) ==
    /\ cpc[c] \in {"hello", "authenticated"}
    /\ Leave(c)
    /\ UNCHANGED <<threadVars, requests, cache, served>>

\* ping is answered on the serving thread, whatever the debugger is doing.
_handle_ping(c) ==
    /\ cpc[c] = "authenticated"
    /\ IF c \in cut THEN Leave(c)
       ELSE /\ pinged' = [pinged EXCEPT ![c] =
                             [key |-> stop_generation,
                              at |-> IF dpc = "idle" /\ ~running THEN stop ELSE 0]]
            /\ Goto(c, "pinged")
            /\ UNCHANGED <<slots, cut, current, box>>
    /\ UNCHANGED <<threadVars, requests, cache, served>>
-----------------------------------------------------------------------------
(* Requests that need the debugger: _run_in_debugger() *)

queue_request(c, kind, pc) ==
    /\ requests < MaxRequests
    /\ requests' = requests + 1
    /\ queue' = Append(queue, Task(kind, requests + 1))
    /\ current' = [current EXCEPT ![c] = requests + 1]
    /\ box' = [box EXCEPT ![c] = Empty]
    /\ Goto(c, pc)
    /\ UNCHANGED <<dpc, programVars, plots, windowVars, shows, agentVars>>

\* The task of request n leaves its result in its own box, which nobody looks
\* at any more when the request has timed out.
Finish(n, result) ==
    box' = [c \in Clients |-> IF current[c] = n THEN result ELSE box[c]]

\* The task of a get_buffer or a list_symbols: the debugger reads the program,
\* which fails unless it is stopped.
FetchTask ==
    /\ TaskAtHead("get")
    /\ queue' = Tail(queue)
    /\ Finish(Head(queue).handle, IF running THEN Failed ELSE Result(stop))
    /\ UNCHANGED <<dpc, programVars, plots, windowVars, shows, agentVars,
                   cpc, slots, cut, requests, current, pinged, cache, served>>

\* The task of a plot: do_plot() queues the plot behind itself when a window is
\* ready.
do_plot ==
    /\ TaskAtHead("do_plot")
    /\ \/ /\ TRUE \in is_ready
          /\ queue' = Append(Tail(queue), Plot(handle))
          /\ Finish(Head(queue).handle, Result(0))
          /\ UNCHANGED dpc
       \/ /\ FALSE \in is_ready
          /\ queue' = Tail(queue)
          /\ Finish(Head(queue).handle, Failed)
          /\ UNCHANGED dpc
       \/ MayAbort(handle) /\ UNCHANGED <<queue, box>>
    /\ UNCHANGED <<programVars, plots, windowVars, shows, agentVars,
                   cpc, slots, cut, requests, current, pinged, cache, served>>

\* Mutant of _run_in_debugger(): the deadline is kept by the debugger thread.
Bug_DeadlineInDebugger(c) ==
    /\ cpc[c] \in {"fetching", "plotting"} /\ ~box[c].done
    /\ dpc = "idle"
    /\ Leave(c)
    /\ UNCHANGED <<threadVars, requests, cache, served>>

\* done.wait() runs out: the request fails, its task stays in the queue.
TimesOut(c) ==
    /\ cpc[c] \in {"fetching", "plotting"} /\ ~box[c].done
    /\ Leave(c)
    /\ UNCHANGED <<threadVars, requests, cache, served>>

\* _handle_plot() answers.
_handle_plot(c) ==
    \/ /\ cpc[c] = "authenticated"
       /\ queue_request(c, "do_plot", "plotting")
       /\ UNCHANGED <<slots, cut, pinged, cache, served>>
    \/ /\ cpc[c] = "plotting" /\ box[c].done
       /\ Leave(c)
       /\ UNCHANGED <<threadVars, requests, cache, served>>
-----------------------------------------------------------------------------
(* SessionManager.fetch() and its cache *)

Cached(c, g) == { i \in DOMAIN cache[c] : cache[c][i].key = g }
\* An OrderedDict holds a key once.
Without(s, g) ==
    IF \E i \in DOMAIN s : s[i].key = g
    THEN RemoveAt(s, CHOOSE i \in DOMAIN s : s[i].key = g) ELSE s

\* BufferCache.put(): the newest entry last, the oldest ones dropped.
put(s, e) ==
    LET t == Append(Without(s, e.key), e)
    IN SubSeq(t, Len(t) - (IF Len(t) > CacheCapacity THEN CacheCapacity ELSE Len(t)) + 1, Len(t))

\* Mutant of fetch(): the cache is keyed by the symbol alone.
Bug_CacheHitAnyStop(c) ==
    /\ cpc[c] = "pinged" /\ cache[c] # <<>>
    /\ served' = [served EXCEPT ![c] = [ping |-> pinged[c], data |-> Head(cache[c]).data]]
    /\ Leave(c)
    /\ UNCHANGED <<threadVars, requests, cache>>

\* The generation of the ping is in the cache.
CacheHit(c) ==
    /\ cpc[c] = "pinged"
    /\ \E i \in Cached(c, pinged[c].key) :
          /\ served' = [served EXCEPT ![c] = [ping |-> pinged[c], data |-> cache[c][i].data]]
          /\ cache' = [cache EXCEPT ![c] = put(@, cache[c][i])]
    /\ Leave(c)
    /\ UNCHANGED <<threadVars, requests>>

\* It is not: get_buffer on the same connection.
CacheMiss(c) ==
    /\ cpc[c] = "pinged" /\ Cached(c, pinged[c].key) = {}
    /\ IF c \in cut
       THEN Leave(c) /\ UNCHANGED <<threadVars, requests>>
       ELSE queue_request(c, "get", "fetching") /\ UNCHANGED <<slots, cut, pinged>>
    /\ UNCHANGED <<cache, served>>

\* _handle_get_buffer() answers, and fetch() caches the bytes under the
\* generation its ping returned.
_handle_get_buffer(c) ==
    /\ cpc[c] = "fetching" /\ box[c].done
    /\ IF box[c].ok /\ c \notin cut
       THEN /\ served' = [served EXCEPT ![c] = [ping |-> pinged[c], data |-> box[c].data]]
            /\ cache' = [cache EXCEPT ![c] =
                            put(@, [key |-> pinged[c].key, data |-> box[c].data])]
       ELSE UNCHANGED <<served, cache>>
    /\ Leave(c)
    /\ UNCHANGED <<threadVars, requests>>
-----------------------------------------------------------------------------
\* The exit handler's call, which does nothing the second time.
shutdown == active /\ ~active'

\* A step of the debugger thread or of a window.  In shutdown(),
\* _EndpointServer.close() closes every registered connection under its thread.
ThreadStep ==
    /\ ThreadNext
    /\ cut' = IF shutdown THEN cut \cup slots ELSE cut
    /\ UNCHANGED <<cpc, slots, requests, current, box, pinged, cache, served>>

ClientStep(c) ==
    \/ Accepted(c) \/ _accept_loop(c) \/ _handle_hello(c) \/ Disconnects(c)
    \/ _handle_ping(c) \/ CacheHit(c) \/ CacheMiss(c) \/ _handle_get_buffer(c)
    \/ _handle_plot(c) \/ TimesOut(c)

Next == ThreadStep \/ FetchTask \/ do_plot \/ \E c \in Clients : ClientStep(c)

\* The debugger thread goes on with a handler and with its queue; windows
\* start; a serving thread's wait ends with its task or its 15 s.  The
\* program, the user and the clients owe nothing.
Fairness ==
    /\ WF_vars(HandlerStep /\ ThreadStep)
    /\ WF_vars((QueueStep /\ ThreadStep) \/ FetchTask \/ do_plot)
    /\ \A h \in Launches : WF_vars(WindowConnects(h) /\ ThreadStep)
    /\ \A c \in Clients : WF_vars(TimesOut(c) \/ _handle_get_buffer(c) \/
                                  (cpc[c] = "plotting" /\ _handle_plot(c)))

Spec == EndpointInit /\ [][Next]_vars /\ Fairness
-----------------------------------------------------------------------------
\* The types of the endpoint's and its clients' state.
TypeOK ==
    /\ ThreadTypeOK
    /\ cpc \in [Clients -> {"off", "accepted", "hello", "authenticated", "pinged",
                            "fetching", "plotting"}]
    /\ cut \subseteq slots
    /\ \A c \in Clients : current[c] \in 0..requests /\ box[c].data \in 0..stop
    /\ \A c \in Clients : Len(cache[c]) <= CacheCapacity

\* A slot is held by a thread that is serving and by nothing else, however
\* connections, failed starts, timeouts and close() interleave
\* (_accept_loop(), _serve_client()).
SlotsAreServed ==
    /\ slots = {c \in Clients : cpc[c] \notin {"off", "accepted"}}
    /\ Cardinality(slots) <= MAX_CLIENTS

\* A fetch never returns bytes older than the stop its ping was told of: not
\* from the cache, not when the program stopped again between the ping and the
\* read (SessionManager.fetch(), notify_stop()).
FetchNotOlder ==
    \A c \in Clients :
        served[c].ping.key > 0 => served[c].data >= notified[served[c].ping.key]

\* A fetch that begins while the debugger sits idle at a stop never returns the
\* bytes of an earlier stop (the per-stop cache of SessionManager.fetch()).
FetchIsCurrent == \A c \in Clients : served[c].data = 0 \/ served[c].data >= served[c].ping.at

\* Every request to the debugger is answered, also when the debugger thread
\* hangs in a stop handler (_run_in_debugger()).
RequestAnswered ==
    \A c \in Clients : cpc[c] \in {"fetching", "plotting"} ~> cpc[c] = "off"
=============================================================================
