----------------------------- MODULE Discovery -----------------------------
(***************************************************************************)
(* How oid-mcp finds a viewer: each viewer publishes <pid>.json in a       *)
(* private directory (host/agent/agent_server.cpp, discovery_file.cpp) and *)
(* the MCP server's _call_viewer() enumerates the files, drops those of    *)
(* the dead, picks one and connects (oidmcp/discovery.py, server.py).      *)
(*                                                                         *)
(* A viewer is named by the number of its launch, which stands for its     *)
(* port, its token and its start_time: no two launches share any of them.  *)
(* Pids are reused.  The viewers, the reader and the machine's crashes     *)
(* interleave; each file operation is one step.                            *)
(***************************************************************************)
EXTENDS Naturals, FiniteSets, FiniteSetsExt

CONSTANTS Pids,         \* process ids of viewers (numbers: glob() is sorted)
          Debuggers,    \* process ids of debuggers a viewer may be paired to
          Unremovable,  \* pids whose discovery file the reader cannot unlink
          MaxLaunches,  \* bound on viewers started
          MaxPowerLoss  \* bound on machine crashes

ASSUME DiscoveryAssumption ==
    /\ Pids \subseteq Nat /\ Debuggers \subseteq Nat /\ Pids \cap Debuggers = {}
    /\ Unremovable \subseteq Pids
    /\ MaxLaunches \in Nat /\ MaxPowerLoss \in Nat

NoPid == 0
Gone == [st |-> "gone", inst |-> 0, debugger |-> NoPid, reused |-> FALSE, raced |-> FALSE]
NoFile == [inst |-> 0, debugger |-> NoPid, synced |-> TRUE, whole |-> TRUE]

VARIABLES
    proc,      \* pid -> the process under it: gone, bound, written, synced,
               \*   live, closing, or plain (without an endpoint)
    used,      \* pids some viewer had before
    launches,  \* viewers started so far
    file,      \* pid -> content of <pid>.json, NoFile when there is none
    losses,    \* machine crashes so far
    pc,        \* the MCP server: idle, glob, read, probe, drop, connect, refused
    selector,  \* the call's session argument, NoPid for none
    todo,      \* paths the enumeration has still to read
    info,      \* the entry in hand
    entries,   \* the entries found alive
    reaped,    \* _call_viewer()'s set of refused paths
    steady,    \* viewers live since the call began
    reuse,     \* a process ran during the call whose pid was another viewer's before
    failed     \* the last call ended in NoSessionError

viewerVars == <<proc, used, launches, file, losses>>
callVars == <<selector, todo, info, entries, reaped, failed>>
vars == <<viewerVars, pc, callVars, steady, reuse>>

Entry(p) == [pid |-> p, inst |-> file[p].inst, debugger |-> file[p].debugger]
NoEntry == [pid |-> NoPid, inst |-> 0, debugger |-> NoPid]

Init ==
    /\ proc = [p \in Pids |-> Gone] /\ used = {} /\ launches = 0
    /\ file = [p \in Pids |-> NoFile] /\ losses = 0
    /\ pc = "idle" /\ selector = NoPid /\ todo = {} /\ info = NoEntry
    /\ entries = {} /\ reaped = {} /\ steady = {} /\ reuse = FALSE /\ failed = FALSE

Exists(p) == file[p] # NoFile
Live(p) == proc[p].st = "live"
Listening(i) == \E p \in Pids : proc[p].inst = i /\ proc[p].st \in
                    {"bound", "written", "synced", "live"}

Steps(p, from, to) ==
    /\ proc[p].st = from
    /\ proc' = [proc EXCEPT ![p].st = to]
-----------------------------------------------------------------------------
(* A viewer *)

\* AgentServer's constructor binds and listens first; then publish_discovery().
Launch(p, d) ==
    /\ proc[p].st = "gone" /\ launches < MaxLaunches
    /\ launches' = launches + 1
    /\ proc' = [proc EXCEPT ![p] = [st |-> "bound", inst |-> launches + 1, debugger |-> d,
                                    reused |-> p \in used, raced |-> FALSE]]
    /\ used' = used \cup {p} /\ reuse' = (reuse \/ (pc # "idle" /\ p \in used))
    /\ UNCHANGED <<file, losses, pc, callVars, steady>>

\* write_discovery_atomic(): mkstemp and write, then fsync and close.  The
\* temporary file's name does not match the reader's *.json.
WriteTemp(p) == Steps(p, "bound", "written") /\ UNCHANGED <<used, launches, file, losses, pc, callVars, steady, reuse>>
SyncTemp(p) == Steps(p, "written", "synced") /\ UNCHANGED <<used, launches, file, losses, pc, callVars, steady, reuse>>

\* mkstemp(), write(), fsync(), close() or rename() fails: the temporary file is
\* removed and the viewer runs without an endpoint.
PublishFails(p) ==
    /\ proc[p].st \in {"bound", "written", "synced"}
    /\ proc' = [proc EXCEPT ![p].st = "plain"]
    /\ UNCHANGED <<used, launches, file, losses, pc, callVars, steady, reuse>>

\* A call under way holds what it read of that path before: a file of a former
\* process with this pid, or that there was none.
Held(p) == \/ pc \in {"probe", "drop", "connect", "refused"} /\ info.pid = p
           \/ \E e \in entries : e.pid = p

Published(p) == [inst |-> proc[p].inst, debugger |-> proc[p].debugger,
                 synced |-> proc[p].st = "synced", whole |-> TRUE]

\* Mutant of Rename(p): publishes what was written without the fsync.
Bug_RenameUnsynced(p) ==
    /\ proc[p].st \in {"written", "synced"}
    /\ proc' = [proc EXCEPT ![p].st = "live", ![p].raced = Held(p)]
    /\ file' = [file EXCEPT ![p] = Published(p)]
    /\ UNCHANGED <<used, launches, losses, pc, callVars, steady, reuse>>

\* Mutant of Rename(p): does not replace a file that is already there.
Bug_RenameKeepsOld(p) ==
    /\ proc[p].st = "synced"
    /\ proc' = [proc EXCEPT ![p].st = "live", ![p].raced = Held(p)]
    /\ file' = IF Exists(p) THEN file ELSE [file EXCEPT ![p] = Published(p)]
    /\ UNCHANGED <<used, launches, losses, pc, callVars, steady, reuse>>

\* rename() puts the file in place, over one a former process left there, and
\* the accept thread starts.
Rename(p) ==
    /\ proc[p].st = "synced"
    /\ proc' = [proc EXCEPT ![p].st = "live", ![p].raced = Held(p)]
    /\ file' = [file EXCEPT ![p] = Published(p)]
    /\ UNCHANGED <<used, launches, losses, pc, callVars, steady, reuse>>

\* stop(): the acceptor is closed, the clients are waited for, and last the
\* file is removed.  The process may live on.
StopAccepting(p) ==
    /\ Steps(p, "live", "closing")
    /\ steady' = steady \ {proc[p].inst}
    /\ UNCHANGED <<used, launches, file, losses, pc, callVars, reuse>>

RemoveFile(p) ==
    /\ Steps(p, "closing", "plain")
    /\ file' = [file EXCEPT ![p] = NoFile]
    /\ UNCHANGED <<used, launches, losses, pc, callVars, steady, reuse>>

\* The process exits, or is killed anywhere on its way: its sockets close, its
\* files stay.
Exit(p) ==
    /\ proc[p].st # "gone"
    /\ proc' = [proc EXCEPT ![p] = Gone]
    /\ steady' = steady \ {proc[p].inst}
    /\ UNCHANGED <<used, launches, file, losses, pc, callVars, reuse>>

\* The machine goes down: every process is gone, and a file renamed into place
\* keeps its name but only the content that had been synced.
PowerLoss ==
    /\ losses < MaxPowerLoss /\ losses' = losses + 1
    /\ proc' = [p \in Pids |-> Gone]
    /\ \E torn \in SUBSET {p \in Pids : ~file[p].synced} :
          file' = [p \in Pids |-> [file[p] EXCEPT !.whole = @ /\ p \notin torn]]
    /\ pc' = "idle" /\ failed' = FALSE /\ entries' = {} /\ todo' = {} /\ info' = NoEntry
    /\ reaped' = {} /\ selector' = NoPid /\ steady' = {} /\ reuse' = FALSE
    /\ UNCHANGED <<used, launches>>
-----------------------------------------------------------------------------
(* The MCP server: one _call_viewer() *)

CallViewer(s) ==
    /\ pc = "idle" /\ pc' = "glob"
    /\ selector' = s /\ reaped' = {} /\ entries' = {} /\ failed' = FALSE
    /\ steady' = {proc[p].inst : p \in {q \in Pids : Live(q)}}
    /\ reuse' = \E p \in Pids : proc[p].reused
    /\ UNCHANGED <<viewerVars, todo, info>>

\* live_viewers(): the names present when the directory is listed.
Glob ==
    /\ pc = "glob" /\ pc' = "read"
    /\ todo' = {p \in Pids : Exists(p)}
    /\ entries' = {}
    /\ UNCHANGED <<viewerVars, selector, info, reaped, failed, steady, reuse>>

\* Reads and parses the next file; one that vanished or does not parse is reaped.
ReadFile ==
    /\ pc = "read" /\ todo # {}
    /\ LET p == Min(todo) IN
       /\ info' = Entry(p)
       /\ pc' = IF Exists(p) /\ file[p].whole THEN "probe" ELSE "drop"
    /\ UNCHANGED <<viewerVars, selector, todo, entries, reaped, failed, steady, reuse>>

\* _pid_alive(): whether any process has that pid.
Probe ==
    /\ pc = "probe"
    /\ IF proc[info.pid].st # "gone"
       THEN /\ entries' = entries \cup {info}
            /\ todo' = todo \ {info.pid}
            /\ pc' = "read" /\ info' = NoEntry
       ELSE pc' = "drop" /\ UNCHANGED <<entries, todo, info>>
    /\ UNCHANGED <<viewerVars, selector, reaped, failed, steady, reuse>>

\* _reap(): unlinks by path, errors swallowed.
Unlinked(p) == IF p \in Unremovable THEN file ELSE [file EXCEPT ![p] = NoFile]

DropDead ==
    /\ pc = "drop" /\ pc' = "read"
    /\ file' = Unlinked(info.pid)
    /\ todo' = todo \ {info.pid} /\ info' = NoEntry
    /\ UNCHANGED <<proc, used, launches, losses, selector, entries, reaped, failed, steady, reuse>>

Newest(S) == CHOOSE e \in S : \A f \in S : f.inst <= e.inst

\* Mutant of Candidates: takes the pairing for the viewer's own pid.
Bug_PairedOnly == {e \in entries : selector = NoPid \/ e.debugger = selector}

\* _resolve_viewer(): by the viewer's own pid, else by its debugger's.  Of several
\* paired ones it asks again who is alive.
Candidates ==
    LET own    == {e \in entries : e.pid = selector}
        paired == {e \in entries : e.debugger = selector}
        alive  == {e \in paired : proc[e.pid].st # "gone"}
    IN CASE selector = NoPid -> entries
         [] selector # NoPid /\ own # {} -> own
         [] selector # NoPid /\ own = {} ->
              IF Cardinality(paired) > 1 /\ alive # {} THEN alive ELSE paired

Resolve ==
    /\ pc = "read" /\ todo = {}
    /\ IF Candidates = {}
       THEN pc' = "idle" /\ failed' = TRUE /\ info' = NoEntry
       ELSE pc' = "connect" /\ info' = Newest(Candidates) /\ UNCHANGED failed
    /\ entries' = {}
    /\ UNCHANGED <<viewerVars, selector, todo, reaped, steady, reuse>>

\* A port nobody listens on refuses; otherwise the call is served.
Connect ==
    /\ pc = "connect"
    /\ IF Listening(info.inst)
       THEN /\ pc' = "idle"
            /\ info' = NoEntry /\ reaped' = {} /\ steady' = {} /\ selector' = NoPid
            /\ reuse' = FALSE
       ELSE pc' = "refused" /\ UNCHANGED <<info, reaped, steady, selector, reuse>>
    /\ UNCHANGED <<viewerVars, todo, entries, failed>>

\* Mutant of Refused: forgets which paths it has reaped.
Bug_ReapForEver ==
    /\ pc = "refused" /\ pc' = "glob"
    /\ file' = Unlinked(info.pid)
    /\ UNCHANGED <<proc, used, launches, losses, selector, todo, info, entries, reaped, failed, steady, reuse>>

\* The refused entry's file is reaped and the viewers are resolved again, unless
\* that path was reaped before.
Refused ==
    /\ pc = "refused"
    /\ IF info.pid \in reaped
       THEN /\ pc' = "idle" /\ failed' = TRUE /\ info' = NoEntry
            /\ UNCHANGED <<file, reaped>>
       ELSE /\ pc' = "glob"
            /\ reaped' = reaped \cup {info.pid}
            /\ file' = Unlinked(info.pid)
            /\ UNCHANGED <<failed, info>>
    /\ UNCHANGED <<proc, used, launches, losses, selector, todo, entries, steady, reuse>>
-----------------------------------------------------------------------------
Reader == Glob \/ ReadFile \/ Probe \/ DropDead \/ Resolve \/ Connect \/ Refused

Next ==
    \/ \E p \in Pids :
          \/ \E d \in Debuggers \cup {NoPid} : Launch(p, d)
          \/ WriteTemp(p) \/ SyncTemp(p) \/ PublishFails(p) \/ Rename(p)
          \/ StopAccepting(p) \/ RemoveFile(p) \/ Exit(p)
    \/ PowerLoss
    \/ \E s \in {NoPid} \cup Pids \cup Debuggers : CallViewer(s)
    \/ Reader

\* The MCP server's thread runs; viewers promise nothing.
Spec == Init /\ [][Next]_vars /\ WF_vars(Reader)
-----------------------------------------------------------------------------
\* No crash, of the viewer or of the machine, leaves a half-written discovery
\* file in place (the fsync before write_discovery_atomic()'s rename).  This is
\* the POSIX writer; the one for Windows (discovery_file.cpp:258) does not flush.
NeverTorn == \A p \in Pids : file[p].whole

\* A viewer that serves can be found: its own file is in place under its pid from
\* the rename until it stops, whatever the reader reaps on the way -- except when
\* at the rename a call still held what it had read under that path of a former
\* viewer with this pid (raced): _reap() unlinks by path, so the call may then
\* take the new file away.
LiveIsDiscoverable ==
    \A p \in Pids :
        Live(p) /\ ~proc[p].raced => file[p].inst = proc[p].inst

\* During the call no process ran that has the pid of a former viewer, wanted or
\* not, and every file of an entry that refused could be unlinked.
Undisturbed == ~reuse /\ reaped \cap Unremovable = {}

Wanted(p) == selector \in {NoPid, p, proc[p].debugger}

\* A call ends in NoSessionError only if no viewer it could have meant served
\* throughout: stale entries, however many and however new, do not hide an older
\* live viewer (_call_viewer()'s walk, _resolve_viewer()'s selection).  A call that
\* reached a listening port is over here; a reset or a time-out after that is an
\* error of its own, which the walk does not continue from.
LookupReachesLive ==
    failed /\ Undisturbed =>
        \A p \in Pids : Live(p) /\ proc[p].inst \in steady => ~Wanted(p)

\* Every call ends, also over a directory whose stale entries cannot be removed.
LookupReturns == pc # "idle" ~> pc = "idle"
=============================================================================
