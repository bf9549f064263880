------------------------------ MODULE PlotPath ------------------------------
(***************************************************************************)
(* The way of a variable to the screen, from what an inspector makes of it *)
(* to what the viewer does with it: TypeInspectors yields the metadata,    *)
(* the debugger reads the bytes, and SizeRules' geometry and byte_count    *)
(* are then that buffer's.  They also range over what any other peer or    *)
(* file may claim, as the viewer does not know who it is talking to.       *)
(***************************************************************************)
EXTENDS SizeRules, TypeInspectors

pathVars == <<sizeVars, inspectorVars>>

NoBuffer == [width |-> 0, height |-> 0, channels |-> 0, stride |-> 0, type |-> 0]

PathInit ==
    \/ /\ SizeInit
       /\ inspectors = {} /\ entry = JNull /\ fields = <<>> /\ plot = "elsewhere"
    \/ /\ InspectorInit
       /\ geometry = NoBuffer /\ byte_count = 0

\* get_buffer_metadata() of a debugger bridge: an empty buffer is refused, and one
\* of a tenth of the memory, which is less than size_t counts.
ReadBuffer ==
    LET bufsize == get_buffer_size(Metadata) IN
    /\ Resolved
    /\ bufsize \in 1..SIZE_MAX
    /\ geometry' = Metadata /\ byte_count' = bufsize
    /\ plot' = "read"
    /\ UNCHANGED <<inspectors, entry, fields>>

\* It raises: ValueError, MemoryError, BufferTooLargeError, or memory that
\* cannot be read.
ReadRaises ==
    /\ Resolved
    /\ plot' = "raised"
    /\ UNCHANGED <<sizeVars, inspectors, entry, fields>>

\* All fields are there and of their types (ValidatedResolves); the numbers are
\* narrowed to int, and a buffer shorter than these say is refused.
oid_plot_buffer ==
    LET Narrowed(n) == ToInt(n, IntBits)
        g == [f \in DOMAIN geometry |-> Narrowed(geometry[f])] IN
    /\ plot = "read"
    /\ IF BridgeAccepts(g, IntBits, byte_count)
       THEN geometry' = g /\ plot' = "sent"
       ELSE plot' = "raised" /\ UNCHANGED geometry
    /\ UNCHANGED <<byte_count, inspectors, entry, fields>>

Inspect ==
    /\ \/ LoadInspectors
       \/ PickInspector
       \/ NoInspector
       \/ ResolveField
    /\ UNCHANGED sizeVars

\* The request is over.
RequestOver == plot \notin {"unloaded", "ready", "resolving", "read"} /\ UNCHANGED pathVars

PathNext == Inspect \/ ReadBuffer \/ ReadRaises \/ oid_plot_buffer \/ RequestOver

PathSpec == PathInit /\ [][PathNext]_pathVars
=============================================================================
