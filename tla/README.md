# TLA+ models of OpenImageDebugger

OpenImageDebugger shows image buffers of a program under GDB or LLDB in a
window of its own. This directory models the parts of it that run concurrently,
that trust sizes and types which came from elsewhere, that keep files other
processes read, or that must not lose or mix data. `src/...` below is the path of
a file in the repository.

## The system

Three processes take part.

* **The debugger** runs the Python scripts of `src/resources/oidscripts`. A stop
  calls `stop_handler()` (`events.py`), which launches the window if there is none,
  asks it what it shows, queues a plot of each of those buffers and sends the list of
  plottable symbols. Queued callbacks run one at a time on the debugger's thread;
  one of them is the event loop, which reads the window's requests and queues itself
  again (`oidwindow.py`). Type inspectors (`oidtypes`) turn a variable into buffer
  metadata. The native half is `OidBridge` (`src/src/oidbridge/oid_bridge.cpp`), reached
  through `ctypes`.
* **The viewer** (`src/src/main.cpp`, `src/src/host`) is a frame loop. Each frame
  polls the bridge's socket (`IpcClient`), answers agent requests, opens files, draws
  the buffer list with its thumbnails, the toolbar and the canvas, exports, and
  saves settings.
* **Agents** connect over TCP to the viewer's `AgentServer` and to the debugger's
  `agentendpoint.py`; `src/resources/oidmcp` is such a client. They find both by the
  discovery files these publish.

| Component | State | Operations | Talks to | What is hard | What makes it correct |
|---|---|---|---|---|---|
| Size rules (`raw_data_decode`, `buffer_span_fits.h`, `Buffer::configure`, `npy_decode`, `get_buffer`) | none | predicates on a geometry and a byte count | every plot path | overflow, several rules that must agree, FLOAT64 narrowing | an accepted buffer is addressable and is accepted downstream |
| Readers (`Buffer`, `BufferValues`, exporters) | textures | which element is read and drawn where | records | unchecked indices, tiles, odd sizes | inside the record, in its place |
| Type inspectors (`declarative.py`) | loaded entries | validate, pick, resolve | debugger values | two readings of one JSON | what validates resolves |
| `BufferAssembler` | `in_progress_` | begin, chunk, end, abort | `IpcClient` | abandoned, partial and refused transfers, failed allocation | a delivered buffer is whole and of one transfer |
| `IpcClient` | assembler, available symbols, restore sets | one handler per message | buffer model, bridge | one message lost among several, framing | what is shown is current, whole, drawable |
| Message exchange, transport | socket buffers | compose, decode, timed receive | both ends | a message given up in the middle | frames are read as they were sent |
| `OidBridge` | socket, one slot per message type, child process | start, read with a timeout, event loop, plot | Python, viewer | late answers, overwritten slots, dead peer | answers belong to questions, requests are served |
| Stop handler, plot queue, window launch | queue of callbacks, handle, child | stop, exit, launch, event loop, deferred plot | bridge, OS | accept timeout, relaunch, use after cleanup, re-queuing | the handler returns, displayed buffers follow the program |
| Python agent endpoint, MCP server | slots, tasks, stop generation, per-stop cache | accept, hello, ping, get, plot, close | debugger thread | timed-out work that still runs, stale cache | data is not older than the stop it is labelled with |
| `AgentServer`, `AgentCore` | clients, queue, flags | accept, serve, enqueue, drain, stop | frame loop, agents | three kinds of threads, shutdown races, deadlines | bounded, no dangling request, stop returns |
| `FramePacer` | wake counters, deadline | wake, pace | serve threads | lost wake-up | a queued request is drained promptly |
| `IpcBufferModel`, `StageManager`, stages, thumbnails, selection | records, stage per name, textures, pictures | upsert, remove, sync, render, set_view | GL, agents, user | span lifetime, failed GL calls, render budget | a stage shows the record's present bytes |
| Settings | one file, debounced save, previous buffers | load, mark dirty, save, flush, merge | disk, other windows | crash, two windows, exit before the debounce | nothing that is owed to the next session is lost |
| Discovery files | a file per process | publish, remove, enumerate, reap | MCP client | crash half-way, reused pids | readers see a whole file or none, a live viewer is found |
| Camera, text, shaders, platform dialogs | GL objects | drawing | GL, OS | floating point | not modelled |

## Modules

| Module | Models | Built on |
|---|---|---|
| `RawDataDecode` | the size rules, as operators | |
| `BufferReaders` | who reads a displayed record and where | `RawDataDecode` |
| `SizeRules` | the properties that relate all of them | `BufferReaders` |
| `TypeInspectors` | declarative inspectors | |
| `PlotPath`, `MCPlotPath` | from a types file to a displayed record | `SizeRules`, `TypeInspectors` |
| `BufferAssembler` | the assembler's map, one operator per member function | `RawDataDecode` |
| `IpcClient`, `MCIpcClient` | the viewer's plot handlers | `BufferAssembler` |
| `BufferProofs` | theorems about these: what resolves, what the size rules admit, and what is shown | `IpcClient`, `PlotPath` |
| `MessageStream`, `MCMessageStream`, `MessageStreamProofs` | the byte stream and both readers; implements `FramedChannel` | |
| `BridgeSession`, `BridgeSessionProofs` | bridge, Python queue and viewer handlers over one connection | |
| `DebuggerThread` | the debugger's thread and the windows it launches | |
| `AgentEndpoint`, `AgentEndpointProofs` | the debugger's agent endpoint and its MCP clients | `DebuggerThread` |
| `AgentServer`, `MCAgentServer`, `AgentServerProofs` | the viewer's server, authentication and pacer | |
| `ViewerFrame`, `ViewerFrameProofs` | one frame of the viewer | |
| `Discovery`, `DiscoveryProofs` | viewers that publish and a client that looks them up | |
| `Settings`, `MCSettings`, `SettingsProofs` | windows over one settings file; implements `SharedFile` | |

`FramedChannel` and `SharedFile` are the abstract specifications; the modules named
`...Proofs` hold the theorems about the module they extend. Every definition
named `Bug_...` is a plausible mistake in the definition it stands before, with which
the properties are tested; no specification uses it. `PROJECT.json` maps each
definition to the lines it models.

### RawDataDecode, BufferReaders, SizeRules

A geometry is a record `[width, height, channels, stride, type]` of integers as the
wire carries them. `SIZE_MAX`, `MAX_BUFFER_BYTES`, `IntBits` and the display limits are
constants, so that a few bits can stand for `int`, `size_t` and the 16 GiB ceiling; the
run takes the 64-bit order of the three. `ContentsAccepted` and `BeginAccepted` are what
the two wire paths check, `StbAccepted` and `NpyAccepted` what the file loader does,
`RecordBytes` what `make_buffer_record()` does to the payload's length,
`ConfigureAccepts` what the renderer checks afterwards, `handle_get_buffer` and
`decode_buffer` the agent's side.

`BufferReaders` gives, for each reader, the elements it reads, computed in `int` as the
code does, and where the tiles and labels are put. Placement works in half pixels around
the image's centre, so it is integer arithmetic; the rounding of `float` is not modelled.

Five limits of the code the properties state as their conditions:

* Past `INT_MAX` elements `Buffer` and `BufferValues` compute a wrapped index, and
  `oid_plot_buffer()`'s product wraps, so that complete buffers may be refused and short
  ones forwarded. `EveryPixelInside` and `BridgeAgreesWithViewer` are about what an
  `int` counts.
* The file loader does not check its `size_t` product; that it fits is a fact about
  64-bit builds (`FromFile`).
* An image of odd size that takes several tiles is drawn with a half-pixel seam: all
  tiles but the last are half a pixel off (`InPlace`).
* A `.npy` file over the loader's limit (512 MiB) is refused, also one the viewer itself
  exported: `ReadBack` says an export loads exactly when header and pixels are within
  `MAX_OPEN_FILE_BYTES`. It is about size, shape, element type and the place of each element;
  the channel order and the transposition are not in the file, and an export that was cut short
  by a failed flush (`buffer_export_core.cpp:305`) is not modelled.
* A buffer whose last row is trimmed is displayed, but the MCP server's `decode_buffer()`
  raises on it; `ReadBack` is about full rows, which is what this repository's senders
  send.

### TypeInspectors, PlotPath

`declarative.py` reads a types file twice: `_validate_entry()` decides whether an entry is
loaded, `_resolve_node()` later evaluates it. A JSON value is a record tagged with its
shape; a string is what the readers tell apart (its placeholders and whether it is an
expression, a bare placeholder, a decimal, a dtype, a layout, a regex). Resolving a node
yields a set of outcomes, one for each way the debugger may answer: a value, an entry
error, an error that is the debugger's, or a crash on the JSON. `avoidable` marks a failure
that validation could have seen. Both readings recurse over the value, and are recursive
functions on `Json`, the values that occur; `JsonAssumption` says of it what any file's
values satisfy: a part of a value is one of them, and less deep (`Depth`). Several matching
entries are a choice among them, as which regex matches is a matter of the symbol. The
debugger's answers are external: any integer of
`DebuggerInts`, something that is no integer, or an error. On GDB `int()` of a struct raises
`gdb.error`, which `except (TypeError, ValueError)` does not catch, so it also leaves
`first_valid`; the model has it. A JSON `Infinity` as `transpose` (an `OverflowError`) is not
among the enumerated values.

`PlotPath` goes on with the metadata: the debugger reads `get_buffer_size()` bytes,
`oid_plot_buffer()` narrows the numbers to `int` and checks the size, and the record is
subject to the properties of `SizeRules` (`PathSpec`). Those also range over every geometry and byte
count another peer or a file may claim, which are initial states of their own.

### BufferAssembler, IpcClient

`in_progress` is `in_progress_`. The bytes of an entry are kept per row, since
chunks are whole rows of one size: a row holds the number of the plot whose chunk
was copied into it, or `ZeroFill`. `records` is the buffer model by name.
`poll()` handles one message at a time on one thread and the stream is FIFO with
one sender, so an action is the sending and handling of one message. The
repository has only the receiving half of the row-strip protocol; the sender is
external, may claim anything in the constants' sets, and may abandon a transfer by
beginning another, but does not go on with a transfer it abandoned. `wire` is
its account of what it sent (a history variable: no handler reads it, except for
the number stamped on a chunk's rows and for `open`, the sender's discipline).

| Action | Code |
|---|---|
| `handle_plot_buffer_begin/chunk/end/contents` | the handlers of those names in `ipc_client.cpp` with `BufferAssembler` and `upsert()` |
| `BeginOutOfMemory` | `begin()`'s vector throws, `poll()` catches `bad_alloc`; only under the names of `OOMNames` |
| `remove` | the buffer list's Delete key |

A BEGIN lost to `bad_alloc` leaves the older transfer of that name open
(`buffer_assembler.cpp:78`): the new transfer's chunks then fill the old entry's missing rows
and its END shows the mixture under the old geometry. That is why `NeverMixed` and
`NoRollback` are about the names outside `OOMNames`; clearing the entry before allocating
would let them hold for all. `NoUnwrittenRow` holds for all names as the code is.

`size` of a record is the length `make_buffer_record()` leaves of the payload.
`ShownIsDrawable` joins the handlers to the renderer: by whichever message a buffer came,
`Buffer::configure()` takes it, so no component goes on drawing the span of the record that
was replaced, and its channel order is one the renderer has.

### MessageStream, FramedChannel

The stream byte by byte, with a small base for a byte: `MessageComposer` and `MessageDecoder`
for every message type, the viewer's `poll()` and the bridge's
`try_read_incoming_messages()` as two readers, and the transport's partial arrival, timeouts,
end of stream and failed allocation. `todo` is the rest of the reads a handler makes.

`ViewerReads` and `BridgeReads` are what the handlers of each end read after a header,
`BridgeWrites` and `ViewerWrites` what the composers at the other end push; both are
translated from the code, and nothing in the model makes them agree. `MessagesAssumption` says
only that a peer's messages are composed by one of these (for the messages the bridge never
sends, by a debugger extension of which the repository has the reading half,
`ExtensionWrites`), of numbers that fit their width. The composers of `SESSION_STATE_CHANGED`
and `EXPORT_BUFFER_REQUEST` are left out: no code but their tests calls them, and the bridge
reads neither.

The refinement maps `broken` to `desynced`: a message given up in the middle. Nothing marks
the start of a message on the stream, so after that anything may be read; this holds for a
timeout, for a refused length and for an unknown header alike, and the property says so. The
blocking `asio::write` (a peer that never reads) is not modelled.

### BridgeSession

One window session, from the connected window on. The debugger thread is idle, in
`get_observed_symbols()`'s read ("fetch") or in the event loop's read ("loop");
each message read, each callback and each viewer handler is a step. A buffer's
content is the number of the stop at which the program's memory was read. The
socket is loopback: what one side has sent, the other finds in `has_data()`; how
long the viewer takes to *handle* a message is unconstrained, and with
`ViewerSlow` it may outlast the bridge's 3 s. The order in which one stop
handler queues the plots of the observed buffers is immaterial and fixed.

A late answer is stored and taken for the next stop's (`oid_bridge.cpp:345`): a fetch ends as
soon as nothing more is buffered, for instance after a user request that came first.
`FreshAfterStop` is therefore about stops whose handler got its own answer. A queued
callback is a symbol, whose buffer is to be plotted, or the event loop; no symbol may be named
like the loop's token or like the "none" of a handler that returned
(`SessionAssumption`).

### DebuggerThread, AgentEndpoint

`DebuggerThread` is everything that runs on the debugger's thread: stop and exit handlers,
the callback queue, launch (`posix_spawn`, `waitForStart()`, the 10 s accept), the readiness
loop and relaunch. Each launch makes a new native handle. `oid_cleanup()` frees the bridge but
Python keeps the handle, so a call through it is undefined behaviour: it has no effect,
answers anything, or ends the debugger (`dpc = "aborted"`). A window is a process that starts,
connects and may end at any moment; what it says once connected is `BridgeSession`'s.

`WindowFailed` names the states in which the stop handler waits for a window that will not
come (`events.py:43` has no way out): the child did not start, is gone, or connected after
accept had given up. `HandlerReturns` and `PlotsRun` make that exception and no other.

`AgentEndpoint` adds `agentendpoint.py` and the MCP servers. A request that needs the debugger is
queued as a task; its serving thread waits 15 s and reads the stop generation only after the
task is done. A task that timed out still runs later. An MCP server makes one call at a time
on a connection of its own and caches buffers by the generation its ping returned.

### AgentServer

One record per connection (its thread's place, its `io_context`, its reply), the
queue, the main thread and the accept thread. A step is what a thread does between
two points another can see: a locked block, an atomic, an `io_context` call. asio is
external: `run()` returns when the handler ran, when the context is stopped, or out
of time; `restart()` clears a stop; a `run()` on a stopped context returns 0.
A read is part of a frame, a whole request or garbage. Slots are reused, so
behaviours are unbounded. The drain loop after a bounded operation may leave early when a
second `ctx.stop()` falls between `restart()` and `run()` (`agent_server.cpp:126`); the handler
is then destroyed with its context without running, so nothing dangles.

### ViewerFrame

One thread, in the order of `pc`: poll, agent requests, opened files, the list row by row,
toolbar, canvas, status bar, export. What interleaves is the outside: plots, agent requests
(also while `pace()` waits), keys and clicks, and which GL calls fail. A record's bytes are the
number of the plot that brought them; `upsert()` and `remove()` free the record behind a Stage's
span. `used` is the set of plots whose bytes the last step read. `IsolationKept` speaks of
buffers that still have the isolated channel; when a replot has fewer, the shader falls back to
the first. `set_view` of a buffer whose Stage cannot be built selects it and is then refused.
The zoom, centre and rotation of a view are left out.

`textures` is the GL context's table: the names in use and the plot under each. A Stage keeps a
name in `buff_tex` (its tiles counted as one texture), a thumbnail in its entry. The driver may
hand out any name that is not in use, or with `LowestFirst` the lowest, as drivers do; nothing
tells it that somebody still remembers a deleted one. Within a `sync()` names are deleted and
issued in the order of the list (`Turn`, `Deleted`, `Issues`): an update deletes what the Stage
holds, then compiles, then makes new textures, and the Stages of removed buffers are destroyed
last. An update whose shader does not build stops after the deletion (`buffer.cpp:124-133`): the
Stage keeps the deleted names, draws by them and deletes them again, whoever owns them by then.
An update fails only where `create_shader_program()` compiles at all, when channel count or
layout changed since or when the last build did not link (`Program`, `Rebuilds`; a Stage whose
last build did not *compile* is taken for built, and the model, which does not keep which of the two
it was, admits both). `shader_failed` remembers that this happened, also on a change of layout, whose
result nobody looks at (`buffer.cpp:475`, `494`). `RevisionMeansContent` ends there.

`ThumbnailsCatchUp` has three ends for a row: its thumbnail shows the record on display; its
render failed at this revision with no former picture to fall back on, so that it is blank and
stays so until the next plot, as the code does not try again (`thumbnail_cache.cpp:60`,
`114-118`); or a shader has failed to rebuild somewhere. There are no more blank rows than
failures.

### Discovery

Each file operation of `write_discovery_atomic()` and of the reader is a step. A viewer is
named by the number of its launch, which stands for port, token and start time; pids are
reused. `PowerLoss` drops what was not synced. `LiveIsDiscoverable` has one exception, `raced`:
`_reap()` unlinks by path, so a viewer that takes over a dead one's pid and publishes while a
call holds what it read under that pid, in hand or among its entries (`Held`), may lose its file.
`LookupReachesLive` is about calls during which no pid was reused at all (`reuse`), and `failed`
about those that end with `NoSessionError`: a call that is connected to and then reset or timed
out ends elsewhere, and what it then reports is not modelled. Files a reader may not unlink are
`Unremovable`. A port that another process took over, and the ownership and mode checks of the
directory, are not modelled. It is the viewer's POSIX writer that is modelled: its Windows branch
(`discovery_file.cpp:258`) and the debugger's endpoint publish without a flush to disk, so
`NeverTorn` says nothing of them after a machine crash.

### Settings, SharedFile

Windows that load the file, run frames, and save through a temporary file after a debounce,
and once more when they are closed. Of the preferences the model keeps the window's size,
which the loader may refuse, and the list of buffers to restore, as a function from symbols to
the second their entry expires; the list's order is not kept.

A save is four steps: open (which truncates), `os << json` with the test of the stream, the close
by the stream's destructor, rename. Until the close the temporary file is `Partial`, as the
bytes are in the stream's buffer. An open or a write that fails is noticed, and the
temporary file removed (`WriteFails`); a close that fails is not (`CloseFails`): the window is
`torn`, and the rename puts the partial file over the good one. `SharedFile` has the same
exception, `lost`, and no other.

A save that fails clears the dirty flag like one that succeeds, so `SessionRemembered` excludes a
window whose last save failed, noticed or not; one that failed before has to be made good. With
two windows the last writer wins, so it speaks of a window that was alone. A buffer that is
plotted and deleted within one frame is never seen by the session, and its entry of the former
session survives. Crashes are of processes: the store does not `fsync`, so after a machine
crash the file may be empty and the defaults apply; that is not modelled. Neither is the
non-native scope (wasm).

## Runs

| Run | Checks | Bounds |
|---|---|---|
| `plot_path` | `EveryPixelInside`, `PixelsInPlace`, `DeliveredImpliesConfigure`, `BridgeAgreesWithViewer`, `ReadBack`, `ValidatedResolves` | sides up to 6 around a limit of 5 and tiles of 2, channels up to 3 around 2, every element size, `size_t` of 6 bits, ceiling 40, files to 36, agent's cap 17, `int` of 6 bits; a sound types entry with any field replaced by any node up to depth 2 |
| `plots` | `TypeOK`, `NeverMixed`, `NoUnwrittenRow`, `ShownIsDrawable`, `DeliveredIffComplete`, `NoRollback` | two names, one of which may lose a BEGIN; three plots, five declarations (padded, two-channel with good and bad layout, doubles, wrong total), whole payloads too short, exact and too long, every chunk claim up to one past the last row |
| `framing` | `FifoUntilDesynced` (refines `FramedChannel`), `EveryMessageRead` | two messages in either direction, one given up in the middle |
| `session` | `FreshAfterStop`, `NewestRequestShown` | two symbols, two stops, two requests, one removal, one buffer to restore, slow viewer, closing window |
| `session_restore_burst` | `RestoredReappear`, **violated** | two buffers to restore |
| `debugger` | `OneLiveWindow`, `ClientAsserted`, `LoopPerLaunch`, `SlotsAreServed`, `FetchNotOlder`, `HandlerReturns`, `PlotsRun`, `RequestAnswered` | two stops, one exit, one plot, one client, two requests, slow and failing windows |
| `debugger_stale_cache` | `FetchIsCurrent`, **violated** | the same without exits |
| `agent_server` | `RequestOwned`, `DeadlineSparesGreeted`, `NoLostWake` | three peers for two slots, all inputs, connections symmetric |
| `agent_live` | `StopReturns`, `RequestAnswered`, `SilentPeerFreed` | two connections, partial frames and hello |
| `viewer` | `SpanLive`, `RevisionMeansContent`, `IsolationKept`, `ThumbnailsCatchUp` | one symbol, one file, one or three channels, three plots, agents that select, show all or isolate the second channel, four texture names, the lowest first, one GL failure |
| `discovery` | `NeverTorn`, `LiveIsDiscoverable`, `LookupReachesLive`, `LookupReturns` | two pids, one with a file that cannot be removed, three launches, one machine crash |
| `settings` | `SessionRemembered`, `FileIsAtomic` (refines `SharedFile`) | two windows, one symbol, one file, sizes 0 and 200, lease and debounce of 2 s, three seconds, three starts, three changes, one failed call; the windows symmetric |

Why the bounds are enough. A size rule changes at the limits, at a tile's edge, at the
ceiling and where a product leaves `int` or `size_t`; each lies inside the ranges with
values on both sides. A resolver meets a node inside at most one other of each kind. A mix-up
in the assembler needs two transfers of a name and a third to make "newer" and "older"
differ; rows beyond two behave like the second. Two messages are the least at which the rest
of one is read as the next. In a session two stops separate an answer from a stale one, and
two symbols are the least at which a one-element slot overflows. A relaunch needs two
stops, a freed handle one exit, a stale cache two requests. In the server two clients are
the least at which one blocks another, and a third peer meets the limit. A thumbnail budget
of one per frame is contended by two buffers, and a replot after a failed render is the third
plot. Two Stages and two thumbnails hold four texture names, which makes every one that is deleted
the next that is issued when the lowest goes first; a driver that chooses freely is the theorem's
matter. Two channel counts, one of them without the isolated channel, are what a shader that has to
be rebuilt and a layout that falls back take. A reused pid needs two launches, and a third viewer to be hidden by the stale entry. A
buffer waiting to be restored, another session that lets it wait and a third that reads it
are three starts. The bounds named `Max...` bound only how often the outside acts, except
`MaxTime`, which bounds the clock.

Deadlock is not checked where the system may rightly stop: a sender that is done (`plots`,
`framing`), a debugger that ended or waits for a window that failed (`debugger`), a stopped
server, viewers that are never started again (`discovery`, `settings`).

### What the violated runs show

* **A restore burst overwrites itself** (`oid_bridge.cpp:290`). The bridge keeps one message per
  type. Of two requests sent back to back one survives, and `restore_requested_` keeps the
  viewer from asking again, although `main.cpp:902` says that former buffers reappear.
* **A stop that is not announced** (`events.py:55`). `stop_handler()` calls `notify_stop()` last,
  after `get_available_symbols()`, which raises in gdb when the frame has no block. The stop
  generation then stays what it was, and the MCP server's per-stop cache answers with the
  pixels of the stop before, although `server.py:220` calls it the current one.

### What two properties make an exception of

* **A settings save that is cut short** (`settings_store.cpp:290`). The stream is tested before it is
  flushed; if the flush in its destructor fails, as on a full disk, the truncated file is renamed over the
  good one and the next start loads the defaults, although `settings_store.h:75` says `save()`
  writes atomically. `discovery_file.cpp:232` checks its `close()` for this. Without the action
  `CloseFails` the exception of `SharedFile` is never used; with it, a file that is never partial is
  not what the code gives.
* **A shader that does not rebuild** (`buffer.cpp:124`). The update has deleted the textures by then and
  keeps their names; `sync()` records the revision regardless, so the Stage passes for rebuilt, draws by
  names that are gone or belong to another Stage or thumbnail, and later deletes those, although
  `stage_manager.cpp:102` speaks of recording the revision of a rebuilt buffer. The model goes on
  after that failure, with wrong pixels; `RevisionMeansContent` does not. Recording the revision
  only on success, and clearing `buff_tex_` with the textures, would let it hold throughout.

### Fairness

All of it is weak fairness, of the thread that the code keeps running.

* `BridgeSession`: the debugger's thread (queued callbacks keep running, reads have timeouts,
  the clock passes the event loop's waiting time) and the viewer's handlers (it polls each
  frame). Nothing obliges the program to stop again, the user to act, or the window to stay open.
* `AgentEndpoint`: a handler goes on, the queue is drained, a window that was started and is not
  killed connects, and a serving thread's wait ends with its task or its 15 s.
* `AgentServer`: each thread and the clock; peers owe nothing. Replies are written without a
  timeout, also before hello, so `SilentPeerFreed` makes an exception of a peer that never takes
  its reply; such a peer keeps its slot until `stop()`, and `StopReturns` covers it.
* `ViewerFrame`: the frame loop. `MessageStream`: bytes in flight arrive and the reader is
  called. `Discovery`: the MCP server's thread. `IpcClient`, `PlotPath` and `Settings` assume none.

## Theorems

Each theorem holds for every value of the constants that the named `ASSUME`s of the model
admit: any names, pids, connections, clients, limits and sizes, and any number of stops,
plots, launches, requests or failures. The proofs assume nothing else. Where a theorem states a
property that a run checks, the run came first, and the inductive invariant was itself
model-checked with the bounds of that run before it was proved (but for
`MessageStreamProofs`, whose invariant quantifies over all sequences of bytes).

| Module | Theorem | Statement |
|---|---|---|
| `BufferProofs` | `TypeCorrect` | `Spec => []TypeOK` |
| | `NoUnwrittenRows` | `Spec => []NoUnwrittenRow` |
| | `WholeBuffers` | `Spec => []NeverMixed` |
| | `NeverRollsBack` | `Spec => NoRollback` |
| | `DeliveredExactly` | `Spec => DeliveredIffComplete` |
| | `Drawable` | `Spec => []ShownIsDrawable` |
| | `InspectorsResolve` | `PathSpec => []ValidatedResolves` |
| | `DeliveredConfigures` | `PathSpec => []DeliveredImpliesConfigure` |
| | `BridgeAgrees` | `PathSpec => []BridgeAgreesWithViewer` |
| | `EveryRead` | `PathSpec => []EveryPixelInside` |
| | `InPlaceEverywhere` | `MAX_TEXTURE_SIZE % 2 = 0 => (PathSpec => []PixelsInPlace)` |
| | `ReadsBack` | `PathSpec => []ReadBack` |
| `MessageStreamProofs` | `FramesKept` | `Spec => FifoUntilDesynced` |
| `BridgeSessionProofs` | `FreshOnceQuiet` | `Spec => []FreshAfterStop` |
| `AgentEndpointProofs` | `OneWindow` | `Spec => []OneLiveWindow` |
| | `BridgeHasClient` | `Spec => []ClientAsserted` |
| | `LoopForEachLaunch` | `Spec => []LoopPerLaunch` |
| | `SlotsServed` | `Spec => []SlotsAreServed` |
| | `FetchIsNotOlder` | `Spec => []FetchNotOlder` |
| `AgentServerProofs` | `RequestsOwned` | `Spec => []RequestOwned` |
| | `DeadlineSpares` | `Spec => []DeadlineSparesGreeted` |
| | `WakeIsKept` | `Spec => []NoLostWake` |
| `ViewerFrameProofs` | `SpanAlwaysLive` | `Spec => []SpanLive` |
| | `UpToDateIsRight` | `Spec => []RevisionMeansContent` |
| | `IsolationSurvives` | `Spec => []IsolationKept` |
| `DiscoveryProofs` | `FilesAreWhole` | `Spec => []NeverTorn` |
| | `LiveStaysDiscoverable` | `Spec => []LiveIsDiscoverable` |
| | `LookupSucceeds` | `Spec => []LookupReachesLive` |
| `SettingsProofs` | `RenamesOwn` | `Spec => [](TypeOK /\ RenamesSnapshot)` |
| | `FileAtomic` | `Spec => FileIsAtomic` |
| | `Remembered` | `Spec => []SessionRemembered` |

Why the properties need more than themselves:

* **IpcClient.** `NoUnwrittenRow` needs `ReceivedWritten`, that a row of an open transfer
  marked received was written by some chunk. `NeverMixed` needs that a received row was
  written by the entry's own transfer (`ReceivedOwn`), that while the sender has a transfer
  open, an entry under its name is that transfer (`EntryIsOpenTransfer`, what `begin()`'s
  dropping on refusal is for), and that nothing shown is newer than the sender's last plot of
  the name (`ShownNotAhead`), which also gives `NoRollback`. These are about names outside
  `OOMNames`. For `DeliveredIffComplete` what the assembler holds under an open name must be what the sender
  may count on: its transfer with just the rows it sent, if none of its messages was refused, and
  nothing otherwise (`Agreement`). `RecordsStep` and `EntriesStep` say once what
  a step can do to a record and to an entry. `Drawable` joins the two halves of
  `BufferProofs`: a transfer that END delivers was one `begin()` took, hence of the padded size
  (`PaddedHolds`), a whole payload passed `geometry_fits_payload()` (`FitsHolds`), and either way
  the renderer takes the record (`HeldIsConfigured`).
* **TypeInspectors.** `InspectorsResolve` holds for every file, of whatever depth. First, that
  the two recursive readings define anything has to be proved: each reads a value's parts only
  (`ReadingLocal`), so a reading of the values up to some depth is unique and extends to the next
  depth, and together these are a reading of all (`ReadingDefined`), which then satisfies its own
  equation (`ValidationIs`, `ResolutionIs`). That a value that validates for a field
  resolves soundly (`ValidIsSound`) is then shown by induction on its depth, the induction being
  over a set of numbers closed under successor (`Inductive`). Its leaves rest on the
  placeholders: what `_DERIVED_BY_STAGE` lets a field mention is resolved by then, as a number
  (`Known`). The state's part of the argument is `Resolution`: the fields are the first of
  `RESOLUTION_ORDER`, each of its type, and the entry is one that was loaded.
* **SizeRules.** These are facts about one claim, an integer geometry and a byte count
  (`Claim`), which is an invariant of `PathSpec` because an integer field of the metadata is a
  number (`Resolution`) and what is narrowed is one. The middle term is `HoldsPixels`: each way a buffer can come
  guarantees that it holds the bytes of every pixel that can be addressed, and that suffices
  for the renderer, the readers and the agent. The rest is arithmetic: checked products
  (`CheckedTimesOK`, `DivGeq`), and that an element count below `2^(IntBits - 1)` is not changed
  by `ToInt`. The provers know no exponentiation, so `2^n` is reasoned about as the number of
  subsets of `1..n` (`PowerCounts`, `PowerDoubles`). `InPlaceEverywhere` is about even tile
  sizes; in the source it is 2048, and with an odd one every tile would be half a pixel off.
* **MessageStream.** As long as no message was given up in the middle (`InStep`), the bytes
  sent and not yet dispatched are those the reader has taken of its current message, those in
  the socket and those in flight; they are the frames not yet delivered; and what is left of
  the first of them (`Left`) is what the reads still to do can take, each announced length
  being that of the bytes behind it (`Fits`). The core is that this stays so when one more
  byte is read: the last byte of a length turns the item that was read into the bytes or
  strings it announces (`SaidAll`, `PieceRead`, `LeftRead`). It rests on two facts about the
  encoding: a number is read back as it was written (`Roundtrip`, `CountKept`), and each
  handler reads the fields its composer writes, in their order (`LayoutsAgree`). What
  `FlattenSeq` makes of a list of pieces is shown by induction over their number, which the provers
  allow in this form: a set of numbers closed under successor has no least
  number outside it (`Inductive`). A handler that left one field unread, or a length written in
  another width than it is read in, would break `LayoutsAgree` or `Said` first.
* **BridgeSession.** A stop's question is asked once and everything plotted for an earlier stop
  precedes it on the stream (`Asked`). So when the viewer answers it, the answer names
  every buffer on display that is not of this stop, and keeps doing so on its way and in the
  bridge's slot (`Answered`); once it is taken, those buffers in scope are queued or on their
  way (`Taken`). When nothing is queued and nothing is on its way, none is left.
* **AgentEndpoint.** Five invariants, each for its property: the windows that still run and
  were not told to end belong to the present handle (`WindowsInv`); queued plots go to connected
  handles (`Queued`); the loops in the queue are as many as the launches, less one under
  way (`LoopsInv`); a stop's generation is announced no earlier than the stop
  (`NotifiedInv`); and bytes waiting, cached or served under a generation are not older than
  the stop it was announced at (`BytesInv`), which needs that requests have numbers of their
  own (`NumbersInv`), so that an answer cannot be taken for that of another request.
* **AgentServer.** `Owned`: a request is at most once in the queue or in the batch, and its thread
  then waits without a reply. `Announced`: a request whose `wake()` is over has its
  wake-up counted until the main thread takes the queue. `Sound` relates a connection's place to
  its reply, its reason to end and its `greeted` flag. That at most `MAX_CLIENTS` threads
  serve bounds the queue.
* **ViewerFrame.** A Stage whose revision is that of the record under its name looks into that
  very record (`StageHolds`). That survives a delete and a replot because a revision is never
  handed out twice (`Listed`, `PictureHolds`). What the last step read is then on record
  (`OnRecord`). For the pixels it must be shown besides that, until a shader fails to rebuild, no
  two Stages or thumbnails hold one texture name and every name held is in use (`Apart`): then
  what is deleted, drawn or uploaded in one place touches nobody else's texture, and what lies
  under the names follows (`TexturesHold`). Within a `sync()` this is an argument over the turns of
  the list: a name issued at a turn is in use from there on, as only the Stages' own former names are
  deleted (`Issued`, `Uploaded`).
* **Discovery.** A file is synced before it is renamed (`WholeInv`). A live viewer's file is
  its own (`FileInv`); pids of processes that have not published are unknown to the reader
  unless they were reused (`FreshInv`, `UsedInv`); the entry in hand is that of the viewer
  that serves (`EntryInv`); a reaped path stays unused while no pid changes hands
  (`ReapInv`); and a viewer that serves throughout a call is still to be read or among the
  entries (`ReachInv`). The newest entry is found by well-founded induction's minimum.
* **Settings.** What a window renames is the snapshot it is saving, or a partial file if its own
  close failed (`RenamesSnapshot`), from which the refinement of `SharedFile` follows step by step. `SessionRemembered` needs that
  nobody else runs while a window is alone (`AloneExcludes`), and for each window that the
  inputs of the merge, its copy and the file are each worth what is owed (`Kept`), where two
  expiry times are worth the same when they are equal or both over (`SameLease`).

Only model-checked are the liveness properties, `NewestRequestShown`, `StopReturns`,
`RequestAnswered`, `SilentPeerFreed`, `HandlerReturns`, `PlotsRun`, `ThumbnailsCatchUp`,
`EveryMessageRead` and `LookupReturns`: the proof system does not reason about `ENABLED`, hence
not about fairness. Every invariant and every other action property of the passing runs is
proved.

## Not modelled

* Camera, glyphs, shaders, the GL canvas and ImGui layout: floating point and external calls.
  `src/src/thirdparty` (the Khronos headers alone are over two fifths of the repository's
  implementation lines), the generated loader, the test bench's sample types and the image
  codecs are not this program's logic. The mapped lines are about a tenth of all
  implementation lines (`.cpp`, `.h`, `.py`), one in seven of those outside third-party code and one in
  five when the tests are left out too; what remains there is mostly drawing, wiring, parsing of
  text and constants.
* The debuggers' symbol walks, the text of regexes and expression templates, and inspectors
  users write in Python.
* LLDB's own event thread, the Windows implementation of `Process`, the wasm host.
* The callbacks of `APPLY_SESSION_STATE` and `EXPORT_SELECTED_BUFFER` (their reads are in
  `MessageStream`); the listings of `list_buffers` and `get_view`.
* The MCP server's analysis tools (numpy, PNG).
* What the properties make an exception of, though the models have it: a stop whose handler did
  not get its own answer (`FreshAfterStop`), a window closed before it showed a request
  (`NewestRequestShown`), a peer that never takes its reply (`SilentPeerFreed`), a window that
  failed (`HandlerReturns`, `PlotsRun`), a file reaped in a race (`LiveIsDiscoverable`), a last
  save that failed (`SessionRemembered`), and counts past `INT_MAX` (`EveryPixelInside`,
  `BridgeAgreesWithViewer`). A plot that is retried after its time-out runs twice.
* Machine crashes for settings, port reuse for discovery, a peer that never reads for the
  bridge's blocking writes.

## Plan

1. More action properties with proofs: that a reply once written is not written again
   (`AgentServer`), that a fetched answer is never taken twice (`BridgeSession`).
2. Further modelling: LLDB's event thread against the stop handler, and the Windows `Process`.
