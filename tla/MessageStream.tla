--------------------------- MODULE MessageStream ---------------------------
(***************************************************************************)
(* The wire between debugger and viewer, byte by byte: MessageComposer and *)
(* MessageDecoder (ipc/message_exchange.h) over AsioTransport, read by     *)
(* IpcClient::poll() on the viewer's side or by OidBridge's                *)
(* try_read_incoming_messages() on the debugger's.                         *)
(*                                                                         *)
(* side says which of the two readers the behaviour is about.  A message   *)
(* is a header followed by fields whose lengths are part of the stream;    *)
(* nothing delimits it.  Numbers are little-endian in two bytes of base    *)
(* Base, standing for the 4-byte enums and ints and the 8-byte sizes.      *)
(*                                                                         *)
(* todo is what the decoder has still to read of the message it is in: the *)
(* rest of the reads its handler makes, in order.                          *)
(***************************************************************************)
EXTENDS Integers, Sequences, SequencesExt

CONSTANTS Base,              \* values of a byte
          MAX_STRING_BYTES, MAX_BUFFER_BYTES,
          INT_MAX,           \* of the int a count of strings is cast to
          ToViewer, ToBridge,\* messages the peers send
          MaxMessages,       \* bound on messages sent
          MaxStalls          \* bound on messages given up in the middle

ASSUME StreamAssumption ==
    /\ Base \in Nat /\ Base > 12
    /\ MAX_STRING_BYTES \in Nat /\ MAX_BUFFER_BYTES \in Nat
    /\ INT_MAX \in Nat /\ MaxMessages \in Nat /\ MaxStalls \in Nat

VARIABLES
    side,          \* "viewer" or "bridge": whose reader this is
    sent,          \* the frames the peer has sent
    in_flight,     \* bytes sent, not arrived
    socket,        \* bytes arrived, not received: has_data() looks here
    peer_closed,   \* the peer closed its end after what it sent
    reading,       \* the reader is inside its loop
    todo,          \* what the decoder has still to read of this message
    prim,          \* bytes of the number being read
    got,           \* bytes read of this message
    delivered,     \* the frames dispatched
    desynced,      \* a message was given up after part of it was read
    stalls,        \* messages given up in the middle so far
    disconnected   \* AsioTransport::disconnected_

vars == <<side, sent, in_flight, socket, peer_closed, reading, todo, prim, got,
          delivered, desynced, stalls, disconnected>>
readerVars == <<todo, prim, got, delivered, desynced, stalls>>

-----------------------------------------------------------------------------
(* The encoding *)

GET_OBSERVED_SYMBOLS == 0
GET_OBSERVED_SYMBOLS_RESPONSE == 1
SET_AVAILABLE_SYMBOLS == 2
PLOT_BUFFER_CONTENTS == 3
PLOT_BUFFER_REQUEST == 4
APPLY_SESSION_STATE == 6
EXPORT_SELECTED_BUFFER == 8
BUFFER_REMOVED == 9
PLOT_BUFFER_BEGIN == 10
PLOT_BUFFER_CHUNK == 11
PLOT_BUFFER_END == 12

PrimBytes == 2
Encode(v) == <<v % Base, v \div Base>>
Decode(b) == b[1] + Base * b[2]
AsInt(v) == LET w == v % (2 * (INT_MAX + 1)) IN IF w > INT_MAX THEN w - 2 * (INT_MAX + 1) ELSE w

\* MessageComposer::push() of one field: a number, a string or a buffer with
\* its size before it, a list of strings with its length before it.
Push(f) ==
    CASE f.kind = "prim" -> Encode(f.value)
      [] f.kind \in {"string", "buffer"} -> Encode(Len(f.value)) \o f.value
      [] f.kind = "strings" ->
            Encode(Len(f.value))
            \o FlattenSeq([i \in DOMAIN f.value |-> Encode(Len(f.value[i])) \o f.value[i]])

\* MessageComposer::send(): one contiguous frame, one write.
Frame(m) == Encode(m.type) \o FlattenSeq([i \in DOMAIN m.fields |-> Push(m.fields[i])])

\* The reads each handler makes after the header.
Name == <<"string">>
Described == <<"string", "string", "string", "prim", "prim", "prim", "prim", "prim", "prim">>
ViewerReads ==
    [type \in {SET_AVAILABLE_SYMBOLS, GET_OBSERVED_SYMBOLS, PLOT_BUFFER_CONTENTS,
               PLOT_BUFFER_BEGIN, PLOT_BUFFER_CHUNK, PLOT_BUFFER_END,
               APPLY_SESSION_STATE, EXPORT_SELECTED_BUFFER} |->
        CASE type = SET_AVAILABLE_SYMBOLS  -> <<"strings">>
          [] type = GET_OBSERVED_SYMBOLS   -> <<>>
          [] type = PLOT_BUFFER_CONTENTS   -> Described \o <<"buffer">>
          [] type = PLOT_BUFFER_BEGIN      -> Described \o <<"prim">>
          [] type = PLOT_BUFFER_CHUNK      -> Name \o <<"prim", "prim", "buffer">>
          [] type = PLOT_BUFFER_END        -> Name
          [] type = APPLY_SESSION_STATE    -> <<"string">>
          [] type = EXPORT_SELECTED_BUFFER -> <<>>]

\* Mutant of BridgeReads: leaves a removed buffer's name on the stream, as a
\* message "the debugger side does not currently track".
Bug_RemovedNameUnread ==
    [type \in {PLOT_BUFFER_REQUEST, GET_OBSERVED_SYMBOLS_RESPONSE, BUFFER_REMOVED} |->
        CASE type = PLOT_BUFFER_REQUEST           -> Name
          [] type = GET_OBSERVED_SYMBOLS_RESPONSE -> <<"strings">>
          [] type = BUFFER_REMOVED                -> <<>>]

BridgeReads ==
    [type \in {PLOT_BUFFER_REQUEST, GET_OBSERVED_SYMBOLS_RESPONSE, BUFFER_REMOVED} |->
        CASE type = PLOT_BUFFER_REQUEST           -> Name
          [] type = GET_OBSERVED_SYMBOLS_RESPONSE -> <<"strings">>
          [] type = BUFFER_REMOVED                -> Name]

Reads == IF side = "viewer" THEN ViewerReads ELSE BridgeReads

\* The fields each composer pushes after the header: the bridge's; those of the
\* debugger's extension, for the viewer's other messages; the viewer's.
BridgeWrites ==
    [type \in {GET_OBSERVED_SYMBOLS, SET_AVAILABLE_SYMBOLS, PLOT_BUFFER_CONTENTS} |->
        CASE type = GET_OBSERVED_SYMBOLS  -> <<>>
          [] type = SET_AVAILABLE_SYMBOLS -> <<"strings">>
          [] type = PLOT_BUFFER_CONTENTS  -> Described \o <<"buffer">>]

ExtensionWrites ==
    [type \in {PLOT_BUFFER_BEGIN, PLOT_BUFFER_CHUNK, PLOT_BUFFER_END,
               APPLY_SESSION_STATE, EXPORT_SELECTED_BUFFER} |->
        CASE type = PLOT_BUFFER_BEGIN      -> Described \o <<"prim">>
          [] type = PLOT_BUFFER_CHUNK      -> Name \o <<"prim", "prim", "buffer">>
          [] type = PLOT_BUFFER_END        -> Name
          [] type = APPLY_SESSION_STATE    -> <<"string">>
          [] type = EXPORT_SELECTED_BUFFER -> <<>>]

ViewerWrites ==
    [type \in {GET_OBSERVED_SYMBOLS_RESPONSE, PLOT_BUFFER_REQUEST, BUFFER_REMOVED} |->
        CASE type = GET_OBSERVED_SYMBOLS_RESPONSE -> <<"strings">>
          [] type = PLOT_BUFFER_REQUEST           -> Name
          [] type = BUFFER_REMOVED                -> Name]

\* f is a field push() has an overload for, its numbers within their width; a
\* list of strings has no more than an int counts.
Byte == 0..(Base - 1)
Number == 0..(Base * Base - 1)
IsField(f, kind) ==
    /\ f.kind = kind
    /\ CASE kind = "prim" -> f.value \in Number
         [] kind \in {"string", "buffer"} -> f.value \in Seq(Byte) /\ Len(f.value) \in Number
         [] kind = "strings" -> /\ f.value \in Seq(Seq(Byte)) /\ Len(f.value) \in 0..INT_MAX
                                /\ \A i \in DOMAIN f.value : Len(f.value[i]) \in Number

Composed(m, writes) ==
    /\ m.type \in DOMAIN writes
    /\ m.fields \in Seq(Range(m.fields)) /\ Len(m.fields) = Len(writes[m.type])
    /\ \A i \in DOMAIN m.fields : IsField(m.fields[i], writes[m.type][i])

ASSUME MessagesAssumption ==
    /\ \A m \in ToViewer : Composed(m, BridgeWrites) \/ Composed(m, ExtensionWrites)
    /\ \A m \in ToBridge : Composed(m, ViewerWrites)

Item(kind) == [kind |-> kind, bytes |-> PrimBytes]
Raw(n) == IF n = 0 THEN <<>> ELSE <<[kind |-> "raw", bytes |-> n]>>
Header == Item("header")

\* A declared length the decoder refuses before it allocates.
Refuses(kind, v) ==
    \/ kind = "string" /\ v > MAX_STRING_BYTES
    \/ kind = "buffer" /\ v > MAX_BUFFER_BYTES

\* What the decoder reads next, once the number at the head of todo is v.  A
\* header nobody handles has no reads: its payload stays on the stream.
Expand(kind, v) ==
    CASE kind = "header" -> IF v \in DOMAIN Reads
                            THEN [i \in DOMAIN Reads[v] |-> Item(Reads[v][i])]
                            ELSE <<>>
      [] kind = "prim" -> <<>>
      [] kind \in {"string", "buffer"} -> Raw(v)
      [] kind = "strings" -> [i \in 1..AsInt(v) |-> Item("string")]
-----------------------------------------------------------------------------
Init ==
    /\ side \in {"viewer", "bridge"}
    /\ sent = <<>> /\ in_flight = <<>> /\ socket = <<>> /\ peer_closed = FALSE
    /\ reading = FALSE /\ todo = <<>> /\ prim = <<>> /\ got = <<>>
    /\ delivered = <<>> /\ desynced = FALSE /\ stalls = 0
    /\ disconnected = FALSE

Messages == IF side = "viewer" THEN ToViewer ELSE ToBridge

\* The peer: AsioTransport::send() writes the whole frame or fails.
send(m) ==
    /\ ~peer_closed /\ Len(sent) < MaxMessages
    /\ sent' = Append(sent, Frame(m))
    /\ in_flight' = in_flight \o Frame(m)
    /\ UNCHANGED <<side, socket, peer_closed, reading, readerVars, disconnected>>

Close ==
    /\ ~peer_closed
    /\ peer_closed' = TRUE
    /\ UNCHANGED <<side, sent, in_flight, socket, reading, readerVars, disconnected>>

\* The network: bytes arrive in order; what is readable at once may end anywhere.
Arrive ==
    /\ in_flight # <<>>
    /\ socket' = Append(socket, Head(in_flight))
    /\ in_flight' = Tail(in_flight)
    /\ UNCHANGED <<side, sent, peer_closed, reading, readerVars, disconnected>>

has_data == socket # <<>>

\* poll() enters its loop only with data; the bridge waits for a first message.
BeginRead ==
    /\ ~reading
    /\ side = "viewer" => has_data
    /\ ~disconnected
    /\ reading' = TRUE /\ todo' = <<Header>>
    /\ UNCHANGED <<side, sent, in_flight, socket, peer_closed, prim, got, delivered,
                   desynced, stalls, disconnected>>

\* The message is complete: it is dispatched, and the loop goes on if more has
\* arrived.
Dispatched(bytes, more) ==
    /\ delivered' = Append(delivered, bytes)
    /\ got' = <<>> /\ prim' = <<>>
    /\ reading' = more
    /\ todo' = IF more THEN <<Header>> ELSE <<>>
    /\ UNCHANGED desynced

\* An exception leaves the loop; the bytes read so far are gone.
Abandoned ==
    /\ reading' = FALSE
    /\ todo' = <<>> /\ prim' = <<>> /\ got' = <<>>
    /\ UNCHANGED delivered

\* The decoder goes on with what is left to read.
Goes(rest, bytes, more) ==
    IF rest = <<>> THEN Dispatched(bytes, more)
    ELSE /\ got' = bytes /\ prim' = <<>> /\ todo' = rest
         /\ UNCHANGED <<reading, delivered, desynced>>

\* read_impl(): one byte of what receive() returned.
Receive ==
    /\ reading /\ has_data
    /\ socket' = Tail(socket)
    /\ LET byte  == Head(socket)
           bytes == Append(got, byte)
           item  == Head(todo)
           more  == Len(socket) > 1
           v     == Decode(Append(prim, byte))
       IN CASE item.bytes > 1 ->
                 /\ got' = bytes
                 /\ prim' = IF item.kind = "raw" THEN <<>> ELSE Append(prim, byte)
                 /\ todo' = <<[item EXCEPT !.bytes = @ - 1]>> \o Tail(todo)
                 /\ UNCHANGED <<reading, delivered, desynced>>
            [] item.bytes = 1 /\ item.kind = "raw" -> Goes(Tail(todo), bytes, more)
            [] item.bytes = 1 /\ item.kind # "raw" ->
                 IF Refuses(item.kind, v)
                 THEN Abandoned /\ desynced' = TRUE
                 ELSE Goes(Expand(item.kind, v) \o Tail(todo), bytes, more)
    /\ UNCHANGED <<side, sent, in_flight, peer_closed, stalls, disconnected>>

\* The allocation for an admissible length fails: poll() drops the message, whose
\* payload stays on the stream.
OutOfMemory ==
    /\ reading /\ has_data /\ side = "viewer"
    /\ LET item == Head(todo)
           v    == Decode(Append(prim, Head(socket)))
       IN item.bytes = 1 /\ item.kind \in {"string", "buffer"} /\ ~Refuses(item.kind, v) /\ v > 0
    /\ socket' = Tail(socket)
    /\ Abandoned
    /\ stalls < MaxStalls /\ stalls' = stalls + 1 /\ desynced' = TRUE
    /\ UNCHANGED <<side, sent, in_flight, peer_closed, disconnected>>

\* Mutant of TimedOut: waiting in vain counts as a lost connection.
Bug_TimeoutDisconnects ==
    /\ reading /\ ~has_data
    /\ ~(peer_closed /\ in_flight = <<>>)
    /\ Abandoned
    /\ disconnected' = TRUE
    /\ UNCHANGED <<side, sent, in_flight, socket, peer_closed, desynced, stalls>>

\* receive() times out.  Before the first byte of a message this is how the
\* bridge finds that there is none; after it the rest of the message is still
\* to come, and will be read as the next one.
TimedOut ==
    /\ reading /\ ~has_data
    /\ ~(peer_closed /\ in_flight = <<>>)
    /\ Abandoned
    /\ IF got = <<>> THEN UNCHANGED <<desynced, stalls>>
       ELSE stalls < MaxStalls /\ stalls' = stalls + 1 /\ desynced' = TRUE
    /\ UNCHANGED <<side, sent, in_flight, socket, peer_closed, disconnected>>

\* receive() meets the end of the stream: read_impl() throws as for a timeout.
EndOfStream ==
    /\ reading /\ ~has_data
    /\ peer_closed /\ in_flight = <<>>
    /\ Abandoned
    /\ disconnected' = TRUE
    /\ UNCHANGED <<side, sent, in_flight, socket, peer_closed, desynced, stalls>>

Next ==
    \/ \E m \in Messages : send(m)
    \/ Close
    \/ Arrive
    \/ BeginRead \/ Receive \/ OutOfMemory \/ TimedOut \/ EndOfStream

\* Bytes in flight arrive, the reader is called every frame (poll()) or from
\* the event loop, and what is buffered is read at once.
Fairness ==
    WF_vars(Arrive) /\ WF_vars(BeginRead) /\ WF_vars(Receive)

Spec == Init /\ [][Next]_vars /\ Fairness
-----------------------------------------------------------------------------
Channel == INSTANCE FramedChannel WITH broken <- desynced

\* Both readers consume exactly the frames that were sent, in their order,
\* however the network cuts them, for as long as no message is given up in the
\* middle -- by a timeout while the rest of it is still on its way, because a length
\* in it is refused, or for want of memory (poll(), try_read_incoming_messages(), MessageDecoder
\* and MessageComposer agree on every message's layout).  Only then can a frame
\* be dispatched that nobody sent.
FifoUntilDesynced == Channel!Spec

\* Every message sent is read, whole, unless one is given up in the middle: the
\* reader does not stop short of what has arrived, and waiting in vain for a
\* first message costs nothing.
EveryMessageRead ==
    \A i \in 1..MaxMessages :
        Len(sent) >= i ~> Len(delivered) >= i \/ desynced
=============================================================================
