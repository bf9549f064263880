----------------------------- MODULE IpcClient -----------------------------
(***************************************************************************)
(* The viewer's plot handlers (host/ipc/ipc_client.cpp) over the assembler *)
(* and the buffer model, driven by one debugger-side sender.               *)
(*                                                                         *)
(* poll() decodes and dispatches one message at a time on the UI thread,   *)
(* so a handler is one step.  The stream is FIFO and has one sender, so a  *)
(* message is handled in the order it was sent: each action is the sending *)
(* and the handling of one message.  The sender is external code (the      *)
(* repository only has the receiving half of the row-strip protocol); it   *)
(* may declare any geometry of Decls, send wrong chunks, and abandon a     *)
(* transfer by beginning another under the same name.                      *)
(*                                                                         *)
(* records is IpcBufferModel's storage_ keyed by variable_name; slot order *)
(* and revisions are the business of ViewerFrame.tla.                      *)
(***************************************************************************)
EXTENDS BufferAssembler

CONSTANTS MaxTransfers,    \* bound: how many plots the sender starts
          ContentsBytes,   \* payload sizes a PLOT_BUFFER_CONTENTS may carry
          ChunkOffsets, ChunkCounts, ChunkSizes, \* what a CHUNK may claim
          ValidLayouts,    \* layouts is_valid_pixel_layout() accepts
          OOMNames         \* names under which begin()'s allocation may throw bad_alloc

ASSUME ClientAssumption ==
    /\ MaxTransfers \in Nat
    /\ ContentsBytes \subseteq 0..SIZE_MAX
    /\ ChunkOffsets \subseteq Nat /\ ChunkCounts \subseteq Nat /\ ChunkSizes \subseteq Nat
    /\ ValidLayouts \subseteq STRING
    /\ "rgba" \in ValidLayouts
    /\ OOMNames \subseteq Names

VARIABLES records,   \* IpcBufferModel: variable_name -> record shown
          serial,    \* number of plots the sender has started
          wire       \* the sender's own account of its last BEGIN, per name

vars == <<in_progress, records, serial, wire>>

DEFAULT_PIXEL_LAYOUT == "rgba"
is_valid_pixel_layout(l) == l \in ValidLayouts

NoDecl == [width |-> 0, height |-> 0, channels |-> 0, stride |-> 0,
           type |-> 0, layout |-> "", total |-> 0]
Idle == [transfer |-> 0, open |-> FALSE, clean |-> FALSE, covered |-> {}, decl |-> NoDecl]

Init ==
    /\ in_progress = [n \in {} |-> Idle]
    /\ records = [n \in {} |-> Idle]
    /\ serial = 0
    /\ wire = [n \in Names |-> Idle]

\* Mutant of resolve_pixel_layout(): keeps any existing layout.
Bug_KeepAnyLayout(n, declared, channels) ==
    IF channels = 1 \/ is_valid_pixel_layout(declared) THEN declared
    ELSE IF n \in DOMAIN records THEN records[n].layout ELSE DEFAULT_PIXEL_LAYOUT

\* IpcClient::resolve_pixel_layout()
resolve_pixel_layout(n, declared, channels) ==
    IF channels = 1 \/ is_valid_pixel_layout(declared) THEN declared
    ELSE IF /\ n \in DOMAIN records
            /\ records[n].decl.channels = channels
            /\ is_valid_pixel_layout(records[n].layout)
         THEN records[n].layout
         ELSE DEFAULT_PIXEL_LAYOUT

\* IpcBufferModel::upsert(make_buffer_record(...)): the record takes the
\* place of the one under its name; of a payload of that many bytes it holds
\* size, as its doubles were narrowed.
upsert(n, d, t, bytes, payload) ==
    records' = Put(records, n,
                   [decl |-> d, transfer |-> t, bytes |-> bytes,
                    size |-> RecordBytes(d, payload),
                    layout |-> resolve_pixel_layout(n, d.layout, d.channels)])

\* The sender starts plot number serial + 1 with a BEGIN for n.
SenderBegins(n, d) ==
    /\ serial < MaxTransfers
    /\ serial' = serial + 1
    /\ wire' = [wire EXCEPT ![n] = [transfer |-> serial + 1, open |-> TRUE,
                                    clean |-> TRUE, covered |-> {}, decl |-> d]]

handle_plot_buffer_begin(n, d) ==
    /\ SenderBegins(n, d)
    /\ in_progress' = BeginResult(n, d, serial + 1)
    /\ UNCHANGED records

\* begin() reached the allocation and the vector constructor threw bad_alloc:
\* poll() drops the message and begin() had not touched the map.
BeginOutOfMemory(n, d) ==
    /\ n \in OOMNames
    /\ BeginAccepted(d, d.total)
    /\ SenderBegins(n, d)
    /\ UNCHANGED <<in_progress, records>>

\* A chunk that fits the sender's own declaration.
WellFormed(d, off, cnt, size) ==
    /\ off + cnt <= d.height
    /\ size * d.height = cnt * d.total

handle_plot_buffer_chunk(n, off, cnt, size) ==
    /\ wire[n].open
    /\ in_progress' = IF ChunkAccepted(n, off, cnt, size)
                      THEN ChunkResult(n, off, cnt, wire[n].transfer)
                      ELSE AbortResult(n)
    /\ wire' = IF WellFormed(wire[n].decl, off, cnt, size)
               THEN [wire EXCEPT ![n].covered = @ \cup RowRange(off, cnt)]
               ELSE [wire EXCEPT ![n].clean = FALSE]
    /\ UNCHANGED <<records, serial>>

handle_plot_buffer_end(n) ==
    /\ wire[n].open
    /\ IF EndDelivers(n)
       THEN upsert(n, in_progress[n].decl, in_progress[n].transfer, in_progress[n].bytes,
                   in_progress[n].decl.total)
       ELSE UNCHANGED records
    /\ in_progress' = EndResult(n)
    /\ wire' = [wire EXCEPT ![n].open = FALSE]
    /\ UNCHANGED serial

\* PLOT_BUFFER_CONTENTS: the whole buffer in one message.  It does not look
\* at the assembler; a sender that abandoned a row-strip transfer for it
\* sends no more of that transfer.
handle_plot_buffer_contents(n, d, byte_count) ==
    /\ serial < MaxTransfers
    /\ serial' = serial + 1
    /\ wire' = [wire EXCEPT ![n].transfer = serial + 1, ![n].open = FALSE]
    /\ IF ContentsAccepted(d, byte_count)
       THEN upsert(n, d, serial + 1, [r \in Rows(d) |-> serial + 1], byte_count)
       ELSE UNCHANGED records
    /\ UNCHANGED in_progress

\* The buffer list's Delete key: IpcBufferModel::remove().
remove(n) ==
    /\ n \in DOMAIN records
    /\ records' = Drop(records, n)
    /\ UNCHANGED <<in_progress, serial, wire>>

Next ==
    \E n \in Names :
        \/ \E d \in Decls : handle_plot_buffer_begin(n, d)
        \/ \E d \in Decls : BeginOutOfMemory(n, d)
        \/ \E off \in ChunkOffsets, cnt \in ChunkCounts, size \in ChunkSizes :
              handle_plot_buffer_chunk(n, off, cnt, size)
        \/ handle_plot_buffer_end(n)
        \/ \E d \in Decls, b \in ContentsBytes : handle_plot_buffer_contents(n, d, b)
        \/ remove(n)

Spec == Init /\ [][Next]_vars
-----------------------------------------------------------------------------
\* An assembler entry, a record and a wire account once k plots were started.
EntryOK(e, k) ==
    /\ e.decl \in Decls
    /\ BeginAccepted(e.decl, e.decl.total)
    /\ e.transfer \in 1..k
    /\ e.bytes \in [Rows(e.decl) -> 0..k]
    /\ e.rows_received \in [Rows(e.decl) -> BOOLEAN]

RecordOK(r, k) ==
    /\ r.decl \in Decls
    /\ r.transfer \in 1..k
    /\ r.bytes \in [Rows(r.decl) -> 0..k]
    /\ r.size \in Nat
    /\ r.layout \in STRING

WireOK(w, k) ==
    /\ w \in [transfer : 0..k, open : BOOLEAN, clean : BOOLEAN,
              covered : SUBSET Int, decl : Decls \cup {NoDecl}]
    /\ w.open => w.transfer > 0 /\ w.decl \in Decls

\* The types of the handlers' state; in particular every transfer the
\* assembler holds was accepted by begin(), so its geometry is displayable.
TypeOK ==
    /\ serial \in Nat
    /\ DOMAIN in_progress \subseteq Names
    /\ \A n \in DOMAIN in_progress : EntryOK(in_progress[n], serial)
    /\ DOMAIN records \subseteq Names
    /\ \A n \in DOMAIN records : RecordOK(records[n], serial)
    /\ wire = [n \in Names |-> wire[n]]
    /\ \A n \in Names : WireOK(wire[n], serial)

\* A buffer on display is whole: every one of its rows was carried by the
\* plot whose geometry it is shown with -- no zero-filled row of an unfinished
\* transfer, no row left over from an abandoned one (buffer_assembler.cpp
\* begin() and end()).  A BEGIN lost to a failed allocation breaks this for its
\* own name, and for no other.
NeverMixed ==
    \A n \in DOMAIN records \ OOMNames :
        \A r \in Rows(records[n].decl) : records[n].bytes[r] = records[n].transfer

\* No row is shown that no chunk ever wrote: end() refuses a transfer with a
\* missing row even when the transfer it finishes is not the one the sender
\* meant, because the BEGIN in between was lost to a failed allocation.
NoUnwrittenRow ==
    \A n \in DOMAIN records :
        \A r \in Rows(records[n].decl) : records[n].bytes[r] # ZeroFill

\* Every buffer on display is one the renderer takes, whatever the peer declared,
\* whichever message brought it and however it is replotted.  Buffer::configure()
\* refuses none, so a component never goes on drawing the span of the record that
\* was replaced; and a buffer of several channels has a channel order the renderer
\* can use (handle_plot_buffer_contents(), begin(), make_buffer_record(),
\* resolve_pixel_layout(), Buffer::configure()).
ShownIsDrawable ==
    \A n \in DOMAIN records :
        /\ ConfigureAccepts(records[n].decl, records[n].size)
        /\ records[n].decl.channels = 1 \/ is_valid_pixel_layout(records[n].layout)

\* What the sender, who sees none of the viewer's state, is entitled to: its
\* declaration is one begin() takes, no chunk was malformed, every row was sent.
Complete(n) ==
    /\ wire[n].clean
    /\ BeginAccepted(wire[n].decl, wire[n].decl.total)
    /\ Rows(wire[n].decl) \subseteq wire[n].covered

Ended(n) ==
    /\ wire[n].open /\ ~wire'[n].open
    /\ wire'[n].transfer = wire[n].transfer

\* An END puts the sender's plot on display exactly when the sender completed
\* it: a transfer sent in full is never refused, in whatever order and however
\* often its rows came, and one with a malformed chunk, a missing row or a
\* refused BEGIN changes nothing on display (chunk(), end(), and the abort()
\* in handle_plot_buffer_chunk()).
DeliveredIffComplete ==
    [][\A n \in Names \ OOMNames : Ended(n) =>
          IF Complete(n)
          THEN n \in DOMAIN records' /\ records'[n].transfer = wire[n].transfer
          ELSE records' = records]_vars

\* What is on display under a name never goes back to an older plot: an
\* abandoned transfer cannot finish over a newer one.
NoRollback ==
    [][\A n \in (DOMAIN records \cap DOMAIN records') \ OOMNames :
          records'[n].transfer >= records[n].transfer]_vars
=============================================================================
