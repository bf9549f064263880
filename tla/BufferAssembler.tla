-------------------------- MODULE BufferAssembler --------------------------
(***************************************************************************)
(* BufferAssembler (buffer_assembler.{h,cpp}): reassembles a buffer that   *)
(* arrives as PLOT_BUFFER_BEGIN, row-strip PLOT_BUFFER_CHUNKs and a        *)
(* PLOT_BUFFER_END.  The state is the map in_progress; the operators give, *)
(* for each member function, when it reports success and the map it leaves *)
(* behind.  IpcClient.tla drives them.                                     *)
(*                                                                         *)
(* A transfer is a number.  The bytes of an entry are kept per row: a row  *)
(* holds the number of the transfer whose chunk was copied into it, or     *)
(* ZeroFill as allocated.  Rows have one fixed size, so a memcpy of whole  *)
(* rows is an assignment to those rows.                                    *)
(***************************************************************************)
EXTENDS RawDataDecode, FiniteSets

CONSTANTS Names,  \* variable names
          Decls   \* declarations a BEGIN can carry: geometry, layout, total

ASSUME DeclsAssumption ==
    Decls \subseteq [width : Int, height : Int, channels : Int, stride : Int,
                     type : Int, layout : STRING, total : Nat]

VARIABLE in_progress   \* BufferAssembler::in_progress_

\* std::byte{} rows of a fresh allocation.
ZeroFill == 0

Rows(d) == 0..(d.height - 1)
RowRange(off, cnt) == off..(off + cnt - 1)

\* An InProgress entry as begin() builds it.
FreshEntry(d, t) ==
    [decl |-> d, transfer |-> t,
     bytes |-> [r \in Rows(d) |-> ZeroFill],
     rows_received |-> [r \in Rows(d) |-> FALSE]]

Put(m, n, e) == [x \in DOMAIN m \cup {n} |-> IF x = n THEN e ELSE m[x]]
Drop(m, n) == [x \in DOMAIN m \ {n} |-> m[x]]

has_in_progress(n) == n \in DOMAIN in_progress

\* Mutants of begin(): takes any declaration; keeps the old entry on refusal.
Bug_BeginUnchecked(n, d, t) == Put(in_progress, n, FreshEntry(d, t))
Bug_BeginKeepsStale(n, d, t) ==
    IF BeginAccepted(d, d.total) THEN Put(in_progress, n, FreshEntry(d, t)) ELSE in_progress

\* begin(): a refused declaration also drops what was in flight under n.
BeginResult(n, d, t) ==
    IF BeginAccepted(d, d.total) THEN Put(in_progress, n, FreshEntry(d, t))
                                 ELSE Drop(in_progress, n)

\* chunk(): bytes_per_row comes from the allocation, not from the stride.
BytesPerRow(e) == e.decl.total \div e.decl.height

\* Mutant of chunk(): off by one in the row bound.
Bug_ChunkRowBound(n, off, cnt, size) ==
    /\ has_in_progress(n)
    /\ LET e == in_progress[n] IN
       /\ off < e.decl.height
       /\ cnt < e.decl.height - off
       /\ size = cnt * BytesPerRow(e)

ChunkAccepted(n, off, cnt, size) ==
    /\ has_in_progress(n)
    /\ LET e == in_progress[n] IN
       /\ off <= e.decl.height
       /\ cnt <= e.decl.height - off
       /\ size = cnt * BytesPerRow(e)
       /\ off * BytesPerRow(e) + size <= e.decl.total

\* The memcpy and the fill_n of an accepted chunk of transfer t.
ChunkCopied(e, off, cnt, t) ==
    [decl |-> e.decl, transfer |-> e.transfer,
     bytes |-> [r \in Rows(e.decl) |-> IF r \in RowRange(off, cnt) THEN t ELSE e.bytes[r]],
     rows_received |-> [r \in Rows(e.decl) |->
                           IF r \in RowRange(off, cnt) THEN TRUE ELSE e.rows_received[r]]]

ChunkResult(n, off, cnt, t) ==
    Put(in_progress, n, ChunkCopied(in_progress[n], off, cnt, t))

\* Mutant of end(): hands back a partial transfer.
Bug_EndPartial(n) == has_in_progress(n)

\* end(): moves the bytes out only if every row arrived; drops the entry
\* either way.
EndDelivers(n) ==
    /\ has_in_progress(n)
    /\ \A r \in Rows(in_progress[n].decl) : in_progress[n].rows_received[r]

EndResult(n) == Drop(in_progress, n)

\* abort()
AbortResult(n) == Drop(in_progress, n)
=============================================================================
