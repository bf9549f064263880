------------------------ MODULE MessageStreamProofs ------------------------
(***************************************************************************)
(* Proof that the wire keeps frames: MessageStream implements FramedChannel *)
(* for messages of any number, any lengths and any content, in five steps:  *)
(*                                                                         *)
(*  1. what FlattenSeq(), by which frames are composed, does to pieces     *)
(*     appended, concatenated and taken from the front, by induction over  *)
(*     their number (a set of numbers with 0 and every successor is Nat,   *)
(*     for there is no least number outside it);                           *)
(*  2. the encoding: numbers are read back as written, and the layout each *)
(*     composer writes is the one the handler at the other end reads;      *)
(*  3. what is left of a message -- Left(): a field's remaining bytes, the *)
(*     fields after it -- is again what is left of it once one more byte   *)
(*     is read, a length that has been read turning into the bytes or the  *)
(*     strings it announces;                                               *)
(*  4. the inductive invariant: while the reader is in step, the bytes it  *)
(*     has read of the message it is in, those that have arrived and those *)
(*     that travel are the frames sent and not dispatched, and it is midway *)
(*     in the first of them;                                               *)
(*  5. the actions, one by one: each preserves the invariant and is a step *)
(*     of the channel or none.                                             *)
(***************************************************************************)
EXTENDS MessageStream, SequenceTheorems, WellFoundedInduction, TLAPS

Bytes == Seq(Nat)

\* A set of numbers with 0 and with each number's successor has them all.
LEMMA Inductive ==
    ASSUME NEW T, T \subseteq Nat, 0 \in T, \A n \in T : n + 1 \in T
    PROVE  T = Nat
<1> SUFFICES ASSUME Nat \ T # {}
             PROVE  FALSE
  OBVIOUS
<1>1. PICK x \in Nat \ T : \A y \in Nat \ T : ~ (<<y, x>> \in OpToRel(<, Nat))
  BY NatLessThanWellFounded, WFMin
<1>2. \A y \in Nat \ T : ~ (y < x)
  BY <1>1 DEF OpToRel
<1>3. x \in Nat /\ x \notin T /\ x # 0
  OBVIOUS
<1>4. x - 1 \in Nat /\ x - 1 < x /\ (x - 1) + 1 = x
  BY <1>3
<1>5. x - 1 \in T
  BY <1>2, <1>4
<1> QED
  BY <1>3, <1>4, <1>5

\* The partial concatenations of s, as FlattenSeq() computes them.
Glues(s, f) == f = [i \in 1..Len(s) |-> IF i = 1 THEN s[i] ELSE f[i - 1] \o s[i]]

\* One partial concatenation from the one before it.
LEMMA GlueStep ==
    ASSUME NEW s, NEW f, Glues(s, f), NEW i \in 1..Len(s)
    PROVE  f[i] = IF i = 1 THEN s[i] ELSE f[i - 1] \o s[i]
<1> DEFINE g == [j \in 1..Len(s) |-> IF j = 1 THEN s[j] ELSE f[j - 1] \o s[j]]
<1>1. f = g
  BY Zenon DEF Glues
<1>2. g[i] = IF i = 1 THEN s[i] ELSE f[i - 1] \o s[i]
  OBVIOUS
<1> HIDE DEF g
<1> QED
  BY <1>1, <1>2, Zenon

\* There are such.
LEMMA GlueExists ==
    ASSUME NEW s \in Seq(Bytes)
    PROVE  \E f \in [1..Len(s) -> Bytes] : Glues(s, f)
<1> DEFINE T == {n \in Nat : \A t \in Seq(Bytes) : Len(t) = n =>
                                \E f \in [1..n -> Bytes] : Glues(t, f)}
<1>1. 0 \in T
  <2> SUFFICES ASSUME NEW t \in Seq(Bytes), Len(t) = 0
               PROVE  \E f \in [1..0 -> Bytes] : Glues(t, f)
    OBVIOUS
  <2> DEFINE f == [i \in 1..0 |-> <<>>]
  <2>1. 1..0 = {}
    OBVIOUS
  <2>2. f \in [1..0 -> Bytes] /\ Glues(t, f)
    BY <2>1 DEF Glues
  <2> QED
    BY <2>2
<1>2. ASSUME NEW n \in T
      PROVE  n + 1 \in T
  <2> SUFFICES ASSUME NEW t \in Seq(Bytes), Len(t) = n + 1
               PROVE  \E f \in [1..(n + 1) -> Bytes] : Glues(t, f)
    OBVIOUS
  <2> DEFINE u == SubSeq(t, 1, n)
  <2>1. n \in Nat /\ u \in Seq(Bytes) /\ Len(u) = n /\ \A i \in 1..n : u[i] = t[i]
    BY SubSeqProperties
  <2>2. PICK g \in [1..n -> Bytes] : Glues(u, g)
    BY <1>2, <2>1
  <2> DEFINE f == [i \in 1..(n + 1) |->
                     IF i \in 1..n THEN g[i] ELSE IF i = 1 THEN t[i] ELSE g[i - 1] \o t[i]]
  <2> HIDE DEF u
  <2>3. ASSUME NEW i \in 1..(n + 1)
        PROVE  /\ f[i] \in Bytes
               /\ f[i] = IF i = 1 THEN t[i] ELSE f[i - 1] \o t[i]
    <3>1. t[i] \in Bytes
      OBVIOUS
    <3>2. CASE i \in 1..n
      <4>1. g[i] = IF i = 1 THEN t[i] ELSE g[i - 1] \o t[i]
        BY <2>1, <2>2, <3>2 DEF Glues
      <4>2. i # 1 => i - 1 \in 1..n
        BY <2>1, <3>2
      <4> QED
        BY <3>2, <4>1, <4>2
    <3>3. CASE i = n + 1 /\ i # 1
      <4>1. i - 1 \in 1..n /\ i \notin 1..n /\ i - 1 \in 1..(n + 1)
        BY <2>1, <3>3
      <4>2. f[i] = g[i - 1] \o t[i] /\ f[i - 1] = g[i - 1] /\ g[i - 1] \in Bytes
        BY <3>3, <4>1
      <4>3. g[i - 1] \o t[i] \in Bytes
        BY <3>1, <4>2 DEF Bytes
      <4> QED
        BY <3>3, <4>2, <4>3
    <3>4. CASE i = n + 1 /\ i = 1
      <4>1. i \notin 1..n
        BY <2>1, <3>4
      <4> QED
        BY <3>1, <3>4, <4>1
    <3> QED
      BY <2>1, <3>2, <3>3, <3>4
  <2>4. f \in [1..(n + 1) -> Bytes] /\ Glues(t, f)
    <3>1. f \in [1..(n + 1) -> Bytes]
      BY <2>3
    <3> HIDE DEF f
    <3>2. f = [i \in 1..(n + 1) |-> f[i]]
      BY <3>1
    <3> QED
      BY <2>3, <3>1, <3>2 DEF Glues
  <2> QED
    BY <2>4
<1> HIDE DEF T
<1>3. T = Nat
  BY <1>1, <1>2, Inductive DEF T
<1> QED
  BY <1>3 DEF T

\* There is one.
LEMMA GlueUnique ==
    ASSUME NEW s \in Seq(Bytes), NEW f, NEW g, Glues(s, f), Glues(s, g)
    PROVE  f = g
<1> DEFINE T == {n \in Nat : n \in 1..Len(s) => f[n] = g[n]}
<1>1. 0 \in T
  OBVIOUS
<1>2. ASSUME NEW n \in T
      PROVE  n + 1 \in T
  <2> SUFFICES ASSUME n + 1 \in 1..Len(s)
               PROVE  f[n + 1] = g[n + 1]
    OBVIOUS
  <2>3. /\ f[n + 1] = IF n + 1 = 1 THEN s[n + 1] ELSE f[n + 1 - 1] \o s[n + 1]
        /\ g[n + 1] = IF n + 1 = 1 THEN s[n + 1] ELSE g[n + 1 - 1] \o s[n + 1]
    BY GlueStep
  <2>1. n + 1 - 1 = n
    OBVIOUS
  <2>2. n + 1 # 1 => f[n] = g[n]
    OBVIOUS
  <2> QED
    BY <2>1, <2>2, <2>3, Zenon
<1> HIDE DEF T
<1>3. T = Nat
  BY <1>1, <1>2, Inductive DEF T
<1>4. \A n \in 1..Len(s) : f[n] = g[n]
  BY <1>3 DEF T
<1>5. /\ f = [i \in 1..Len(s) |-> f[i]]
      /\ g = [i \in 1..Len(s) |-> g[i]]
  BY DEF Glues
<1> QED
  BY <1>4, <1>5

\* FlattenSeq() of no pieces, and of some.
LEMMA FlattenEmpty == FlattenSeq(<<>>) = <<>>
BY DEF FlattenSeq

\* The last partial concatenation is what FlattenSeq() returns.
LEMMA FlattenGlued ==
    ASSUME NEW s \in Seq(Bytes), s # <<>>, NEW f, Glues(s, f)
    PROVE  FlattenSeq(s) = f[Len(s)]
<1>1. FlattenSeq(s) = IF Len(s) = 0 THEN s ELSE (CHOOSE g : Glues(s, g))[Len(s)]
  BY Zenon DEF FlattenSeq, Glues
<1>2. Len(s) # 0
  OBVIOUS
<1>3. (CHOOSE g : Glues(s, g)) = f
  BY GlueUnique
<1> QED
  BY <1>1, <1>2, <1>3, Zenon

\* One more piece at the end.
LEMMA FlattenAppend ==
    ASSUME NEW s \in Seq(Bytes), NEW e \in Bytes
    PROVE  /\ FlattenSeq(s) \in Bytes
           /\ FlattenSeq(Append(s, e)) = FlattenSeq(s) \o e
<1> DEFINE t == Append(s, e)
           n == Len(s)
<1>1. /\ t \in Seq(Bytes) /\ t # <<>> /\ n \in Nat /\ Len(t) = n + 1
      /\ (\A i \in 1..n : t[i] = s[i]) /\ t[n + 1] = e
  BY AppendProperties
<1>2. PICK f \in [1..(n + 1) -> Bytes] : Glues(t, f)
  BY <1>1, GlueExists
<1>3. \A i \in 1..(n + 1) : f[i] = IF i = 1 THEN t[i] ELSE f[i - 1] \o t[i]
  <2> SUFFICES ASSUME NEW i \in 1..Len(t)
               PROVE  f[i] = IF i = 1 THEN t[i] ELSE f[i - 1] \o t[i]
    BY <1>1
  <2> HIDE DEF t
  <2> QED
    BY <1>2, GlueStep
<1> HIDE DEF t, n
<1>4. FlattenSeq(t) = f[n + 1]
  BY <1>1, <1>2, FlattenGlued
<1>5. CASE s = <<>>
  <2>1. n = 0 /\ f[n + 1] = e
    BY <1>1, <1>3, <1>5 DEF n
  <2>2. FlattenSeq(s) = <<>> /\ <<>> \o e = e
    BY <1>5, FlattenEmpty, ConcatEmptySeq DEF Bytes
  <2> QED
    BY <1>4, <2>1, <2>2 DEF t, Bytes
<1>6. CASE s # <<>>
  <2> DEFINE g == [i \in 1..n |-> f[i]]
  <2>1. Glues(s, g)
    <3>1. \A i \in 1..n : f[i] = IF i = 1 THEN s[i] ELSE f[i - 1] \o s[i]
      <4> TAKE i \in 1..n
      <4>1. i \in 1..(n + 1) /\ t[i] = s[i]
        BY <1>1
      <4> QED
        BY <1>3, <4>1
    <3>2. \A i \in 1..n : i # 1 => i - 1 \in 1..n
      BY <1>1
    <3>3. \A i \in 1..n : g[i] = IF i = 1 THEN s[i] ELSE g[i - 1] \o s[i]
      BY <3>1, <3>2
    <3> QED
      BY <3>3 DEF Glues, n
  <2>2. n \in 1..n /\ n + 1 # 1 /\ n + 1 \in 1..(n + 1) /\ n + 1 - 1 = n
    BY <1>1, <1>6 DEF n
  <2>3. FlattenSeq(s) = g[n]
    BY <1>6, <2>1, FlattenGlued DEF n
  <2>4. g[n] = f[n] /\ f[n] \in Bytes
    BY <2>2
  <2>5. f[n + 1] = f[n] \o e
    <3>1. ASSUME NEW i, i = n + 1
          PROVE  f[i] = f[n] \o t[i]
      <4>1. i \in 1..(n + 1) /\ i # 1 /\ i - 1 = n
        BY <2>2, <3>1
      <4> QED
        BY <1>3, <4>1
    <3> QED
      BY <1>1, <3>1
  <2> QED
    BY <1>4, <2>3, <2>4, <2>5 DEF t
<1> QED
  BY <1>5, <1>6

\* Concatenation associates.
LEMMA Assoc == \A a, b, c \in Seq(Nat) : (a \o b) \o c = a \o (b \o c)
BY ConcatAssociative

\* Pieces put one after the other.
LEMMA FlattenConcat ==
    ASSUME NEW s \in Seq(Bytes), NEW t \in Seq(Bytes)
    PROVE  FlattenSeq(s \o t) = FlattenSeq(s) \o FlattenSeq(t)
<1> DEFINE T == {n \in Nat : \A u \in Seq(Bytes) : Len(u) = n =>
                                FlattenSeq(s \o u) = FlattenSeq(s) \o FlattenSeq(u)}
<1>0. \A u \in Seq(Bytes) : FlattenSeq(u) \in Seq(Nat)
  BY FlattenAppend, EmptySeq DEF Bytes
<1>1. 0 \in T
  <2> SUFFICES ASSUME NEW u \in Seq(Bytes), Len(u) = 0
               PROVE  FlattenSeq(s \o u) = FlattenSeq(s) \o FlattenSeq(u)
    OBVIOUS
  <2>1. u = <<>> /\ s \o u = s /\ FlattenSeq(u) = <<>>
    BY FlattenEmpty, ConcatEmptySeq
  <2> QED
    BY <1>0, <2>1, ConcatEmptySeq
<1>2. ASSUME NEW n \in T
      PROVE  n + 1 \in T
  <2> SUFFICES ASSUME NEW u \in Seq(Bytes), Len(u) = n + 1
               PROVE  FlattenSeq(s \o u) = FlattenSeq(s) \o FlattenSeq(u)
    OBVIOUS
  <2>1. PICK v \in Seq(Bytes), e \in Bytes : u = Append(v, e) /\ Len(v) = n
    <3>1. PICK v \in Seq(Bytes), e \in Bytes : u = Append(v, e)
      <4>1. u # <<>>
        OBVIOUS
      <4> QED
        BY <4>1, SequenceEmptyOrAppend
    <3> QED
      BY <3>1, AppendProperties
  <2>2. s \o u = Append(s \o v, e) /\ s \o v \in Seq(Bytes)
    BY <2>1
  <2>3. FlattenSeq(s \o v) = FlattenSeq(s) \o FlattenSeq(v)
    BY <1>2, <2>1
  <2>4. /\ FlattenSeq(s \o u) = FlattenSeq(s \o v) \o e
        /\ FlattenSeq(u) = FlattenSeq(v) \o e
    BY <2>1, <2>2, FlattenAppend
  <2>5. FlattenSeq(s) \in Seq(Nat) /\ FlattenSeq(v) \in Seq(Nat) /\ e \in Seq(Nat)
    BY <1>0, <2>1 DEF Bytes
  <2>6. (FlattenSeq(s) \o FlattenSeq(v)) \o e = FlattenSeq(s) \o (FlattenSeq(v) \o e)
    BY <2>5, Assoc, ZenonT(40)
  <2> QED
    BY <2>3, <2>4, <2>6, Zenon
<1> HIDE DEF T
<1>3. T = Nat
  BY <1>1, <1>2, Inductive DEF T
<1> QED
  BY <1>3 DEF T

\* The first piece comes first.
LEMMA FlattenHead ==
    ASSUME NEW s \in Seq(Bytes), s # <<>>
    PROVE  /\ Tail(s) \in Seq(Bytes) /\ Head(s) \in Bytes
           /\ FlattenSeq(s) = Head(s) \o FlattenSeq(Tail(s))
<1>1. /\ Tail(s) \in Seq(Bytes) /\ Head(s) \in Bytes
      /\ s = <<Head(s)>> \o Tail(s) /\ <<Head(s)>> = Append(<<>>, Head(s))
  OBVIOUS
<1>2. FlattenSeq(<<Head(s)>>) = Head(s)
  <2>1. <<>> \in Seq(Bytes)
    OBVIOUS
  <2>2. FlattenSeq(<<Head(s)>>) = <<>> \o Head(s)
    BY <1>1, <2>1, FlattenAppend, FlattenEmpty
  <2> QED
    BY <1>1, <2>2, ConcatEmptySeq DEF Bytes
<1>3. <<Head(s)>> \in Seq(Bytes)
  BY <1>1
<1> QED
  BY <1>1, <1>2, <1>3, FlattenConcat

\* A number read back from the bytes it is written in (PrimitiveBlock, read<T>()).
LEMMA Roundtrip ==
    ASSUME NEW v \in Nat
    PROVE  /\ Encode(v) \in Bytes /\ Len(Encode(v)) = 2
           /\ Decode(Encode(v)) = v
<1>1. v % Base \in Nat /\ v \div Base \in Nat /\ v = Base * (v \div Base) + (v % Base)
  BY StreamAssumption
<1> QED
  BY <1>1, StreamAssumption DEF Encode, Decode, Bytes

\* A count of strings an int can hold survives the cast to int.
LEMMA CountKept ==
    ASSUME NEW v \in 0..INT_MAX
    PROVE  AsInt(v) = v
<1> DEFINE n == 2 * (INT_MAX + 1)
<1>1. n \in Nat /\ n > 0 /\ v \in Nat /\ v < n
  BY StreamAssumption
<1>2. \A k \in Nat, u \in Nat : k > 0 /\ u < k => u % k = u
  OBVIOUS
<1>3. v % n = v
  BY <1>1, <1>2
<1> QED
  BY <1>3, StreamAssumption DEF AsInt

\* The cast of any size to int is an integer.
LEMMA IntTyped ==
    ASSUME NEW v \in Nat
    PROVE  AsInt(v) \in Int
<1> DEFINE n == 2 * (INT_MAX + 1)
<1>1. n \in Nat /\ n > 0
  BY StreamAssumption
<1>2. v % n \in Int
  BY <1>1
<1> QED
  BY <1>1, <1>2, StreamAssumption DEF AsInt

\* The fields push() and read() have overloads for.
Kinds == {"prim", "string", "buffer", "strings"}
\* Every message of writes is read with the layout it is written with.
Agree(writes, reads) ==
    /\ DOMAIN writes \subseteq DOMAIN reads
    /\ \A t \in DOMAIN writes : writes[t] = reads[t]

\* The handlers' reads are lists of fields.
LEMMA ReadsTyped ==
    /\ \A t \in DOMAIN ViewerReads : t \in Nat /\ ViewerReads[t] \in Seq(Kinds)
    /\ \A t \in DOMAIN BridgeReads : t \in Nat /\ BridgeReads[t] \in Seq(Kinds)
<1> USE DEF GET_OBSERVED_SYMBOLS, GET_OBSERVED_SYMBOLS_RESPONSE, SET_AVAILABLE_SYMBOLS,
            PLOT_BUFFER_CONTENTS, PLOT_BUFFER_REQUEST, PLOT_BUFFER_BEGIN,
            PLOT_BUFFER_CHUNK, PLOT_BUFFER_END, APPLY_SESSION_STATE,
            EXPORT_SELECTED_BUFFER, BUFFER_REMOVED
<1>1. Described \in Seq(Kinds) /\ Name \in Seq(Kinds)
  BY DEF Described, Name, Kinds
<1>2. /\ <<>> \in Seq(Kinds) /\ <<"strings">> \in Seq(Kinds) /\ <<"string">> \in Seq(Kinds)
      /\ <<"buffer">> \in Seq(Kinds) /\ <<"prim">> \in Seq(Kinds)
      /\ <<"prim", "prim", "buffer">> \in Seq(Kinds)
  BY DEF Kinds
<1>3. /\ Described \o <<"buffer">> \in Seq(Kinds) /\ Described \o <<"prim">> \in Seq(Kinds)
      /\ Name \o <<"prim", "prim", "buffer">> \in Seq(Kinds)
  <2>1. \A x, y \in Seq(Kinds) : x \o y \in Seq(Kinds)
    BY ConcatProperties
  <2> QED
    BY <1>1, <1>2, <2>1, Zenon
<1>4. \A t \in DOMAIN ViewerReads : t \in Nat /\ ViewerReads[t] \in Seq(Kinds)
  BY <1>1, <1>2, <1>3 DEF ViewerReads
<1>5. \A t \in DOMAIN BridgeReads : t \in Nat /\ BridgeReads[t] \in Seq(Kinds)
  BY <1>1, <1>2 DEF BridgeReads
<1> QED
  BY <1>4, <1>5

\* Whatever either peer composes, the reader at the other end reads with the same layout.
LEMMA LayoutsAgree ==
    /\ Agree(BridgeWrites, ViewerReads) 
    /\ Agree(ExtensionWrites, ViewerReads) 
    /\ Agree(ViewerWrites, BridgeReads) 
<1> USE DEF GET_OBSERVED_SYMBOLS, GET_OBSERVED_SYMBOLS_RESPONSE, SET_AVAILABLE_SYMBOLS,
            PLOT_BUFFER_CONTENTS, PLOT_BUFFER_REQUEST, PLOT_BUFFER_BEGIN,
            PLOT_BUFFER_CHUNK, PLOT_BUFFER_END, APPLY_SESSION_STATE,
            EXPORT_SELECTED_BUFFER, BUFFER_REMOVED
<1>1. Agree(BridgeWrites, ViewerReads) 
  BY DEF Agree, BridgeWrites, ViewerReads
<1>2. Agree(ExtensionWrites, ViewerReads) 
  BY DEF Agree, ExtensionWrites, ViewerReads
<1>3. Agree(ViewerWrites, BridgeReads) 
  BY DEF Agree, ViewerWrites, BridgeReads
<1> QED
  BY <1>1, <1>2, <1>3

\* What the decoder may have to read, and what it has read nothing of.
Items == [kind : Kinds \cup {"header", "raw"}, bytes : Nat \ {0}]
Unread == [kind : Kinds \cup {"header"}, bytes : {PrimBytes}]
          \cup [kind : {"raw"}, bytes : Nat \ {0}]

\* An item nothing is read of is an item.
LEMMA UnreadItems == Unread \subseteq Items
BY DEF Unread, Items, PrimBytes

\* b is what a composer writes of a field of this kind, or of a message of ms.
Says(ms, kind, b) ==
    \/ kind = "prim" /\ \E v \in Nat : b = Encode(v)
    \/ kind \in {"string", "buffer"} /\ \E s \in Bytes : b = Encode(Len(s)) \o s
    \/ /\ kind = "strings"
       /\ \E ss \in Seq(Bytes) :
             /\ Len(ss) \in 0..INT_MAX
             /\ b = Encode(Len(ss))
                    \o FlattenSeq([i \in DOMAIN ss |-> Encode(Len(ss[i])) \o ss[i]])
    \/ kind = "header" /\ \E m \in ms : b = Frame(m)

\* b is what is left of an item of which pr was read.
Piece(ms, item, pr, b) ==
    /\ b \in Bytes /\ pr \in Bytes
    /\ IF item.kind = "raw" THEN pr = <<>> /\ Len(b) = item.bytes
       ELSE Len(pr) = PrimBytes - item.bytes /\ Says(ms, item.kind, pr \o b)

\* b is what the composer wrote of the items td, one after the other.
Fits(ms, td, b) ==
    \E ps \in Seq(Bytes) :
        /\ Len(ps) = Len(td) /\ b = FlattenSeq(ps)
        /\ \A i \in 1..Len(td) : Piece(ms, td[i], <<>>, ps[i])

\* rest is what is left of items td, of the first of which pr was read.
Left(ms, td, pr, rest) ==
    /\ td # <<>>
    /\ \E b \in Bytes, r \in Bytes :
          /\ rest = b \o r
          /\ Piece(ms, Head(td), pr, b) /\ Fits(ms, Tail(td), r)

\* No items, no bytes.
LEMMA FitsNone ==
    ASSUME NEW ms
    PROVE  Fits(ms, <<>>, <<>>)
<1>1. <<>> \in Seq(Bytes) /\ Len(<<>>) = 0 /\ \A i \in 1..0 : FALSE
  OBVIOUS
<1> QED
  BY <1>1, FlattenEmpty DEF Fits

\* One item and its bytes.
LEMMA FitsOne ==
    ASSUME NEW ms, NEW item, NEW b \in Bytes, Piece(ms, item, <<>>, b)
    PROVE  Fits(ms, <<item>>, b)
<1>1. <<b>> \in Seq(Bytes) /\ Len(<<b>>) = 1 /\ Len(<<item>>) = 1
  OBVIOUS
<1>2. b = FlattenSeq(<<b>>)
  <2>1. <<>> \in Seq(Bytes) /\ Append(<<>>, b) = <<b>>
    OBVIOUS
  <2>2. FlattenSeq(<<b>>) = <<>> \o b
    BY <2>1, FlattenAppend, FlattenEmpty
  <2> QED
    BY <2>2, ConcatEmptySeq DEF Bytes
<1>3. \A i \in 1..1 : Piece(ms, <<item>>[i], <<>>, <<b>>[i])
  <2>1. <<item>>[1] = item /\ <<b>>[1] = b
    OBVIOUS
  <2>2. \A i \in 1..1 : i = 1
    OBVIOUS
  <2> QED
    BY <2>1, <2>2
<1> QED
  BY <1>1, <1>2, <1>3 DEF Fits

\* What is written of a kind is an item of that kind, whole.
LEMMA WholePiece ==
    ASSUME NEW ms, NEW kind, kind # "raw", NEW b \in Bytes, Says(ms, kind, b)
    PROVE  Piece(ms, Item(kind), <<>>, b)
<1>1. <<>> \in Bytes /\ <<>> \o b = b /\ Len(<<>>) = 0
  BY ConcatEmptySeq DEF Bytes
<1>2. Item(kind).kind = kind /\ Item(kind).bytes = PrimBytes /\ PrimBytes - PrimBytes = 0
  BY DEF Item, PrimBytes
<1> QED
  BY <1>1, <1>2 DEF Piece

\* What items are written as is bytes.
LEMMA FitsTyped ==
    ASSUME NEW ms, NEW td, NEW b, Fits(ms, td, b)
    PROVE  b \in Bytes
BY FlattenAppend, EmptySeq DEF Fits, Bytes

\* Items followed by items are their bytes followed by their bytes.
LEMMA FitsConcat ==
    ASSUME NEW ms, NEW td \in Seq(Items), NEW te \in Seq(Items), NEW b, NEW c,
           Fits(ms, td, b), Fits(ms, te, c)
    PROVE  Fits(ms, td \o te, b \o c)
<1>1. PICK ps \in Seq(Bytes) : /\ Len(ps) = Len(td) /\ b = FlattenSeq(ps)
                               /\ \A i \in 1..Len(td) : Piece(ms, td[i], <<>>, ps[i])
  BY DEF Fits
<1>2. PICK qs \in Seq(Bytes) : /\ Len(qs) = Len(te) /\ c = FlattenSeq(qs)
                               /\ \A i \in 1..Len(te) : Piece(ms, te[i], <<>>, qs[i])
  BY DEF Fits
<1>3. /\ ps \o qs \in Seq(Bytes) /\ Len(ps \o qs) = Len(ps) + Len(qs)
      /\ Len(td \o te) = Len(td) + Len(te) /\ Len(td) \in Nat /\ Len(te) \in Nat
  BY ConcatProperties, LenProperties
<1>5. b \o c = FlattenSeq(ps \o qs)
  BY <1>1, <1>2, FlattenConcat
<1>4. ASSUME NEW i \in 1..Len(td \o te)
      PROVE  Piece(ms, (td \o te)[i], <<>>, (ps \o qs)[i])
  <2>1. CASE i \in 1..Len(td)
    <3>1. (td \o te)[i] = td[i] /\ (ps \o qs)[i] = ps[i]
      BY <1>1, <1>2, <2>1
    <3> QED
      BY <1>1, <2>1, <3>1
  <2>2. CASE i > Len(td)
    <3>1. /\ i - Len(td) \in 1..Len(te)
          /\ (td \o te)[i] = te[i - Len(td)] /\ (ps \o qs)[i] = qs[i - Len(td)]
      BY <1>1, <1>2, <2>2
    <3> QED
      BY <1>2, <3>1
  <2>3. i \in 1..Len(td) \/ i > Len(td)
    BY <1>3
  <2> QED
    BY <2>1, <2>2, <2>3
<1> QED
  BY <1>1, <1>2, <1>3, <1>4, <1>5 DEF Fits

\* Items nothing is read of, taken from the first.
LEMMA FitsHead ==
    ASSUME NEW ms, NEW td \in Seq(Items), NEW b, Fits(ms, td, b), td # <<>>
    PROVE  Left(ms, td, <<>>, b)
<1>1. PICK ps \in Seq(Bytes) : /\ Len(ps) = Len(td) /\ b = FlattenSeq(ps)
                               /\ \A i \in 1..Len(td) : Piece(ms, td[i], <<>>, ps[i])
  BY DEF Fits
<1>2. ps # <<>>
  BY <1>1
<1>3. /\ Tail(ps) \in Seq(Bytes) /\ Head(ps) \in Bytes /\ Tail(td) \in Seq(Items)
      /\ b = Head(ps) \o FlattenSeq(Tail(ps))
  BY <1>1, <1>2, FlattenHead
<1>4. Piece(ms, Head(td), <<>>, Head(ps))
  <2>1. 1 \in 1..Len(td) /\ Head(td) = td[1] /\ Head(ps) = ps[1]
    BY <1>1, <1>2
  <2> QED
    BY <1>1, <2>1
<1>5. Len(Tail(ps)) = Len(Tail(td))
  BY <1>1, <1>2
<1>6. ASSUME NEW i \in 1..Len(Tail(td))
      PROVE  Piece(ms, Tail(td)[i], <<>>, Tail(ps)[i])
  <2>1. i + 1 \in 1..Len(td) /\ Tail(td)[i] = td[i + 1] /\ Tail(ps)[i] = ps[i + 1]
    BY <1>1, <1>2
  <2> QED
    BY <1>1, <2>1
<1>7. Fits(ms, Tail(td), FlattenSeq(Tail(ps)))
  BY <1>3, <1>5, <1>6 DEF Fits
<1> QED
  BY <1>3, <1>4, <1>7, FitsTyped DEF Left


\* A number and what follows it, as bytes.
LEMMA EncodeFirst ==
    ASSUME NEW v \in Nat, NEW c \in Bytes
    PROVE  /\ Encode(v) \o c \in Bytes
           /\ Len(Encode(v) \o c) = Len(c) + PrimBytes
<1>1. Encode(v) \in Bytes /\ Len(Encode(v)) = 2
  BY Roundtrip
<1>2. Encode(v) \o c \in Seq(Nat) /\ Len(Encode(v) \o c) = Len(Encode(v)) + Len(c)
  BY <1>1, ConcatProperties DEF Bytes
<1>3. Len(c) \in Nat
  BY DEF Bytes
<1> QED
  BY <1>1, <1>2, <1>3 DEF Bytes, PrimBytes

\* What is written of a kind is the number it starts with and what that says
\* there is to read.
LEMMA Said ==
    ASSUME NEW ms, NEW kind, NEW b, Says(ms, kind, b), kind # "header"
    PROVE  \E v \in Nat, c \in Bytes :
              /\ b = Encode(v) \o c
              /\ Fits(ms, Expand(kind, v), c)
<1>1. CASE kind = "prim"
  <2>1. PICK v \in Nat : b = Encode(v)
    BY <1>1 DEF Says
  <2>2. Encode(v) = Encode(v) \o <<>> /\ <<>> \in Bytes
    BY Roundtrip, ConcatEmptySeq DEF Bytes
  <2>3. Expand(kind, v) = <<>>
    BY <1>1 DEF Expand
  <2> QED
    BY <2>1, <2>2, <2>3, FitsNone
<1>2. CASE kind \in {"string", "buffer"}
  <2>1. PICK s \in Bytes : b = Encode(Len(s)) \o s
    BY <1>2 DEF Says
  <2>2. Len(s) \in Nat
    BY DEF Bytes
  <2>3. Expand(kind, Len(s)) = Raw(Len(s))
    BY <1>2 DEF Expand
  <2>4. Fits(ms, Raw(Len(s)), s)
    <3>1. CASE s = <<>>
      <4>1. Raw(Len(s)) = <<>>
        BY <3>1 DEF Raw
      <4> QED
        BY <3>1, <4>1, FitsNone
    <3>2. CASE s # <<>>
      <4>1. Raw(Len(s)) = <<[kind |-> "raw", bytes |-> Len(s)]>>
        BY <3>2 DEF Raw, Bytes
      <4>2. Piece(ms, [kind |-> "raw", bytes |-> Len(s)], <<>>, s)
        BY DEF Piece, Bytes
      <4> QED
        BY <4>1, <4>2, FitsOne
    <3> QED
      BY <3>1, <3>2
  <2> QED
    BY <2>1, <2>2, <2>3, <2>4
<1>3. CASE kind = "strings"
  <2>1. PICK ss \in Seq(Bytes) :
            /\ Len(ss) \in 0..INT_MAX
            /\ b = Encode(Len(ss))
                   \o FlattenSeq([i \in DOMAIN ss |-> Encode(Len(ss[i])) \o ss[i]])
    BY <1>3 DEF Says
  <2> DEFINE ps == [i \in DOMAIN ss |-> Encode(Len(ss[i])) \o ss[i]]
             n == Len(ss)
             td == [i \in 1..n |-> Item("string")]
  <2>2. n \in Nat /\ DOMAIN ss = 1..n /\ AsInt(n) = n
    BY <2>1, CountKept
  <2>3. \A i \in 1..n : ss[i] \in Bytes /\ Len(ss[i]) \in Nat
    BY <2>2 DEF Bytes
  <2>4. \A i \in 1..n : ps[i] \in Bytes /\ ps[i] = Encode(Len(ss[i])) \o ss[i]
    BY <2>2, <2>3, EncodeFirst
  <2>5. ps \in Seq(Bytes) /\ Len(ps) = n
    BY <2>2, <2>4
  <2>6. Expand(kind, n) = td
    BY <1>3, <2>2 DEF Expand
  <2>7. ASSUME NEW i \in 1..n
        PROVE  Piece(ms, td[i], <<>>, ps[i])
    <3>1. td[i] = Item("string")
      OBVIOUS
    <3>2. Says(ms, "string", ps[i])
      BY <2>3, <2>4 DEF Says
    <3> QED
      BY <2>4, <3>1, <3>2, WholePiece
  <2>8. Fits(ms, td, FlattenSeq(ps))
    <3> HIDE DEF ps
    <3> QED
    BY <2>2, <2>5, <2>7 DEF Fits
  <2>9. FlattenSeq(ps) \in Bytes
    BY <2>8, FitsTyped
  <2> QED
    BY <2>1, <2>2, <2>6, <2>8, <2>9
<1> QED
  BY <1>1, <1>2, <1>3 DEF Says

\* What push() writes of a field is what a field of its kind is read as.
LEMMA PushSays ==
    ASSUME NEW ms, NEW kind \in Kinds, NEW f, IsField(f, kind)
    PROVE  Push(f) \in Bytes /\ Says(ms, kind, Push(f))
<1>0. f.kind = kind
  BY DEF IsField
<1>1. CASE kind = "prim"
  <2>1. f.value \in Nat
    BY <1>1, StreamAssumption DEF IsField, Number
  <2>2. Push(f) = Encode(f.value)
    BY <1>0, <1>1 DEF Push
  <2> QED
    BY <1>1, <2>1, <2>2, Roundtrip DEF Says
<1>2. CASE kind \in {"string", "buffer"}
  <2>1. f.value \in Bytes
    <3>1. f.value \in Seq(Byte)
      BY <1>2 DEF IsField
    <3> QED
      BY <3>1, StreamAssumption DEF Byte, Bytes
  <2>2. Push(f) = Encode(Len(f.value)) \o f.value
    BY <1>0, <1>2 DEF Push
  <2>3. Len(f.value) \in Nat
    BY <2>1 DEF Bytes
  <2> QED
    BY <1>2, <2>1, <2>2, <2>3, EncodeFirst DEF Says
<1>3. CASE kind = "strings"
  <2> DEFINE ss == f.value
             ps == [i \in DOMAIN ss |-> Encode(Len(ss[i])) \o ss[i]]
  <2>1. ss \in Seq(Bytes) /\ Len(ss) \in 0..INT_MAX
    <3>1. ss \in Seq(Seq(Byte)) /\ Len(ss) \in 0..INT_MAX
      BY <1>3 DEF IsField
    <3>2. Seq(Byte) \subseteq Bytes
      BY StreamAssumption DEF Byte, Bytes
    <3> QED
      BY <3>1, <3>2
  <2> HIDE DEF ss
  <2>2. Push(f) = Encode(Len(ss)) \o FlattenSeq(ps)
    BY <1>0, <1>3 DEF Push, ss
  <2>3. \A i \in DOMAIN ss : ss[i] \in Bytes /\ Len(ss[i]) \in Nat
    BY <2>1 DEF Bytes
  <2>4. \A i \in DOMAIN ss : Encode(Len(ss[i])) \o ss[i] \in Bytes
    BY <2>3, EncodeFirst
  <2>5. ps \in Seq(Bytes)
    <3>1. Len(ss) \in Nat /\ DOMAIN ss = 1..Len(ss)
      BY <2>1
    <3>2. ps = [i \in 1..Len(ss) |-> Encode(Len(ss[i])) \o ss[i]]
      BY <3>1
    <3> QED
      BY <2>4, <3>1, <3>2
  <2>6. FlattenSeq(ps) \in Bytes /\ Len(ss) \in Nat
    <3> HIDE DEF ps
    <3>1. FlattenSeq(ps) \in Bytes
      BY <2>5, FlattenAppend, EmptySeq DEF Bytes
    <3> QED
      BY <2>1, <3>1, StreamAssumption
  <2>7. Push(f) \in Bytes
    BY <2>2, <2>6, EncodeFirst
  <2> QED
    BY <1>3, <2>1, <2>2, <2>7 DEF Says
<1> QED
  BY <1>1, <1>2, <1>3 DEF Kinds

\* A composed message has the fields its reader reads.
LEMMA ComposedAgrees ==
    ASSUME NEW m, NEW writes, NEW reads, Composed(m, writes), Agree(writes, reads)
    PROVE  /\ m.type \in DOMAIN reads
           /\ DOMAIN m.fields = 1..Len(reads[m.type])
           /\ \A i \in 1..Len(reads[m.type]) : IsField(m.fields[i], reads[m.type][i])
<1>1. m.fields \in Seq(Range(m.fields)) /\ Len(m.fields) = Len(writes[m.type])
  BY DEF Composed
<1>2. DOMAIN m.fields = 1..Len(m.fields)
  BY <1>1
<1> QED
  BY <1>1, <1>2 DEF Composed, Agree

\* Every message a peer sends begins with a type its reader handles, and goes on
\* with what the handler reads.
LEMMA Framed ==
    ASSUME NEW m \in Messages
    PROVE  \E c \in Bytes :
              /\ m.type \in Nat
              /\ Frame(m) = Encode(m.type) \o c
              /\ Expand("header", m.type) \in Seq(Items)
              /\ Fits(Messages, Expand("header", m.type), c)
<1> DEFINE layout == Reads[m.type]
           n == Len(layout)
           td == [i \in 1..n |-> Item(layout[i])]
           ps == [i \in DOMAIN m.fields |-> Push(m.fields[i])]
<1>1. /\ m.type \in DOMAIN Reads
      /\ DOMAIN m.fields = 1..n
      /\ \A i \in 1..n : IsField(m.fields[i], layout[i])
  <2>1. CASE side = "viewer"
    <3>1. Reads = ViewerReads /\ m \in ToViewer
      BY <2>1 DEF Reads, Messages
    <3>2. Composed(m, BridgeWrites) \/ Composed(m, ExtensionWrites)
      BY <3>1, MessagesAssumption
    <3> QED
      BY <3>1, <3>2, LayoutsAgree, ComposedAgrees
  <2>2. CASE side # "viewer"
    <3>1. Reads = BridgeReads /\ m \in ToBridge
      BY <2>2 DEF Reads, Messages
    <3>2. Composed(m, ViewerWrites)
      BY <3>1, MessagesAssumption
    <3> QED
      BY <3>1, <3>2, LayoutsAgree, ComposedAgrees
  <2> QED
    BY <2>1, <2>2
<1>2. m.type \in Nat /\ layout \in Seq(Kinds)
  BY <1>1, ReadsTyped DEF Reads
<1>3. n \in Nat /\ DOMAIN layout = 1..n /\ \A i \in 1..n : layout[i] \in Kinds
  BY <1>2
<1> HIDE DEF layout, n
<1>4. \A i \in 1..n : Push(m.fields[i]) \in Bytes /\ Says(Messages, layout[i], Push(m.fields[i]))
  BY <1>1, <1>3, PushSays
<1>5. ps \in Seq(Bytes) /\ Len(ps) = n /\ \A i \in 1..n : ps[i] = Push(m.fields[i])
  BY <1>1, <1>3, <1>4
<1>6. \A i \in 1..n : td[i] = Item(layout[i]) /\ Item(layout[i]) \in Items
  BY <1>3 DEF Item, Items, PrimBytes
<1>7. td \in Seq(Items) /\ Len(td) = n
  BY <1>3, <1>6
<1>8. Expand("header", m.type) = td
  BY <1>1, <1>3 DEF Expand, layout
<1>9. Frame(m) = Encode(m.type) \o FlattenSeq(ps)
  BY DEF Frame
<1> HIDE DEF ps, td
<1>10. \A i \in 1..n : Piece(Messages, td[i], <<>>, ps[i])
  <2> TAKE i \in 1..n
  <2>1. layout[i] # "raw"
    BY <1>3 DEF Kinds
  <2> QED
    BY <1>4, <1>5, <1>6, <2>1, WholePiece
<1>11. Fits(Messages, td, FlattenSeq(ps))
  BY <1>5, <1>7, <1>10 DEF Fits
<1> QED
  BY <1>2, <1>7, <1>8, <1>9, <1>11, FitsTyped

\* What a number leaves to read is a list of items.
LEMMA ExpandTyped ==
    ASSUME NEW kind \in Kinds \cup {"header"}, NEW v \in Nat
    PROVE  Expand(kind, v) \in Seq(Unread)
<1>1. CASE kind = "header"
  <2>1. CASE v \in DOMAIN Reads
    <3> DEFINE layout == Reads[v]
               n == Len(layout)
    <3>1. layout \in Seq(Kinds)
      BY <2>1, ReadsTyped DEF Reads
    <3>2. n \in Nat /\ DOMAIN layout = 1..n /\ \A i \in 1..n : Item(layout[i]) \in Unread
      BY <3>1 DEF Item, Unread, PrimBytes
    <3>3. Expand(kind, v) = [i \in DOMAIN layout |-> Item(layout[i])]
      BY <1>1, <2>1 DEF Expand
    <3> HIDE DEF layout, n
    <3> QED
      BY <3>2, <3>3
  <2>2. CASE v \notin DOMAIN Reads
    BY <1>1, <2>2 DEF Expand
  <2> QED
    BY <2>1, <2>2
<1>2. CASE kind = "prim"
  BY <1>2 DEF Expand
<1>3. CASE kind \in {"string", "buffer"}
  <2>1. Raw(v) \in Seq(Unread)
    <3>1. CASE v = 0
      BY <3>1 DEF Raw
    <3>2. CASE v # 0
      <4>1. [kind |-> "raw", bytes |-> v] \in Unread
        BY <3>2 DEF Unread
      <4> QED
        BY <3>2, <4>1 DEF Raw
    <3> QED
      BY <3>1, <3>2
  <2> QED
    BY <1>3, <2>1 DEF Expand
<1>4. CASE kind = "strings"
  <2> DEFINE n == AsInt(v)
             td == [i \in 1..n |-> Item("string")]
  <2>1. n \in Int
    BY IntTyped
  <2>2. Item("string") \in Unread
    BY DEF Item, Unread, PrimBytes, Kinds
  <2>3. Expand(kind, v) = td
    BY <1>4 DEF Expand
  <2> HIDE DEF n
  <2>4. CASE n >= 0
    BY <2>1, <2>2, <2>3, <2>4
  <2>5. CASE n < 0
    <3>1. 1..n = 1..0
      BY <2>1, <2>5
    <3>2. td = [i \in 1..0 |-> Item("string")]
      BY <3>1
    <3>3. [i \in 1..0 |-> Item("string")] \in Seq(Unread)
      BY <2>2
    <3> QED
      BY <2>3, <3>2, <3>3, Zenon
  <2> QED
    BY <2>1, <2>4, <2>5
<1> QED
  BY <1>1, <1>2, <1>3, <1>4 DEF Kinds

\* The number at the start of an item, and the rest.
LEMMA SaidAll ==
    ASSUME NEW kind, NEW b, Says(Messages, kind, b)
    PROVE  \E v \in Nat, c \in Bytes :
              b = Encode(v) \o c /\ Fits(Messages, Expand(kind, v), c)
<1>1. CASE kind = "header"
  <2>1. PICK m \in Messages : b = Frame(m)
    BY <1>1 DEF Says
  <2> QED
    BY <1>1, <2>1, Framed
<1>2. CASE kind # "header"
  BY <1>2, Said
<1> QED
  BY <1>1, <1>2

\* Equal streams cut at the same length have equal parts.
LEMMA Split ==
    ASSUME NEW a \in Bytes, NEW b \in Bytes, NEW c \in Bytes, NEW d \in Bytes,
           Len(a) = Len(c), a \o b = c \o d
    PROVE  a = c /\ b = d
<1>1. \A x, y \in Bytes :
         /\ Len(x \o y) = Len(x) + Len(y) /\ Len(x) \in Nat /\ Len(y) \in Nat
         /\ \A i \in 1..(Len(x) + Len(y)) :
               (x \o y)[i] = IF i <= Len(x) THEN x[i] ELSE y[i - Len(x)]
  BY ConcatProperties, LenProperties DEF Bytes
<1>2. \A x, y \in Bytes :
         /\ \A i \in 1..Len(x) : (x \o y)[i] = x[i]
         /\ \A i \in 1..Len(y) : (x \o y)[i + Len(x)] = y[i]
  <2> TAKE x, y \in Bytes
  <2>1. \A i \in 1..Len(x) : i \in 1..(Len(x) + Len(y)) /\ i <= Len(x)
    BY <1>1
  <2>2. \A i \in 1..Len(y) : /\ i + Len(x) \in 1..(Len(x) + Len(y)) /\ ~ (i + Len(x) <= Len(x))
                             /\ i + Len(x) - Len(x) = i
    BY <1>1
  <2>3. \A i \in 1..(Len(x) + Len(y)) :
           (x \o y)[i] = IF i <= Len(x) THEN x[i] ELSE y[i - Len(x)]
    BY <1>1
  <2>4. \A i \in 1..Len(x) : (x \o y)[i] = x[i]
    BY <2>1, <2>3
  <2>5. \A i \in 1..Len(y) : (x \o y)[i + Len(x)] = y[i]
    BY <2>2, <2>3
  <2> QED
    BY <2>4, <2>5
<1>3. Len(b) = Len(d)
  BY <1>1
<1>4. \A i \in 1..Len(a) : a[i] = c[i]
  BY <1>2
<1>5. \A i \in 1..Len(b) : b[i] = d[i]
  <2>1. \A i \in 1..Len(b) : (a \o b)[i + Len(a)] = b[i]
    BY <1>2
  <2>2. \A i \in 1..Len(d) : (c \o d)[i + Len(c)] = d[i]
    BY <1>2
  <2> QED
    BY <1>3, <2>1, <2>2, Zenon
<1>6. a = c
  BY <1>4, SeqEqual DEF Bytes
<1>7. b = d
  BY <1>3, <1>5, SeqEqual DEF Bytes
<1> QED
  BY <1>6, <1>7

\* The first byte of a stream moves from its front to the end of another.
LEMMA HeadTail ==
    ASSUME NEW b \in Bytes, b # <<>>
    PROVE  /\ Head(b) \in Nat /\ Tail(b) \in Bytes /\ Len(b) \in Nat
           /\ Len(Tail(b)) = Len(b) - 1
           /\ \A a \in Bytes : /\ Append(a, Head(b)) \in Bytes
                               /\ Append(a, Head(b)) \o Tail(b) = a \o b
                               /\ Len(Append(a, Head(b))) = Len(a) + 1
           /\ \A c \in Bytes : /\ b \o c # <<>> /\ Head(b \o c) = Head(b)
                               /\ Tail(b \o c) = Tail(b) \o c
<1> USE DEF Bytes
<1>1. Head(b) \in Nat /\ Tail(b) \in Bytes /\ Len(b) \in Nat /\ Len(Tail(b)) = Len(b) - 1
  OBVIOUS
<1>2. ASSUME NEW a \in Bytes
      PROVE  /\ Append(a, Head(b)) \in Bytes
             /\ Append(a, Head(b)) \o Tail(b) = a \o b
             /\ Len(Append(a, Head(b))) = Len(a) + 1
  <2>1. Append(a, Head(b)) = a \o <<Head(b)>>
    BY <1>1, AppendIsConcat, SMTT(40)
  <2>2. <<Head(b)>> \in Seq(Nat) /\ <<Head(b)>> \o Tail(b) = b
    BY <1>1, SMTT(40)
  <2>3. (a \o <<Head(b)>>) \o Tail(b) = a \o (<<Head(b)>> \o Tail(b))
    BY <1>1, <2>2, ConcatAssociative, SMTT(40)
  <2>4. Append(a, Head(b)) \o Tail(b) = a \o b
    BY <2>1, <2>2, <2>3, Zenon
  <2>5. Append(a, Head(b)) \in Bytes /\ Len(Append(a, Head(b))) = Len(a) + 1
    BY <1>1, AppendProperties
  <2> QED
    BY <2>4, <2>5
<1>3. ASSUME NEW c \in Bytes
      PROVE  b \o c # <<>> /\ Head(b \o c) = Head(b) /\ Tail(b \o c) = Tail(b) \o c
  <2>1. b \o c # <<>> /\ Head(b \o c) = Head(b)
    OBVIOUS
  <2>2. Tail(b \o c) = Tail(b) \o c
    <3>1. b = <<Head(b)>> \o Tail(b) /\ <<Head(b)>> \in Seq(Nat)
      BY <1>1
    <3> DEFINE h == <<Head(b)>>
               t == Tail(b) \o c
    <3>2. b \o c = h \o t
      BY <1>1, <3>1, ConcatAssociative, SMTT(40)
    <3>3. t \in Seq(Nat)
      BY <1>1, ConcatProperties
    <3> HIDE DEF t
    <3>4. Tail(h \o t) = t
      BY <1>1, <3>3, SMTT(40)
    <3> QED
      BY <3>2, <3>4 DEF t
  <2> QED
    BY <2>1, <2>2
<1> QED
  BY <1>1, <1>2, <1>3

\* pr is as long as what was read of item: nothing of raw bytes is kept in it.
Begun(item, pr) ==
    Len(pr) = IF item.kind = "raw" THEN 0 ELSE PrimBytes - item.bytes

\* Two bytes decode to a number.
LEMMA DecodeTyped ==
    ASSUME NEW pr \in Bytes, Len(pr) = 1, NEW byte \in Nat
    PROVE  Decode(Append(pr, byte)) \in Nat
<1>1. Append(pr, byte)[1] = pr[1] /\ Append(pr, byte)[2] = byte /\ pr[1] \in Nat
  <2>1. Append(pr, byte)[1] = pr[1] /\ Append(pr, byte)[2] = byte
    <3>1. pr \in Seq(Nat) /\ 1 \in 1..Len(pr) /\ Len(pr) + 1 = 2
      BY DEF Bytes
    <3>2. Append(pr, byte)[Len(pr) + 1] = byte
      BY <3>1, AppendProperties
    <3>3. \A p \in Seq(Nat), i \in Nat : i \in 1..Len(p) => Append(p, byte)[i] = p[i]
      OBVIOUS
    <3>4. Append(pr, byte)[1] = pr[1]
      BY <3>1, <3>3
    <3> QED
      BY <3>1, <3>2, <3>4
  <2>2. pr[1] \in Nat
    <3>1. pr \in Seq(Nat) /\ 1 \in 1..Len(pr)
      BY DEF Bytes
    <3> QED
      BY <3>1, ElementOfSeq
  <2> QED
    BY <2>1, <2>2
<1>2. \A x, y \in Nat : x + Base * y \in Nat
  BY StreamAssumption
<1> QED
  BY <1>1, <1>2 DEF Decode

\* What is left of an item has a first byte; the last byte of a number is the
\* last byte of what was written first.
LEMMA PieceRead ==
    ASSUME NEW item \in Items, NEW pr, NEW b, Piece(Messages, item, pr, b)
    PROVE  /\ b \in Bytes /\ pr \in Bytes /\ b # <<>>
           /\ item.bytes > 1 =>
                 Piece(Messages, [item EXCEPT !.bytes = @ - 1],
                       IF item.kind = "raw" THEN <<>> ELSE Append(pr, Head(b)), Tail(b))
           /\ item.bytes = 1 /\ item.kind = "raw" => Tail(b) = <<>>
           /\ item.bytes = 1 /\ item.kind # "raw" =>
                 Fits(Messages, Expand(item.kind, Decode(Append(pr, Head(b)))), Tail(b))
<1>1. /\ b \in Bytes /\ pr \in Bytes /\ item.bytes \in Nat /\ item.bytes > 0
      /\ Len(b) \in Nat /\ Len(pr) \in Nat
  BY DEF Piece, Items, Bytes
<1>2. CASE item.kind = "raw"
  <2>1. pr = <<>> /\ Len(b) = item.bytes
    BY <1>2 DEF Piece
  <2>2. b # <<>>
    BY <1>1, <2>1
  <2>3. Tail(b) \in Bytes /\ Len(Tail(b)) = item.bytes - 1
    BY <1>1, <2>1, <2>2, HeadTail
  <2>4. ASSUME item.bytes = 1
        PROVE  Tail(b) = <<>>
    <3>1. Tail(b) \in Seq(Nat) /\ Len(Tail(b)) = 0
      BY <2>3, <2>4 DEF Bytes
    <3> QED
      BY <3>1, EmptySeq
  <2>5. Piece(Messages, [item EXCEPT !.bytes = @ - 1], <<>>, Tail(b))
    <3> DEFINE less == [item EXCEPT !.bytes = @ - 1]
    <3>1. less.kind = "raw" /\ less.bytes = item.bytes - 1
      BY <1>2 DEF Items
    <3>2. <<>> \in Bytes
      BY DEF Bytes
    <3> HIDE DEF less
    <3>3. Piece(Messages, less, <<>>, Tail(b))
      BY <2>3, <3>1, <3>2, Zenon DEF Piece
    <3> QED
      BY <3>3 DEF less
  <2> QED
    BY <1>1, <1>2, <2>2, <2>4, <2>5
<1>3. CASE item.kind # "raw"
  <2>1. Len(pr) = PrimBytes - item.bytes /\ Says(Messages, item.kind, pr \o b)
    BY <1>3 DEF Piece
  <2>2. PICK v \in Nat, c \in Bytes :
            pr \o b = Encode(v) \o c /\ Fits(Messages, Expand(item.kind, v), c)
    BY <2>1, SaidAll
  <2>3. Len(pr) + Len(b) = Len(c) + PrimBytes /\ Len(c) \in Nat
    <3>1. Len(pr \o b) = Len(pr) + Len(b) /\ Len(c) \in Nat
      BY <1>1, ConcatProperties DEF Bytes
    <3> QED
      BY <2>2, <3>1, EncodeFirst
  <2>4. b # <<>>
    BY <1>1, <2>1, <2>3 DEF PrimBytes
  <2>5. /\ Append(pr, Head(b)) \in Bytes /\ Tail(b) \in Bytes
        /\ Append(pr, Head(b)) \o Tail(b) = pr \o b
        /\ Len(Append(pr, Head(b))) = Len(pr) + 1
    BY <1>1, <2>4, HeadTail
  <2>6. item.bytes > 1 => Piece(Messages, [item EXCEPT !.bytes = @ - 1],
                                Append(pr, Head(b)), Tail(b))
    <3> DEFINE less == [item EXCEPT !.bytes = @ - 1]
    <3>1. less.kind = item.kind /\ less.bytes = item.bytes - 1
      BY DEF Items
    <3> HIDE DEF less
    <3>2. Len(Append(pr, Head(b))) = PrimBytes - less.bytes
      BY <1>1, <2>1, <2>5, <3>1 DEF PrimBytes
    <3>3. Says(Messages, less.kind, Append(pr, Head(b)) \o Tail(b))
      BY <2>1, <2>5, <3>1
    <3> QED
      BY <1>3, <2>5, <3>1, <3>2, <3>3 DEF Piece
  <2>7. ASSUME item.bytes = 1
        PROVE  Fits(Messages, Expand(item.kind, Decode(Append(pr, Head(b)))), Tail(b))
    <3>1. Len(Append(pr, Head(b))) = 2
      BY <2>1, <2>5, <2>7 DEF PrimBytes
    <3>2. Encode(v) \in Bytes /\ Len(Encode(v)) = 2 /\ Decode(Encode(v)) = v
      BY Roundtrip
    <3>3. Append(pr, Head(b)) \o Tail(b) = Encode(v) \o c
      BY <2>2, <2>5
    <3>4. Append(pr, Head(b)) = Encode(v) /\ Tail(b) = c
      BY <2>5, <3>1, <3>2, <3>3, Split
    <3> QED
      BY <2>2, <3>2, <3>4
  <2> QED
    BY <1>1, <1>3, <2>4, <2>6, <2>7
<1> QED
  BY <1>2, <1>3

\* One more byte of what is left of a message.
LEMMA LeftRead ==
    ASSUME NEW td \in Seq(Items), NEW pr, NEW rest, Left(Messages, td, pr, rest),
           NEW item, item = Head(td)
    PROVE  /\ rest \in Bytes /\ rest # <<>>
           /\ item.bytes > 1 =>
                 Left(Messages, <<[item EXCEPT !.bytes = @ - 1]>> \o Tail(td),
                      IF item.kind = "raw" THEN <<>> ELSE Append(pr, Head(rest)), Tail(rest))
           /\ item.bytes = 1 /\ item.kind = "raw" => Fits(Messages, Tail(td), Tail(rest))
           /\ item.bytes = 1 /\ item.kind # "raw" =>
                 Fits(Messages, Expand(item.kind, Decode(Append(pr, Head(rest)))) \o Tail(td),
                      Tail(rest))
<1>1. PICK b \in Bytes, r \in Bytes :
          /\ rest = b \o r /\ Piece(Messages, item, pr, b)
          /\ Fits(Messages, Tail(td), r)
  BY DEF Left
<1>2. item \in Items /\ Tail(td) \in Seq(Items)
  BY DEF Left
<1>3. b # <<>> /\ pr \in Bytes
  BY <1>1, <1>2, PieceRead
<1>4. /\ rest # <<>> /\ Head(rest) = Head(b) /\ Tail(rest) = Tail(b) \o r
      /\ Head(b) \in Nat /\ Tail(b) \in Bytes
  BY <1>1, <1>3, HeadTail
<1>5. rest \in Bytes
  BY <1>1 DEF Bytes
<1>6. ASSUME item.bytes > 1
      PROVE  Left(Messages, <<[item EXCEPT !.bytes = @ - 1]>> \o Tail(td),
                  IF item.kind = "raw" THEN <<>> ELSE Append(pr, Head(rest)), Tail(rest))
  <2> DEFINE less == [item EXCEPT !.bytes = @ - 1]
             now == IF item.kind = "raw" THEN <<>> ELSE Append(pr, Head(rest))
             te == <<less>> \o Tail(td)
  <2>1. Piece(Messages, less, now, Tail(b))
    BY <1>1, <1>2, <1>4, <1>6, PieceRead
  <2>2. less \in Items
    BY <1>2, <1>6 DEF Items
  <2> HIDE DEF less, now
  <2>3. te # <<>> /\ Head(te) = less /\ Tail(te) = Tail(td)
    BY <1>2, <2>2
  <2> HIDE DEF te
  <2> QED
    BY <1>1, <1>4, <2>1, <2>3 DEF Left, te, less, now
<1>7. ASSUME item.bytes = 1, item.kind = "raw"
      PROVE  Fits(Messages, Tail(td), Tail(rest))
  <2>1. Tail(b) = <<>> /\ <<>> \o r = r
    BY <1>1, <1>2, <1>7, PieceRead, ConcatEmptySeq DEF Bytes
  <2> QED
    BY <1>1, <1>4, <2>1
<1>8. ASSUME item.bytes = 1, item.kind # "raw"
      PROVE  Fits(Messages, Expand(item.kind, Decode(Append(pr, Head(rest)))) \o Tail(td),
                  Tail(rest))
  <2> DEFINE v == Decode(Append(pr, Head(rest)))
  <2>1. Fits(Messages, Expand(item.kind, v), Tail(b))
    BY <1>1, <1>2, <1>4, <1>8, PieceRead
  <2>2. v \in Nat
    <3>1. Len(pr) = PrimBytes - item.bytes
      BY <1>1, <1>8 DEF Piece
    <3>2. Len(pr) = 1
      BY <1>8, <3>1 DEF PrimBytes
    <3> QED
      BY <1>3, <1>4, <3>2, DecodeTyped
  <2>3. Expand(item.kind, v) \in Seq(Items)
    <3>1. Expand(item.kind, v) \in Seq(Unread)
      BY <1>2, <1>8, <2>2, ExpandTyped DEF Items
    <3> QED
      BY <3>1, UnreadItems
  <2> HIDE DEF v
  <2>4. Fits(Messages, Expand(item.kind, v) \o Tail(td), Tail(b) \o r)
    BY <1>1, <1>2, <2>1, <2>3, FitsConcat
  <2> QED
    BY <1>4, <2>4 DEF v
<1> QED
  BY <1>4, <1>5, <1>6, <1>7, <1>8

\* The frames after the first k.
Rest(s, k) == SubSeq(s, k + 1, Len(s))

\* What every state satisfies, in step or not: the decoder is inside an item exactly
\* while the reader reads, and holds the bytes of the number it is in.
TypeOK ==
    /\ side \in {"viewer", "bridge"}
    /\ sent \in Seq(Bytes) /\ delivered \in Seq(Bytes)
    /\ in_flight \in Bytes /\ socket \in Bytes /\ got \in Bytes /\ prim \in Bytes
    /\ desynced \in BOOLEAN /\ reading \in BOOLEAN
    /\ \A i \in 1..Len(sent) : \E m \in Messages : sent[i] = Frame(m)
    /\ IF reading
       THEN /\ todo \in Seq(Items) /\ todo # <<>> /\ Tail(todo) \in Seq(Unread)
            /\ Begun(Head(todo), prim)
       ELSE todo = <<>> /\ prim = <<>> /\ got = <<>>

\* The reader is inside the first message not dispatched: what it read of it and what
\* it has still to read make the frame.
Midway ==
    /\ Len(delivered) < Len(sent)
    /\ \E rest \in Bytes : /\ sent[Len(delivered) + 1] = got \o rest
                           /\ Left(Messages, todo, prim, rest)

\* The reader is in step with its peer: read, arrived and travelling bytes are the
\* frames sent and not dispatched.
InStep ==
    /\ Len(delivered) <= Len(sent)
    /\ got \o (socket \o in_flight) = FlattenSeq(Rest(sent, Len(delivered)))
    /\ reading => (got = <<>> /\ todo = <<Header>> /\ prim = <<>>) \/ Midway

\* The inductive invariant.
IInv == TypeOK /\ (~ desynced => InStep)

\* The first of the frames to come.
LEMMA RestNext ==
    ASSUME NEW s \in Seq(Bytes), NEW k \in Nat, k < Len(s)
    PROVE  /\ Rest(s, k) \in Seq(Bytes) /\ Rest(s, k + 1) \in Seq(Bytes) /\ s[k + 1] \in Bytes
           /\ FlattenSeq(Rest(s, k)) = s[k + 1] \o FlattenSeq(Rest(s, k + 1))
<1>1. k + 1 \in 1..Len(s) /\ Len(s) \in (k + 1)..Len(s) /\ Len(s) \in Nat
  OBVIOUS
<1>2. Head(Rest(s, k)) = s[k + 1] /\ Tail(Rest(s, k)) = Rest(s, k + 1)
  BY <1>1, HeadTailOfSubSeq DEF Rest
<1>3. Rest(s, k) \in Seq(Bytes) /\ Rest(s, k) # <<>> /\ s[k + 1] \in Bytes
  BY <1>1, SubSeqProperties DEF Rest
<1>4. Tail(Rest(s, k)) \in Seq(Bytes)
  BY <1>3
<1> QED
  BY <1>2, <1>3, <1>4, FlattenHead

\* No frames to come.
LEMMA RestDone ==
    ASSUME NEW s \in Seq(Bytes)
    PROVE  FlattenSeq(Rest(s, Len(s))) = <<>>
<1>1. Len(s) \in Nat /\ Len(s) + 1 \in Int /\ Len(s) < Len(s) + 1
  OBVIOUS
<1>2. Rest(s, Len(s)) = <<>>
  BY <1>1, SubSeqEmpty DEF Rest
<1> QED
  BY <1>2, FlattenEmpty

\* A frame sent is the last of the frames to come.
LEMMA RestGrows ==
    ASSUME NEW s \in Seq(Bytes), NEW e \in Bytes, NEW k \in Nat, k <= Len(s)
    PROVE  /\ FlattenSeq(Rest(s, k)) \in Bytes
           /\ FlattenSeq(Rest(Append(s, e), k)) = FlattenSeq(Rest(s, k)) \o e
<1> DEFINE t == Append(s, e)
<1>1. /\ t \in Seq(Bytes) /\ Len(t) = Len(s) + 1 /\ Len(s) \in Nat
      /\ (\A i \in 1..Len(s) : t[i] = s[i]) /\ t[Len(s) + 1] = e
  BY AppendProperties
<1> HIDE DEF t
<1>2. Rest(s, k) \in Seq(Bytes) /\ Len(Rest(s, k)) = Len(s) - k
      /\ \A i \in 1..(Len(s) - k) : Rest(s, k)[i] = s[k + i]
  BY <1>1, SubSeqProperties DEF Rest
<1>3. Rest(t, k) \in Seq(Bytes) /\ Len(Rest(t, k)) = Len(s) + 1 - k
      /\ \A i \in 1..(Len(s) + 1 - k) : Rest(t, k)[i] = t[k + i]
  BY <1>1, SubSeqProperties DEF Rest
<1> DEFINE u == Append(Rest(s, k), e)
<1>4. /\ u \in Seq(Bytes) /\ Len(u) = Len(s) - k + 1
      /\ (\A i \in 1..(Len(s) - k) : u[i] = Rest(s, k)[i]) /\ u[Len(s) - k + 1] = e
  BY <1>2, AppendProperties
<1> HIDE DEF u
<1>5. \A i \in 1..(Len(s) - k + 1) : u[i] = Rest(t, k)[i]
  <2> TAKE i \in 1..(Len(s) - k + 1)
  <2>1. CASE i \in 1..(Len(s) - k)
    BY <1>1, <1>2, <1>3, <1>4, <2>1
  <2>2. CASE i = Len(s) - k + 1
    <3>1. k + i = Len(s) + 1 /\ i \in 1..(Len(s) + 1 - k)
      BY <1>1, <2>2
    <3> QED
      BY <1>1, <1>3, <1>4, <2>2, <3>1
  <2> QED
    BY <1>1, <2>1, <2>2
<1>6. Rest(t, k) = u
  BY <1>1, <1>3, <1>4, <1>5, SeqEqual
<1>7. FlattenSeq(u) = FlattenSeq(Rest(s, k)) \o e /\ FlattenSeq(Rest(s, k)) \in Bytes
  BY <1>2, FlattenAppend DEF u
<1> QED
  BY <1>6, <1>7 DEF t

\* Nothing to read is no bytes.
LEMMA FitsEmpty ==
    ASSUME NEW ms, NEW b, Fits(ms, <<>>, b)
    PROVE  b = <<>>
<1>1. PICK ps \in Seq(Bytes) : Len(ps) = 0 /\ b = FlattenSeq(ps)
  BY DEF Fits
<1>2. ps = <<>>
  BY <1>1, EmptySeq
<1> QED
  BY <1>1, <1>2, FlattenEmpty

\* A reader in step with its peer that finds a byte is in the first message not
\* dispatched, and what it has still to read of it is what its handler reads.
LEMMA Inside ==
    ASSUME TypeOK, InStep, reading, socket \o in_flight # <<>>
    PROVE  /\ Len(delivered) < Len(sent)
           /\ \E rest \in Bytes :
                /\ sent[Len(delivered) + 1] = got \o rest
                /\ Left(Messages, todo, prim, rest)
                /\ socket \o in_flight = rest \o FlattenSeq(Rest(sent, Len(delivered) + 1))
<1> DEFINE k == Len(delivered)
           stream == socket \o in_flight
           later == FlattenSeq(Rest(sent, k + 1))
<1>1. k \in Nat /\ stream \in Bytes /\ k <= Len(sent) /\ sent \in Seq(Bytes) /\ got \in Bytes
      /\ Len(sent) \in Nat
  <2>1. /\ sent \in Seq(Bytes) /\ got \in Bytes /\ socket \in Bytes /\ in_flight \in Bytes
        /\ delivered \in Seq(Bytes)
    BY DEF TypeOK
  <2>2. stream \in Bytes
    BY <2>1 DEF Bytes
  <2> QED
    BY <2>1, <2>2 DEF InStep
<1>2. got \o stream = FlattenSeq(Rest(sent, k))
  BY DEF InStep
<1>3. ASSUME k < Len(sent)
      PROVE  /\ sent[k + 1] \in Bytes /\ later \in Bytes
             /\ got \o stream = sent[k + 1] \o later
  <2>1. /\ Rest(sent, k + 1) \in Seq(Bytes) /\ sent[k + 1] \in Bytes
        /\ FlattenSeq(Rest(sent, k)) = sent[k + 1] \o later
    BY <1>1, <1>3, RestNext
  <2>2. later \in Bytes
    BY <2>1, FlattenAppend, EmptySeq DEF Bytes
  <2> QED
    BY <1>2, <2>1, <2>2
<1>4. CASE Midway
  <2>1. k < Len(sent)
    BY <1>4 DEF Midway
  <2>2. PICK rest \in Bytes : sent[k + 1] = got \o rest /\ Left(Messages, todo, prim, rest)
    BY <1>4 DEF Midway
  <2>3. /\ later \in Bytes
        /\ got \o stream = (got \o rest) \o later
    BY <1>3, <2>1, <2>2
  <2>4. rest \o later \in Bytes /\ (got \o rest) \o later = got \o (rest \o later)
    <3> HIDE DEF k, stream, later
    <3>1. rest \in Seq(Nat) /\ later \in Seq(Nat) /\ got \in Seq(Nat)
      BY <1>1, <2>3 DEF Bytes
    <3>2. rest \o later \in Seq(Nat)
      BY <3>1
    <3>3. (got \o rest) \o later = got \o (rest \o later)
      BY <3>1, Assoc, ZenonT(40)
    <3> QED
      BY <3>2, <3>3 DEF Bytes
  <2>5. stream = rest \o later
    <3> DEFINE r == rest \o later
    <3>1. got \o stream = got \o r /\ r \in Bytes /\ Len(got) = Len(got)
      BY <2>3, <2>4, Zenon
    <3> HIDE DEF k, stream, later, r
    <3>2. got \in Bytes /\ stream \in Bytes
      BY <1>1
    <3>3. stream = r
      BY <3>1, <3>2, Split
    <3> QED
      BY <3>3 DEF r
  <2> QED
    BY <2>1, <2>2, <2>5 DEF k, stream, later
<1>5. CASE ~ Midway
  <2>1. got = <<>> /\ todo = <<Header>> /\ prim = <<>>
    BY <1>5 DEF InStep
  <2>2. got \o stream = stream
    BY <1>1, <2>1, ConcatEmptySeq DEF Bytes
  <2>3. k < Len(sent)
    <3> SUFFICES ASSUME k = Len(sent)
                 PROVE  FALSE
      BY <1>1
    <3>1. stream = <<>>
      BY <1>1, <1>2, <2>2, RestDone
    <3> QED
      BY <3>1
  <2>4. sent[k + 1] = got \o sent[k + 1] /\ stream = sent[k + 1] \o later /\ sent[k + 1] \in Bytes
    BY <1>3, <2>1, <2>2, <2>3, ConcatEmptySeq DEF Bytes
  <2>5. Says(Messages, "header", sent[k + 1])
    <3>1. k + 1 \in 1..Len(sent)
      BY <1>1, <2>3
    <3>2. \E m \in Messages : sent[k + 1] = Frame(m)
      BY <3>1 DEF TypeOK
    <3> QED
      BY <3>2 DEF Says
  <2>6. Left(Messages, <<Header>>, <<>>, sent[k + 1])
    <3>1. Piece(Messages, Header, <<>>, sent[k + 1])
      BY <2>4, <2>5, WholePiece DEF Header
    <3>2. Fits(Messages, <<Header>>, sent[k + 1])
      BY <2>4, <3>1, FitsOne
    <3>3. <<Header>> \in Seq(Items) /\ <<Header>> # <<>>
      BY DEF Header, Item, Items, PrimBytes
    <3> QED
      BY <3>2, <3>3, FitsHead
  <2> QED
    BY <2>1, <2>3, <2>4, <2>6
<1> QED
  BY <1>4, <1>5

\* A reader about to read a header.
LEMMA HeaderOK ==
    /\ <<Header>> \in Seq(Items) /\ <<Header>> # <<>> /\ Tail(<<Header>>) \in Seq(Unread)
    /\ Head(<<Header>>) = Header /\ Header.kind = "header" /\ Begun(Header, <<>>)
<1>1. Header = [kind |-> "header", bytes |-> PrimBytes] /\ PrimBytes = 2
  BY DEF Header, Item, PrimBytes
<1>2. Header \in Items /\ Header.kind = "header" /\ Header.bytes = 2
  BY <1>1 DEF Items
<1> HIDE DEF Header
<1>3. <<Header>> \in Seq(Items) /\ <<Header>> # <<>> /\ Tail(<<Header>>) = <<>>
      /\ Head(<<Header>>) = Header /\ Len(<<>>) = 0
  BY <1>2
<1>4. Tail(<<Header>>) \in Seq(Unread)
  BY <1>3
<1>5. Begun(Header, <<>>)
  BY <1>1, <1>2 DEF Begun
<1> QED
  BY <1>2, <1>3, <1>4, <1>5

\* Nothing sent is nothing to read.
LEMMA InitOK == Init => IInv /\ Channel!Init
<1> SUFFICES ASSUME Init
             PROVE  IInv /\ Channel!Init
  OBVIOUS
<1>1. <<>> \in Bytes /\ <<>> \in Seq(Bytes) /\ Len(<<>>) = 0
  BY DEF Bytes
<1>2. TypeOK
  <2>1. \A i \in 1..Len(sent) : FALSE
    BY <1>1 DEF Init
  <2> QED
    BY <1>1, <2>1, Zenon DEF Init, TypeOK
<1>3. <<>> \o (<<>> \o <<>>) = <<>>
  BY ConcatEmptySeq, <1>1 DEF Bytes
<1>4. FlattenSeq(Rest(<<>>, 0)) = <<>>
  BY <1>1, RestDone
<1>5. InStep
  BY <1>1, <1>3, <1>4 DEF Init, InStep
<1> QED
  BY <1>2, <1>5 DEF Init, IInv, Channel!Init

\* AsioTransport::send() of a whole frame is the channel's Send.
LEMMA SendOK ==
    ASSUME IInv, NEW m \in Messages, send(m)
    PROVE  IInv' /\ Channel!Send
<1> DEFINE f == Frame(m)
           k == Len(delivered)
<1>1. f \in Bytes
  BY Framed, EncodeFirst
<1>2. /\ sent' = Append(sent, f) /\ in_flight' = in_flight \o f
      /\ UNCHANGED <<side, socket, reading, todo, prim, got, delivered, desynced>>
  BY DEF send, readerVars
<1>3. /\ TypeOK /\ sent \in Seq(Bytes) /\ Len(sent) \in Nat /\ in_flight \in Bytes
      /\ socket \in Bytes /\ got \in Bytes /\ k \in Nat
  BY DEF IInv, TypeOK
<1>4. Messages' = Messages
  BY <1>2 DEF Messages
<1> HIDE DEF f, k
<1>5. /\ sent' \in Seq(Bytes) /\ Len(sent') = Len(sent) + 1
      /\ \A i \in 1..Len(sent) : sent'[i] = sent[i]
      /\ sent'[Len(sent) + 1] = f
  BY <1>1, <1>2, <1>3, AppendProperties
<1>6. TypeOK'
  <2>1. \A i \in 1..Len(sent') : \E n \in Messages : sent'[i] = Frame(n)
    <3> TAKE i \in 1..Len(sent')
    <3>1. CASE i \in 1..Len(sent)
      BY <1>3, <1>5, <3>1 DEF TypeOK
    <3>2. CASE i = Len(sent) + 1
      BY <1>5, <3>2 DEF f
    <3> QED
      BY <1>3, <1>5, <3>1, <3>2
  <2>2. in_flight' \in Bytes
    BY <1>1, <1>2, <1>3 DEF Bytes
  <2> QED
    BY <1>2, <1>3, <1>4, <1>5, <2>1, <2>2 DEF TypeOK
<1>7. ASSUME ~ desynced'
      PROVE  InStep'
  <2>1. InStep
    BY <1>2, <1>7 DEF IInv
  <2>2. k <= Len(sent) /\ got \o (socket \o in_flight) = FlattenSeq(Rest(sent, k))
    BY <2>1 DEF InStep, k
  <2>3. got \o (socket \o (in_flight \o f)) = (got \o (socket \o in_flight)) \o f
    <3>1. /\ got \in Seq(Nat) /\ socket \in Seq(Nat) /\ in_flight \in Seq(Nat) /\ f \in Seq(Nat)
          /\ socket \o in_flight \in Seq(Nat)
      BY <1>1, <1>3 DEF Bytes
    <3>2. socket \o (in_flight \o f) = (socket \o in_flight) \o f
      BY <3>1, Assoc, ZenonT(40)
    <3>3. got \o ((socket \o in_flight) \o f) = (got \o (socket \o in_flight)) \o f
      BY <3>1, Assoc, ZenonT(40)
    <3> QED
      BY <3>2, <3>3
  <2>4. FlattenSeq(Rest(sent', k)) = FlattenSeq(Rest(sent, k)) \o f
    BY <1>1, <1>2, <1>3, <2>2, RestGrows
  <2>5. got' \o (socket' \o in_flight') = FlattenSeq(Rest(sent', k))
    BY <1>2, <2>2, <2>3, <2>4
  <2>6. Midway => Midway'
    <3> SUFFICES ASSUME Midway
                 PROVE  Midway'
      OBVIOUS
    <3>1. k < Len(sent) /\ k + 1 \in 1..Len(sent)
      BY <1>3 DEF Midway, k
    <3>2. k < Len(sent') /\ sent'[k + 1] = sent[k + 1]
      BY <1>3, <1>5, <3>1
    <3> QED
      BY <1>2, <1>4, <3>2 DEF Midway, k
  <2>7. k <= Len(sent')
    BY <1>3, <1>5, <2>2
  <2> QED
    BY <1>2, <2>1, <2>5, <2>6, <2>7 DEF InStep, k
<1>8. Channel!Send
  <2>1. SubSeq(sent', 1, Len(sent)) = sent
    <3>1. /\ SubSeq(sent', 1, Len(sent)) \in Seq(Bytes) /\ Len(SubSeq(sent', 1, Len(sent))) = Len(sent)
          /\ \A i \in 1..Len(sent) : SubSeq(sent', 1, Len(sent))[i] = sent'[i]
      BY <1>3, <1>5, SubSeqProperties
    <3> QED
      BY <1>3, <1>5, <3>1, SeqEqual
  <2> QED
    BY <1>2, <1>5, <2>1 DEF Channel!Send, Channel!Grows
<1> QED
  BY <1>6, <1>7, <1>8 DEF IInv

\* The peer's close changes nothing of what was sent.
LEMMA CloseOK ==
    ASSUME IInv, Close
    PROVE  IInv' /\ UNCHANGED Channel!channelVars
<1>1. UNCHANGED <<side, sent, in_flight, socket, reading, todo, prim, got, delivered, desynced>>
  BY DEF Close, readerVars
<1>2. UNCHANGED Messages
  BY <1>1 DEF Messages
<1> QED
  BY <1>1, <1>2 DEF IInv, TypeOK, InStep, Midway, Channel!channelVars

\* A byte that arrives stays in its place in the stream.
LEMMA ArriveOK ==
    ASSUME IInv, Arrive
    PROVE  IInv' /\ UNCHANGED Channel!channelVars
<1>1. /\ UNCHANGED <<side, sent, reading, todo, prim, got, delivered, desynced>>
      /\ in_flight # <<>> /\ socket' = Append(socket, Head(in_flight))
      /\ in_flight' = Tail(in_flight)
  BY DEF Arrive, readerVars
<1>2. UNCHANGED Messages
  BY <1>1 DEF Messages
<1>3. in_flight \in Bytes /\ socket \in Bytes
  BY DEF IInv, TypeOK
<1>4. socket' \in Bytes /\ in_flight' \in Bytes /\ socket' \o in_flight' = socket \o in_flight
  BY <1>1, <1>3, HeadTail
<1>5. TypeOK'
  BY <1>1, <1>2, <1>4 DEF IInv, TypeOK
<1>6. InStep => InStep'
  BY <1>1, <1>2, <1>4 DEF InStep, Midway
<1> QED
  BY <1>1, <1>5, <1>6 DEF IInv, Channel!channelVars

\* A reader that starts is about to read a header.
LEMMA BeginReadOK ==
    ASSUME IInv, BeginRead
    PROVE  IInv' /\ UNCHANGED Channel!channelVars
<1>1. /\ UNCHANGED <<side, sent, in_flight, socket, prim, got, delivered, desynced>>
      /\ ~ reading /\ reading' = TRUE /\ todo' = <<Header>>
  BY DEF BeginRead
<1>2. UNCHANGED Messages
  BY <1>1 DEF Messages
<1>3. TypeOK /\ prim = <<>> /\ got = <<>>
  BY <1>1 DEF IInv, TypeOK
<1>4. TypeOK'
  BY <1>1, <1>2, <1>3, HeaderOK DEF TypeOK
<1>5. InStep => InStep'
  BY <1>1, <1>2, <1>3 DEF InStep
<1> QED
  BY <1>1, <1>4, <1>5 DEF IInv, Channel!channelVars

\* Giving a message up leaves the reader between messages.
LEMMA AbandonedOK ==
    ASSUME TypeOK, Abandoned, UNCHANGED <<side, sent>>, in_flight' \in Bytes, socket' \in Bytes,
           desynced' \in BOOLEAN
    PROVE  TypeOK'
<1>1. UNCHANGED Messages
  BY DEF Messages
<1>2. <<>> \in Bytes
  BY DEF Bytes
<1> QED
  BY <1>1, <1>2 DEF TypeOK, Abandoned

\* A timeout before the first byte of a message costs nothing; after it, it breaks the
\* channel with that message outstanding.
LEMMA TimedOutOK ==
    ASSUME IInv, TimedOut
    PROVE  IInv' /\ [Channel!Next]_(Channel!channelVars)
<1>1. /\ UNCHANGED <<side, sent, in_flight, socket, delivered>> /\ Abandoned /\ reading
      /\ (got = <<>> /\ UNCHANGED desynced) \/ (got # <<>> /\ desynced' = TRUE)
  <2>1. Abandoned /\ reading /\ UNCHANGED <<side, sent, in_flight, socket>>
    BY DEF TimedOut
  <2>2. (got = <<>> /\ UNCHANGED desynced) \/ (got # <<>> /\ desynced' = TRUE)
    BY DEF TimedOut
  <2> QED
    BY <2>1, <2>2 DEF Abandoned
<1>2. TypeOK'
  <2>1. TypeOK /\ in_flight' \in Bytes /\ socket' \in Bytes /\ desynced' \in BOOLEAN
    BY <1>1 DEF IInv, TypeOK
  <2> QED
    BY <1>1, <2>1, AbandonedOK
<1>3. CASE got = <<>> /\ UNCHANGED desynced
  <2>1. InStep => InStep'
    BY <1>1, <1>3 DEF InStep, Abandoned
  <2> QED
    BY <1>1, <1>2, <1>3, <2>1 DEF IInv, Channel!channelVars
<1>4. CASE got # <<>> /\ desynced' = TRUE
  <2>1. CASE desynced
    BY <1>1, <1>2, <1>4, <2>1 DEF IInv, TypeOK, Channel!channelVars
  <2>2. CASE ~ desynced
    <3>1. Midway
      BY <1>1, <1>4, <2>2 DEF IInv, InStep
    <3> QED
      BY <1>1, <1>2, <1>4, <3>1 DEF IInv, Midway, Channel!Next, Channel!Break, Channel!Outstanding
  <2> QED
    BY <2>1, <2>2
<1> QED
  BY <1>1, <1>3, <1>4

\* The end of the stream is met between messages by a reader in step, never inside one.
LEMMA EndOfStreamOK ==
    ASSUME IInv, EndOfStream
    PROVE  IInv' /\ UNCHANGED Channel!channelVars
<1>1. /\ UNCHANGED <<side, sent, in_flight, socket, delivered, desynced>> /\ Abandoned /\ reading
      /\ socket = <<>> /\ in_flight = <<>>
  BY DEF EndOfStream, Abandoned, has_data
<1>2. TypeOK'
  <2>1. TypeOK /\ in_flight' \in Bytes /\ socket' \in Bytes /\ desynced' \in BOOLEAN
    BY <1>1 DEF IInv, TypeOK
  <2> QED
    BY <1>1, <2>1, AbandonedOK
<1>3. ASSUME InStep
      PROVE  InStep'
  <2>1. got = <<>>
    <3> SUFFICES ASSUME Midway
                 PROVE  FALSE
      BY <1>1, <1>3 DEF InStep
    <3> DEFINE k == Len(delivered)
               later == FlattenSeq(Rest(sent, k + 1))
    <3>1. PICK rest \in Bytes :
              /\ k < Len(sent) /\ sent[k + 1] = got \o rest /\ Left(Messages, todo, prim, rest)
      BY DEF Midway
    <3>2. /\ k \in Nat /\ sent \in Seq(Bytes) /\ got \in Bytes /\ todo \in Seq(Items)
      BY <1>1 DEF IInv, TypeOK
    <3>3. got \o (<<>> \o <<>>) = FlattenSeq(Rest(sent, k))
      BY <1>1, <1>3 DEF InStep
    <3>4. /\ FlattenSeq(Rest(sent, k)) = sent[k + 1] \o later
          /\ Rest(sent, k + 1) \in Seq(Bytes)
      BY <3>1, <3>2, RestNext
    <3>5. later \in Bytes
      BY <3>4, FlattenAppend, EmptySeq DEF Bytes
    <3>6. rest # <<>>
      BY <3>1, <3>2, LeftRead
    <3> HIDE DEF k, later
    <3>7. got = (got \o rest) \o later
      <4>1. <<>> \o <<>> = <<>> /\ got \o <<>> = got
        BY <3>2, ConcatEmptySeq DEF Bytes
      <4> QED
        BY <3>1, <3>3, <3>4, <4>1
    <3>8. Len((got \o rest) \o later) = Len(got) + Len(rest) + Len(later)
      BY <3>2, <3>5 DEF Bytes
    <3>9. Len(got) \in Nat /\ Len(rest) \in Nat /\ Len(rest) > 0 /\ Len(later) \in Nat
      BY <3>2, <3>5, <3>6 DEF Bytes
    <3> QED
      BY <3>7, <3>8, <3>9
  <2> QED
    BY <1>1, <1>3, <2>1 DEF InStep, Abandoned
<1> QED
  BY <1>1, <1>2, <1>3 DEF IInv, Channel!channelVars

\* The frame a delivery adds: delivered' is delivered and one more.
LEMMA GrowsByOne ==
    ASSUME NEW s \in Seq(Bytes), NEW e \in Bytes
    PROVE  Append(s, e) \in Seq(Bytes) /\ Channel!Grows(s, Append(s, e))
<1> DEFINE t == Append(s, e)
<1>1. /\ t \in Seq(Bytes) /\ Len(t) = Len(s) + 1 /\ Len(s) \in Nat
      /\ \A i \in 1..Len(s) : t[i] = s[i]
  BY AppendProperties
<1> HIDE DEF t
<1>2. /\ SubSeq(t, 1, Len(s)) \in Seq(Bytes) /\ Len(SubSeq(t, 1, Len(s))) = Len(s)
      /\ \A i \in 1..Len(s) : SubSeq(t, 1, Len(s))[i] = t[i]
  BY <1>1, SubSeqProperties
<1>3. SubSeq(t, 1, Len(s)) = s
  BY <1>1, <1>2, SeqEqual
<1> QED
  BY <1>1, <1>3 DEF t, Channel!Grows

\* Going on with items nothing is read of yet.
LEMMA GoesTyped ==
    ASSUME TypeOK, reading, UNCHANGED <<side, sent, in_flight>>, socket' \in Bytes,
           NEW td \in Seq(Unread), NEW bytes \in Bytes, NEW more \in BOOLEAN,
           Goes(td, bytes, more)
    PROVE  TypeOK'
<1>1. Messages' = Messages
  BY DEF Messages
<1>2. <<>> \in Bytes /\ Len(<<>>) = 0
  BY DEF Bytes
<1>3. CASE td = <<>>
  <2>1. /\ delivered' = Append(delivered, bytes) /\ got' = <<>> /\ prim' = <<>>
        /\ reading' = more /\ todo' = (IF more THEN <<Header>> ELSE <<>>)
        /\ desynced' = desynced
    BY <1>3 DEF Goes, Dispatched
  <2>2. delivered' \in Seq(Bytes)
    BY <2>1, GrowsByOne DEF TypeOK
  <2> QED
    BY <1>1, <1>2, <2>1, <2>2, HeaderOK DEF TypeOK
<1>4. CASE td # <<>>
  <2>1. /\ got' = bytes /\ prim' = <<>> /\ todo' = td
        /\ UNCHANGED <<reading, delivered, desynced>>
    BY <1>4 DEF Goes
  <2>2. td \in Seq(Items) /\ Head(td) \in Unread /\ Tail(td) \in Seq(Unread)
    BY <1>4, UnreadItems
  <2>3. Begun(Head(td), <<>>)
    BY <1>2, <2>2 DEF Unread, Begun, PrimBytes
  <2> QED
    BY <1>1, <1>2, <1>4, <2>1, <2>2, <2>3 DEF TypeOK
<1> QED
  BY <1>3, <1>4

\* Going on in step: with the message, or, when it is all read, after dispatching it.
LEMMA GoesInStep ==
    ASSUME TypeOK, ~ desynced, UNCHANGED <<side, sent>>, Len(delivered) < Len(sent),
           NEW td \in Seq(Unread), NEW bytes \in Bytes, NEW more \in BOOLEAN,
           Goes(td, bytes, more),
           NEW rest \in Bytes, sent[Len(delivered) + 1] = bytes \o rest,
           Fits(Messages, td, rest),
           socket' \o in_flight' = rest \o FlattenSeq(Rest(sent, Len(delivered) + 1))
    PROVE  InStep' /\ [Channel!Next]_(Channel!channelVars)
<1> DEFINE k == Len(delivered)
           later == FlattenSeq(Rest(sent, k + 1))
<1>1. Messages' = Messages
  BY DEF Messages
<1>2. /\ k \in Nat /\ sent \in Seq(Bytes) /\ Len(sent) \in Nat /\ k + 1 <= Len(sent)
      /\ delivered \in Seq(Bytes)
  BY DEF TypeOK
<1>3. /\ FlattenSeq(Rest(sent, k)) = (bytes \o rest) \o later
      /\ Rest(sent, k + 1) \in Seq(Bytes)
  BY <1>2, RestNext
<1>4. later \in Bytes
  BY <1>3, FlattenAppend, EmptySeq DEF Bytes
<1>5. CASE td = <<>>
  <2>1. /\ delivered' = Append(delivered, bytes) /\ got' = <<>> /\ prim' = <<>>
        /\ reading' = more /\ todo' = (IF more THEN <<Header>> ELSE <<>>)
        /\ desynced' = desynced
    BY <1>5 DEF Goes, Dispatched
  <2>2. rest = <<>> /\ bytes \o rest = bytes /\ rest \o later = later /\ <<>> \o later = later
    BY <1>4, <1>5, FitsEmpty, ConcatEmptySeq DEF Bytes
  <2>3. Len(delivered') = k + 1
    BY <1>2, <2>1, AppendProperties
  <2>4. delivered' = Append(delivered, sent[k + 1])
    BY <2>1, <2>2
  <2>5. got' \o (socket' \o in_flight') = later
    BY <2>1, <2>2
  <2>6. InStep'
    <3>1. Len(delivered') <= Len(sent')
      BY <1>2, <2>3
    <3>2. got' \o (socket' \o in_flight') = FlattenSeq(Rest(sent', Len(delivered')))
      BY <2>3, <2>5
    <3>3. reading' => (got' = <<>> /\ todo' = <<Header>> /\ prim' = <<>>)
      BY <2>1
    <3> QED
      BY <3>1, <3>2, <3>3 DEF InStep
  <2>7. Channel!Deliver
    BY <2>1, <2>4 DEF Channel!Deliver, Channel!Outstanding
  <2> QED
    BY <2>6, <2>7 DEF Channel!Next
<1>6. CASE td # <<>>
  <2>1. /\ got' = bytes /\ prim' = <<>> /\ todo' = td
        /\ UNCHANGED <<reading, delivered, desynced>>
    BY <1>6 DEF Goes
  <2>2. Left(Messages, td, <<>>, rest)
    <3>1. td \in Seq(Items)
      BY UnreadItems
    <3> QED
      BY <1>6, <3>1, FitsHead
  <2>3. (bytes \o rest) \o later = bytes \o (rest \o later)
    <3> HIDE DEF later
    <3>1. bytes \in Seq(Nat) /\ rest \in Seq(Nat) /\ later \in Seq(Nat)
      BY <1>4 DEF Bytes
    <3> QED
      BY <3>1, Assoc, ZenonT(40)
  <2>4. Midway'
    BY <1>1, <2>1, <2>2 DEF Midway
  <2>5. got' \o (socket' \o in_flight') = FlattenSeq(Rest(sent', Len(delivered')))
    BY <1>3, <2>1, <2>3
  <2>6. InStep'
    <3>1. Len(delivered') <= Len(sent')
      BY <1>2, <2>1
    <3> QED
      BY <2>4, <2>5, <3>1 DEF InStep
  <2> QED
    BY <2>1, <2>6 DEF Channel!channelVars
<1> QED
  BY <1>5, <1>6

\* Out of step, what is dispatched may be anything.
LEMMA GoesStray ==
    ASSUME TypeOK, desynced, sent' = sent,
           NEW td, NEW bytes \in Bytes, NEW more \in BOOLEAN, Goes(td, bytes, more)
    PROVE  desynced' /\ [Channel!Next]_(Channel!channelVars)
<1>1. CASE td = <<>>
  <2>1. delivered' = Append(delivered, bytes) /\ desynced' = desynced
    BY <1>1 DEF Goes, Dispatched
  <2>2. Channel!Grows(delivered, delivered')
    BY <2>1, GrowsByOne DEF TypeOK
  <2> QED
    BY <2>1, <2>2 DEF Channel!Next, Channel!Stray
<1>2. CASE td # <<>>
  BY <1>2 DEF Goes, Channel!channelVars
<1> QED
  BY <1>1, <1>2

\* A message given up inside a field: a peer in step has one outstanding.
LEMMA GivenUpOK ==
    ASSUME IInv, reading, Head(todo).kind \in {"string", "buffer"}, Abandoned,
           desynced' = TRUE, UNCHANGED <<side, sent, in_flight>>, socket' \in Bytes
    PROVE  IInv' /\ [Channel!Next]_(Channel!channelVars)
<1>1. TypeOK'
  <2>1. TypeOK /\ in_flight' \in Bytes /\ desynced' \in BOOLEAN
    BY DEF IInv, TypeOK
  <2> QED
    BY <2>1, AbandonedOK
<1>2. delivered' = delivered
  BY DEF Abandoned
<1>3. CASE desynced
  BY <1>1, <1>2, <1>3 DEF IInv, TypeOK, Channel!channelVars
<1>4. CASE ~ desynced
  <2>1. Midway
    BY <1>4, HeaderOK DEF IInv, InStep
  <2> QED
    BY <1>1, <1>2, <2>1 DEF IInv, Midway, Channel!Next, Channel!Break, Channel!Outstanding
<1> QED
  BY <1>3, <1>4

\* A byte received moves the reader on in its item, to its next item, to the next
\* message, or has it give the message up over a length it refuses.
LEMMA ReceiveOK ==
    ASSUME IInv, Receive
    PROVE  IInv' /\ [Channel!Next]_(Channel!channelVars)
<1> DEFINE byte == Head(socket)
           bytes == Append(got, byte)
           item == Head(todo)
           v == Decode(Append(prim, byte))
           more == Len(socket) > 1
           less == [item EXCEPT !.bytes = @ - 1]
           now == IF item.kind = "raw" THEN <<>> ELSE Append(prim, byte)
           stream == socket \o in_flight
           k == Len(delivered)
           later == FlattenSeq(Rest(sent, k + 1))
<1>1. /\ reading /\ socket # <<>> /\ socket' = Tail(socket)
      /\ UNCHANGED <<side, sent, in_flight>>
  BY DEF Receive, has_data
<1>2. /\ TypeOK /\ todo \in Seq(Items) /\ todo # <<>> /\ Tail(todo) \in Seq(Unread)
      /\ item \in Items /\ item.bytes \in Nat \ {0} /\ Begun(item, prim)
      /\ socket \in Bytes /\ in_flight \in Bytes /\ got \in Bytes /\ prim \in Bytes
  <2>1. /\ TypeOK /\ todo \in Seq(Items) /\ todo # <<>> /\ Tail(todo) \in Seq(Unread)
        /\ Begun(item, prim)
    BY <1>1 DEF IInv, TypeOK
  <2>2. socket \in Bytes /\ in_flight \in Bytes /\ got \in Bytes /\ prim \in Bytes
    BY <2>1 DEF TypeOK
  <2>3. item \in Items
    BY <2>1
  <2> HIDE DEF item
  <2>4. item.bytes \in Nat \ {0}
    BY <2>3 DEF Items
  <2> QED
    BY <2>1, <2>2, <2>3, <2>4
<1>3. /\ byte \in Nat /\ socket' \in Bytes /\ bytes \in Bytes /\ more \in BOOLEAN
      /\ stream # <<>> /\ Head(stream) = byte /\ Tail(stream) = socket' \o in_flight'
  <2>1. byte \in Nat /\ socket' \in Bytes
    BY <1>1, <1>2, HeadTail
  <2>2. bytes \in Bytes
    BY <1>1, <1>2, HeadTail
  <2>3. more \in BOOLEAN
    OBVIOUS
  <2>4. stream # <<>> /\ Head(stream) = byte /\ Tail(stream) = Tail(socket) \o in_flight
    BY <1>1, <1>2, HeadTail
  <2> QED
    BY <1>1, <2>1, <2>2, <2>3, <2>4
<1>4. item.bytes = 1 /\ item.kind # "raw" => Expand(item.kind, v) \o Tail(todo) \in Seq(Unread)
  <2> SUFFICES ASSUME item.bytes = 1, item.kind # "raw"
               PROVE  Expand(item.kind, v) \o Tail(todo) \in Seq(Unread)
    OBVIOUS
  <2>1. Len(prim) = 1
    BY <1>2 DEF Begun, PrimBytes
  <2>2. v \in Nat
    BY <1>2, <1>3, <2>1, DecodeTyped
  <2>3. Expand(item.kind, v) \in Seq(Unread)
    BY <1>2, <2>2, ExpandTyped DEF Items
  <2> HIDE DEF v, item
  <2> QED
    BY <1>2, <2>3
<1>5. \/ /\ item.bytes > 1
         /\ got' = bytes /\ prim' = now /\ todo' = <<less>> \o Tail(todo)
         /\ UNCHANGED <<reading, delivered, desynced>>
      \/ item.bytes = 1 /\ item.kind = "raw" /\ Goes(Tail(todo), bytes, more)
      \/ /\ item.bytes = 1 /\ item.kind \in {"string", "buffer"}
         /\ Abandoned /\ desynced' = TRUE
      \/ /\ item.bytes = 1 /\ item.kind # "raw"
         /\ Goes(Expand(item.kind, v) \o Tail(todo), bytes, more)
  <2>1. CASE item.bytes > 1
    <3>1. item.bytes # 1
      BY <1>2, <2>1
    <3> QED
      BY <2>1, <3>1, Zenon DEF Receive
  <2>2. CASE item.bytes = 1 /\ item.kind = "raw"
    BY <2>2 DEF Receive
  <2>3. CASE item.bytes = 1 /\ item.kind # "raw"
    BY <2>3 DEF Receive, Refuses
  <2>4. item.bytes > 1 \/ item.bytes = 1
    <3> HIDE DEF item
    <3> QED
      BY <1>2
  <2> QED
    BY <2>1, <2>2, <2>3, <2>4, Zenon
<1>6. ASSUME ~ desynced
      PROVE  /\ k < Len(sent)
             /\ \E rest \in Bytes :
                   /\ rest # <<>> /\ sent[k + 1] = got \o rest
                   /\ Left(Messages, todo, prim, rest)
                   /\ stream = rest \o later
                   /\ Head(rest) = byte /\ Tail(rest) \in Bytes
                   /\ bytes \o Tail(rest) = got \o rest
                   /\ socket' \o in_flight' = Tail(rest) \o later
  <2>1. InStep
    BY <1>6 DEF IInv
  <2>2. k < Len(sent) /\ \E rest \in Bytes : /\ sent[k + 1] = got \o rest
                                             /\ Left(Messages, todo, prim, rest)
                                             /\ stream = rest \o later
    BY <1>1, <1>2, <1>3, <2>1, Inside
  <2>3. PICK rest \in Bytes : /\ sent[k + 1] = got \o rest
                              /\ Left(Messages, todo, prim, rest)
                              /\ stream = rest \o later
    BY <2>2
  <2>4. later \in Bytes
    <3>1. k \in Nat /\ sent \in Seq(Bytes)
      BY <1>2 DEF TypeOK
    <3>2. Rest(sent, k + 1) \in Seq(Bytes)
      BY <2>2, <3>1, RestNext
    <3> QED
      BY <3>2, FlattenAppend, EmptySeq DEF Bytes
  <2>5. rest # <<>>
    BY <1>2, <2>3, LeftRead
  <2> HIDE DEF later, stream, byte
  <2>6. Head(stream) = Head(rest) /\ Tail(stream) = Tail(rest) \o later /\ Tail(rest) \in Bytes
    BY <2>3, <2>4, <2>5, HeadTail
  <2>7. Append(got, Head(rest)) \o Tail(rest) = got \o rest
    BY <1>2, <2>5, HeadTail
  <2> QED
    BY <1>3, <2>2, <2>3, <2>5, <2>6, <2>7
<1>7. CASE /\ item.bytes > 1
           /\ got' = bytes /\ prim' = now /\ todo' = <<less>> \o Tail(todo)
           /\ UNCHANGED <<reading, delivered, desynced>>
  <2>1. less \in Items /\ less.kind = item.kind /\ less.bytes = item.bytes - 1
    BY <1>2, <1>7 DEF Items
  <2>2. /\ <<less>> \o Tail(todo) \in Seq(Items) /\ <<less>> \o Tail(todo) # <<>>
        /\ Head(<<less>> \o Tail(todo)) = less /\ Tail(<<less>> \o Tail(todo)) = Tail(todo)
    <3> HIDE DEF less
    <3> QED
      BY <1>2, <2>1, UnreadItems
  <2>3. now \in Bytes /\ Begun(less, now)
    <3>1. <<>> \in Bytes /\ Len(<<>>) = 0
      BY DEF Bytes
    <3>2. Append(prim, byte) \in Bytes /\ Len(Append(prim, byte)) = Len(prim) + 1
      BY <1>2, <1>3 DEF Bytes
    <3> HIDE DEF less
    <3> QED
      BY <1>2, <1>7, <2>1, <3>1, <3>2 DEF Begun, PrimBytes
  <2>4. Messages' = Messages
    BY <1>1 DEF Messages
  <2> HIDE DEF less, now, bytes
  <2>5. TypeOK'
    BY <1>1, <1>2, <1>3, <1>7, <2>2, <2>3, <2>4 DEF TypeOK
  <2>6. ASSUME ~ desynced
        PROVE  InStep'
    <3>1. PICK rest \in Bytes :
             /\ sent[k + 1] = got \o rest /\ Left(Messages, todo, prim, rest)
             /\ Head(rest) = byte /\ Tail(rest) \in Bytes
             /\ bytes \o Tail(rest) = got \o rest
             /\ socket' \o in_flight' = Tail(rest) \o later
      BY <1>6, <2>6
    <3>2. Left(Messages, <<less>> \o Tail(todo), now, Tail(rest))
      BY <1>2, <1>7, <3>1, LeftRead DEF less, now
    <3>3. k < Len(sent)
      BY <1>6, <2>6
    <3>4. Midway'
      BY <1>1, <1>7, <2>4, <3>1, <3>2, <3>3 DEF Midway
    <3>5. k \in Nat /\ sent \in Seq(Bytes) /\ Len(sent) \in Nat
      BY <1>2 DEF TypeOK
    <3>6. FlattenSeq(Rest(sent, k)) = (got \o rest) \o later /\ Rest(sent, k + 1) \in Seq(Bytes)
      BY <3>1, <3>3, <3>5, RestNext
    <3>7. later \in Bytes
      BY <3>6, FlattenAppend, EmptySeq DEF Bytes
    <3>8. bytes \o (Tail(rest) \o later) = (bytes \o Tail(rest)) \o later
      <4> HIDE DEF later
      <4>1. bytes \in Seq(Nat) /\ Tail(rest) \in Seq(Nat) /\ later \in Seq(Nat)
        BY <1>3, <3>1, <3>7 DEF Bytes
      <4> QED
        BY <4>1, Assoc, ZenonT(40)
    <3>9. got' \o (socket' \o in_flight') = FlattenSeq(Rest(sent', Len(delivered')))
      BY <1>1, <1>7, <3>1, <3>6, <3>8
    <3>10. Len(delivered') <= Len(sent')
      BY <1>1, <1>7, <3>3, <3>5
    <3> QED
      BY <3>4, <3>9, <3>10 DEF InStep
  <2> QED
    BY <1>1, <1>7, <2>5, <2>6 DEF IInv, Channel!channelVars
<1>8. ASSUME NEW td \in Seq(Unread), Goes(td, bytes, more),
             \A rest \in Bytes : Left(Messages, todo, prim, rest) /\ Head(rest) = byte =>
                                    Fits(Messages, td, Tail(rest))
      PROVE  IInv' /\ [Channel!Next]_(Channel!channelVars)
  <2> HIDE DEF bytes, more
  <2>1. TypeOK'
    BY <1>1, <1>2, <1>3, <1>8, GoesTyped
  <2>2. CASE desynced
    BY <1>1, <1>2, <1>3, <1>8, <2>1, <2>2, GoesStray DEF IInv
  <2>3. CASE ~ desynced
    <3>1. PICK rest \in Bytes :
             /\ sent[k + 1] = got \o rest /\ Left(Messages, todo, prim, rest)
             /\ Head(rest) = byte /\ Tail(rest) \in Bytes
             /\ bytes \o Tail(rest) = got \o rest
             /\ socket' \o in_flight' = Tail(rest) \o later
      BY <1>6, <2>3
    <3>2. k < Len(sent)
      BY <1>6, <2>3
    <3>3. Fits(Messages, td, Tail(rest)) /\ sent[k + 1] = bytes \o Tail(rest)
      BY <1>8, <3>1
    <3>4. InStep' /\ [Channel!Next]_(Channel!channelVars)
      BY <1>1, <1>2, <1>3, <1>8, <2>3, <3>1, <3>2, <3>3, GoesInStep
    <3> QED
      BY <2>1, <3>4 DEF IInv
  <2> QED
    BY <2>2, <2>3
<1>9. CASE item.bytes = 1 /\ item.kind = "raw" /\ Goes(Tail(todo), bytes, more)
  <2>1. \A rest \in Bytes : Left(Messages, todo, prim, rest) =>
                               Fits(Messages, Tail(todo), Tail(rest))
    BY <1>2, <1>9, LeftRead
  <2> QED
    BY <1>2, <1>8, <1>9, <2>1
<1>10. CASE /\ item.bytes = 1 /\ item.kind # "raw"
            /\ Goes(Expand(item.kind, v) \o Tail(todo), bytes, more)
  <2>1. \A rest \in Bytes : Left(Messages, todo, prim, rest) /\ Head(rest) = byte =>
                               Fits(Messages, Expand(item.kind, v) \o Tail(todo), Tail(rest))
    BY <1>2, <1>10, LeftRead
  <2> QED
    BY <1>4, <1>8, <1>10, <2>1
<1>11. CASE /\ item.bytes = 1 /\ item.kind \in {"string", "buffer"}
            /\ Abandoned /\ desynced' = TRUE
  BY <1>1, <1>2, <1>3, <1>11, GivenUpOK DEF IInv
<1> QED
  BY <1>5, <1>7, <1>9, <1>10, <1>11

\* A failed allocation gives up a message that is outstanding.
LEMMA OutOfMemoryOK ==
    ASSUME IInv, OutOfMemory
    PROVE  IInv' /\ [Channel!Next]_(Channel!channelVars)
<1>1. /\ reading /\ socket # <<>> /\ socket' = Tail(socket) /\ desynced' = TRUE
      /\ UNCHANGED <<side, sent, in_flight>> /\ Abandoned
      /\ Head(todo).kind \in {"string", "buffer"}
  BY DEF OutOfMemory, has_data
<1>2. socket' \in Bytes
  BY <1>1, HeadTail DEF IInv, TypeOK
<1> QED
  BY <1>1, <1>2, GivenUpOK

-----------------------------------------------------------------------------
\* For messages of any number and any lengths, cut by the network anywhere, both readers
\* -- IpcClient::poll() and OidBridge::try_read_incoming_messages() -- dispatch exactly the
\* frames that were sent, in their order, until a message is given up in the middle, which
\* only happens to a message that is outstanding.
THEOREM FramesKept == Spec => FifoUntilDesynced
<1>1. Init => IInv /\ Channel!Init
  BY InitOK
<1>2. IInv /\ [Next]_vars => IInv' /\ [Channel!Next]_(Channel!channelVars)
  <2> SUFFICES ASSUME IInv, [Next]_vars
               PROVE  IInv' /\ [Channel!Next]_(Channel!channelVars)
    OBVIOUS
  <2>1. CASE \E m \in Messages : send(m)
    BY <2>1, SendOK DEF Channel!Next
  <2>2. CASE Close
    BY <2>2, CloseOK
  <2>3. CASE Arrive
    BY <2>3, ArriveOK
  <2>4. CASE BeginRead
    BY <2>4, BeginReadOK
  <2>5. CASE Receive
    BY <2>5, ReceiveOK
  <2>6. CASE OutOfMemory
    BY <2>6, OutOfMemoryOK
  <2>7. CASE TimedOut
    BY <2>7, TimedOutOK
  <2>8. CASE EndOfStream
    BY <2>8, EndOfStreamOK
  <2>9. CASE UNCHANGED vars
    <3>1. UNCHANGED <<side, sent, in_flight, socket, reading, todo, prim, got, delivered, desynced>>
      BY <2>9 DEF vars
    <3>2. UNCHANGED Messages
      BY <3>1 DEF Messages
    <3> QED
      BY <3>1, <3>2 DEF IInv, TypeOK, InStep, Midway, Channel!channelVars
  <2> QED
    BY <2>1, <2>2, <2>3, <2>4, <2>5, <2>6, <2>7, <2>8, <2>9 DEF Next
<1> QED
  BY <1>1, <1>2, PTL DEF Spec, FifoUntilDesynced, Channel!Spec
=============================================================================
