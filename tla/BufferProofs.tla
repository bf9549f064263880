---------------------------- MODULE BufferProofs ----------------------------
(***************************************************************************)
(* Theorems about what the viewer shows.                                   *)
(*                                                                         *)
(* SizeRules: the rules of the wire layer, the file loader, the bridge and *)
(* the renderer agree for every geometry of integers, every size_t of      *)
(* bytes and limits of any size, hence in every state of PlotPath.         *)
(*                                                                         *)
(* TypeInspectors: a value that validates resolves soundly, by induction   *)
(* on its depth.  The recursive definitions are shown to define something  *)
(* first: a reading of the smaller values extends to the next depth.       *)
(*                                                                         *)
(* IpcClient: what the plot handlers put on display, for every set of      *)
(* names, declarations, chunks and limits.  NeverMixed and NoRollback are  *)
(* about the names under which no allocation fails: when a BEGIN is lost   *)
(* to bad_alloc, the chunks that follow it land in the transfer it was     *)
(* meant to replace.  ShownIsDrawable rests on both.                       *)
(***************************************************************************)
EXTENDS IpcClient, PlotPath, FiniteSetTheorems, TLAPS

(* The rules of RawDataDecode *)

\* A geometry, of integers of any size.
Geometry(g) == /\ g.width \in Int /\ g.height \in Int /\ g.channels \in Int
               /\ g.stride \in Int /\ g.type \in Int

\* An element has one, two, four or eight bytes.
LEMMA TypeSize == \A t : type_size(t) \in {1, 2, 4, 8}
BY DEF type_size

\* CheckedTimes() multiplies, or says that it could not within size_t.
LEMMA CheckedTimesOK ==
    ASSUME NEW s \in Nat \cup {NoSize}, NEW f \in Nat \ {0}
    PROVE  /\ CheckedTimes(s, f) \in Nat \cup {NoSize}
           /\ CheckedTimes(s, f) # NoSize =>
                 s \in Nat /\ CheckedTimes(s, f) = s * f /\ s * f <= SIZE_MAX
<1>1. CASE s = NoSize
  BY <1>1 DEF CheckedTimes, NoSize
<1>2. CASE s \in Nat /\ s > SIZE_MAX \div f
  BY <1>2 DEF CheckedTimes, NoSize
<1>3. CASE s \in Nat /\ ~(s > SIZE_MAX \div f)
  <2>1. SIZE_MAX \in Nat /\ SIZE_MAX \div f \in Nat
    BY LimitsAssumption
  <2>2. s <= SIZE_MAX \div f
    BY <1>3, <2>1
  <2>3. s * f <= SIZE_MAX
    BY <1>3, <2>1, <2>2
  <2>4. s # NoSize /\ s * f \in Nat
    BY <1>3 DEF NoSize
  <2> QED
    BY <1>3, <2>3, <2>4 DEF CheckedTimes
<1> QED
  BY <1>1, <1>2, <1>3

\* A size padded_payload_size() yields is the product of the padded row, the
\* rows, the channels and the element, and it fits size_t.
LEMMA PaddedSize ==
    ASSUME NEW g, Geometry(g), padded_payload_size(g) # NoSize
    PROVE  /\ is_known_buffer_type(g.type) /\ Renderable(g)
           /\ padded_payload_size(g) = ((g.stride * g.height) * g.channels) * type_size(g.type)
           /\ padded_payload_size(g) <= SIZE_MAX
<1> DEFINE a == CheckedTimes(g.stride, g.height)
           b == CheckedTimes(a, g.channels)
           c == CheckedTimes(b, type_size(g.type))
<1>1. is_known_buffer_type(g.type) /\ Renderable(g) /\ padded_payload_size(g) = c
  BY DEF padded_payload_size
<1>2. /\ g.stride \in Nat /\ g.height \in Nat \ {0} /\ g.channels \in Nat \ {0}
      /\ type_size(g.type) \in Nat \ {0}
  BY <1>1, TypeSize DEF Renderable, Geometry
<1>3. a \in Nat \cup {NoSize} /\ (a # NoSize => a = g.stride * g.height)
  BY <1>2, CheckedTimesOK
<1>4. b \in Nat \cup {NoSize} /\ (b # NoSize => a # NoSize /\ b = a * g.channels)
  <2> HIDE DEF a
  <2> QED
    BY <1>2, <1>3, CheckedTimesOK DEF NoSize
<1>5. c # NoSize => b # NoSize /\ c = b * type_size(g.type) /\ c <= SIZE_MAX
  <2> HIDE DEF a, b
  <2> QED
    BY <1>2, <1>4, CheckedTimesOK DEF NoSize
<1> HIDE DEF a, b, c
<1> QED
  BY <1>1, <1>3, <1>4, <1>5

-----------------------------------------------------------------------------
\* The bytes of every pixel the renderer can address.
BytesAddressed(g) == (PixelsAddressed(g) * g.channels) * type_size(g.type)

\* A buffer that holds the pixels it says it has: what each of the ways a buffer
\* can come guarantees.
HoldsPixels(g, n) ==
    /\ is_known_buffer_type(g.type) /\ Renderable(g)
    /\ n \in Nat /\ n >= BytesAddressed(g)

\* The pixels addressed of a renderable buffer: at least one, at most all.
LEMMA PixelsBound ==
    ASSUME NEW g, Geometry(g), Renderable(g)
    PROVE  /\ PixelsAddressed(g) \in Nat \ {0}
           /\ PixelsAddressed(g) <= g.stride * g.height
<1>1. /\ g.stride \in Nat \ {0} /\ g.height \in Nat \ {0} /\ g.width \in Nat \ {0}
      /\ g.width <= g.stride
  BY DEF Geometry, Renderable
<1>2. (g.height - 1) * g.stride \in Nat
  BY <1>1
<1>3. (g.height - 1) * g.stride + g.stride = g.stride * g.height
  BY <1>1
<1> QED
  BY <1>1, <1>2, <1>3 DEF PixelsAddressed

\* A quotient that is at least q, both ways.
LEMMA DivGeq ==
    ASSUME NEW n \in Nat, NEW k \in Nat \ {0}, NEW q \in Nat
    PROVE  n \div k >= q <=> n >= q * k
<1>1. n \div k \in Nat /\ k * (n \div k) <= n /\ n < k * (n \div k) + k
  OBVIOUS
<1>2. ASSUME n \div k >= q PROVE n >= q * k
  <2>1. \A a, b \in Nat : a <= b => a * k <= b * k
    OBVIOUS
  <2> QED
    BY <1>1, <1>2, <2>1
<1>3. ASSUME n >= q * k PROVE n \div k >= q
  BY <1>3
<1> QED
  BY <1>2, <1>3

\* geometry_fits_payload() says that the pixels are there.
LEMMA FitsHolds ==
    ASSUME NEW g, Geometry(g), NEW n \in Nat
    PROVE  geometry_fits_payload(g, n) <=> HoldsPixels(g, n)
<1> SUFFICES ASSUME is_known_buffer_type(g.type), Renderable(g)
             PROVE  n \div (g.channels * type_size(g.type)) >= PixelsAddressed(g)
                        <=> n >= BytesAddressed(g)
  BY DEF geometry_fits_payload, HoldsPixels
<1>1. g.channels \in Nat \ {0} /\ type_size(g.type) \in Nat \ {0} /\ PixelsAddressed(g) \in Nat
  BY PixelsBound, TypeSize DEF Geometry, Renderable
<1>2. g.channels * type_size(g.type) \in Nat \ {0}
  BY <1>1
<1>3. PixelsAddressed(g) * (g.channels * type_size(g.type)) = BytesAddressed(g)
  BY <1>1 DEF BytesAddressed
<1> QED
  BY <1>1, <1>2, <1>3, DivGeq

\* A size padded_payload_size() yields holds the pixels.
LEMMA PaddedHolds ==
    ASSUME NEW g, Geometry(g), NEW n, n = padded_payload_size(g), n # NoSize
    PROVE  HoldsPixels(g, n)
<1>1. /\ is_known_buffer_type(g.type) /\ Renderable(g)
      /\ n = ((g.stride * g.height) * g.channels) * type_size(g.type)
  BY PaddedSize
<1>2. /\ g.channels \in Nat \ {0} /\ type_size(g.type) \in Nat \ {0}
      /\ PixelsAddressed(g) \in Nat /\ g.stride \in Nat /\ g.height \in Nat
      /\ PixelsAddressed(g) <= g.stride * g.height
  BY <1>1, PixelsBound, TypeSize DEF Geometry, Renderable
<1>3. PixelsAddressed(g) * g.channels <= (g.stride * g.height) * g.channels
  BY <1>2
<1>4. \A a, b \in Nat : a <= b => a * type_size(g.type) <= b * type_size(g.type)
  BY <1>2
<1>5. PixelsAddressed(g) * g.channels \in Nat /\ (g.stride * g.height) * g.channels \in Nat
  BY <1>2
<1>6. BytesAddressed(g) <= n /\ n \in Nat
  BY <1>1, <1>2, <1>3, <1>4, <1>5 DEF BytesAddressed
<1> QED
  BY <1>1, <1>6 DEF HoldsPixels

\* The record made of a buffer that holds its pixels is one the renderer can span,
\* though it holds fewer bytes if its doubles were narrowed.
LEMMA RecordSpans ==
    ASSUME NEW g, Geometry(g), NEW n, HoldsPixels(g, n)
    PROVE  /\ RecordBytes(g, n) \in 1..n
           /\ RecordBytes(g, n) >= (PixelsAddressed(g) * g.channels) * display_element_size(g.type)
           /\ buffer_span_fits(g, display_element_size(g.type), RecordBytes(g, n))
<1> DEFINE p == PixelsAddressed(g)
           c == g.channels
           r == RecordBytes(g, n)
           e == display_element_size(g.type)
<1>1. p \in Nat \ {0} /\ c \in Nat \ {0} /\ n \in Nat /\ p * c \in Nat \ {0}
  <2>1. p \in Nat \ {0} /\ c \in Nat \ {0} /\ n \in Nat
    BY PixelsBound DEF HoldsPixels, Geometry, Renderable
  <2> HIDE DEF p, c
  <2> QED
    BY <2>1
<1>2. r \in Nat /\ r <= n /\ r >= (p * c) * e /\ e \in {1, 2, 4}
  <2>1. CASE g.type = FLOAT64
    <3>1. e = 4 /\ type_size(g.type) = 8 /\ r = (n \div 8) * 4
      BY <2>1 DEF display_element_size, type_size, RecordBytes, FLOAT64, INT32, FLOAT32, SHORT,
                  UNSIGNED_SHORT, UNSIGNED_BYTE
    <3>2. n >= (p * c) * 8
      BY <3>1 DEF HoldsPixels, BytesAddressed
    <3> HIDE DEF p, c, e, r
    <3> QED
      BY <1>1, <3>1, <3>2
  <2>2. CASE g.type # FLOAT64
    <3>1. e = type_size(g.type) /\ r = n /\ e \in {1, 2, 4}
      BY <2>2 DEF display_element_size, type_size, RecordBytes, FLOAT64, INT32, FLOAT32, SHORT,
                  UNSIGNED_SHORT, UNSIGNED_BYTE
    <3>2. n >= (p * c) * e
      BY <3>1 DEF HoldsPixels, BytesAddressed
    <3> QED
      BY <1>1, <3>1, <3>2
  <2> QED
    BY <2>1, <2>2
<1>3. r \div (c * e) >= p
  <2> HIDE DEF p, c, e, r
  <2>1. c * e \in Nat \ {0} /\ p * (c * e) = (p * c) * e
    BY <1>1, <1>2
  <2> QED
    BY <1>1, <1>2, <2>1, DivGeq
<1>4. r > 0
  <2> HIDE DEF p, c, e, r
  <2>1. (p * c) * e \in Nat \ {0}
    BY <1>1, <1>2
  <2> QED
    BY <1>2, <2>1
<1> QED
  BY <1>1, <1>2, <1>3, <1>4 DEF buffer_span_fits, HoldsPixels

\* So the renderer takes whatever holds its pixels and keeps to the limits.
LEMMA HeldIsConfigured ==
    ASSUME NEW g, Geometry(g), NEW n, HoldsPixels(g, n), within_display_limits(g),
           n <= MAX_BUFFER_BYTES
    PROVE  ConfigureAccepts(g, RecordBytes(g, n))
<1>1. n \in Nat /\ MAX_BUFFER_BYTES \in Nat
  BY LimitsAssumption DEF HoldsPixels
<1>2. RecordBytes(g, n) \in Nat /\ RecordBytes(g, n) > 0 /\ RecordBytes(g, n) <= MAX_BUFFER_BYTES
  BY <1>1, RecordSpans
<1>3. g.stride >= g.width
  BY DEF HoldsPixels, Renderable
<1> QED
  BY <1>2, <1>3, RecordSpans DEF ConfigureAccepts
-----------------------------------------------------------------------------
\* A power of two is the number of subsets of a set.
LEMMA PowerCounts ==
    ASSUME NEW n \in Nat
    PROVE  IsFiniteSet(SUBSET (1..n)) /\ Cardinality(SUBSET (1..n)) = 2^n /\ 2^n \in Nat \ {0}
<1>1. IsFiniteSet(1..n) /\ Cardinality(1..n) = n
  BY FS_Interval
<1>2. IsFiniteSet(SUBSET (1..n)) /\ Cardinality(SUBSET (1..n)) = 2^n
  BY <1>1, FS_SUBSET
<1>3. SUBSET (1..n) # {}
  OBVIOUS
<1> QED
  BY <1>2, <1>3, FS_CardinalityType, FS_EmptySet

\* A power of two doubles: a subset of 1..n+1 is one of 1..n, or that and n+1.
LEMMA PowerDoubles ==
    ASSUME NEW n \in Nat
    PROVE  2^(n + 1) = 2 * 2^n
<1> DEFINE S == SUBSET (1..n)
           T == {A \cup {n + 1} : A \in S}
           f == [A \in S |-> A \cup {n + 1}]
<1>1. n + 1 \notin 1..n /\ 1..(n + 1) = (1..n) \cup {n + 1}
  OBVIOUS
<1>2. SUBSET (1..(n + 1)) = S \cup T
  <2>1. ASSUME NEW B \in SUBSET (1..(n + 1)), n + 1 \in B PROVE B \in T
    <3>1. B \ {n + 1} \in S /\ (B \ {n + 1}) \cup {n + 1} = B
      BY <1>1, <2>1
    <3> QED
      BY <3>1
  <2>2. ASSUME NEW B \in SUBSET (1..(n + 1)), n + 1 \notin B PROVE B \in S
    BY <1>1, <2>2
  <2>3. S \subseteq SUBSET (1..(n + 1)) /\ T \subseteq SUBSET (1..(n + 1))
    BY <1>1
  <2> QED
    BY <2>1, <2>2, <2>3
<1>3. S \cap T = {}
  BY <1>1
<1>4. ExistsBijection(S, T)
  <2>1. f \in [S -> T] /\ \A t \in T : \E A \in S : f[A] = t
    OBVIOUS
  <2>2. ASSUME NEW A \in S, NEW B \in S, f[A] = f[B] PROVE A = B
    <3>1. A \cup {n + 1} = B \cup {n + 1} /\ n + 1 \notin A /\ n + 1 \notin B
      BY <1>1, <2>2
    <3> QED
      BY <3>1
  <2> HIDE DEF f, S, T
  <2>3. f \in Bijection(S, T)
    BY <2>1, <2>2 DEF Bijection, Injection, IsInjective, Surjection
  <2> QED
    BY <2>3 DEF ExistsBijection
<1>5. IsFiniteSet(S) /\ Cardinality(S) = 2^n /\ 2^n \in Nat
  BY PowerCounts
<1>6. IsFiniteSet(T) /\ Cardinality(T) = 2^n
  BY <1>4, <1>5, FS_Bijection
<1>7. Cardinality(S \cup T) = 2^n + 2^n
  <2> HIDE DEF S, T
  <2> QED
    BY <1>3, <1>5, <1>6, FS_Union, FS_EmptySet
<1>8. Cardinality(SUBSET (1..(n + 1))) = 2^(n + 1)
  BY PowerCounts
<1> HIDE DEF S, T
<1> QED
  BY <1>2, <1>5, <1>7, <1>8

\* A number an int can hold is not changed by being stored in one, and what an int
\* holds is such a number.
LEMMA IntHolds ==
    ASSUME NEW w \in Nat \ {0}, NEW n \in Int
    PROVE  /\ 2^(w - 1) \in Nat \ {0} /\ ToInt(n, w) \in Int
           /\ -2^(w - 1) <= n /\ n < 2^(w - 1) => ToInt(n, w) = n
           /\ ToInt(n, w) = n => -2^(w - 1) <= n /\ n < 2^(w - 1)
<1> DEFINE h == 2^(w - 1)
<1>1. w - 1 \in Nat /\ (w - 1) + 1 = w
  OBVIOUS
<1>2. h \in Nat \ {0} /\ 2^w = 2 * h
  BY <1>1, PowerCounts, PowerDoubles
<1>3. ToInt(n, w) = ((n + h) % (2 * h)) - h
  BY <1>2 DEF ToInt
<1> HIDE DEF h
<1>4. (n + h) % (2 * h) \in 0..(2 * h - 1)
  BY <1>2
<1>5. n + h \in 0..(2 * h - 1) => (n + h) % (2 * h) = n + h
  BY <1>2
<1>6. -h <= n /\ n < h => ToInt(n, w) = n
  BY <1>2, <1>3, <1>5
<1>7. ToInt(n, w) = n => -h <= n /\ n < h
  BY <1>2, <1>3, <1>4
<1>8. ToInt(n, w) \in Int
  BY <1>2, <1>3, <1>4
<1> QED
  BY <1>2, <1>6, <1>7, <1>8 DEF h
-----------------------------------------------------------------------------
\* What a peer or a file may claim.
Claim ==
    /\ geometry \in [width : Int, height : Int, channels : Int, stride : Int, type : Int]
    /\ byte_count \in 0..SIZE_MAX

\* A claim's geometry is one.
LEMMA ClaimGeometry == Claim => Geometry(geometry)
BY DEF Claim, Geometry

\* The runs' initial states are claims.
LEMMA SizeInitClaims == SizeInit => Claim
<1> SUFFICES ASSUME SizeInit PROVE Claim
  OBVIOUS
<1>1. byte_count \in 0..SIZE_MAX
  BY RangesAssumption DEF SizeInit
<1>2. geometry \in [width : Int, height : Int, channels : Int, stride : Int, type : Int]
  BY RangesAssumption DEF SizeInit
<1> QED
  BY <1>1, <1>2 DEF Claim

\* Where no size_t can be above the ceiling the wire layer does not look at it.
LEMMA UnderCeiling ==
    ASSUME NEW n \in 0..SIZE_MAX, ~exceeds_max_buffer_bytes(n)
    PROVE  n <= MAX_BUFFER_BYTES
BY LimitsAssumption DEF exceeds_max_buffer_bytes

\* A size_t product that does not overflow is the product.
LEMMA SizeFits ==
    ASSUME NEW n \in 0..SIZE_MAX
    PROVE  ToSize(n) = n
BY LimitsAssumption DEF ToSize

\* A buffer of packed rows has no other bytes than those of its pixels.
LEMMA PackedHolds ==
    ASSUME NEW g, Geometry(g), is_known_buffer_type(g.type), within_display_limits(g),
           g.stride = g.width, NEW n,
           n = ((g.width * g.height) * g.channels) * type_size(g.type)
    PROVE  HoldsPixels(g, n)
<1>1. /\ g.width \in Nat \ {0} /\ g.height \in Nat \ {0} /\ g.channels \in Nat \ {0}
      /\ type_size(g.type) \in Nat \ {0}
  BY LimitsAssumption, TypeSize DEF within_display_limits
<1>2. PixelsAddressed(g) = g.width * g.height
  BY <1>1 DEF PixelsAddressed
<1>3. BytesAddressed(g) = n
  BY <1>2 DEF BytesAddressed
<1>4. n \in Nat
  <2>1. g.width * g.height \in Nat
    BY <1>1
  <2>2. (g.width * g.height) * g.channels \in Nat
    BY <1>1, <2>1
  <2> QED
    BY <1>1, <2>2
<1> QED
  BY <1>1, <1>3, <1>4 DEF HoldsPixels, Renderable

\* The image a NumPy shape stands for has as many elements as the shape.
LEMMA NpyShapeProduct ==
    ASSUME NEW dims, NEW fortran \in BOOLEAN, NEW g, Geometry(g),
           g \in layout_from_shape(dims, fortran, g.type),
           Len(dims) = 2 \/ Len(dims) = 3, \A i \in 1..Len(dims) : dims[i] \in Int
    PROVE  /\ within_display_limits(g) /\ g.stride = g.width
           /\ dims[1] * dims[2] * (IF Len(dims) = 3 THEN dims[3] ELSE 1)
                = (g.width * g.height) * g.channels
<1>1. within_display_limits(g)
  BY DEF layout_from_shape
<1>2. CASE Len(dims) = 2 /\ fortran
  <2>1. g = [width |-> dims[1], height |-> dims[2], channels |-> 1, stride |-> dims[1], type |-> g.type]
    BY <1>2 DEF layout_from_shape
  <2>2. dims[1] \in Int /\ dims[2] \in Int
    BY <1>2
  <2>3. g.width = dims[1] /\ g.height = dims[2] /\ g.channels = 1 /\ g.stride = dims[1]
    BY <2>1
  <2> QED
    BY <1>1, <1>2, <2>2, <2>3
<1>3. CASE Len(dims) = 2 /\ ~fortran
  <2>1. g = [width |-> dims[2], height |-> dims[1], channels |-> 1, stride |-> dims[2], type |-> g.type]
    BY <1>3 DEF layout_from_shape
  <2>2. dims[1] \in Int /\ dims[2] \in Int
    BY <1>3
  <2>3. g.width = dims[2] /\ g.height = dims[1] /\ g.channels = 1 /\ g.stride = dims[2]
    BY <2>1
  <2> QED
    BY <1>1, <1>3, <2>2, <2>3
<1>4. CASE Len(dims) = 3
  <2>1. ~fortran
    BY <1>4 DEF layout_from_shape
  <2>2. g = [width |-> dims[2], height |-> dims[1], channels |-> dims[3], stride |-> dims[2], type |-> g.type]
    BY <1>4, <2>1 DEF layout_from_shape
  <2>3. dims[1] \in Int /\ dims[2] \in Int /\ dims[3] \in Int
    BY <1>4
  <2>4. g.width = dims[2] /\ g.height = dims[1] /\ g.channels = dims[3] /\ g.stride = dims[2]
    BY <2>2
  <2> QED
    BY <1>1, <1>4, <2>3, <2>4
<1> QED
  BY <1>2, <1>3, <1>4

\* A buffer from a file is packed, of a known type, and under the ceiling.
LEMMA FromFileHolds ==
    ASSUME Claim, FromFile
    PROVE  /\ HoldsPixels(geometry, byte_count)
           /\ within_display_limits(geometry) /\ byte_count <= MAX_BUFFER_BYTES
           /\ geometry.stride = geometry.width
           /\ byte_count = ((geometry.width * geometry.height) * geometry.channels)
                               * type_size(geometry.type)
<1> DEFINE g == geometry
           n == ((g.width * g.height) * g.channels) * type_size(g.type)
<1>0. Geometry(g) /\ byte_count \in Nat /\ n <= SIZE_MAX
  BY LimitsAssumption, ClaimGeometry DEF Claim, FromFile
<1>1. ASSUME within_display_limits(g) PROVE n \in Nat
  <2>1. /\ g.width \in Nat \ {0} /\ g.height \in Nat \ {0} /\ g.channels \in Nat \ {0}
        /\ type_size(g.type) \in Nat \ {0}
    BY <1>1, LimitsAssumption, TypeSize DEF within_display_limits
  <2>2. g.width * g.height \in Nat
    BY <2>1
  <2>3. (g.width * g.height) * g.channels \in Nat
    BY <2>1, <2>2
  <2> QED
    BY <2>1, <2>3
<1>2. ASSUME within_display_limits(g), is_known_buffer_type(g.type), g.stride = g.width,
             byte_count = ToSize(n), byte_count <= MAX_BUFFER_BYTES
      PROVE  /\ HoldsPixels(g, byte_count)
             /\ within_display_limits(g) /\ byte_count <= MAX_BUFFER_BYTES
             /\ g.stride = g.width /\ byte_count = n
  <2>1. byte_count = n
    <3>1. n \in 0..SIZE_MAX
      BY <1>0, <1>1, <1>2, LimitsAssumption
    <3> HIDE DEF n
    <3> QED
      BY <1>2, <3>1, SizeFits
  <2> QED
    BY <1>0, <1>2, <2>1, PackedHolds
<1>3. CASE StbAccepted(g, byte_count)
  <2>1. /\ within_display_limits(g) /\ is_known_buffer_type(g.type) /\ g.stride = g.width
        /\ byte_count = ToSize(n) /\ type_size(g.type) \in {1, 2, 4}
    BY <1>3 DEF StbAccepted, within_display_limits, is_known_buffer_type, type_size,
                UNSIGNED_BYTE, UNSIGNED_SHORT, SHORT, INT32, FLOAT32, FLOAT64
  <2>2. byte_count <= MAX_BUFFER_BYTES
    <3> DEFINE m == (g.width * g.height) * g.channels
    <3>1. m \in Nat
      <4>1. g.width \in Nat /\ g.height \in Nat /\ g.channels \in Nat
        BY <2>1, LimitsAssumption DEF within_display_limits
      <4>2. g.width * g.height \in Nat
        BY <4>1
      <4> QED
        BY <4>1, <4>2
    <3>2. m * 4 <= MAX_BUFFER_BYTES
      BY <1>3 DEF StbAccepted
    <3>3. byte_count = m * type_size(g.type)
      <4>1. n \in 0..SIZE_MAX
        BY <1>0, <1>1, <2>1, LimitsAssumption
      <4>2. n = m * type_size(g.type)
        OBVIOUS
      <4> HIDE DEF n
      <4> QED
        BY <2>1, <4>1, <4>2, SizeFits
    <3> HIDE DEF m
    <3> QED
      BY <2>1, <3>1, <3>2, <3>3, LimitsAssumption
  <2> QED
    BY <1>2, <2>1, <2>2
<1>4. ASSUME NEW dims \in {<<g.height, g.width>>, <<g.width, g.height>>,
                           <<g.height, g.width, g.channels>>}, NEW fortran \in BOOLEAN,
             load_buffer_from_file(0, dims, fortran, g, byte_count)
      PROVE  /\ within_display_limits(g) /\ is_known_buffer_type(g.type) /\ g.stride = g.width
             /\ byte_count = ToSize(n) /\ byte_count <= MAX_BUFFER_BYTES
  <2>1. /\ Len(dims) = 2 \/ Len(dims) = 3
        /\ \A i \in 1..Len(dims) : dims[i] \in Int
    <3>1. g.height \in Int /\ g.width \in Int /\ g.channels \in Int
      BY <1>0 DEF Geometry
    <3> HIDE DEF g
    <3>2. CASE dims = <<g.height, g.width>>
      BY <3>1, <3>2
    <3>3. CASE dims = <<g.width, g.height>>
      BY <3>1, <3>3
    <3>4. CASE dims = <<g.height, g.width, g.channels>>
      BY <3>1, <3>4
    <3> QED
      BY <1>4, <3>2, <3>3, <3>4
  <2>2. /\ g \in layout_from_shape(dims, fortran, g.type) /\ is_known_buffer_type(g.type)
        /\ byte_count = ToSize((dims[1] * dims[2] * (IF Len(dims) = 3 THEN dims[3] ELSE 1))
                                 * type_size(g.type))
    BY <1>4 DEF load_buffer_from_file, NpyAccepted, NpyPayloadMatches
  <2>3. /\ within_display_limits(g) /\ g.stride = g.width
        /\ dims[1] * dims[2] * (IF Len(dims) = 3 THEN dims[3] ELSE 1)
             = (g.width * g.height) * g.channels
    BY <1>0, <2>1, <2>2, NpyShapeProduct
  <2>4. byte_count <= MAX_BUFFER_BYTES
    BY <1>0, <1>4, RangesAssumption, LimitsAssumption DEF load_buffer_from_file
  <2> QED
    BY <2>2, <2>3, <2>4
<1> QED
  BY <1>2, <1>3, <1>4 DEF FromFile

\* Every buffer that is delivered holds the pixels it says it has.
LEMMA DeliveredHolds ==
    ASSUME Claim, Delivered
    PROVE  /\ HoldsPixels(geometry, byte_count)
           /\ within_display_limits(geometry) /\ byte_count <= MAX_BUFFER_BYTES
<1>0. Geometry(geometry) /\ byte_count \in Nat /\ byte_count \in 0..SIZE_MAX
  BY LimitsAssumption, ClaimGeometry DEF Claim
<1>1. CASE ContentsAccepted(geometry, byte_count)
  BY <1>0, <1>1, FitsHolds, UnderCeiling DEF ContentsAccepted
<1>2. CASE BeginAccepted(geometry, byte_count)
  BY <1>0, <1>2, PaddedHolds, UnderCeiling DEF BeginAccepted
<1>3. CASE FromFile
  BY <1>3, FromFileHolds
<1> QED
  BY <1>1, <1>2, <1>3 DEF Delivered

\* Neither the wire layer nor the file loader takes a buffer the renderer then
\* refuses, for every geometry, byte count and limit (Buffer::configure()).
LEMMA ClaimConfigures == Claim => DeliveredImpliesConfigure
<1> SUFFICES ASSUME Claim, Delivered
             PROVE  ConfigureAccepts(geometry, RecordBytes(geometry, byte_count))
  BY DEF DeliveredImpliesConfigure
<1> QED
  BY ClaimGeometry, DeliveredHolds, HeldIsConfigured
-----------------------------------------------------------------------------
\* What the bridge forwards the viewer displays, for every geometry inside the
\* display limits whose element count fits the bridge's int, for ints and sizes of
\* any width (oid_plot_buffer(), handle_plot_buffer_contents()).
LEMMA ClaimAgrees == Claim => BridgeAgreesWithViewer
<1> DEFINE g == geometry
           t == type_size(g.type)
           elements == g.stride * g.height * g.channels
<1> SUFFICES ASSUME Claim, is_known_buffer_type(g.type), within_display_limits(g),
                    g.stride >= g.width, elements = ToInt(elements, IntBits),
                    elements * t <= SIZE_MAX
             PROVE  /\ get_buffer_size(g) = buff_size_expected(g, IntBits)
                    /\ BridgeAccepts(g, IntBits, byte_count)
                           <=> byte_count >= elements * t
                    /\ BridgeAccepts(g, IntBits, byte_count) =>
                           ContentsAccepted(g, byte_count) \/ byte_count > MAX_BUFFER_BYTES
  BY DEF BridgeAgreesWithViewer
<1>1. /\ Geometry(g) /\ g.stride \in Nat \ {0} /\ g.height \in Nat \ {0}
      /\ g.channels \in Nat \ {0} /\ g.width \in Nat \ {0}
      /\ t \in Nat \ {0} /\ byte_count \in Nat /\ byte_count \in 0..SIZE_MAX
  BY LimitsAssumption, TypeSize, ClaimGeometry DEF Claim, within_display_limits, Geometry
<1>2. Renderable(g)
  BY <1>1 DEF Renderable
<1>3. /\ g.stride * g.height \in Nat /\ elements \in Nat /\ g.stride * g.height <= elements
      /\ elements * t \in Nat /\ elements <= elements * t
  <2>1. g.stride * g.height \in Nat
    BY <1>1
  <2>2. elements \in Nat /\ g.stride * g.height <= elements
    BY <1>1, <2>1
  <2> HIDE DEF elements, t
  <2>3. elements * t \in Nat /\ elements <= elements * t
    BY <1>1, <2>2
  <2> QED
    BY <2>1, <2>2, <2>3
<1>4. buff_size_expected(g, IntBits) = elements * t
  <2>1. IntBits \in Nat \ {0}
    BY ReadersAssumption
  <2>2. -2^(IntBits - 1) <= elements /\ elements < 2^(IntBits - 1) /\ 2^(IntBits - 1) \in Nat
    BY <1>3, <2>1, IntHolds
  <2>3. ToInt(g.stride * g.height, IntBits) = g.stride * g.height
    <3>1. -2^(IntBits - 1) <= g.stride * g.height /\ g.stride * g.height < 2^(IntBits - 1)
      BY <1>3, <2>2
    <3> QED
      BY <1>3, <2>1, <3>1, IntHolds
  <2>4. ToInt(ToInt(g.stride * g.height, IntBits) * g.channels, IntBits) = elements
    BY <2>3
  <2>5. ToSize(elements) = elements /\ ToSize(elements * t) = elements * t
    <3>1. elements \in 0..SIZE_MAX /\ elements * t \in 0..SIZE_MAX
      BY <1>3, LimitsAssumption
    <3> QED
      BY <3>1, SizeFits
  <2> HIDE DEF elements
  <2> QED
    BY <2>4, <2>5 DEF buff_size_expected
<1>5. get_buffer_size(g) = elements * t
  BY <1>1 DEF get_buffer_size
<1>6. BridgeAccepts(g, IntBits, byte_count) <=> byte_count >= elements * t
  BY <1>4 DEF BridgeAccepts
<1>7. ASSUME byte_count >= elements * t PROVE HoldsPixels(g, byte_count)
  <2>1. PixelsAddressed(g) \in Nat /\ PixelsAddressed(g) <= g.stride * g.height
    BY <1>1, <1>2, PixelsBound
  <2>2. PixelsAddressed(g) * g.channels <= elements /\ PixelsAddressed(g) * g.channels \in Nat
    BY <1>1, <1>3, <2>1
  <2>3. \A a, b \in Nat : a <= b => a * t <= b * t /\ a * t \in Nat
    BY <1>1
  <2> HIDE DEF elements
  <2>4. BytesAddressed(g) <= elements * t /\ BytesAddressed(g) \in Nat
    BY <1>3, <2>2, <2>3 DEF BytesAddressed
  <2> QED
    BY <1>1, <1>2, <1>3, <1>7, <2>4 DEF HoldsPixels
<1>8. BridgeAccepts(g, IntBits, byte_count) =>
         ContentsAccepted(g, byte_count) \/ byte_count > MAX_BUFFER_BYTES
  <2> SUFFICES ASSUME BridgeAccepts(g, IntBits, byte_count), ~(byte_count > MAX_BUFFER_BYTES)
               PROVE  ContentsAccepted(g, byte_count)
    OBVIOUS
  <2>1. geometry_fits_payload(g, byte_count)
    BY <1>1, <1>6, <1>7, FitsHolds
  <2> QED
    BY <2>1 DEF ContentsAccepted, exceeds_max_buffer_bytes
<1> QED
  BY <1>4, <1>5, <1>6, <1>8
-----------------------------------------------------------------------------
\* A pixel and a channel of a geometry.
Pixel(g, x, y, c) == x \in Upto(g.width) /\ y \in Upto(g.height) /\ c \in Upto(g.channels)

\* The place of a channel of a pixel in the record.
Place(g, x, y, c) == g.channels * (y * g.stride + x) + c

\* It is one of the elements of the pixels addressed.
LEMMA PlaceInside ==
    ASSUME NEW g, Geometry(g), Renderable(g), NEW x, NEW y, NEW c, Pixel(g, x, y, c)
    PROVE  Place(g, x, y, c) \in 0..(PixelsAddressed(g) * g.channels - 1)
<1>1. /\ g.stride \in Nat \ {0} /\ g.height \in Nat \ {0} /\ g.channels \in Nat \ {0}
      /\ g.width \in Nat \ {0}
      /\ x \in Nat /\ y \in Nat /\ c \in Nat
      /\ x <= g.width - 1 /\ y <= g.height - 1 /\ c <= g.channels - 1
  BY DEF Geometry, Renderable, Pixel, Upto
<1>2. y * g.stride \in Nat /\ y * g.stride <= (g.height - 1) * g.stride
      /\ (g.height - 1) * g.stride \in Nat
  BY <1>1
<1> DEFINE p == y * g.stride + x
           a == PixelsAddressed(g)
<1>3. p \in Nat /\ a \in Nat /\ p + 1 <= a
  BY <1>1, <1>2 DEF PixelsAddressed
<1>4. Place(g, x, y, c) = g.channels * p + c
  BY DEF Place
<1> HIDE DEF p, a
<1>5. g.channels * (p + 1) <= a * g.channels /\ g.channels * p \in Nat
      /\ g.channels * (p + 1) = g.channels * p + g.channels
  BY <1>1, <1>3
<1> QED
  BY <1>1, <1>3, <1>4, <1>5 DEF a

\* Buffer and BufferValues compute it in an int that can count the elements.
LEMMA PlaceInInt ==
    ASSUME NEW g, Geometry(g), Renderable(g), NEW x, NEW y, NEW c, Pixel(g, x, y, c),
           PixelsAddressed(g) * g.channels <= 2^(IntBits - 1)
    PROVE  PixelElement(g, x, y, c) \in 0..(PixelsAddressed(g) * g.channels - 1)
<1>1. Place(g, x, y, c) \in 0..(PixelsAddressed(g) * g.channels - 1)
  BY PlaceInside
<1>2. PixelsAddressed(g) * g.channels \in Int
  BY PixelsBound DEF Geometry
<1>3. Place(g, x, y, c) \in Int /\ 2^(IntBits - 1) \in Nat
  BY <1>1, <1>2, ReadersAssumption, IntHolds
<1>4. -2^(IntBits - 1) <= Place(g, x, y, c) /\ Place(g, x, y, c) < 2^(IntBits - 1)
  BY <1>1, <1>2, <1>3
<1>5. PixelElement(g, x, y, c) = Place(g, x, y, c)
  BY <1>3, <1>4, ReadersAssumption, IntHolds DEF PixelElement, Place
<1> QED
  BY <1>1, <1>5

\* A texel of a tile is a pixel of the image.
LEMMA TileInside ==
    ASSUME NEW n \in Nat \ {0}, NEW t \in Upto(num_textures(n)), NEW i \in Upto(TileSize(n, t))
    PROVE  t * MAX_TEXTURE_SIZE + i \in Upto(n)
<1>1. MAX_TEXTURE_SIZE \in Nat /\ num_textures(n) \in Int
  BY ReadersAssumption DEF num_textures
<1>2. t \in Nat
  BY <1>1 DEF Upto
<1> DEFINE r == n - t * MAX_TEXTURE_SIZE
<1>3. t * MAX_TEXTURE_SIZE \in Nat /\ r \in Int
  BY <1>1, <1>2
<1>4. TileSize(n, t) = IF r < MAX_TEXTURE_SIZE THEN r ELSE MAX_TEXTURE_SIZE
  BY DEF TileSize
<1>5. i \in Nat /\ i < r
  <2> HIDE DEF r
  <2> QED
    BY <1>1, <1>3, <1>4 DEF Upto
<1> QED
  BY <1>3, <1>5 DEF Upto

\* The columns whose values are drawn are columns of the image, in every view.
LEMMA LabelInside ==
    ASSUME NEW n \in Nat \ {0}, NEW tl \in Int, NEW br \in Int
    PROVE  LabelRange(n, tl, br) \subseteq Upto(n)
<1> DEFINE a == clamp(2 * tl - 2, -n, n - 2)
           b == clamp(2 * br + 2, -(n + 1) + 2, n + 1)
<1>1. a \in Int /\ -n <= a /\ b \in Int /\ b <= n + 1
  BY DEF clamp
<1>2. LabelRange(n, tl, br) =
        (Truncated(a) - Truncated(-n))..(Truncated(b) - Truncated(-n) - 1)
  BY DEF LabelRange, pos_center
<1> HIDE DEF a, b
<1>3. Truncated(-n) = -(n \div 2)
  BY DEF Truncated
<1>4. Truncated(a) \in Int /\ Truncated(a) >= -(n \div 2)
  BY <1>1 DEF Truncated
<1>5. Truncated(b) \in Int /\ Truncated(b) <= (n + 1) \div 2
  BY <1>1 DEF Truncated
<1>6. (n + 1) \div 2 + n \div 2 = n
  OBVIOUS
<1> QED
  BY <1>2, <1>3, <1>4, <1>5, <1>6 DEF Upto

\* For every geometry, tile size and view: whatever the wire layer or the file
\* loader took, every element that is drawn, uploaded, minimised over, shown under
\* the cursor or exported is inside the record, provided the elements can be
\* counted in an int (Buffer, BufferValues, the exporters).
LEMMA ClaimRead == Claim => EveryPixelInside
<1> DEFINE g == geometry
           a == PixelsAddressed(g) * g.channels
           r == RecordBytes(g, byte_count)
<1> SUFFICES ASSUME Claim, Delivered, a <= 2^(IntBits - 1)
             PROVE  /\ \A isolated \in -1..2 :
                          ElementsRead(g, isolated) \subseteq Upto(ElementsHeld(g, byte_count))
                    /\ ExportedElements(g) \subseteq Upto(r \div ExportedElementSize(g.type))
  BY DEF EveryPixelInside
<1>1. HoldsPixels(g, byte_count) /\ Geometry(g) /\ Renderable(g) /\ is_known_buffer_type(g.type)
  BY DeliveredHolds, ClaimGeometry DEF HoldsPixels
<1>2. /\ g.stride \in Nat \ {0} /\ g.height \in Nat \ {0} /\ g.channels \in Nat \ {0}
      /\ g.width \in Nat \ {0} /\ g.width <= g.stride
  BY <1>1 DEF Geometry, Renderable
<1>3. a \in Nat /\ r \in Nat /\ r >= a * display_element_size(g.type)
  <2>1. PixelsAddressed(g) \in Nat /\ byte_count \in Nat
    BY <1>1, PixelsBound DEF HoldsPixels
  <2> QED
    BY <1>1, <1>2, <2>1, RecordSpans
<1>4. /\ display_element_size(g.type) \in {1, 2, 4}
      /\ ExportedElementSize(g.type) = display_element_size(g.type)
  BY <1>1 DEF display_element_size, ExportedElementSize, is_known_buffer_type,
              UNSIGNED_BYTE, UNSIGNED_SHORT, SHORT, INT32, FLOAT32, FLOAT64
<1>5. 0..(a - 1) \subseteq Upto(r \div display_element_size(g.type))
  <2>1. r \div display_element_size(g.type) >= a /\ r \div display_element_size(g.type) \in Nat
    <3> HIDE DEF a, r
    <3> QED
      BY <1>3, <1>4, DivGeq
  <2> HIDE DEF a, r
  <2> QED
    BY <1>3, <2>1 DEF Upto
<1>6. ASSUME NEW x, NEW y, NEW c, Pixel(g, x, y, c)
      PROVE  PixelElement(g, x, y, c) \in 0..(a - 1)
  BY <1>1, <1>6, PlaceInInt
<1>7. setup_gl_buffer(g) \subseteq 0..(a - 1)
  <2> SUFFICES ASSUME NEW tx \in Upto(num_textures(g.width)), NEW ty \in Upto(num_textures(g.height)),
                      NEW i \in Upto(TileSize(g.width, tx)), NEW j \in Upto(TileSize(g.height, ty)),
                      NEW c \in Upto(g.channels)
               PROVE  UnpackedElement(g, tx, ty, i, j, c) \in 0..(a - 1)
    BY DEF setup_gl_buffer
  <2> DEFINE x == tx * MAX_TEXTURE_SIZE + i
             y == ty * MAX_TEXTURE_SIZE + j
  <2>1. x \in Upto(g.width) /\ y \in Upto(g.height)
    BY <1>2, TileInside
  <2>2. Place(g, x, y, c) \in 0..(a - 1)
    BY <1>1, <2>1, PlaceInside DEF Pixel
  <2>3. UnpackedElement(g, tx, ty, i, j, c) = Place(g, x, y, c)
    <3>1. /\ x \in Nat /\ y \in Nat /\ c \in Nat
          /\ tx \in Int /\ ty \in Int /\ i \in Int /\ j \in Int /\ MAX_TEXTURE_SIZE \in Nat
      <4>1. num_textures(g.width) \in Int /\ num_textures(g.height) \in Int
            /\ MAX_TEXTURE_SIZE \in Nat
        BY <1>2, ReadersAssumption DEF num_textures
      <4>2. tx \in Int /\ ty \in Int
        BY <4>1 DEF Upto
      <4>3. TileSize(g.width, tx) \in Int /\ TileSize(g.height, ty) \in Int
        BY <1>2, <4>1, <4>2 DEF TileSize
      <4> QED
        BY <1>2, <2>1, <4>1, <4>2, <4>3 DEF Upto
    <3>2. tx * MAX_TEXTURE_SIZE \in Int /\ y * g.stride \in Nat
      BY <1>2, <3>1
    <3>3. UnpackedElement(g, tx, ty, i, j, c) = (y * g.stride + x) * g.channels + c
      BY <1>2, <3>1, <3>2 DEF UnpackedElement
    <3> HIDE DEF x, y
    <3> QED
      BY <1>2, <3>1, <3>2, <3>3 DEF Place
  <2> QED
    BY <2>2, <2>3
<1>8. reset_contrast_brightness_parameters(g) \subseteq 0..(a - 1)
  BY <1>6 DEF reset_contrast_brightness_parameters, Pixel
<1>9. ASSUME NEW n \in Nat \ {0} PROVE DrawnUnderSomeView(n) \subseteq Upto(n)
  BY LabelInside DEF DrawnUnderSomeView
<1>10. ASSUME NEW isolated \in -1..2
       PROVE  /\ draw_pixel_values(g, DrawnUnderSomeView(g.width), DrawnUnderSomeView(g.height), isolated)
                    \subseteq 0..(a - 1)
              /\ \A x, y : get_pixel_info(g, x, y, isolated) \subseteq 0..(a - 1)
  <2>1. DrawnUnderSomeView(g.width) \subseteq Upto(g.width)
        /\ DrawnUnderSomeView(g.height) \subseteq Upto(g.height)
    BY <1>2, <1>9
  <2>2. isolated # -1 => (IF isolated < g.channels THEN isolated ELSE 0) \in Upto(g.channels)
    BY <1>2, <1>10 DEF Upto
  <2>3. draw_pixel_values(g, DrawnUnderSomeView(g.width), DrawnUnderSomeView(g.height), isolated)
           \subseteq 0..(a - 1)
    <3> SUFFICES ASSUME NEW x \in DrawnUnderSomeView(g.width), NEW y \in DrawnUnderSomeView(g.height),
                        NEW c \in IF isolated = -1 THEN Upto(g.channels)
                                  ELSE {IF isolated < g.channels THEN isolated ELSE 0}
                 PROVE  PixelElement(g, x, y, c) \in 0..(a - 1)
      BY DEF draw_pixel_values
    <3>1. Pixel(g, x, y, c)
      BY <2>1, <2>2 DEF Pixel
    <3> QED
      BY <1>6, <3>1
  <2>4. ASSUME NEW x, NEW y PROVE get_pixel_info(g, x, y, isolated) \subseteq 0..(a - 1)
    BY <1>6 DEF get_pixel_info, Pixel
  <2> QED
    BY <2>3, <2>4
<1>11. ExportedElements(g) \subseteq 0..(a - 1)
  <2> SUFFICES ASSUME NEW y \in Upto(g.height), NEW i \in 1..(g.width * g.channels)
               PROVE  y * g.stride * g.channels + i - 1 \in 0..(a - 1)
    BY DEF ExportedElements, ExportedRow
  <2>1. y \in Nat /\ y <= g.height - 1 /\ g.width * g.channels \in Nat
    BY <1>2 DEF Upto
  <2>2. y * g.stride \in Nat /\ y * g.stride <= (g.height - 1) * g.stride
        /\ (g.height - 1) * g.stride \in Nat
    BY <1>2, <2>1
  <2>3. (y * g.stride) * g.channels \in Nat
        /\ (y * g.stride) * g.channels <= ((g.height - 1) * g.stride) * g.channels
    BY <1>2, <2>2
  <2>4. a = ((g.height - 1) * g.stride) * g.channels + g.width * g.channels
    BY <1>2, <2>2 DEF PixelsAddressed
  <2>5. ((g.height - 1) * g.stride) * g.channels \in Nat
    BY <1>2, <2>2
  <2> HIDE DEF a
  <2> QED
    BY <1>3, <2>1, <2>3, <2>4, <2>5
<1>12. ASSUME NEW isolated \in -1..2
       PROVE  ElementsRead(g, isolated) \subseteq Upto(ElementsHeld(g, byte_count))
  <2>1. ElementsRead(g, isolated) \subseteq 0..(a - 1)
    <3> HIDE DEF a
    <3> QED
      BY <1>7, <1>8, <1>10 DEF ElementsRead
  <2> HIDE DEF a, r
  <2> QED
    BY <1>5, <2>1 DEF ElementsHeld, r
<1> QED
  BY <1>4, <1>5, <1>11, <1>12
-----------------------------------------------------------------------------
\* Where pixel x of an axis of n pixels is: in tile t, i texels in.
LEMMA TileOf ==
    ASSUME NEW n \in Nat \ {0}, NEW x \in Upto(n), NEW t, t = x \div MAX_TEXTURE_SIZE,
           NEW i, i = x - t * MAX_TEXTURE_SIZE
    PROVE  /\ t \in Upto(num_textures(n)) /\ i \in Upto(TileSize(n, t))
           /\ i = x % MAX_TEXTURE_SIZE
<1> DEFINE m == MAX_TEXTURE_SIZE
           q == num_textures(n)
<1>1. m \in Nat /\ m >= 2 /\ x \in Nat /\ x <= n - 1
  BY ReadersAssumption DEF Upto
<1> HIDE DEF m
<1>2. t \in Nat /\ m * t <= x /\ x < m * t + m
  BY <1>1 DEF m
<1>3. i \in Nat /\ i < m /\ i <= n - 1 - t * m
  BY <1>1, <1>2 DEF m
<1>4. q = (n + m - 1) \div m
  BY DEF num_textures, m
<1>5. q \in Nat /\ n + m - 1 < m * q + m
  BY <1>1, <1>4
<1> HIDE DEF q
<1>6. m * t < m * q
  BY <1>1, <1>2, <1>5
<1>7. t < q
  BY <1>1, <1>2, <1>5, <1>6
<1>8. TileSize(n, t) = IF n - t * m < m THEN n - t * m ELSE m
  BY DEF TileSize, m
<1>9. i \in Upto(TileSize(n, t))
  BY <1>1, <1>2, <1>3, <1>8 DEF Upto
<1>10. i = x % m
  BY <1>1, <1>2, <1>3 DEF m
<1> QED
  BY <1>2, <1>5, <1>7, <1>9, <1>10 DEF Upto, q, m

\* A label stands in the middle of its pixel and is contrasted with it.
LEMMA LabelOnPixel ==
    ASSUME NEW n \in Nat \ {0}, NEW x \in Nat
    PROVE  LabelCentre2(n, x) = -n + 2 * x + 1 /\ LabelPixel(n, x) = x
<1> DEFINE o == n % 2
           h == n \div 2
<1>1. pos_center(n) = -h
  BY DEF pos_center, Truncated
<1>2. o = n - 2 * h /\ o \in {0, 1} /\ h \in Nat
  OBVIOUS
<1>3. LabelCentre2(n, x) = 2 * (x + -h) + (IF o = 0 THEN 1 ELSE 0)
  BY <1>1 DEF LabelCentre2
<1>4. LabelPixel(n, x) = Truncated(2 * (x + -h) + n)
  BY <1>1 DEF LabelPixel
<1> HIDE DEF o, h
<1>5. LabelCentre2(n, x) = -n + 2 * x + 1
  BY <1>2, <1>3
<1>6. 2 * (x + -h) + n = 2 * x + o
  BY <1>2
<1>7. Truncated(2 * x + o) = x
  BY <1>2 DEF Truncated
<1> QED
  BY <1>4, <1>5, <1>6, <1>7

\* A tile's edge: half a pixel off if the image is odd and the tile not the last.
LEMMA TileEdge ==
    ASSUME NEW n \in Nat \ {0}, MAX_TEXTURE_SIZE % 2 = 0, NEW t \in Upto(num_textures(n))
    PROVE  TileEdge2(n, t) = -n + 2 * t * MAX_TEXTURE_SIZE
               - (IF n % 2 = 1 /\ t < num_textures(n) - 1 THEN 1 ELSE 0)
<1> DEFINE m == MAX_TEXTURE_SIZE
           q == num_textures(n)
           s == TileSize(n, t)
           o == n % 2
           e == s % 2
           w == t * m
<1>1. m \in Nat /\ m >= 2 /\ m % 2 = 0
  BY ReadersAssumption
<1>2. TileEdge2(n, t) = ((-n - o) + t * (2 * m + (m % 2)) + s + e) - s
  BY DEF TileEdge2
<1> HIDE DEF m
<1>3. q = (n + m - 1) \div m
  BY DEF num_textures, m
<1>4. q \in Nat /\ m * q <= n + m - 1 /\ n + m - 1 < m * q + m
  BY <1>1, <1>3
<1> HIDE DEF q
<1>5. t \in Nat /\ t <= q - 1
  BY <1>4 DEF Upto, q
<1>6. w \in Nat /\ w % 2 = 0 /\ 2 * t * m = 2 * w
  <2> DEFINE h == m \div 2
  <2>1. 2 * h = m /\ h \in Nat
    BY <1>1
  <2> HIDE DEF h
  <2>2. t * (2 * h) = 2 * (t * h) /\ t * h \in Nat
    BY <1>5, <2>1
  <2>3. w = 2 * (t * h)
    BY <2>1, <2>2
  <2>4. 2 * t * m = 2 * w
    BY <1>1, <1>5
  <2> HIDE DEF w
  <2> QED
    BY <2>2, <2>3, <2>4
<1>7. s = IF n - w < m THEN n - w ELSE m
  BY DEF TileSize, m
<1>8. t * (2 * m + (m % 2)) = 2 * w
  BY <1>1, <1>5
<1>9. o \in {0, 1} /\ o = n % 2
  OBVIOUS
<1>10. t = q - 1 => w = m * q - m
  BY <1>1, <1>4
<1>11. t < q - 1 => w + m <= m * q - m
  <2>1. \A u, v \in Nat : u <= v => m * u <= m * v
    BY <1>1
  <2>2. t < q - 1 => m * (t + 2) <= m * q
    BY <1>4, <1>5, <2>1
  <2>3. m * (t + 2) = w + 2 * m /\ m * q \in Nat /\ w \in Nat
    BY <1>1, <1>4, <1>5
  <2> HIDE DEF w
  <2> QED
    BY <1>1, <2>2, <2>3
<1> HIDE DEF w
<1>12. s \in Int
  BY <1>1, <1>6, <1>7
<1>13. t < q - 1 => s = m
  BY <1>1, <1>4, <1>6, <1>7, <1>11
<1>14. t = q - 1 => s = n - w
  BY <1>1, <1>4, <1>6, <1>7, <1>10
<1>15. t < q - 1 => e = 0
  BY <1>1, <1>13
<1>16. t = q - 1 => e = o
  <2>1. (n - w) % 2 = n % 2
    BY <1>6
  <2> QED
    BY <1>14, <2>1
<1> HIDE DEF o, e, s
<1>17. e \in Int
  BY <1>4, <1>5, <1>9, <1>15, <1>16
<1>18. TileEdge2(n, t) = -n - o + 2 * w + e
  BY <1>2, <1>6, <1>8, <1>9, <1>12, <1>17
<1>19. TileEdge2(n, t) = -n + 2 * w - (IF o = 1 /\ t < q - 1 THEN 1 ELSE 0)
  BY <1>4, <1>5, <1>6, <1>9, <1>15, <1>16, <1>18
<1> QED
  BY <1>6, <1>9, <1>19 DEF q, m

\* The cursor's fraction of its tile is over the tile's last texel.
LEMMA TileFraction ==
    ASSUME NEW n \in Nat \ {0}, NEW x \in Upto(n), NEW t, t = x \div MAX_TEXTURE_SIZE,
           NEW i, i = x - t * MAX_TEXTURE_SIZE
    PROVE  /\ tile_coord(n, x).num = i /\ tile_coord(n, x).den > 0
           /\ i > 0 => tile_coord(n, x).den = TileSize(n, t) - 1
<1> DEFINE m == MAX_TEXTURE_SIZE
           last == n % m
           k == n \div m
<1>1. m \in Nat /\ m >= 2 /\ x \in Nat /\ x <= n - 1
  BY ReadersAssumption DEF Upto
<1> HIDE DEF m
<1>2. t \in Nat /\ m * t <= x /\ x < m * t + m /\ i = x - t * m /\ i \in Nat /\ i < m
  BY <1>1 DEF m
<1>3. last \in Nat /\ last < m /\ k \in Nat /\ m * k <= n /\ n < m * k + m
  BY <1>1
<1>4. last = n - m * k
  BY <1>1
<1>5. /\ tile_coord(n, x).num = x % m
      /\ tile_coord(n, x).den = (IF x > n - last THEN last ELSE m) - 1
  BY DEF tile_coord, m
<1>6. x % m = i
  BY <1>1, TileOf DEF m
<1>7. TileSize(n, t) = IF n - t * m < m THEN n - t * m ELSE m
  BY DEF TileSize, m
<1> HIDE DEF last, k
<1>8. CASE x > n - last
  <2>1. m * k <= x /\ x < m * k + m
    BY <1>1, <1>3, <1>4, <1>8
  <2>2. t = k
    <3>1. m * t < m * (k + 1) /\ m * k < m * (t + 1)
      BY <1>1, <1>2, <1>3, <2>1
    <3>2. \A u, v \in Nat : m * u < m * v => u < v
      BY <1>1
    <3> QED
      BY <1>2, <1>3, <3>1, <3>2
  <2>3. TileSize(n, t) = last
    BY <1>1, <1>2, <1>3, <1>4, <1>7, <2>2
  <2>4. last >= 2
    BY <1>1, <1>3, <1>8
  <2> QED
    BY <1>3, <1>5, <1>6, <1>8, <2>3, <2>4
<1>9. CASE ~(x > n - last)
  <2>1. tile_coord(n, x).den = m - 1
    BY <1>5, <1>9
  <2>2. ASSUME i > 0 PROVE n - t * m >= m
    <3>1. x <= m * k
      BY <1>1, <1>3, <1>4, <1>9
    <3>2. m * t < m * k
      BY <1>1, <1>2, <1>3, <2>2, <3>1
    <3>3. t + 1 <= k
      <4>1. \A u, v \in Nat : m * u < m * v => u + 1 <= v
        BY <1>1
      <4> QED
        BY <1>2, <1>3, <3>2, <4>1
    <3>4. m * (t + 1) <= m * k
      BY <1>1, <1>2, <1>3, <3>3
    <3> QED
      BY <1>1, <1>2, <1>3, <3>4
  <2> QED
    BY <1>1, <1>2, <1>5, <1>6, <1>7, <2>1, <2>2
<1> QED
  BY <1>8, <1>9

\* A view of the whole image has every value drawn.
LEMMA WholeView ==
    ASSUME NEW n \in Nat \ {0}
    PROVE  LabelRange(n, -n, n) = Upto(n)
<1>1. clamp(2 * (-n) - 2, -n, n - 2) = -n /\ clamp(2 * n + 2, -(n + 1) + 2, n + 1) = n + 1
  BY DEF clamp
<1>2. Truncated(-n) = -(n \div 2) /\ Truncated(n + 1) = (n + 1) \div 2
  BY DEF Truncated
<1>3. (n + 1) \div 2 + n \div 2 = n /\ n \div 2 \in Int /\ (n + 1) \div 2 \in Int
  OBVIOUS
<1> QED
  BY <1>1, <1>2, <1>3 DEF LabelRange, pos_center, Upto

\* Textures, values and cursor agree on where a pixel is, for images of any size
\* and for tiles of any even size, as they are in the source (MAX_TEXTURE_SIZE is
\* 2048; with an odd one the tiles would drift half a pixel each).
LEMMA ClaimInPlace == Claim /\ MAX_TEXTURE_SIZE % 2 = 0 => PixelsInPlace
<1> SUFFICES ASSUME Claim, MAX_TEXTURE_SIZE % 2 = 0, Delivered,
                    NEW n \in {geometry.width, geometry.height}
             PROVE  /\ \A x \in Upto(n) : InPlace(n, x)
                    /\ LabelRange(n, -n, n) = Upto(n)
  BY DEF PixelsInPlace
<1>1. n \in Nat \ {0}
  BY DeliveredHolds, LimitsAssumption DEF within_display_limits
<1>2. ASSUME NEW x \in Upto(n) PROVE InPlace(n, x)
  <2> DEFINE t == x \div MAX_TEXTURE_SIZE
             i == x - t * MAX_TEXTURE_SIZE
             seam == IF n % 2 = 1 /\ t < num_textures(n) - 1 THEN 1 ELSE 0
  <2>1. MAX_TEXTURE_SIZE \in Nat \ {0} /\ x \in Nat /\ t \in Nat /\ t * MAX_TEXTURE_SIZE \in Nat
        /\ seam \in {0, 1}
    BY <1>1, ReadersAssumption DEF Upto
  <2>2. t \in Upto(num_textures(n)) /\ i \in Upto(TileSize(n, t))
    BY <1>1, TileOf
  <2>3. TileEdge2(n, t) + 2 * i = (-n + 2 * x) - seam
    <3>1. TileEdge2(n, t) = -n + 2 * t * MAX_TEXTURE_SIZE - seam
      BY <1>1, <2>2, TileEdge
    <3> HIDE DEF t, seam
    <3>2. 2 * t * MAX_TEXTURE_SIZE = 2 * (t * MAX_TEXTURE_SIZE)
      BY <2>1
    <3> QED
      BY <1>1, <2>1, <3>1, <3>2
  <2>4. LabelCentre2(n, x) = -n + 2 * x + 1 /\ LabelPixel(n, x) = x
    BY <1>1, <2>1, LabelOnPixel
  <2>5. sub_texture_id_at_coord(x) = t
    BY DEF sub_texture_id_at_coord
  <2>6. /\ tile_coord(n, x).num = i /\ tile_coord(n, x).den > 0
        /\ i > 0 => tile_coord(n, x).den = TileSize(n, t) - 1
    BY <1>1, TileFraction
  <2> HIDE DEF t
  <2> QED
    BY <2>2, <2>3, <2>4, <2>5, <2>6 DEF InPlace
<1> QED
  BY <1>1, <1>2, WholeView
-----------------------------------------------------------------------------
\* A buffer's record with another stride and another element type.
LEMMA Repacked ==
    ASSUME NEW g \in [width : Int, height : Int, channels : Int, stride : Int, type : Int],
           NEW s, NEW t
    PROVE  [g EXCEPT !.stride = s, !.type = t]
             = [width |-> g.width, height |-> g.height, channels |-> g.channels,
                stride |-> s, type |-> t]
<1> DEFINE r == [g EXCEPT !.stride = s, !.type = t]
           q == [width |-> g.width, height |-> g.height, channels |-> g.channels,
                 stride |-> s, type |-> t]
<1>1. DOMAIN r = DOMAIN g /\ DOMAIN g = {"width", "height", "channels", "stride", "type"}
  OBVIOUS
<1>2. r.width = g.width /\ r.height = g.height /\ r.channels = g.channels
  OBVIOUS
<1>3. r.type = t
  OBVIOUS
<1>4. r.stride = s
  OBVIOUS
<1>5. q.width = g.width /\ q.height = g.height /\ q.channels = g.channels /\ q.stride = s /\ q.type = t
  OBVIOUS
<1>6. DOMAIN q = {"width", "height", "channels", "stride", "type"} /\ q = [f \in DOMAIN q |-> q[f]]
  OBVIOUS
<1>7. r = [f \in DOMAIN r |-> r[f]]
  OBVIOUS
<1> HIDE DEF r, q
<1>8. \A f \in DOMAIN r : r[f] = q[f]
  BY <1>1, <1>2, <1>3, <1>4, <1>5
<1>9. r = q
  BY <1>1, <1>6, <1>7, <1>8
<1> QED
  BY <1>9 DEF r, q

\* The exported pixels are no more bytes than the delivered buffer had.
LEMMA NpyBytesFit ==
    ASSUME NEW g, Geometry(g), NEW n, HoldsPixels(g, n)
    PROVE  NpyBytes(g) \in 0..n
<1> DEFINE t == type_size(npy_descr(g.type))
           u == type_size(g.type)
           p == PixelsAddressed(g)
<1>1. /\ g.width \in Nat \ {0} /\ g.height \in Nat \ {0} /\ g.channels \in Nat \ {0}
      /\ g.stride \in Nat /\ g.width <= g.stride /\ n \in Nat
  BY DEF Geometry, HoldsPixels, Renderable
<1>2. t \in Nat /\ u \in Nat /\ t <= u
  BY DEF npy_descr, type_size, FLOAT32, FLOAT64, INT32, SHORT, UNSIGNED_SHORT, UNSIGNED_BYTE
<1>3. g.height * g.width <= p /\ g.height * g.width \in Nat /\ p \in Nat
  <2>1. (g.height - 1) * g.width <= (g.height - 1) * g.stride
    BY <1>1
  <2>2. g.height * g.width = (g.height - 1) * g.width + g.width
        /\ (g.height - 1) * g.width \in Nat /\ (g.height - 1) * g.stride \in Nat
    BY <1>1
  <2> QED
    BY <1>1, <2>1, <2>2 DEF PixelsAddressed
<1>4. n >= (p * g.channels) * u
  BY DEF HoldsPixels, BytesAddressed
<1>5. NpyBytes(g) = ((g.height * g.width) * g.channels) * t
  BY DEF NpyBytes
<1> HIDE DEF t, u, p
<1> DEFINE a == (g.height * g.width) * g.channels
           b == p * g.channels
<1>6. a \in Nat /\ b \in Nat /\ a <= b
  BY <1>1, <1>3
<1> HIDE DEF a, b
<1>7. a * t <= b * t /\ b * t <= b * u /\ a * t \in Nat /\ b * u \in Nat /\ b * t \in Nat
  BY <1>2, <1>6
<1> QED
  BY <1>1, <1>4, <1>5, <1>7 DEF a, b

\* What leaves the viewer can be read again, for every buffer, cap, limit and
\* padding: an agent is answered exactly up to its cap and its client makes an
\* array of the answer, and an exported .npy is loaded exactly up to the loader's
\* limit, with the buffer's geometry, element type and elements
\* (AgentCore::handle_get_buffer(), decode_buffer(), export_npy_impl(),
\* load_buffer_from_file(), decode_npy()).
LEMMA ClaimReadsBack == Claim => ReadBack
<1> DEFINE g == geometry
           held == RecordBytes(g, byte_count)
           served == handle_get_buffer(g, held, AgentMaxBytes)
           saved == [g EXCEPT !.stride = g.width, !.type = npy_descr(g.type)]
           full == g.stride * g.height * g.channels
           w == type_size(wire_buffer_type(g.type))
<1> SUFFICES ASSUME Claim, Delivered
             PROVE  /\ byte_count >= full * type_size(g.type) =>
                          /\ served <=> held <= AgentMaxBytes
                          /\ served => decode_buffer(g, wire_buffer_type(g.type), held)
                    /\ type_size(saved.type) = ExportedElementSize(g.type)
                    /\ load_buffer_from_file(NPY_HEADER_BYTES, NpyShape(g), FALSE, saved,
                                             NpyBytes(g))
                          <=> NPY_HEADER_BYTES + NpyBytes(g) <= MAX_OPEN_FILE_BYTES
                    /\ \A x \in Upto(g.width), y \in Upto(g.height), c \in Upto(g.channels) :
                          ExportedRow(g, y)[x * g.channels + c + 1]
                              = g.channels * (y * g.stride + x) + c
  BY DEF ReadBack
<1>1. /\ HoldsPixels(g, byte_count) /\ Geometry(g) /\ Renderable(g) /\ is_known_buffer_type(g.type)
      /\ within_display_limits(g) /\ byte_count \in Nat
      /\ g \in [width : Int, height : Int, channels : Int, stride : Int, type : Int]
  BY DeliveredHolds, ClaimGeometry DEF HoldsPixels, Claim
<1>2. /\ g.stride \in Nat \ {0} /\ g.height \in Nat \ {0} /\ g.channels \in Nat \ {0}
      /\ g.width \in Nat \ {0} /\ g.width <= g.stride
  BY <1>1 DEF Geometry, Renderable
<1>3. /\ saved = [width |-> g.width, height |-> g.height, channels |-> g.channels,
                  stride |-> g.width, type |-> npy_descr(g.type)]
      /\ saved.type = npy_descr(g.type)
  <2> HIDE DEF g
  <2>1. g \in [width : Int, height : Int, channels : Int, stride : Int, type : Int]
    BY <1>1
  <2>2. saved = [width |-> g.width, height |-> g.height, channels |-> g.channels,
                 stride |-> g.width, type |-> npy_descr(g.type)]
    BY <2>1, Repacked
  <2> HIDE DEF saved
  <2> QED
    BY <2>2
<1>4. /\ type_size(npy_descr(g.type)) = ExportedElementSize(g.type)
      /\ is_known_buffer_type(npy_descr(g.type)) /\ is_known_buffer_type(wire_buffer_type(g.type))
      /\ w \in {1, 2, 4}
      /\ g.type = FLOAT64 => w = 4 /\ type_size(g.type) = 8
      /\ g.type # FLOAT64 => w = type_size(g.type)
  BY <1>1 DEF npy_descr, wire_buffer_type, ExportedElementSize, is_known_buffer_type, type_size,
              UNSIGNED_BYTE, UNSIGNED_SHORT, SHORT, INT32, FLOAT32, FLOAT64
<1>5. full \in Nat
  <2>1. g.stride * g.height \in Nat
    BY <1>2
  <2> QED
    BY <1>2, <2>1
<1>6. ASSUME byte_count >= full * type_size(g.type)
      PROVE  /\ served <=> held <= AgentMaxBytes
             /\ served => decode_buffer(g, wire_buffer_type(g.type), held)
  <2>1. held >= full * w /\ held \in Nat
    <3> HIDE DEF full, w
    <3>1. CASE g.type = FLOAT64
      BY <1>1, <1>4, <1>5, <1>6, <3>1 DEF RecordBytes
    <3>2. CASE g.type # FLOAT64
      BY <1>1, <1>4, <1>5, <1>6, <3>2 DEF RecordBytes
    <3> QED
      BY <3>1, <3>2
  <2>2. g.stride * g.channels * w * g.height = full * w
    <3> HIDE DEF w
    <3> QED
      BY <1>2, <1>4
  <2>3. g.height * g.stride * g.channels * w = full * w
    <3> HIDE DEF w
    <3> QED
      BY <1>2, <1>4
  <2>4. full * w \in Nat
    <3> HIDE DEF full, w
    <3> QED
      BY <1>4, <1>5
  <2>5. served <=> full * w <= AgentMaxBytes /\ held <= AgentMaxBytes
    <3> HIDE DEF full
    <3> QED
      BY <1>1, <2>2 DEF handle_get_buffer
  <2>6. decode_buffer(g, wire_buffer_type(g.type), held)
    <3>1. held >= g.height * g.stride * g.channels * w
      BY <2>1, <2>3
    <3> QED
      BY <1>1, <1>4, <3>1 DEF decode_buffer
  <2> HIDE DEF full, w, held, served
  <2> QED
    BY <2>1, <2>4, <2>5, <2>6, RangesAssumption DEF held
<1>7. NpyAccepted(NpyShape(g), FALSE, saved, NpyBytes(g))
  <2>1. NpyBytes(g) \in 0..SIZE_MAX
    <3>1. NpyBytes(g) \in 0..byte_count
      BY <1>1, NpyBytesFit
    <3>2. byte_count \in 0..SIZE_MAX
      BY DEF Claim
    <3>3. SIZE_MAX \in Nat
      BY LimitsAssumption
    <3> HIDE DEF g
    <3> QED
      BY <3>1, <3>2, <3>3, <1>1
  <2> DEFINE dims == NpyShape(g)
  <2>2. /\ dims[1] = g.height /\ dims[2] = g.width
        /\ Len(dims) = IF g.channels = 1 THEN 2 ELSE 3
        /\ g.channels # 1 => dims[3] = g.channels
    <3> HIDE DEF g
    <3>1. CASE g.channels = 1
      BY <3>1 DEF NpyShape
    <3>2. CASE g.channels # 1
      BY <3>2 DEF NpyShape
    <3> QED
      BY <3>1, <3>2
  <2> HIDE DEF dims
  <2>3. within_display_limits(saved)
    <3>1. saved.width = g.width /\ saved.height = g.height /\ saved.channels = g.channels
      BY <1>3
    <3> QED
      BY <1>1, <3>1 DEF within_display_limits
  <2>4. saved \in layout_from_shape(dims, FALSE, saved.type)
    <3> HIDE DEF saved
    <3>1. CASE g.channels = 1
      BY <1>3, <2>2, <2>3, <3>1 DEF layout_from_shape
    <3>2. CASE g.channels # 1
      BY <1>3, <2>2, <2>3, <3>2 DEF layout_from_shape
    <3> QED
      BY <3>1, <3>2
  <2>5. dims[1] * dims[2] * (IF Len(dims) = 3 THEN dims[3] ELSE 1) * type_size(saved.type)
          = NpyBytes(g)
    <3> HIDE DEF saved
    <3>1. g.height * g.width * 1 = g.height * g.width /\ (g.channels = 1 =>
            g.height * g.width * g.channels = g.height * g.width)
      BY <1>2
    <3> QED
      BY <1>3, <2>2, <3>1 DEF NpyBytes
  <2>6. NpyPayloadMatches(dims, saved.type, NpyBytes(g))
    BY <1>3, <1>4, <2>1, <2>5, SizeFits DEF NpyPayloadMatches
  <2> QED
    BY <2>4, <2>6 DEF NpyAccepted, dims
<1>8. ASSUME NEW x \in Upto(g.width), NEW y \in Upto(g.height), NEW c \in Upto(g.channels)
      PROVE  ExportedRow(g, y)[x * g.channels + c + 1] = g.channels * (y * g.stride + x) + c
  <2>1. x \in Nat /\ x <= g.width - 1 /\ y \in Nat /\ c \in Nat /\ c <= g.channels - 1
    BY <1>2 DEF Upto
  <2>2. x * g.channels \in Nat /\ (x + 1) * g.channels <= g.width * g.channels
        /\ (x + 1) * g.channels = x * g.channels + g.channels /\ g.width * g.channels \in Nat
    BY <1>2, <2>1
  <2>3. x * g.channels + c + 1 \in 1..(g.width * g.channels)
    BY <1>2, <2>1, <2>2
  <2>4. ExportedRow(g, y)[x * g.channels + c + 1]
           = y * g.stride * g.channels + (x * g.channels + c + 1) - 1
    BY <2>3 DEF ExportedRow
  <2>5. y * g.stride \in Nat
    BY <1>2, <2>1
  <2>6. g.channels * (y * g.stride + x) = (y * g.stride) * g.channels + x * g.channels
        /\ (y * g.stride) * g.channels \in Nat
    BY <1>2, <2>1, <2>5
  <2> QED
    BY <1>2, <2>1, <2>2, <2>4, <2>6
<1>9. load_buffer_from_file(NPY_HEADER_BYTES, NpyShape(g), FALSE, saved, NpyBytes(g))
        <=> NPY_HEADER_BYTES + NpyBytes(g) <= MAX_OPEN_FILE_BYTES
  BY <1>7 DEF load_buffer_from_file
<1> QED
  BY <1>3, <1>4, <1>6, <1>8, <1>9
-----------------------------------------------------------------------------
(* The type inspectors: the recursive readings of a JSON value *)

\* A set of numbers that holds zero and every successor holds them all.
LEMMA Inductive ==
    ASSUME NEW T, T \subseteq Nat, 0 \in T, \A n \in T : n + 1 \in T
    PROVE  T = Nat
<1> SUFFICES ASSUME Nat \ T # {}
             PROVE  FALSE
  OBVIOUS
<1>1. PICK x \in Nat \ T : \A y \in Nat \ T : ~ (<<y, x>> \in OpToRel(<, Nat))
  BY NatLessThanWellFounded, WFMin
<1>2. \A y \in Nat \ T : ~ (y < x)
  BY <1>1 DEF OpToRel
<1>3. x \in Nat /\ x \notin T /\ x # 0
  OBVIOUS
<1>4. x - 1 \in Nat /\ x - 1 < x /\ (x - 1) + 1 = x
  BY <1>3
<1>5. x - 1 \in T
  BY <1>2, <1>4
<1> QED
  BY <1>3, <1>4, <1>5

\* A part is a JSON value less deep, and so are the parts of a part.
LEMMA PartSmaller ==
    ASSUME NEW node \in Json, NEW part \in PartsOf(node)
    PROVE  /\ part \in Json /\ Depth(part) \in Nat /\ Depth(node) \in Nat
           /\ Depth(part) < Depth(node)
BY JsonAssumption

\* A part of a part is smaller still.
LEMMA PartPartSmaller ==
    ASSUME NEW node \in Json, NEW part \in PartsOf(node), NEW inner \in PartsOf(part)
    PROVE  inner \in Json /\ Depth(inner) < Depth(node)
<1>1. part \in Json /\ Depth(part) < Depth(node) /\ Depth(part) \in Nat /\ Depth(node) \in Nat
  BY PartSmaller
<1>2. inner \in Json /\ Depth(inner) < Depth(part) /\ Depth(inner) \in Nat
  BY <1>1, PartSmaller
<1> QED
  BY <1>1, <1>2

\* An object's values are its parts.
LEMMA ObjectPart ==
    ASSUME NEW node, Is(node, {"object"}), NEW key \in DOMAIN node.at
    PROVE  node.at[key] \in PartsOf(node)
BY DEF PartsOf, Is

\* A list's parts are its items.
LEMMA ListPart ==
    ASSUME NEW node, Is(node, {"list"})
    PROVE  PartsOf(node) = Range(node.items)
BY DEF PartsOf, Is

\* Two readings say the same of whatever is less deep than node.
Agree(g, h, node) == \A y \in Json : Depth(y) < Depth(node) => g[y] = h[y]

\* So they do of its values, of their values and of their items.
LEMMA AgreeParts ==
    ASSUME NEW node \in Json, NEW g, NEW h, Agree(g, h, node)
    PROVE  /\ \A key : Has(node, key) => g[node.at[key]] = h[node.at[key]]
           /\ \A key : Has(node, key) =>
                \A inner : Has(node.at[key], inner) =>
                    g[node.at[key].at[inner]] = h[node.at[key].at[inner]]
           /\ \A key : Has(node, key) /\ Is(node.at[key], {"list"}) =>
                \A inner \in Range(node.at[key].items) : g[inner] = h[inner]
<1>1. ASSUME NEW key, Has(node, key) PROVE node.at[key] \in PartsOf(node)
  BY <1>1, ObjectPart DEF Has
<1>2. ASSUME NEW key, Has(node, key), NEW inner, Has(node.at[key], inner)
      PROVE  node.at[key].at[inner] \in PartsOf(node.at[key])
  BY <1>2, ObjectPart DEF Has
<1>3. ASSUME NEW key, Has(node, key), Is(node.at[key], {"list"}),
             NEW inner \in Range(node.at[key].items)
      PROVE  inner \in PartsOf(node.at[key])
  BY <1>3, ListPart
<1> QED
  BY <1>1, <1>2, <1>3, PartSmaller, PartPartSmaller DEF Agree

\* Validation reads a node's parts only.
LEMMA ValidLocal ==
    ASSUME NEW node \in Json, NEW field, NEW g, NEW h, Agree(g, h, node)
    PROVE  NodeIsValid(node, field, g) = NodeIsValid(node, field, h)
<1>1. Has(node, "first_valid") =>
        (_validate_first_valid(node.at["first_valid"], field, g)
            <=> _validate_first_valid(node.at["first_valid"], field, h))
  BY AgreeParts DEF _validate_first_valid
<1>2. Has(node, "if") =>
        (_validate_value_node(node, field, g) <=> _validate_value_node(node, field, h))
  BY AgreeParts DEF _validate_value_node
<1>3. Has(node, "expr") /\ Has(node, "map") =>
        (_validate_map(node, field, g) <=> _validate_map(node, field, h))
  BY AgreeParts DEF _validate_map, Has
<1> QED
  BY <1>1, <1>2, <1>3 DEF NodeIsValid

\* Resolution does too.
LEMMA OutcomesLocal ==
    ASSUME NEW node \in Json, NEW field, NEW ph, NEW g, NEW h, Agree(g, h, node)
    PROVE  NodeOutcomes(field, node, ph, g) = NodeOutcomes(field, node, ph, h)
<1>1. Has(node, "first_valid") =>
        _resolve_first_valid(field, node.at["first_valid"], ph, g)
            = _resolve_first_valid(field, node.at["first_valid"], ph, h)
  <2> DEFINE c == node.at["first_valid"]
             tried(r) == [i \in DOMAIN c.items |->
                            IF Has(c.items[i], "min") THEN ResolveMin(field, c.items[i], ph)
                            ELSE r[c.items[i]]]
  <2> SUFFICES ASSUME Has(node, "first_valid"), Is(c, {"list"})
               PROVE  tried(g) = tried(h)
    BY DEF _resolve_first_valid
  <2>1. \A i \in DOMAIN c.items : g[c.items[i]] = h[c.items[i]]
    BY AgreeParts DEF Range
  <2> QED
    BY <2>1
<1>2. Has(node, "if") => _resolve_if(node, ph, g) = _resolve_if(node, ph, h)
  <2> DEFINE key(c) == IF c.b THEN "then" ELSE "else"
             Branch(r, c) == IF Has(node, key(c)) THEN r[node.at[key(c)]] ELSE {Failure("crash")}
  <2>1. \A c : Branch(g, c) = Branch(h, c)
    BY AgreeParts
  <2> HIDE DEF Branch
  <2>2. \A os : UNION {IF o.end = "ok" THEN Branch(g, o.v) ELSE {o} : o \in os}
                = UNION {IF o.end = "ok" THEN Branch(h, o.v) ELSE {o} : o \in os}
    BY <2>1
  <2> QED
    BY <2>2 DEF _resolve_if, Bind, Branch
<1>3. _resolve_map(node, ph, g) = _resolve_map(node, ph, h)
  <2> DEFINE key(raw) == IF Is(raw, {"int"}) THEN ToString(raw.n) ELSE raw.text
             Select(r, raw) ==
                IF key(raw) = "struct" THEN {Failure("raised")}
                ELSE IF Has(node.at["map"], key(raw)) THEN r[node.at["map"].at[key(raw)]]
                ELSE IF Has(node, "default") THEN r[node.at["default"]]
                ELSE {EntryError}
  <2> SUFFICES ASSUME Has(node, "map") PROVE _resolve_map(node, ph, g) = _resolve_map(node, ph, h)
    BY DEF _resolve_map
  <2>1. \A raw : Select(g, raw) = Select(h, raw)
    <3> HIDE DEF key
    <3> QED
      BY AgreeParts
  <2> HIDE DEF Select
  <2>2. \A os : UNION {IF o.end = "ok" THEN Select(g, o.v) ELSE {o} : o \in os}
                = UNION {IF o.end = "ok" THEN Select(h, o.v) ELSE {o} : o \in os}
    BY <2>1
  <2> QED
    BY <2>2 DEF _resolve_map, Bind, Select
<1> QED
  BY <1>1, <1>2, <1>3 DEF NodeOutcomes, Has

\* Either of the two readings of a node, by what it makes of smaller ones.
Reading(kind, field, ph, node, g) ==
    IF kind = "valid" THEN NodeIsValid(node, field, g) ELSE NodeOutcomes(field, node, ph, g)

\* g reads the nodes less deep than n.
ReadBelow(kind, field, ph, g, n) ==
    \A node \in Json : Depth(node) < n => g[node] = Reading(kind, field, ph, node, g)

\* A node's reading is a matter of its parts.
LEMMA ReadingLocal ==
    ASSUME NEW kind, NEW field, NEW ph, NEW node \in Json, NEW g, NEW h, Agree(g, h, node)
    PROVE  Reading(kind, field, ph, node, g) = Reading(kind, field, ph, node, h)
BY ValidLocal, OutcomesLocal DEF Reading

\* Two functions that read down to a depth agree there.
LEMMA ReadingUnique ==
    ASSUME NEW kind, NEW field, NEW ph, NEW g, NEW h, NEW n \in Nat,
           ReadBelow(kind, field, ph, g, n), ReadBelow(kind, field, ph, h, n),
           NEW node \in Json, Depth(node) < n
    PROVE  g[node] = h[node]
<1> DEFINE T == {k \in Nat : \A x \in Json : Depth(x) < k /\ Depth(x) < n => g[x] = h[x]}
<1>1. 0 \in T
  BY JsonAssumption
<1>2. ASSUME NEW k \in T PROVE k + 1 \in T
  <2> SUFFICES ASSUME NEW x \in Json, Depth(x) < k + 1, Depth(x) < n PROVE g[x] = h[x]
    OBVIOUS
  <2>1. Depth(x) \in Nat /\ \A y \in Json : Depth(y) \in Nat
    BY JsonAssumption
  <2>2. Agree(g, h, x)
    BY <2>1 DEF Agree
  <2> QED
    BY <2>2, ReadingLocal DEF ReadBelow
<1>3. T = Nat
  <2> HIDE DEF T
  <2>1. T \subseteq Nat
    BY DEF T
  <2> QED
    BY <1>1, <1>2, <2>1, Inductive
<1>4. n \in T
  BY <1>3
<1> QED
  BY <1>4

\* There is one for every depth.
LEMMA ReadingExists ==
    ASSUME NEW kind, NEW field, NEW ph, NEW n \in Nat
    PROVE  \E g : ReadBelow(kind, field, ph, g, n)
<1> DEFINE T == {k \in Nat : \E g : ReadBelow(kind, field, ph, g, k)}
<1>1. 0 \in T
  <2>1. ReadBelow(kind, field, ph, <<>>, 0)
    BY JsonAssumption DEF ReadBelow
  <2> QED
    BY <2>1
<1>2. ASSUME NEW k \in T PROVE k + 1 \in T
  <2>1. PICK g : ReadBelow(kind, field, ph, g, k)
    OBVIOUS
  <2> DEFINE h == [x \in Json |-> Reading(kind, field, ph, x, g)]
  <2>2. \A x \in Json : h[x] = Reading(kind, field, ph, x, g)
    OBVIOUS
  <2> HIDE DEF h
  <2>3. \A y \in Json : Depth(y) \in Nat
    BY JsonAssumption
  <2>4. \A x \in Json : Depth(x) < k => h[x] = g[x]
    BY <2>1, <2>2 DEF ReadBelow
  <2>5. ASSUME NEW x \in Json, Depth(x) < k + 1 PROVE Agree(g, h, x)
    BY <2>3, <2>4, <2>5 DEF Agree
  <2>6. ReadBelow(kind, field, ph, h, k + 1)
    BY <2>2, <2>5, ReadingLocal DEF ReadBelow
  <2> QED
    BY <2>6
<1> HIDE DEF T
<1>3. T \subseteq Nat
  BY DEF T
<1>4. n \in T
  BY <1>1, <1>2, <1>3, Inductive
<1> QED
  BY <1>4 DEF T

\* f reads every node, whatever its depth.
IsReading(kind, field, ph, f) == f = [node \in Json |-> Reading(kind, field, ph, node, f)]

\* So the recursive definitions define: what is read of each node by the function
\* that reads down to its depth.
LEMMA ReadingDefined ==
    ASSUME NEW kind, NEW field, NEW ph
    PROVE  \E f : IsReading(kind, field, ph, f)
<1> DEFINE g(n) == CHOOSE g : ReadBelow(kind, field, ph, g, n)
           f == [node \in Json |-> g(Depth(node) + 1)[node]]
<1>1. ASSUME NEW n \in Nat PROVE ReadBelow(kind, field, ph, g(n), n)
  BY ReadingExists
<1>2. \A node \in Json : f[node] = g(Depth(node) + 1)[node]
  OBVIOUS
<1> HIDE DEF g
<1>3. \A node \in Json : Depth(node) \in Nat
  BY JsonAssumption
<1>4. ASSUME NEW node \in Json PROVE f[node] = Reading(kind, field, ph, node, f)
  <2> DEFINE n == Depth(node) + 1
  <2>1. n \in Nat /\ Depth(node) < n /\ ReadBelow(kind, field, ph, g(n), n)
    BY <1>1, <1>3
  <2>2. ASSUME NEW y \in Json, Depth(y) < Depth(node) PROVE f[y] = g(n)[y]
    <3>1. /\ Depth(y) + 1 \in Nat /\ Depth(y) < Depth(y) + 1
          /\ ReadBelow(kind, field, ph, g(Depth(y) + 1), Depth(y) + 1)
      BY <1>1, <1>3
    <3>2. ReadBelow(kind, field, ph, g(n), Depth(y) + 1)
      BY <2>1, <2>2, <1>3 DEF ReadBelow
    <3>3. g(Depth(y) + 1)[y] = g(n)[y]
      BY <3>1, <3>2, ReadingUnique
    <3> QED
      BY <3>3, <1>2
  <2>3. Agree(f, g(n), node)
    BY <2>2 DEF Agree
  <2>4. Reading(kind, field, ph, node, f) = Reading(kind, field, ph, node, g(n))
    BY <2>3, ReadingLocal
  <2> QED
    BY <2>1, <2>4, <1>2 DEF ReadBelow
<1>5. IsReading(kind, field, ph, f)
  BY <1>4 DEF IsReading
<1> QED
  BY <1>5

\* _validate_node() is the function its recursion says.
LEMMA ValidationIs ==
    ASSUME NEW field, NEW node \in Json
    PROVE  _validate_node(field)[node] = NodeIsValid(node, field, _validate_node(field))
<1> DEFINE P(v) == v = [x \in Json |-> NodeIsValid(x, field, v)]
<1>1. \E v : P(v)
  <2>1. PICK f : IsReading("valid", field, <<>>, f)
    BY ReadingDefined
  <2>2. P(f)
    BY <2>1 DEF IsReading, Reading
  <2> QED
    BY <2>2
<1>2. _validate_node(field) = CHOOSE v : P(v)
  BY DEF _validate_node
<1> HIDE DEF P
<1>3. P(_validate_node(field))
  BY <1>1, <1>2
<1> QED
  BY <1>3 DEF P

\* And so is _resolve_node().
LEMMA ResolutionIs ==
    ASSUME NEW field, NEW ph, NEW node \in Json
    PROVE  _resolve_node(field, ph)[node] = NodeOutcomes(field, node, ph, _resolve_node(field, ph))
<1> DEFINE P(r) == r = [x \in Json |-> NodeOutcomes(field, x, ph, r)]
<1>1. \E r : P(r)
  <2>1. PICK f : IsReading("outcomes", field, ph, f)
    BY ReadingDefined
  <2>2. P(f)
    BY <2>1 DEF IsReading, Reading
  <2> QED
    BY <2>2
<1>2. _resolve_node(field, ph) = CHOOSE r : P(r)
  BY DEF _resolve_node
<1> HIDE DEF P
<1>3. P(_resolve_node(field, ph))
  BY <1>1, <1>2
<1> QED
  BY <1>3 DEF P
-----------------------------------------------------------------------------
(* What evaluating, and what a leaf, may end in *)

\* A value that is an integer, and one that is a boolean.
Number(v) == Is(v, {"int"}) /\ v.n \in Int
Truth(v) == Is(v, {"bool"}) /\ v.b \in BOOLEAN

\* An outcome that is no fault of the file's.
Fine(o) == ~o.avoidable /\ o.end \in {"ok", "entry", "raised"}
FineNumber(o) == Fine(o) /\ (o.end = "ok" => Number(o.v))
FineTruth(o) == Fine(o) /\ (o.end = "ok" => Truth(o.v))
FineAnswer(o) == Fine(o) /\ (o.end = "ok" => Number(o.v) \/ Is(o.v, {"answer"}))
FineText(o) == Fine(o) /\ (o.end = "ok" => Number(o.v) \/ Is(o.v, {"str"}))

\* The placeholders a field's strings may mention are there, with their numbers.
Known(field, ph) ==
    /\ _DERIVED_BY_STAGE(field) \subseteq DOMAIN ph
    /\ \A t \in DOMAIN ph : ph[t] \in Int
    /\ "targ" \notin DOMAIN ph

\* An entry error is fine, whatever was asked for.
LEMMA ErrorFine ==
    /\ FineNumber(EntryError) /\ FineTruth(EntryError)
    /\ FineAnswer(EntryError) /\ FineText(EntryError)
BY DEF FineNumber, FineTruth, FineAnswer, FineText, Fine, EntryError, Failure

\* So is a debugger's exception.
LEMMA RaisedFine ==
    /\ FineNumber(Failure("raised")) /\ FineTruth(Failure("raised")) /\ FineAnswer(Failure("raised"))
BY DEF FineNumber, FineTruth, FineAnswer, Fine, Failure

\* And a value of the type asked for.
LEMMA OkFine ==
    ASSUME NEW v
    PROVE  /\ Number(v) => FineNumber(Ok(v)) /\ FineAnswer(Ok(v)) /\ FineText(Ok(v))
           /\ Truth(v) => FineTruth(Ok(v))
           /\ Is(v, {"answer"}) => FineAnswer(Ok(v))
           /\ Is(v, {"str"}) => FineText(Ok(v))
BY DEF FineNumber, FineTruth, FineAnswer, FineText, Fine, Ok

\* An integer of JSON is a number.
LEMMA JIntNumber == \A n \in Int : Number(JInt(n))
BY DEF Number, JInt, Is

\* What the debugger answers, to an expression and to a substituted text.
LEMMA BridgeAnswers == \A o \in _evaluate_via_bridge : FineAnswer(o)
<1> TAKE o \in _evaluate_via_bridge
<1>1. CASE \E n \in DebuggerInts : o = Ok(JInt(n))
  BY <1>1, OkFine, JIntNumber, JsonAssumption
<1>2. CASE \E t \in {"true", "false", "other", "struct"} : o = Ok([shape |-> "answer", text |-> t])
  BY <1>2, OkFine DEF Is
<1>3. CASE o = EntryError
  BY <1>3, ErrorFine
<1> QED
  BY <1>1, <1>2, <1>3 DEF _evaluate_via_bridge

\* What a text evaluates to: a number, an answer of the debugger or a fine failure.
LEMMA TextAnswers ==
    ASSUME NEW text, Number(text) \/ Is(text, {"str"}), NEW o \in evaluate_text(text)
    PROVE  FineAnswer(o)
BY BridgeAnswers, OkFine DEF evaluate_text, Number, Is

\* Substitution finds every placeholder of a string that validates.
LEMMA SubstituteFine ==
    ASSUME NEW field, NEW ph, Known(field, ph), NEW node, Is(node, {"str"}),
           _string_node_errors(node, field), NEW o \in substitute(node, ph)
    PROVE  FineText(o)
<1>1. node.uses \subseteq DOMAIN ph \cup {"sym", "targ"} /\ "targ" \notin DOMAIN ph
  BY DEF Known, _string_node_errors
<1>2. CASE \E n \in DebuggerInts : o = Ok(JInt(n))
  BY <1>2, OkFine, JIntNumber, JsonAssumption
<1>3. CASE \E form, uses : o = Ok(JString(form, uses))
  BY <1>3, OkFine DEF JString, Is
<1>4. CASE o = EntryError
  BY <1>4, ErrorFine
<1>5. CASE \E t \in DOMAIN ph : o = Ok(JInt(ph[t]))
  BY <1>5, OkFine, JIntNumber DEF Known
<1>6. CASE node.form = "bare" /\ node.uses = {"targ"}
  BY <1>1, <1>2, <1>3, <1>4, <1>6 DEF substitute
<1>7. CASE /\ ~(node.form = "bare" /\ node.uses = {"targ"})
           /\ node.form = "bare" /\ node.uses \subseteq DOMAIN ph
  BY <1>1, <1>5, <1>7 DEF substitute
<1>8. CASE /\ ~(node.form = "bare" /\ node.uses = {"targ"})
           /\ ~(node.form = "bare" /\ node.uses \subseteq DOMAIN ph)
  BY <1>1, <1>3, <1>4, <1>8 DEF substitute
<1> QED
  BY <1>6, <1>7, <1>8

\* Evaluating such a string ends in an answer or in a failure of the debugger's.
LEMMA EvaluateFine ==
    ASSUME NEW field, NEW ph, Known(field, ph), NEW node, Is(node, {"str"}),
           _string_node_errors(node, field), NEW o \in evaluate(node, ph)
    PROVE  FineAnswer(o)
<1>1. PICK s \in substitute(node, ph) :
        o \in IF s.end = "ok" THEN evaluate_text(s.v) ELSE {s}
  BY DEF evaluate, Bind
<1>2. FineText(s)
  BY SubstituteFine
<1>3. CASE s.end = "ok"
  BY <1>1, <1>2, <1>3, TextAnswers DEF FineText
<1>4. CASE s.end # "ok"
  BY <1>1, <1>2, <1>4 DEF FineText, FineAnswer
<1> QED
  BY <1>3, <1>4

\* int() and bool() of what was evaluated.
LEMMA ToIntFine ==
    ASSUME NEW v, Is(v, {"int"}) => Number(v), NEW o \in _to_int(v)
    PROVE  FineNumber(o)
<1>1. (o = Ok(v) /\ Is(v, {"int"})) \/ o = Failure("raised") \/ o = EntryError
  BY DEF _to_int
<1> QED
  BY <1>1, OkFine, RaisedFine, ErrorFine

\* _to_bool() of it is a boolean or a fine failure.
LEMMA ToBoolFine ==
    ASSUME NEW v, Is(v, {"bool"}) => Truth(v), NEW o \in _to_bool(v)
    PROVE  FineTruth(o)
<1>1. \/ o = Ok(v) /\ Is(v, {"bool"})
      \/ \E b \in BOOLEAN : o = Ok(JBool(b))
      \/ o = Failure("raised") \/ o = EntryError
  BY DEF _to_bool
<1>2. \A b \in BOOLEAN : Truth(JBool(b))
  BY DEF Truth, JBool, Is
<1> QED
  BY <1>1, <1>2, OkFine, RaisedFine, ErrorFine

\* The fields, and those that are sizes.
Fields == {"dtype", "transpose", "width", "height", "channels", "pointer", "row_stride",
           "pixel_layout"}
Sizes == {"width", "height", "channels", "row_stride"}

\* A value of the type a field's leaf yields; any will do for a pointer, which is cast.
Typed(field, v) ==
    /\ field = "dtype" => Number(v) /\ v.n \in VALID_DTYPE_CODES
    /\ field = "transpose" => Truth(v)
    /\ field \in Sizes => Number(v) /\ v.n >= 0
    /\ field = "pixel_layout" => Is(v, {"str"}) /\ v.form = "layout"

\* An outcome that get_buffer_metadata() can go on with or report.
Sound(field, o) == Fine(o) /\ (o.end = "ok" => Typed(field, o.v))

\* An entry error is sound for every field.
LEMMA EntryErrorSound == \A field : Sound(field, EntryError)
BY DEF Sound, Fine, EntryError, Failure

\* So is what the debugger raises.
LEMMA RaisedSound == \A field : Sound(field, Failure("raised"))
BY DEF Sound, Fine, EntryError, Failure

\* A leaf is given a string that validates, or a literal its field takes.
LeafTakes(field, node) ==
    \/ Is(node, {"str"}) /\ _string_node_errors(node, field)
    \/ field = "transpose" /\ (Truth(node) \/ Is(node, {"float"}))
    \/ field # "pointer" /\ Number(node)

\* A literal is its own value, a string is evaluated.
LEMMA EvaluatedFine ==
    ASSUME NEW field, NEW ph, Known(field, ph), NEW node, 
           Is(node, {"str"}) => _string_node_errors(node, field),
           NEW o \in Evaluated(node, ph)
    PROVE  IF Is(node, {"str"}) THEN FineAnswer(o) ELSE o = Ok(node)
BY EvaluateFine DEF Evaluated

\* Each field's leaf, given what it takes, yields what the field needs.
LEMMA IntLeaf ==
    ASSUME NEW field \in Sizes, NEW ph, Known(field, ph), NEW node, LeafTakes(field, node),
           NEW o \in _leaf_int(node, ph)
    PROVE  Sound(field, o)
<1>1. \/ Is(node, {"str"}) /\ _string_node_errors(node, field)
      \/ Number(node) /\ ~Is(node, {"str"})
  <2>1. field # "transpose"
    BY DEF Sizes
  <2> QED
    BY <2>1 DEF LeafTakes, Number, Is
<1>2. PICK i \in Bind(Evaluated(node, ph), _to_int) :
        o \in IF i.end = "ok" THEN NonNegative(i.v) ELSE {i}
  BY <1>1 DEF _leaf_int, Bind, Number, Is
<1>3. PICK e \in Evaluated(node, ph) : i \in IF e.end = "ok" THEN _to_int(e.v) ELSE {e}
  BY <1>2 DEF Bind
<1>4. IF Is(node, {"str"}) THEN FineAnswer(e) ELSE e = Ok(node)
  BY <1>1, EvaluatedFine
<1>5. FineAnswer(e)
  BY <1>1, <1>4, OkFine
<1>6. FineNumber(i)
  <2>1. CASE e.end = "ok"
    <3>1. Is(e.v, {"int"}) => Number(e.v)
      BY <1>5, <2>1 DEF FineAnswer, Is
    <3> QED
      BY <2>1, <1>3, <3>1, ToIntFine
  <2>2. CASE e.end # "ok"
    BY <2>2, <1>3, <1>5 DEF FineNumber, FineAnswer
  <2> QED
    BY <2>1, <2>2
<1>7. CASE i.end # "ok"
  BY <1>2, <1>6, <1>7 DEF FineNumber, Sound
<1>8. CASE i.end = "ok" /\ i.v.n < 0
  BY <1>2, <1>8, EntryErrorSound DEF NonNegative
<1>9. CASE i.end = "ok" /\ ~(i.v.n < 0)
  <2>1. o = Ok(i.v) /\ Number(i.v) /\ i.v.n >= 0
    BY <1>2, <1>6, <1>9 DEF NonNegative, FineNumber, Number
  <2> QED
    BY <2>1 DEF Sound, Fine, Ok, Typed, Sizes
<1> QED
  BY <1>7, <1>8, <1>9

\* _leaf_bool() of a valid literal or string is sound.
LEMMA BoolLeaf ==
    ASSUME NEW ph, Known("transpose", ph), NEW node, LeafTakes("transpose", node),
           NEW o \in _leaf_bool(node, ph)
    PROVE  Sound("transpose", o)
<1>1. /\ Is(node, {"str"}) => _string_node_errors(node, "transpose")
      /\ ~Is(node, {"null", "list"}) /\ (Is(node, {"bool"}) => Truth(node))
  BY DEF LeafTakes, Number, Truth, Is
<1>2. PICK e \in Evaluated(node, ph) : o \in IF e.end = "ok" THEN _to_bool(e.v) ELSE {e}
  BY <1>1 DEF _leaf_bool, Bind
<1>3. IF Is(node, {"str"}) THEN FineAnswer(e) ELSE e = Ok(node)
  BY <1>1, EvaluatedFine
<1>4. Fine(e) /\ (e.end = "ok" /\ Is(e.v, {"bool"}) => Truth(e.v))
  <2>1. CASE Is(node, {"str"})
    BY <2>1, <1>3 DEF FineAnswer, Number, Is
  <2>2. CASE ~Is(node, {"str"})
    BY <2>2, <1>1, <1>3 DEF Ok, Fine
  <2> QED
    BY <2>1, <2>2
<1>5. CASE e.end = "ok"
  BY <1>2, <1>4, <1>5, ToBoolFine DEF FineTruth, Sound, Typed, Sizes
<1>6. CASE e.end # "ok"
  BY <1>2, <1>4, <1>6 DEF Sound
<1> QED
  BY <1>5, <1>6

\* The check of a dtype code lets only valid ones through.
LEMMA KnownCodeSound ==
    ASSUME NEW v, Number(v), NEW o \in KnownCode(v)
    PROVE  Sound("dtype", o)
<1>1. CASE o = EntryError
  BY <1>1, EntryErrorSound
<1>2. CASE o = Ok(v) /\ v.n \in VALID_DTYPE_CODES
  BY <1>2 DEF Sound, Fine, Ok, Typed, Sizes
<1> QED
  BY <1>1, <1>2 DEF KnownCode

\* _leaf_dtype() of a valid literal or string is sound.
LEMMA DtypeLeaf ==
    ASSUME NEW ph, Known("dtype", ph), NEW node, LeafTakes("dtype", node),
           NEW o \in _leaf_dtype(node, ph)
    PROVE  Sound("dtype", o)
<1>1. CASE Is(node, {"str"})
  <2>1. _string_node_errors(node, "dtype")
    BY <1>1 DEF LeafTakes, Number, Is
  <2>2. PICK i \in Bind(substitute(node, ph), DtypeOfText) :
          o \in IF i.end = "ok" THEN KnownCode(i.v) ELSE {i}
    <3>1. _leaf_dtype(node, ph) = Bind(Bind(substitute(node, ph), DtypeOfText), KnownCode)
      BY <1>1 DEF _leaf_dtype, Is
    <3> QED
      BY <3>1 DEF Bind
  <2>3. PICK s \in substitute(node, ph) :
          i \in IF s.end = "ok" THEN DtypeOfText(s.v) ELSE {s}
    BY <2>2 DEF Bind
  <2>4. FineText(s)
    BY <1>1, <2>1, SubstituteFine
  <2>5. FineNumber(i)
    <3>1. CASE s.end # "ok"
      BY <3>1, <2>3, <2>4 DEF FineNumber, FineText
    <3>2. CASE s.end = "ok" /\ s.v = JString("uint8", {})
      <4>1. i = Ok(JInt(0))
        BY <3>2, <2>3 DEF DtypeOfText
      <4> QED
        BY <4>1, OkFine, JIntNumber
    <3>3. CASE s.end = "ok" /\ s.v # JString("uint8", {})
      <4>1. PICK e \in evaluate_text(s.v) :
              i \in IF e.end = "ok" THEN _to_int(e.v) ELSE {e}
        BY <3>3, <2>3 DEF DtypeOfText, Bind
      <4>2. FineAnswer(e)
        BY <3>3, <2>4, TextAnswers DEF FineText
      <4>3. CASE e.end = "ok"
        <5>1. Is(e.v, {"int"}) => Number(e.v)
          BY <4>2, <4>3 DEF FineAnswer, Is
        <5> QED
          BY <4>1, <4>3, <5>1, ToIntFine
      <4>4. CASE e.end # "ok"
        BY <4>1, <4>2, <4>4 DEF FineNumber, FineAnswer
      <4> QED
        BY <4>3, <4>4
    <3> QED
      BY <3>1, <3>2, <3>3
  <2> QED
    BY <2>2, <2>5, KnownCodeSound DEF FineNumber, Sound
<1>2. CASE ~Is(node, {"str"})
  <2>1. Number(node)
    BY <1>2 DEF LeafTakes
  <2>2. o \in KnownCode(node)
    BY <1>2, <2>1 DEF _leaf_dtype, Number, Is
  <2> QED
    BY <2>1, <2>2, KnownCodeSound
<1> QED
  BY <1>1, <1>2

\* _leaf_pointer() of a valid string is sound.
LEMMA PointerLeaf ==
    ASSUME NEW ph, Known("pointer", ph), NEW node, LeafTakes("pointer", node),
           NEW o \in _leaf_pointer(node, ph)
    PROVE  Sound("pointer", o)
<1>1. Is(node, {"str"}) /\ _string_node_errors(node, "pointer")
  BY DEF LeafTakes
<1>2. PICK s \in substitute(node, ph) :
        o \in IF s.end = "ok" THEN _evaluate_via_bridge ELSE {s}
  BY DEF _leaf_pointer, Bind
<1>3. FineText(s)
  BY <1>1, SubstituteFine
<1>4. Fine(o)
  BY <1>2, <1>3, BridgeAnswers DEF FineText, FineAnswer
<1> QED
  BY <1>4 DEF Sound, Typed, Sizes

\* Hence every field's leaf is.
LEMMA LeafSound ==
    ASSUME NEW field \in Fields \ {"pixel_layout"}, NEW ph, Known(field, ph), NEW node,
           LeafTakes(field, node), NEW o \in Leaf(field, node, ph)
    PROVE  Sound(field, o)
<1>1. CASE field = "dtype"
  BY <1>1, DtypeLeaf DEF Leaf
<1>2. CASE field = "transpose"
  BY <1>2, BoolLeaf DEF Leaf
<1>3. CASE field = "pointer"
  BY <1>3, PointerLeaf DEF Leaf
<1>4. CASE field \in Sizes
  BY <1>4, IntLeaf DEF Leaf, Sizes
<1> QED
  BY <1>1, <1>2, <1>3, <1>4 DEF Fields, Sizes
-----------------------------------------------------------------------------
(* What a value that validates resolves to *)

\* Valid values less deep than node resolve to what the field needs.
SoundBelow(field, node, valid, resolve) ==
    \A y \in Json : Depth(y) < Depth(node) /\ valid[y] => \A o \in resolve[y] : Sound(field, o)

\* A condition decides, or ends in a failure only the debugger knows.
LEMMA ConditionFine ==
    ASSUME NEW field, NEW ph, Known(field, ph), NEW node, Is(node, {"str"}),
           _string_node_errors(node, field), NEW o \in _condition_bool(node, ph)
    PROVE  FineTruth(o)
<1>1. PICK e \in evaluate(node, ph) : o \in IF e.end = "ok" THEN _to_bool(e.v) ELSE {e}
  BY DEF _condition_bool, Bind
<1>2. FineAnswer(e)
  BY EvaluateFine
<1>3. CASE e.end = "ok"
  <2>1. Is(e.v, {"bool"}) => Truth(e.v)
    BY <1>2, <1>3 DEF FineAnswer, Number, Is
  <2> QED
    BY <1>1, <1>3, <2>1, ToBoolFine
<1>4. CASE e.end # "ok"
  BY <1>1, <1>2, <1>4 DEF FineAnswer, FineTruth
<1> QED
  BY <1>3, <1>4

\* A conditional is as sound as its branches, which both are there.
LEMMA IfSound ==
    ASSUME NEW field, NEW ph, Known(field, ph), NEW node \in Json, NEW valid, NEW resolve,
           SoundBelow(field, node, valid, resolve), Has(node, "if"),
           _validate_value_node(node, field, valid), NEW o \in _resolve_if(node, ph, resolve)
    PROVE  Sound(field, o)
<1> DEFINE Branch(c) == LET key == IF c.b THEN "then" ELSE "else" IN
                        IF Has(node, key) THEN resolve[node.at[key]] ELSE {Failure("crash")}
<1>1. PICK c \in _condition_bool(node.at["if"], ph) :
        o \in IF c.end = "ok" THEN Branch(c.v) ELSE {c}
  BY DEF _resolve_if, Bind
<1>2. FineTruth(c)
  BY ConditionFine DEF _validate_value_node, Expression
<1>3. CASE c.end # "ok"
  BY <1>1, <1>2, <1>3 DEF FineTruth, Sound
<1>4. CASE c.end = "ok"
  <2>1. PICK key \in {"then", "else"} :
          o \in IF Has(node, key) THEN resolve[node.at[key]] ELSE {Failure("crash")}
    BY <1>1, <1>4
  <2>2. Has(node, key) /\ valid[node.at[key]]
    BY <2>1 DEF _validate_value_node
  <2>3. node.at[key] \in PartsOf(node)
    BY <2>2, ObjectPart DEF Has
  <2> QED
    BY <2>1, <2>2, <2>3, PartSmaller DEF SoundBelow
<1> QED
  BY <1>3, <1>4

\* A map is as sound as its values and its default.
LEMMA MapSound ==
    ASSUME NEW field, NEW ph, Known(field, ph), NEW node \in Json, NEW valid, NEW resolve,
           SoundBelow(field, node, valid, resolve), Has(node, "expr"), Has(node, "map"),
           _validate_map(node, field, valid), NEW o \in _resolve_map(node, ph, resolve)
    PROVE  Sound(field, o)
<1> DEFINE key(raw) == IF Is(raw, {"int"}) THEN ToString(raw.n) ELSE raw.text
           Select(raw) ==
                IF key(raw) = "struct" THEN {Failure("raised")}
                ELSE IF Has(node.at["map"], key(raw)) THEN resolve[node.at["map"].at[key(raw)]]
                ELSE IF Has(node, "default") THEN resolve[node.at["default"]]
                ELSE {EntryError}
<1>1. /\ Is(node.at["map"], {"object"}) /\ Is(node.at["expr"], {"str"})
      /\ _string_node_errors(node.at["expr"], field)
  BY DEF _validate_map, Expression
<1>2. PICK raw \in evaluate(node.at["expr"], ph) :
        o \in IF raw.end = "ok" THEN Select(raw.v) ELSE {raw}
  BY <1>1 DEF _resolve_map, Bind
<1>3. FineAnswer(raw)
  BY <1>1, EvaluateFine
<1>4. CASE raw.end # "ok"
  BY <1>2, <1>3, <1>4 DEF FineAnswer, Sound
<1>5. CASE raw.end = "ok"
  <2> DEFINE k == key(raw.v)
  <2>1. o \in IF k = "struct" THEN {Failure("raised")}
              ELSE IF Has(node.at["map"], k) THEN resolve[node.at["map"].at[k]]
              ELSE IF Has(node, "default") THEN resolve[node.at["default"]]
              ELSE {EntryError}
    BY <1>2, <1>5
  <2> HIDE DEF k
  <2>2. node.at["map"] \in PartsOf(node)
    BY ObjectPart DEF Has
  <2>3. CASE o \in {Failure("raised"), EntryError}
    BY <2>3, RaisedSound, EntryErrorSound
  <2>4. CASE Has(node.at["map"], k) /\ o \in resolve[node.at["map"].at[k]]
    <3>1. node.at["map"].at[k] \in PartsOf(node.at["map"])
      BY <2>4, ObjectPart DEF Has
    <3>2. valid[node.at["map"].at[k]]
      BY <2>4 DEF _validate_map, Has
    <3> QED
      BY <2>2, <2>4, <3>1, <3>2, PartPartSmaller DEF SoundBelow
  <2>5. CASE Has(node, "default") /\ o \in resolve[node.at["default"]]
    <3>1. node.at["default"] \in PartsOf(node)
      BY <2>5, ObjectPart DEF Has
    <3> QED
      BY <2>5, <3>1, PartSmaller DEF SoundBelow, _validate_map
  <2> QED
    BY <2>1, <2>3, <2>4, <2>5
<1> QED
  BY <1>4, <1>5

\* A wrapped integer is read by the field's leaf, if there is one of integers.
LEMMA MinSound ==
    ASSUME NEW field \in Fields \ {"pixel_layout", "pointer"}, NEW ph, Known(field, ph), NEW node,
           Has(node, "min"), _validate_min_wrapper(node, field), NEW o \in ResolveMin(field, node, ph)
    PROVE  Sound(field, o)
<1> DEFINE Enough(v) == IF ~Is(node.at["min"], {"int"}) THEN {AvoidableError}
                        ELSE IF v.n < node.at["min"].n THEN {EntryError}
                        ELSE Leaf(field, v, ph)
<1>1. /\ Has(node, "expr") /\ Is(node.at["min"], {"int"})
      /\ Is(node.at["expr"], {"str"}) /\ _string_node_errors(node.at["expr"], field)
  BY DEF _validate_min_wrapper, Expression, Has
<1>2. PICK i \in Bind(evaluate(node.at["expr"], ph), _to_int) :
        o \in IF i.end = "ok" THEN Enough(i.v) ELSE {i}
  BY <1>1 DEF ResolveMin, Bind
<1>3. PICK e \in evaluate(node.at["expr"], ph) :
        i \in IF e.end = "ok" THEN _to_int(e.v) ELSE {e}
  BY <1>2 DEF Bind
<1>4. FineAnswer(e)
  BY <1>1, EvaluateFine
<1>5. FineNumber(i)
  <2>1. CASE e.end = "ok"
    <3>1. Is(e.v, {"int"}) => Number(e.v)
      BY <1>4, <2>1 DEF FineAnswer, Is
    <3> QED
      BY <2>1, <1>3, <3>1, ToIntFine
  <2>2. CASE e.end # "ok"
    BY <2>2, <1>3, <1>4 DEF FineNumber, FineAnswer
  <2> QED
    BY <2>1, <2>2
<1>6. CASE i.end # "ok"
  BY <1>2, <1>5, <1>6 DEF FineNumber, Sound
<1>7. CASE i.end = "ok"
  <2>1. LeafTakes(field, i.v)
    BY <1>5, <1>7 DEF FineNumber, LeafTakes
  <2>2. o = EntryError \/ o \in Leaf(field, i.v, ph)
    BY <1>1, <1>2, <1>7
  <2> QED
    BY <2>1, <2>2, LeafSound, EntryErrorSound
<1> QED
  BY <1>6, <1>7

\* Candidates end in what one of them ends in, or in an entry error.
LEMMA TriedOutcomes ==
    ASSUME NEW tried, NEW o \in TryInOrder(tried)
    PROVE  o = EntryError \/ \E i \in DOMAIN tried : o \in tried[i]
BY DEF TryInOrder

\* Candidates are as sound as each of them.
LEMMA FirstValidSound ==
    ASSUME NEW field \in Fields \ {"pixel_layout"}, NEW ph, Known(field, ph), NEW node \in Json,
           NEW valid, NEW resolve, SoundBelow(field, node, valid, resolve), Has(node, "first_valid"),
           _validate_first_valid(node.at["first_valid"], field, valid),
           NEW o \in _resolve_first_valid(field, node.at["first_valid"], ph, resolve)
    PROVE  Sound(field, o)
<1> DEFINE list == node.at["first_valid"]
           tried == [i \in DOMAIN list.items |->
                        IF Has(list.items[i], "min") THEN ResolveMin(field, list.items[i], ph)
                        ELSE resolve[list.items[i]]]
<1>1. Is(list, {"list"}) /\ list \in PartsOf(node)
  BY ObjectPart DEF _validate_first_valid, Has
<1>2. o \in TryInOrder(tried)
  BY <1>1 DEF _resolve_first_valid
<1> HIDE DEF list
<1>3. CASE o = EntryError
  BY <1>3, EntryErrorSound
<1>4. CASE \E i \in DOMAIN list.items : o \in tried[i]
  <2>1. PICK i \in DOMAIN list.items : o \in tried[i]
    BY <1>4
  <2> DEFINE candidate == list.items[i]
  <2>2. candidate \in Range(list.items) /\ candidate \in PartsOf(list)
    BY <1>1, ListPart DEF Range
  <2>3. IF Has(candidate, "min") THEN field # "pointer" /\ _validate_min_wrapper(candidate, field)
        ELSE valid[candidate]
    BY <2>2 DEF _validate_first_valid, list
  <2>4. o \in IF Has(candidate, "min") THEN ResolveMin(field, candidate, ph) ELSE resolve[candidate]
    BY <2>1
  <2>5. candidate \in Json /\ Depth(candidate) < Depth(node)
    BY <1>1, <2>2, PartPartSmaller
  <2>6. CASE Has(candidate, "min")
    BY <2>3, <2>4, <2>6, MinSound
  <2>7. CASE ~Has(candidate, "min")
    BY <2>3, <2>4, <2>5, <2>7 DEF SoundBelow
  <2> QED
    BY <2>6, <2>7
<1> QED
  BY <1>2, <1>3, <1>4, TriedOutcomes

\* A node that validates is sound, if what it is made of is.
LEMMA NodeSound ==
    ASSUME NEW field \in Fields, NEW ph, Known(field, ph), NEW node \in Json, NEW valid, NEW resolve,
           SoundBelow(field, node, valid, resolve), NodeIsValid(node, field, valid),
           NEW o \in NodeOutcomes(field, node, ph, resolve)
    PROVE  Sound(field, o)
<1>1. CASE ~Is(node, {"object"}) /\ field = "pixel_layout"
  <2>1. Is(node, {"str"}) /\ node.form = "layout" /\ o = Ok(node)
    BY <1>1 DEF NodeIsValid, NodeOutcomes, Has, Leaf
  <2> QED
    BY <1>1, <2>1 DEF Sound, Fine, Ok, Typed, Sizes
<1>2. CASE ~Is(node, {"object"}) /\ field # "pixel_layout"
  <2>1. \/ Is(node, {"bool", "int", "float"}) /\ _numeric_literal_errors(node, field)
        \/ Is(node, {"str"}) /\ _string_node_errors(node, field)
    BY <1>2 DEF NodeIsValid, Has
  <2>2. (Is(node, {"bool"}) => Truth(node)) /\ (Is(node, {"int"}) => Number(node))
    BY JsonAssumption DEF IsJson, Is, Truth, Number
  <2>3. LeafTakes(field, node)
    <3>1. CASE Is(node, {"str"}) /\ _string_node_errors(node, field)
      BY <3>1 DEF LeafTakes
    <3>2. CASE Is(node, {"bool", "int", "float"}) /\ _numeric_literal_errors(node, field)
      <4>1. field # "pointer" /\ (field = "transpose" \/ Is(node, {"int"}))
        BY <3>2 DEF _numeric_literal_errors
      <4> QED
        BY <3>2, <4>1, <2>2 DEF LeafTakes, Is
    <3> QED
      BY <2>1, <3>1, <3>2
  <2>4. o \in Leaf(field, node, ph)
    BY <1>2 DEF NodeOutcomes, Has
  <2> QED
    BY <1>2, <2>3, <2>4, LeafSound
<1>3. CASE Has(node, "first_valid") /\ field # "pixel_layout"
  <2>1. _validate_first_valid(node.at["first_valid"], field, valid)
    BY <1>3 DEF NodeIsValid, Has, Is, _validate_value_node, _validate_map
  <2>2. o \in _resolve_first_valid(field, node.at["first_valid"], ph, resolve)
    BY <1>3 DEF NodeOutcomes, Has
  <2> QED
    BY <1>3, <2>1, <2>2, FirstValidSound
<1>4. CASE Has(node, "if") /\ (field = "pixel_layout" \/ ~Has(node, "first_valid"))
  <2>1. _validate_value_node(node, field, valid)
    BY <1>4 DEF NodeIsValid, Has, Is, _validate_map
  <2>2. o \in _resolve_if(node, ph, resolve)
    BY <1>4 DEF NodeOutcomes, Has
  <2> QED
    BY <1>4, <2>1, <2>2, IfSound
<1>5. CASE /\ Is(node, {"object"})
           /\ ~(Has(node, "first_valid") /\ field # "pixel_layout")
           /\ ~(Has(node, "if") /\ (field = "pixel_layout" \/ ~Has(node, "first_valid")))
  <2>1. /\ field # "pixel_layout" /\ Has(node, "expr") /\ Has(node, "map")
        /\ _validate_map(node, field, valid)
    BY <1>5 DEF NodeIsValid, Has, Is
  <2>2. o \in _resolve_map(node, ph, resolve)
    BY <1>5, <2>1 DEF NodeOutcomes
  <2> QED
    BY <2>1, <2>2, MapSound
<1> QED
  BY <1>1, <1>2, <1>3, <1>4, <1>5

\* A node that validates resolves to what its field needs, or to a failure that
\* only the debugger knows.
LEMMA ValidIsSound ==
    ASSUME NEW field \in Fields, NEW ph, Known(field, ph), NEW node \in Json,
           _validate_node(field)[node], NEW o \in _resolve_node(field, ph)[node]
    PROVE  Sound(field, o)
<1> DEFINE valid == _validate_node(field)
           resolve == _resolve_node(field, ph)
           T == {n \in Nat : \A x \in Json : Depth(x) < n /\ valid[x] =>
                                \A p \in resolve[x] : Sound(field, p)}
<1>1. \A x \in Json : Depth(x) \in Nat
  BY JsonAssumption
<1> HIDE DEF valid, resolve
<1>2. 0 \in T
  BY <1>1
<1>3. ASSUME NEW n \in T PROVE n + 1 \in T
  <2> SUFFICES ASSUME NEW x \in Json, Depth(x) < n + 1, valid[x], NEW p \in resolve[x]
               PROVE  Sound(field, p)
    OBVIOUS
  <2>1. SoundBelow(field, x, valid, resolve)
    BY <1>1 DEF SoundBelow
  <2>2. NodeIsValid(x, field, valid) /\ p \in NodeOutcomes(field, x, ph, resolve)
    BY ValidationIs, ResolutionIs DEF valid, resolve
  <2> QED
    BY <2>1, <2>2, NodeSound
<1>4. T = Nat
  <2> HIDE DEF T
  <2>1. T \subseteq Nat
    BY DEF T
  <2> QED
    BY <1>2, <1>3, <2>1, Inductive
<1>5. Depth(node) + 1 \in T
  BY <1>1, <1>4
<1> QED
  BY <1>1, <1>5 DEF valid, resolve
-----------------------------------------------------------------------------
(* The fields, one after the other *)

\* The fields resolved after k of them.
Done(k) == {RESOLUTION_ORDER[i] : i \in 1..k}

\* The fields by their places in the order.
LEMMA ResolutionOrder ==
    /\ Len(RESOLUTION_ORDER) = 8 /\ DOMAIN RESOLUTION_ORDER = 1..8
    /\ RESOLUTION_ORDER[1] = "dtype" /\ RESOLUTION_ORDER[2] = "transpose"
    /\ RESOLUTION_ORDER[3] = "width" /\ RESOLUTION_ORDER[4] = "height"
    /\ RESOLUTION_ORDER[5] = "channels" /\ RESOLUTION_ORDER[6] = "pointer"
    /\ RESOLUTION_ORDER[7] = "row_stride" /\ RESOLUTION_ORDER[8] = "pixel_layout"
    /\ Range(RESOLUTION_ORDER) = Fields
BY DEF RESOLUTION_ORDER, Range, Fields

\* Which fields are resolved after k of them, and that they are k.
LEMMA DoneHas ==
    ASSUME NEW k \in 0..8
    PROVE  /\ Done(k) \subseteq Fields
           /\ "dtype" \in Done(k) <=> k >= 1
           /\ "transpose" \in Done(k) <=> k >= 2
           /\ "width" \in Done(k) <=> k >= 3
           /\ "height" \in Done(k) <=> k >= 4
           /\ "channels" \in Done(k) <=> k >= 5
           /\ "pointer" \in Done(k) <=> k >= 6
           /\ "row_stride" \in Done(k) <=> k >= 7
           /\ "pixel_layout" \in Done(k) <=> k >= 8
<1>1. \A i \in 1..8 : i \in {1, 2, 3, 4, 5, 6, 7, 8}
  OBVIOUS
<1> QED
  BY <1>1, ResolutionOrder DEF Done, Fields

\* The first k fields are k.
LEMMA DoneCounts == \A k \in 0..8 : Cardinality(Done(k)) = k
<1> TAKE k \in 0..8
<1> DEFINE f == [i \in 1..k |-> RESOLUTION_ORDER[i]]
<1>1. \A i, j \in 1..8 : RESOLUTION_ORDER[i] = RESOLUTION_ORDER[j] => i = j
  <2>1. \A i \in 1..8 : i \in {1, 2, 3, 4, 5, 6, 7, 8}
    OBVIOUS
  <2> QED
    BY <2>1, ResolutionOrder
<1>2. f \in Bijection(1..k, Done(k))
  <2>1. f \in [1..k -> Done(k)]
    BY DEF Done
  <2>2. \A i, j \in 1..k : f[i] = f[j] => i = j
    BY <1>1
  <2>3. \A x \in Done(k) : \E i \in 1..k : f[i] = x
    BY DEF Done
  <2> HIDE DEF f
  <2> QED
    BY <2>1, <2>2, <2>3 DEF Bijection, Injection, Surjection, IsInjective
<1>3. ExistsBijection(1..k, Done(k))
  BY <1>2 DEF ExistsBijection
<1> QED
  BY <1>3, FS_CountingElements

\* What is resolved when k fields are.
FieldsTyped ==
    /\ \E k \in 0..8 : DOMAIN fields = Done(k)
    /\ \A field \in DOMAIN fields :
          /\ Typed(field, fields[field])
          /\ field = "pointer" => fields[field].n # 0

\* A field's placeholders are those of the fields before it.
LEMMA PlaceholdersKnown ==
    ASSUME NEW k \in 0..7, DOMAIN fields = Done(k), FieldsTyped
    PROVE  Known(RESOLUTION_ORDER[k + 1], placeholders)
<1> DEFINE named == DOMAIN fields \ {"pointer", "pixel_layout"}
           derived == IF "dtype" \in named THEN {"elemsize"} ELSE {}
<1>1. DOMAIN placeholders = named \cup derived
  BY DEF placeholders
<1>2. named \subseteq {"dtype", "transpose"} \cup Sizes
  BY DoneHas DEF Fields, Sizes
<1>3. ASSUME NEW t \in DOMAIN placeholders PROVE placeholders[t] \in Int
  <2>1. CASE t = "elemsize"
    <3>1. "dtype" \in DOMAIN fields /\ fields["dtype"].n \in VALID_DTYPE_CODES
      BY <1>1, <1>2, <2>1 DEF FieldsTyped, Typed, Sizes
    <3>2. placeholders[t] = DTYPE_ELEMSIZE[fields["dtype"].n]
      BY <1>1, <2>1 DEF placeholders
    <3>3. \A c \in VALID_DTYPE_CODES : DTYPE_ELEMSIZE[c] \in Int
      BY DEF DTYPE_ELEMSIZE, VALID_DTYPE_CODES
    <3> QED
      BY <3>1, <3>2, <3>3
  <2>2. CASE t = "transpose"
    BY <1>1, <2>2 DEF placeholders
  <2>3. CASE t \notin {"elemsize", "transpose"}
    <3>1. t \in DOMAIN fields /\ t \in {"dtype"} \cup Sizes
      BY <1>1, <1>2, <2>3
    <3>2. fields[t].n \in Int
      BY <3>1 DEF FieldsTyped, Typed, Number
    <3>3. placeholders[t] = fields[t].n
      BY <1>1, <2>3 DEF placeholders
    <3> QED
      BY <3>2, <3>3
  <2> QED
    BY <2>1, <2>2, <2>3
<1>4. "targ" \notin DOMAIN placeholders
  BY <1>1, <1>2 DEF Sizes
<1>5. _DERIVED_BY_STAGE(RESOLUTION_ORDER[k + 1]) \subseteq DOMAIN placeholders
  <2>1. k \in {0, 1, 2, 3, 4, 5, 6, 7}
    OBVIOUS
  <2>2. \A t : t \in DOMAIN fields /\ t \notin {"pointer", "pixel_layout"} => t \in DOMAIN placeholders
    BY <1>1
  <2>3. k >= 1 => "elemsize" \in DOMAIN placeholders
    BY <1>1, DoneHas
  <2>4. CASE k = 0
    BY <2>4, ResolutionOrder DEF _DERIVED_BY_STAGE
  <2>5. CASE k = 1
    BY <2>2, <2>3, <2>5, ResolutionOrder, DoneHas DEF _DERIVED_BY_STAGE
  <2>6. CASE k = 2
    BY <2>2, <2>3, <2>6, ResolutionOrder, DoneHas DEF _DERIVED_BY_STAGE
  <2>7. CASE k = 3
    BY <2>2, <2>3, <2>7, ResolutionOrder, DoneHas DEF _DERIVED_BY_STAGE
  <2>8. CASE k = 4
    BY <2>2, <2>3, <2>8, ResolutionOrder, DoneHas DEF _DERIVED_BY_STAGE
  <2>9. CASE k = 5
    BY <2>2, <2>3, <2>9, ResolutionOrder, DoneHas DEF _DERIVED_BY_STAGE
  <2>10. CASE k = 6
    BY <2>2, <2>3, <2>10, ResolutionOrder, DoneHas DEF _DERIVED_BY_STAGE
  <2>11. CASE k = 7
    BY <2>2, <2>3, <2>11, ResolutionOrder, DoneHas DEF _DERIVED_BY_STAGE
  <2> QED
    BY <2>1, <2>4, <2>5, <2>6, <2>7, <2>8, <2>9, <2>10, <2>11
<1> QED
  BY <1>3, <1>4, <1>5 DEF Known

\* An entry that was loaded: JSON that validates.
Loaded(e) ==
    /\ Is(e, {"object"}) /\ PartsOf(e) \subseteq Json
    /\ _validate_entry(e)

\* How a request may stand or have ended.
Stands == {"elsewhere", "unloaded", "ready", "None", "resolving", "entry", "raised", "read", "sent"}

\* The inductive invariant: entries that are registered or resolving validate, and
\* the fields resolved so far are the first of the order and of their types.
Resolution ==
    /\ plot \in Stands
    /\ \A e \in inspectors : Loaded(e)
    /\ plot = "resolving" => Loaded(entry)
    /\ FieldsTyped

\* It is what ValidatedResolves says.
LEMMA ResolutionResolves == Resolution => ValidatedResolves
<1> SUFFICES ASSUME Resolution, Resolved
             PROVE  /\ Metadata.type \in VALID_DTYPE_CODES
                    /\ \A n \in {Metadata.width, Metadata.height, Metadata.channels,
                              Metadata.stride} : n >= 0
                    /\ Is(fields["transpose"], {"bool"}) /\ fields["pointer"].n # 0
                    /\ Is(fields["pixel_layout"], {"str"}) /\ fields["pixel_layout"].form = "layout"
  BY DEF ValidatedResolves, Resolution, Stands
<1>1. DOMAIN fields = Fields
  BY ResolutionOrder DEF Resolved
<1>2. \A field \in Fields : Typed(field, fields[field]) /\ (field = "pointer" => fields[field].n # 0)
  BY <1>1 DEF Resolution, FieldsTyped
<1> QED
  BY <1>2 DEF Fields, Typed, Sizes, Metadata, Truth

\* The metadata is a geometry.
LEMMA MetadataGeometry ==
    ASSUME Resolution, Resolved
    PROVE  Metadata \in [width : Int, height : Int, channels : Int, stride : Int, type : Int]
<1>1. DOMAIN fields = Fields
  BY ResolutionOrder DEF Resolved
<1>2. \A field \in Fields : Typed(field, fields[field])
  BY <1>1 DEF Resolution, FieldsTyped
<1> QED
  BY <1>2 DEF Fields, Typed, Sizes, Metadata, Number

\* Every field of a loaded entry has a node that validates, its own or the default.
LEMMA FieldNode ==
    ASSUME Loaded(entry), NEW field \in Fields
    PROVE  _field_node(field) \in Json /\ _validate_node(field)[_field_node(field)]
<1>1. _validate_field(entry, field)
  BY ResolutionOrder DEF Loaded, _validate_entry
<1>2. CASE Has(entry, field)
  <2>1. entry.at[field] \in PartsOf(entry)
    BY <1>2, ObjectPart DEF Has
  <2> QED
    BY <1>1, <1>2, <2>1 DEF _validate_field, _field_node, Loaded
<1>3. CASE ~Has(entry, field)
  <2>1. field \notin REQUIRED_FIELDS
    BY <1>3 DEF Loaded, _validate_entry, Has
  <2>2. field \in DOMAIN FIELD_DEFAULTS
    BY <2>1 DEF FIELD_DEFAULTS, REQUIRED_FIELDS, Fields
  <2>3. FIELD_DEFAULTS[field] \in Json
    BY <2>2, JsonAssumption
  <2> QED
    BY <1>1, <1>3, <2>1, <2>3 DEF _validate_field, _field_node
<1> QED
  BY <1>2, <1>3

\* What a types file yields validates.
LEMMA LoadInspectorsStep == Resolution /\ LoadInspectors => Resolution'
<1> SUFFICES ASSUME Resolution, LoadInspectors PROVE Resolution'
  OBVIOUS
<1>1. PICK document \in Documents : inspectors' = _load_types_file(document)
  BY DEF LoadInspectors
<1>2. ASSUME NEW e \in inspectors' PROVE Loaded(e)
  <2>1. e \in Range(document) /\ Is(e, {"object"}) /\ _validate_entry(e)
    BY <1>1, <1>2 DEF _load_types_file
  <2>2. PartsOf(e) \subseteq Json
    BY <2>1, JsonAssumption
  <2> QED
    BY <2>1, <2>2 DEF Loaded
<1>3. plot' = "ready" /\ fields' = fields
  BY DEF LoadInspectors
<1> QED
  BY <1>2, <1>3 DEF Resolution, Stands, FieldsTyped

\* The next field is sound and of its type.
LEMMA ResolveFieldStep == Resolution /\ ResolveField => Resolution'
<1> SUFFICES ASSUME Resolution, ResolveField PROVE Resolution'
  OBVIOUS
<1>1. PICK k \in 0..8 : DOMAIN fields = Done(k)
  BY DEF Resolution, FieldsTyped
<1>2. Cardinality(DOMAIN fields) = k /\ k \in 0..7
  <2>1. Cardinality(DOMAIN fields) < Len(RESOLUTION_ORDER)
    BY DEF ResolveField
  <2>2. Cardinality(DOMAIN fields) = k
    BY <1>1, DoneCounts
  <2> QED
    BY <2>1, <2>2, ResolutionOrder
<1> DEFINE field == RESOLUTION_ORDER[k + 1]
           Cast(v) == CASE Is(v, {"int"}) /\ v.n = 0 -> {EntryError}
                        [] Is(v, {"int"}) /\ v.n # 0 -> {Ok(v)}
                        [] OTHER -> {Ok(JInt(1)), Failure("raised")}
           outcomes == _resolve_node(field, placeholders)[_field_node(field)]
           got == IF field = "pointer" THEN Bind(outcomes, Cast) ELSE outcomes
<1>3. field \in Fields /\ field \notin DOMAIN fields
  BY <1>1, <1>2, ResolutionOrder, DoneHas DEF Fields
<1>4. \A p \in outcomes : Sound(field, p)
  <2>1. Known(field, placeholders)
    BY <1>1, <1>2, PlaceholdersKnown DEF Resolution
  <2>2. Loaded(entry)
    BY DEF Resolution, ResolveField
  <2> QED
    BY <1>3, <2>1, <2>2, FieldNode, ValidIsSound
<1>5. PICK o \in got :
        IF o.avoidable \/ o.end # "ok"
        THEN plot' = (IF o.avoidable THEN "avoidable" ELSE o.end) /\ UNCHANGED fields
        ELSE /\ fields' = [f \in DOMAIN fields \cup {field} |-> IF f = field THEN o.v ELSE fields[f]]
             /\ UNCHANGED plot
  BY <1>2 DEF ResolveField
<1> HIDE DEF got, outcomes, Cast
<1>6. Sound(field, o) /\ (o.end = "ok" /\ field = "pointer" => o.v.n # 0)
  <2>1. CASE field # "pointer"
    BY <1>4, <2>1 DEF got
  <2>2. CASE field = "pointer"
    <3>1. PICK p \in outcomes : o \in IF p.end = "ok" THEN Cast(p.v) ELSE {p}
      BY <2>2 DEF got, Bind
    <3>2. CASE p.end # "ok"
      BY <1>4, <3>1, <3>2
    <3>3. CASE p.end = "ok"
      <4>1. \/ o = EntryError \/ o = Failure("raised")
            \/ o = Ok(p.v) /\ p.v.n # 0
            \/ o = Ok(JInt(1))
        BY <3>1, <3>3 DEF Cast
      <4>2. CASE o = EntryError \/ o = Failure("raised")
        <5>1. o.end # "ok"
          BY <4>2 DEF EntryError, Failure
        <5> QED
          BY <4>2, <5>1, EntryErrorSound, RaisedSound
      <4>3. CASE o = Ok(p.v) /\ p.v.n # 0
        BY <2>2, <4>3 DEF Sound, Fine, Ok, Typed, Sizes
      <4>4. CASE o = Ok(JInt(1))
        <5>1. o.end = "ok" /\ o.v.n = 1 /\ ~o.avoidable
          BY <4>4 DEF Ok, JInt
        <5> QED
          BY <2>2, <5>1 DEF Sound, Fine, Typed, Sizes
      <4> QED
        BY <4>1, <4>2, <4>3, <4>4
    <3> QED
      BY <3>2, <3>3
  <2> QED
    BY <2>1, <2>2
<1>7. inspectors' = inspectors /\ entry' = entry /\ plot = "resolving"
  BY DEF ResolveField
<1>8. CASE o.end # "ok"
  <2>1. plot' = o.end /\ fields' = fields /\ plot' \in {"entry", "raised"}
    BY <1>5, <1>6, <1>8 DEF Sound, Fine
  <2> QED
    BY <1>7, <2>1 DEF Resolution, Stands, FieldsTyped
<1>9. CASE o.end = "ok"
  <2>1. /\ fields' = [f \in DOMAIN fields \cup {field} |-> IF f = field THEN o.v ELSE fields[f]]
        /\ plot' = plot
    BY <1>5, <1>6, <1>9 DEF Sound, Fine
  <2>2. DOMAIN fields' = Done(k + 1) /\ k + 1 \in 0..8
    <3>1. Done(k + 1) = Done(k) \cup {field}
      <4>1. 1..(k + 1) = (1..k) \cup {k + 1}
        BY <1>2
      <4> QED
        BY <4>1 DEF Done
    <3> QED
      BY <1>1, <1>2, <2>1, <3>1
  <2>3. ASSUME NEW f \in DOMAIN fields'
        PROVE  Typed(f, fields'[f]) /\ (f = "pointer" => fields'[f].n # 0)
    <3>1. CASE f = field
      BY <1>6, <1>9, <2>1, <3>1 DEF Sound
    <3>2. CASE f # field
      <4>1. f \in DOMAIN fields /\ fields'[f] = fields[f]
        BY <2>1, <3>2
      <4> QED
        BY <4>1 DEF Resolution, FieldsTyped
    <3> QED
      BY <3>1, <3>2
  <2>4. FieldsTyped'
    BY <2>2, <2>3 DEF FieldsTyped
  <2> QED
    BY <1>7, <2>1, <2>4 DEF Resolution
<1> QED
  BY <1>8, <1>9

\* Every step of the way keeps the invariant, and leaves a claim to the size rules.
LEMMA ResolutionStep == Resolution /\ [PathNext]_pathVars => Resolution'
<1> SUFFICES ASSUME Resolution, [PathNext]_pathVars PROVE Resolution'
  OBVIOUS
<1>1. CASE LoadInspectors
  BY <1>1, LoadInspectorsStep
<1>2. CASE PickInspector
  BY <1>2 DEF PickInspector, Resolution, Stands, FieldsTyped
<1>3. CASE NoInspector
  BY <1>3 DEF NoInspector, Resolution, Stands, FieldsTyped
<1>4. CASE ResolveField
  BY <1>4, ResolveFieldStep
<1>5. CASE ReadBuffer
  BY <1>5 DEF ReadBuffer, Resolution, Stands, FieldsTyped
<1>6. CASE ReadRaises
  BY <1>6 DEF ReadRaises, Resolution, Stands, FieldsTyped
<1>7. CASE oid_plot_buffer
  <2>1. plot' \in {"sent", "raised"} /\ UNCHANGED <<inspectors, entry, fields>>
    BY <1>7 DEF oid_plot_buffer
  <2> QED
    BY <2>1 DEF Resolution, Stands, FieldsTyped
<1>8. CASE UNCHANGED pathVars
  BY <1>8 DEF pathVars, inspectorVars, Resolution, FieldsTyped
<1> QED
  BY <1>1, <1>2, <1>3, <1>4, <1>5, <1>6, <1>7, <1>8 DEF PathNext, Inspect, RequestOver

\* The initial states satisfy the invariant.
LEMMA ResolutionInit == PathInit => Resolution
<1> SUFFICES ASSUME PathInit PROVE Resolution
  OBVIOUS
<1>1. inspectors = {} /\ fields = <<>> /\ plot \in {"elsewhere", "unloaded"}
  BY DEF PathInit, InspectorInit
<1>2. DOMAIN fields = {}
  BY <1>1
<1>3. Done(0) = {}
  BY DEF Done
<1> QED
  BY <1>1, <1>2, <1>3 DEF Resolution, Stands, FieldsTyped

\* Geometry and byte count are claims to begin with.
LEMMA ClaimInit == PathInit => Claim
<1>1. ASSUME geometry = NoBuffer, byte_count = 0 PROVE Claim
  BY <1>1, LimitsAssumption DEF NoBuffer, Claim
<1> QED
  BY <1>1, SizeInitClaims DEF PathInit

\* They stay so: what is read has the metadata's numbers, what is sent an int's.
LEMMA ClaimStep == Resolution /\ Claim /\ [PathNext]_pathVars => Claim'
<1> SUFFICES ASSUME Resolution, Claim, [PathNext]_pathVars PROVE Claim'
  OBVIOUS
<1>1. CASE ReadBuffer
  <2>1. geometry' = Metadata /\ byte_count' \in 1..SIZE_MAX /\ Resolved
    BY <1>1 DEF ReadBuffer
  <2> QED
    BY <2>1, MetadataGeometry, LimitsAssumption DEF Claim
<1>2. CASE oid_plot_buffer
  <2> DEFINE g == [f \in DOMAIN geometry |-> ToInt(geometry[f], IntBits)]
  <2>1. (geometry' = g \/ geometry' = geometry) /\ byte_count' = byte_count
    BY <1>2 DEF oid_plot_buffer
  <2>2. \A n \in Int : ToInt(n, IntBits) \in Int
    BY ReadersAssumption, IntHolds
  <2>3. g \in [width : Int, height : Int, channels : Int, stride : Int, type : Int]
    BY <2>2 DEF Claim
  <2> QED
    BY <2>1, <2>3 DEF Claim
<1>3. CASE UNCHANGED sizeVars
  BY <1>3 DEF sizeVars, Claim
<1> QED
  BY <1>1, <1>2, <1>3 DEF PathNext, Inspect, ReadRaises, RequestOver, pathVars

\* Both hold in every state of PlotPath.
LEMMA PathInvariant == PathSpec => [](Resolution /\ Claim)
<1>1. PathInit => Resolution /\ Claim
  BY ResolutionInit, ClaimInit
<1>2. (Resolution /\ Claim) /\ [PathNext]_pathVars => (Resolution /\ Claim)'
  BY ResolutionStep, ClaimStep
<1> QED
  BY <1>1, <1>2, PTL DEF PathSpec

\* An entry that is loaded is sound, whatever types file it comes from and whatever
\* the debugger answers: resolving it ends in metadata that is well formed, or in a
\* failure that only the debugger knows (_validate_entry(), get_buffer_metadata() of
\* DeclarativeInspector).
THEOREM InspectorsResolve == PathSpec => []ValidatedResolves
BY PathInvariant, ResolutionResolves, PTL

\* No reader leaves the record, for a buffer that came the way of a variable and for
\* every claim of a peer or a file (Buffer, BufferValues, BufferExporter).
THEOREM EveryRead == PathSpec => []EveryPixelInside
BY PathInvariant, ClaimRead, PTL

\* Texture, pixel values and cursor agree on where a pixel is, if a tile has an even
\* number of texels, as every power of two (Buffer::setup_gl_buffer(),
\* BufferValues::draw(), Buffer::get_pixel_info()).
THEOREM InPlaceEverywhere == MAX_TEXTURE_SIZE % 2 = 0 => (PathSpec => []PixelsInPlace)
<1> SUFFICES ASSUME MAX_TEXTURE_SIZE % 2 = 0 PROVE PathSpec => []PixelsInPlace
  OBVIOUS
<1>1. Claim => PixelsInPlace
  BY ClaimInPlace
<1> QED
  BY PathInvariant, <1>1, PTL

\* Buffer::configure() refuses nothing that the wire layer or the file loader took.
THEOREM DeliveredConfigures == PathSpec => []DeliveredImpliesConfigure
BY PathInvariant, ClaimConfigures, PTL

\* What the bridge forwards the viewer displays, the debugger's own buffers included
\* (oid_plot_buffer(), handle_plot_buffer_contents()).
THEOREM BridgeAgrees == PathSpec => []BridgeAgreesWithViewer
BY PathInvariant, ClaimAgrees, PTL

\* What leaves the viewer, for an agent or for a file, can be read again, each up
\* to the limit of its reader (AgentCore::handle_get_buffer(), export_npy_impl(),
\* load_buffer_from_file()).
THEOREM ReadsBack == PathSpec => []ReadBack
BY PathInvariant, ClaimReadsBack, PTL
-----------------------------------------------------------------------------
(* The viewer's plot handlers *)

\* A row marked as received was written by some chunk.
ReceivedWritten ==
    \A n \in DOMAIN in_progress : \A r \in Rows(in_progress[n].decl) :
        in_progress[n].rows_received[r] => in_progress[n].bytes[r] # ZeroFill

\* A row marked as received holds the entry's own transfer.
ReceivedOwn ==
    \A n \in DOMAIN in_progress \ OOMNames : \A r \in Rows(in_progress[n].decl) :
        in_progress[n].rows_received[r] => in_progress[n].bytes[r] = in_progress[n].transfer

\* What the assembler holds under a name whose transfer is open is that transfer.
EntryIsOpenTransfer ==
    \A n \in DOMAIN in_progress \ OOMNames :
        wire[n].open => in_progress[n].transfer = wire[n].transfer

\* Nothing on display is newer than the sender's last plot of that name.
ShownNotAhead ==
    \A n \in DOMAIN records \ OOMNames : records[n].transfer <= wire[n].transfer

\* The two inductive invariants, each together with TypeOK.
Written == ReceivedWritten /\ NoUnwrittenRow
Own == ReceivedOwn /\ EntryIsOpenTransfer /\ ShownNotAhead /\ NeverMixed
-----------------------------------------------------------------------------
\* Starting more plots leaves what was well typed well typed.
LEMMA OKGrows ==
    ASSUME NEW k \in Nat, NEW j \in Nat, k <= j
    PROVE  /\ \A e : EntryOK(e, k) => EntryOK(e, j)
           /\ \A r : RecordOK(r, k) => RecordOK(r, j)
           /\ \A w : WireOK(w, k) => WireOK(w, j)
<1>1. 0..k \subseteq 0..j /\ 1..k \subseteq 1..j
  OBVIOUS
<1>2. \A S : \A f \in [S -> 0..k] : f \in [S -> 0..j]
  BY <1>1
<1>3. ASSUME NEW e, EntryOK(e, k) PROVE EntryOK(e, j)
  BY <1>1, <1>2, <1>3 DEF EntryOK
<1>4. ASSUME NEW r, RecordOK(r, k) PROVE RecordOK(r, j)
  BY <1>1, <1>2, <1>4 DEF RecordOK
<1>5. ASSUME NEW w, WireOK(w, k) PROVE WireOK(w, j)
  BY <1>1, <1>5 DEF WireOK
<1> QED
  BY <1>3, <1>4, <1>5

\* begin() builds a well typed entry from a declaration it accepts.
LEMMA FreshEntryOK ==
    ASSUME NEW d \in Decls, NEW k \in Nat \ {0}, BeginAccepted(d, d.total)
    PROVE  EntryOK(FreshEntry(d, k), k)
BY DEF EntryOK, FreshEntry, ZeroFill

\* chunk() keeps an entry well typed.
LEMMA ChunkCopiedOK ==
    ASSUME NEW k \in Nat, NEW e, EntryOK(e, k), NEW off, NEW cnt, NEW t \in 0..k
    PROVE  EntryOK(ChunkCopied(e, off, cnt, t), k)
BY DEF EntryOK, ChunkCopied

\* The layout a record is given is a string.
LEMMA LayoutString ==
    ASSUME NEW n, NEW c, NEW l \in STRING,
           \A x \in DOMAIN records : records[x].layout \in STRING
    PROVE  resolve_pixel_layout(n, l, c) \in STRING
BY ClientAssumption DEF resolve_pixel_layout, DEFAULT_PIXEL_LAYOUT

\* upsert() keeps the records well typed.
LEMMA UpsertOK ==
    ASSUME TypeOK, NEW k \in Nat, serial <= k,
           NEW n \in Names, NEW d \in Decls, NEW t \in 1..k, NEW b \in [Rows(d) -> 0..k],
           NEW p \in Nat, upsert(n, d, t, b, p)
    PROVE  /\ DOMAIN records' \subseteq Names
           /\ \A x \in DOMAIN records' : RecordOK(records'[x], k)
<1>1. d.layout \in STRING
  BY DeclsAssumption
<1>2. resolve_pixel_layout(n, d.layout, d.channels) \in STRING
  BY <1>1, LayoutString DEF TypeOK, RecordOK
<1> DEFINE rec == [decl |-> d, transfer |-> t, bytes |-> b, size |-> RecordBytes(d, p),
                   layout |-> resolve_pixel_layout(n, d.layout, d.channels)]
<1>3. RecordOK(rec, k)
  <2>1. RecordBytes(d, p) \in Nat
    BY DEF RecordBytes
  <2> QED
    BY <1>2, <2>1 DEF RecordOK
<1>4. ASSUME NEW x \in DOMAIN records PROVE RecordOK(records[x], k)
  BY OKGrows DEF TypeOK
<1>5. records' = Put(records, n, rec)
  BY DEF upsert
<1> HIDE DEF rec
<1> QED
  BY <1>3, <1>4, <1>5 DEF TypeOK, Put

\* A step that starts a plot leaves the sender's accounts well typed.
LEMMA SenderBeginsOK ==
    ASSUME TypeOK, NEW n \in Names, NEW d \in Decls, SenderBegins(n, d)
    PROVE  /\ serial' = serial + 1
           /\ wire' = [x \in Names |-> wire'[x]]
           /\ \A x \in Names : WireOK(wire'[x], serial')
           /\ wire'[n].transfer = serial + 1
           /\ \A x \in Names \ {n} : wire'[x] = wire[x]
<1>1. serial' = serial + 1 /\ serial \in Nat
  BY DEF SenderBegins, TypeOK
<1> DEFINE w == [transfer |-> serial + 1, open |-> TRUE, clean |-> TRUE, covered |-> {}, decl |-> d]
<1>2. wire' = [wire EXCEPT ![n] = w] /\ wire = [x \in Names |-> wire[x]]
  BY DEF SenderBegins, TypeOK
<1>3. WireOK(w, serial + 1)
  BY <1>1 DEF WireOK
<1>4. w.transfer = serial + 1
  OBVIOUS
<1> HIDE DEF w
<1>5. /\ wire' = [x \in Names |-> wire'[x]]
      /\ wire'[n] = w
      /\ \A x \in Names \ {n} : wire'[x] = wire[x]
  BY <1>2
<1>6. \A x \in Names : WireOK(wire[x], serial + 1)
  <2>1. serial + 1 \in Nat /\ serial <= serial + 1
    BY <1>1
  <2> QED
    BY <1>1, <2>1, OKGrows DEF TypeOK
<1> QED
  BY <1>1, <1>3, <1>4, <1>5, <1>6

\* Every handler keeps the state well typed.
LEMMA TypeStep == TypeOK /\ [Next]_vars => TypeOK'
<1> SUFFICES ASSUME TypeOK, [Next]_vars PROVE TypeOK'
  OBVIOUS
<1> USE DEF TypeOK
<1>1. ASSUME NEW n \in Names, NEW d \in Decls, handle_plot_buffer_begin(n, d) PROVE TypeOK'
  <2>1. /\ serial' = serial + 1 /\ serial' \in Nat /\ serial <= serial'
        /\ wire' = [x \in Names |-> wire'[x]]
        /\ \A x \in Names : WireOK(wire'[x], serial')
    BY <1>1, SenderBeginsOK DEF handle_plot_buffer_begin
  <2>2. records' = records /\ in_progress' = BeginResult(n, d, serial')
    BY <1>1, <2>1 DEF handle_plot_buffer_begin
  <2>3. \A x \in DOMAIN records' : RecordOK(records'[x], serial')
    BY <2>1, <2>2, OKGrows
  <2>4. \A x \in DOMAIN in_progress : EntryOK(in_progress[x], serial')
    BY <2>1, OKGrows
  <2>5. CASE BeginAccepted(d, d.total)
    <3>1. in_progress' = Put(in_progress, n, FreshEntry(d, serial'))
      BY <2>2, <2>5 DEF BeginResult
    <3>2. EntryOK(FreshEntry(d, serial'), serial')
      BY <2>1, <2>5, FreshEntryOK
    <3>3. /\ DOMAIN in_progress' \subseteq Names
          /\ \A x \in DOMAIN in_progress' : EntryOK(in_progress'[x], serial')
      BY <2>4, <3>1, <3>2 DEF Put
    <3> QED
      BY <2>1, <2>2, <2>3, <3>3
  <2>6. CASE ~BeginAccepted(d, d.total)
    <3>1. in_progress' = Drop(in_progress, n)
      BY <2>2, <2>6 DEF BeginResult
    <3>2. /\ DOMAIN in_progress' \subseteq Names
          /\ \A x \in DOMAIN in_progress' : EntryOK(in_progress'[x], serial')
      BY <2>4, <3>1 DEF Drop
    <3> QED
      BY <2>1, <2>2, <2>3, <3>2
  <2> QED
    BY <2>5, <2>6
<1>2. ASSUME NEW n \in Names, NEW d \in Decls, BeginOutOfMemory(n, d) PROVE TypeOK'
  <2>1. /\ serial' = serial + 1 /\ serial' \in Nat /\ serial <= serial'
        /\ wire' = [x \in Names |-> wire'[x]]
        /\ \A x \in Names : WireOK(wire'[x], serial')
    BY <1>2, SenderBeginsOK DEF BeginOutOfMemory
  <2>2. records' = records /\ in_progress' = in_progress
    BY <1>2 DEF BeginOutOfMemory
  <2> QED
    BY <2>1, <2>2, OKGrows
<1>3. ASSUME NEW n \in Names, NEW off \in ChunkOffsets, NEW cnt \in ChunkCounts,
             NEW size \in ChunkSizes, handle_plot_buffer_chunk(n, off, cnt, size)
      PROVE  TypeOK'
  <2>1. /\ wire[n].open /\ WireOK(wire[n], serial)
        /\ records' = records /\ serial' = serial
    BY <1>3 DEF handle_plot_buffer_chunk
  <2>2. /\ wire' = [x \in Names |-> wire'[x]]
        /\ \A x \in Names : WireOK(wire'[x], serial)
    <3>1. RowRange(off, cnt) \subseteq Int
      BY DEF RowRange
    <3>2. WireOK([wire[n] EXCEPT !.covered = @ \cup RowRange(off, cnt)], serial)
      BY <2>1, <3>1 DEF WireOK
    <3>3. WireOK([wire[n] EXCEPT !.clean = FALSE], serial)
      BY <2>1 DEF WireOK
    <3>4. \/ wire' = [wire EXCEPT ![n].covered = @ \cup RowRange(off, cnt)]
          \/ wire' = [wire EXCEPT ![n].clean = FALSE]
      BY <1>3 DEF handle_plot_buffer_chunk
    <3> QED
      BY <3>2, <3>3, <3>4
  <2>3. CASE ChunkAccepted(n, off, cnt, size)
    <3>1. n \in DOMAIN in_progress
      BY <2>3 DEF ChunkAccepted, has_in_progress
    <3>2. in_progress' = Put(in_progress, n, ChunkCopied(in_progress[n], off, cnt, wire[n].transfer))
      BY <1>3, <2>3 DEF handle_plot_buffer_chunk, ChunkResult
    <3>3. wire[n].transfer \in 0..serial
      BY <2>1 DEF WireOK
    <3>4. EntryOK(ChunkCopied(in_progress[n], off, cnt, wire[n].transfer), serial)
      BY <3>1, <3>3, ChunkCopiedOK
    <3> QED
      BY <2>1, <2>2, <3>1, <3>2, <3>4 DEF Put
  <2>4. CASE ~ChunkAccepted(n, off, cnt, size)
    <3>1. in_progress' = Drop(in_progress, n)
      BY <1>3, <2>4 DEF handle_plot_buffer_chunk, AbortResult
    <3> QED
      BY <2>1, <2>2, <3>1 DEF Drop
  <2> QED
    BY <2>3, <2>4
<1>4. ASSUME NEW n \in Names, handle_plot_buffer_end(n) PROVE TypeOK'
  <2>1. /\ wire[n].open /\ serial' = serial
        /\ in_progress' = Drop(in_progress, n)
        /\ wire' = [wire EXCEPT ![n].open = FALSE]
    BY <1>4 DEF handle_plot_buffer_end, EndResult
  <2>2. WireOK([wire[n] EXCEPT !.open = FALSE], serial)
    BY DEF WireOK
  <2>3. /\ wire' = [x \in Names |-> wire'[x]]
        /\ \A x \in Names : WireOK(wire'[x], serial)
    BY <2>1, <2>2
  <2>4. /\ DOMAIN in_progress' \subseteq Names
        /\ \A x \in DOMAIN in_progress' : EntryOK(in_progress'[x], serial)
    BY <2>1 DEF Drop
  <2>5. /\ DOMAIN records' \subseteq Names
        /\ \A x \in DOMAIN records' : RecordOK(records'[x], serial)
    <3>1. CASE EndDelivers(n)
      <4>1. EntryOK(in_progress[n], serial)
        BY <3>1 DEF EndDelivers, has_in_progress
      <4>2. upsert(n, in_progress[n].decl, in_progress[n].transfer, in_progress[n].bytes,
                   in_progress[n].decl.total)
        BY <1>4, <3>1 DEF handle_plot_buffer_end
      <4>3. in_progress[n].decl.total \in Nat
        BY <4>1, DeclsAssumption DEF EntryOK
      <4> QED
        BY <4>1, <4>2, <4>3, UpsertOK DEF EntryOK
    <3>2. CASE ~EndDelivers(n)
      BY <1>4, <3>2 DEF handle_plot_buffer_end
    <3> QED
      BY <3>1, <3>2
  <2> QED
    BY <2>1, <2>3, <2>4, <2>5
<1>5. ASSUME NEW n \in Names, NEW d \in Decls, NEW b \in ContentsBytes,
             handle_plot_buffer_contents(n, d, b)
      PROVE  TypeOK'
  <2>1. /\ serial' = serial + 1 /\ serial' \in Nat /\ serial <= serial'
        /\ in_progress' = in_progress
        /\ wire' = [wire EXCEPT ![n].transfer = serial + 1, ![n].open = FALSE]
    BY <1>5 DEF handle_plot_buffer_contents
  <2>2. WireOK([wire[n] EXCEPT !.transfer = serial + 1, !.open = FALSE], serial')
    BY <2>1 DEF WireOK
  <2>3. \A x \in Names : WireOK(wire[x], serial')
    BY <2>1, OKGrows
  <2>4. /\ wire' = [x \in Names |-> wire'[x]]
        /\ \A x \in Names : WireOK(wire'[x], serial')
    BY <2>1, <2>2, <2>3
  <2>5. \A x \in DOMAIN in_progress' : EntryOK(in_progress'[x], serial')
    BY <2>1, OKGrows
  <2>6. /\ DOMAIN records' \subseteq Names
        /\ \A x \in DOMAIN records' : RecordOK(records'[x], serial')
    <3>1. CASE ContentsAccepted(d, b)
      <4>1. upsert(n, d, serial', [r \in Rows(d) |-> serial'], b)
        BY <1>5, <2>1, <3>1 DEF handle_plot_buffer_contents
      <4>2. serial' \in 1..serial' /\ [r \in Rows(d) |-> serial'] \in [Rows(d) -> 0..serial']
        BY <2>1
      <4>3. b \in Nat
        BY ClientAssumption, LimitsAssumption
      <4> QED
        BY <2>1, <4>1, <4>2, <4>3, UpsertOK
    <3>2. CASE ~ContentsAccepted(d, b)
      <4>1. records' = records
        BY <1>5, <3>2 DEF handle_plot_buffer_contents
      <4> QED
        BY <2>1, <4>1, OKGrows
    <3> QED
      BY <3>1, <3>2
  <2> QED
    BY <2>1, <2>4, <2>5, <2>6
<1>6. ASSUME NEW n \in Names, remove(n) PROVE TypeOK'
  BY <1>6 DEF remove, Drop
<1>7. CASE UNCHANGED vars
  BY <1>7 DEF vars
<1> QED
  BY <1>1, <1>2, <1>3, <1>4, <1>5, <1>6, <1>7 DEF Next

\* The initial state is well typed.
LEMMA TypeInit == Init => TypeOK
<1> SUFFICES ASSUME Init PROVE TypeOK
  OBVIOUS
<1>1. WireOK(Idle, 0)
  BY DEF WireOK, Idle
<1>2. /\ DOMAIN in_progress = {} /\ DOMAIN records = {} /\ serial = 0
      /\ wire = [n \in Names |-> Idle]
  BY DEF Init
<1> QED
  BY <1>1, <1>2 DEF TypeOK

\* IpcClient's state keeps its types; in particular every transfer the assembler
\* holds was accepted by begin(), whatever the peer sends.
THEOREM TypeCorrect == Spec => []TypeOK
<1>1. Init => TypeOK
  BY TypeInit
<1>2. TypeOK /\ [Next]_vars => TypeOK'
  BY TypeStep
<1> QED
  BY <1>1, <1>2, PTL DEF Spec
-----------------------------------------------------------------------------
\* Where a record of the next state can come from: it was there before, an END
\* delivered it, or a PLOT_BUFFER_CONTENTS brought it whole.
DeliveredByEnd(x) ==
    /\ EndDelivers(x) /\ wire[x].open
    /\ records'[x].decl = in_progress[x].decl
    /\ records'[x].transfer = in_progress[x].transfer
    /\ records'[x].bytes = in_progress[x].bytes
    /\ records'[x].size = RecordBytes(in_progress[x].decl, in_progress[x].decl.total)
    /\ wire'[x].transfer = wire[x].transfer

BroughtWhole(x) ==
    /\ records'[x].transfer = serial + 1
    /\ \A r \in Rows(records'[x].decl) : records'[x].bytes[r] = serial + 1
    /\ \E b \in ContentsBytes : /\ ContentsAccepted(records'[x].decl, b)
                               /\ records'[x].size = RecordBytes(records'[x].decl, b)
    /\ wire'[x].transfer = serial + 1

\* The two are the only sources of a record that is not as it was, and upsert()
\* resolved its layout.
LEMMA RecordsStep ==
    ASSUME TypeOK, [Next]_vars, NEW x \in DOMAIN records'
    PROVE  \/ x \in DOMAIN records /\ records'[x] = records[x]
           \/ /\ records'[x].layout = resolve_pixel_layout(x, records'[x].decl.layout,
                                                           records'[x].decl.channels)
              /\ DeliveredByEnd(x) \/ BroughtWhole(x)
<1> DEFINE Goal == \/ x \in DOMAIN records /\ records'[x] = records[x]
                   \/ /\ records'[x].layout = resolve_pixel_layout(x, records'[x].decl.layout,
                                                                   records'[x].decl.channels)
                      /\ DeliveredByEnd(x) \/ BroughtWhole(x)
<1>1. ASSUME NEW n \in Names, handle_plot_buffer_end(n) PROVE Goal
  <2>1. CASE EndDelivers(n)
    <3>1. upsert(n, in_progress[n].decl, in_progress[n].transfer, in_progress[n].bytes,
                 in_progress[n].decl.total)
      BY <1>1, <2>1 DEF handle_plot_buffer_end
    <3>2. wire[n].open /\ wire' = [wire EXCEPT ![n].open = FALSE]
      BY <1>1 DEF handle_plot_buffer_end
    <3>3. wire'[n].transfer = wire[n].transfer
      <4>1. /\ wire = [y \in Names |-> wire[y]]
            /\ wire[n] \in [transfer : 0..serial, open : BOOLEAN, clean : BOOLEAN,
                            covered : SUBSET Int, decl : Decls \cup {NoDecl}]
        BY DEF TypeOK, WireOK
      <4> QED
        BY <3>2, <4>1
    <3>4. CASE x = n
      <4>1. /\ records'[n].decl = in_progress[n].decl
            /\ records'[n].transfer = in_progress[n].transfer
            /\ records'[n].bytes = in_progress[n].bytes
            /\ records'[n].size = RecordBytes(in_progress[n].decl, in_progress[n].decl.total)
            /\ records'[n].layout = resolve_pixel_layout(n, in_progress[n].decl.layout,
                                                         in_progress[n].decl.channels)
        BY <3>1 DEF upsert, Put
      <4> QED
        BY <2>1, <3>2, <3>3, <3>4, <4>1 DEF DeliveredByEnd
    <3>5. CASE x # n
      BY <3>1, <3>5 DEF upsert, Put
    <3> QED
      BY <3>4, <3>5
  <2>2. CASE ~EndDelivers(n)
    BY <1>1, <2>2 DEF handle_plot_buffer_end
  <2> QED
    BY <2>1, <2>2
<1>2. ASSUME NEW n \in Names, NEW d \in Decls, NEW b \in ContentsBytes,
             handle_plot_buffer_contents(n, d, b)
      PROVE  Goal
  <2>1. CASE ContentsAccepted(d, b)
    <3>1. upsert(n, d, serial + 1, [r \in Rows(d) |-> serial + 1], b)
      BY <1>2, <2>1 DEF handle_plot_buffer_contents
    <3>2. wire' = [wire EXCEPT ![n].transfer = serial + 1, ![n].open = FALSE]
      BY <1>2 DEF handle_plot_buffer_contents
    <3>3. wire'[n].transfer = serial + 1
      <4>1. /\ wire = [y \in Names |-> wire[y]]
            /\ wire[n] \in [transfer : 0..serial, open : BOOLEAN, clean : BOOLEAN,
                            covered : SUBSET Int, decl : Decls \cup {NoDecl}]
        BY DEF TypeOK, WireOK
      <4> QED
        BY <3>2, <4>1
    <3>4. CASE x = n
      <4>1. /\ records'[n].decl = d
            /\ records'[n].transfer = serial + 1
            /\ records'[n].bytes = [r \in Rows(d) |-> serial + 1]
            /\ records'[n].size = RecordBytes(d, b)
            /\ records'[n].layout = resolve_pixel_layout(n, d.layout, d.channels)
        BY <3>1 DEF upsert, Put
      <4> QED
        BY <2>1, <3>3, <3>4, <4>1 DEF BroughtWhole
    <3>5. CASE x # n
      BY <3>1, <3>5 DEF upsert, Put
    <3> QED
      BY <3>4, <3>5
  <2>2. CASE ~ContentsAccepted(d, b)
    BY <1>2, <2>2 DEF handle_plot_buffer_contents
  <2> QED
    BY <2>1, <2>2
<1>3. ASSUME NEW n \in Names, remove(n) PROVE Goal
  BY <1>3 DEF remove, Drop
<1>4. ASSUME records' = records PROVE Goal
  BY <1>4
<1>5. ASSUME NEW n \in Names, NEW d \in Decls,
             handle_plot_buffer_begin(n, d) \/ BeginOutOfMemory(n, d)
      PROVE  records' = records
  BY <1>5 DEF handle_plot_buffer_begin, BeginOutOfMemory
<1>6. ASSUME NEW n \in Names, NEW off \in ChunkOffsets, NEW cnt \in ChunkCounts,
             NEW size \in ChunkSizes, handle_plot_buffer_chunk(n, off, cnt, size)
      PROVE  records' = records
  BY <1>6 DEF handle_plot_buffer_chunk
<1>7. CASE UNCHANGED vars
  BY <1>4, <1>7 DEF vars
<1>8. CASE Next
  <2> PICK n \in Names :
        \/ \E d \in Decls : handle_plot_buffer_begin(n, d) \/ BeginOutOfMemory(n, d)
        \/ \E off \in ChunkOffsets, cnt \in ChunkCounts, size \in ChunkSizes :
              handle_plot_buffer_chunk(n, off, cnt, size)
        \/ handle_plot_buffer_end(n)
        \/ \E d \in Decls, b \in ContentsBytes : handle_plot_buffer_contents(n, d, b)
        \/ remove(n)
    BY <1>8 DEF Next
  <2> QED
    BY <1>1, <1>2, <1>3, <1>4, <1>5, <1>6
<1> QED
  BY <1>7, <1>8

\* resolve_pixel_layout() gives a multi-channel buffer a layout the renderer takes.
LEMMA ResolvedUsable ==
    ASSUME NEW n, NEW l, NEW c
    PROVE  c = 1 \/ is_valid_pixel_layout(resolve_pixel_layout(n, l, c))
BY ClientAssumption DEF resolve_pixel_layout, is_valid_pixel_layout, DEFAULT_PIXEL_LAYOUT

-----------------------------------------------------------------------------
\* Where an assembler entry of the next state can come from: it was there before,
\* a chunk was copied into it, or a BEGIN made it.
Kept(x) == x \in DOMAIN in_progress /\ in_progress'[x] = in_progress[x]

Chunked(x) ==
    /\ x \in DOMAIN in_progress /\ wire[x].open
    /\ wire'[x].open = wire[x].open /\ wire'[x].transfer = wire[x].transfer
    /\ \E off \in ChunkOffsets, cnt \in ChunkCounts :
          in_progress'[x] = ChunkCopied(in_progress[x], off, cnt, wire[x].transfer)

Begun(x) ==
    /\ wire'[x].transfer = serial + 1
    /\ \E d \in Decls : in_progress'[x] = FreshEntry(d, serial + 1)

\* While an entry is kept, its sender's account is as it was or closed.
AccountKept(x) ==
    \/ wire'[x].open = wire[x].open /\ wire'[x].transfer = wire[x].transfer
    \/ ~wire'[x].open

\* The three are the only sources of an entry; an entry is kept under an account
\* that moved on only if a BEGIN was lost.
LEMMA EntriesStep ==
    ASSUME TypeOK, [Next]_vars, NEW x \in DOMAIN in_progress'
    PROVE  /\ Kept(x) \/ Chunked(x) \/ Begun(x)
           /\ x \notin OOMNames => Chunked(x) \/ Begun(x) \/ AccountKept(x)
<1> DEFINE Goal == /\ Kept(x) \/ Chunked(x) \/ Begun(x)
                   /\ x \notin OOMNames => Chunked(x) \/ Begun(x) \/ AccountKept(x)
<1>0. /\ wire = [y \in Names |-> wire[y]]
      /\ \A y \in Names : wire[y] \in [transfer : 0..serial, open : BOOLEAN, clean : BOOLEAN,
                                       covered : SUBSET Int, decl : Decls \cup {NoDecl}]
      /\ DOMAIN in_progress \subseteq Names
  BY DEF TypeOK, WireOK
<1>1. ASSUME NEW n \in Names, NEW d \in Decls, handle_plot_buffer_begin(n, d) PROVE Goal
  <2>1. /\ wire'[n].transfer = serial + 1
        /\ \A y \in Names \ {n} : wire'[y] = wire[y]
    BY <1>1, SenderBeginsOK DEF handle_plot_buffer_begin
  <2>2. in_progress' = BeginResult(n, d, serial + 1)
    BY <1>1 DEF handle_plot_buffer_begin
  <2>3. CASE x = n
    <3>1. BeginAccepted(d, d.total)
      BY <2>2, <2>3 DEF BeginResult, Drop
    <3>2. in_progress'[x] = FreshEntry(d, serial + 1)
      BY <2>2, <2>3, <3>1 DEF BeginResult, Put
    <3> QED
      BY <2>1, <2>3, <3>2 DEF Begun
  <2>4. CASE x # n
    <3>1. x \in DOMAIN in_progress /\ in_progress'[x] = in_progress[x]
      BY <2>2, <2>4 DEF BeginResult, Put, Drop
    <3> QED
      BY <1>0, <2>1, <2>4, <3>1 DEF Kept, AccountKept
  <2> QED
    BY <2>3, <2>4
<1>2. ASSUME NEW n \in Names, NEW d \in Decls, BeginOutOfMemory(n, d) PROVE Goal
  <2>1. n \in OOMNames /\ in_progress' = in_progress
    BY <1>2 DEF BeginOutOfMemory
  <2>2. \A y \in Names \ {n} : wire'[y] = wire[y]
    BY <1>2, SenderBeginsOK DEF BeginOutOfMemory
  <2> QED
    BY <1>0, <2>1, <2>2 DEF Kept, AccountKept
<1>3. ASSUME NEW n \in Names, NEW off \in ChunkOffsets, NEW cnt \in ChunkCounts,
             NEW size \in ChunkSizes, handle_plot_buffer_chunk(n, off, cnt, size)
      PROVE  Goal
  <2>1. \/ wire' = [wire EXCEPT ![n].covered = @ \cup RowRange(off, cnt)]
        \/ wire' = [wire EXCEPT ![n].clean = FALSE]
    BY <1>3 DEF handle_plot_buffer_chunk
  <2>2. /\ wire'[n].open = wire[n].open /\ wire'[n].transfer = wire[n].transfer
        /\ \A y \in Names \ {n} : wire'[y] = wire[y]
    BY <1>0, <2>1
  <2>3. wire[n].open
    BY <1>3 DEF handle_plot_buffer_chunk
  <2>4. CASE x = n
    <3>1. ChunkAccepted(n, off, cnt, size)
      BY <1>3, <2>4 DEF handle_plot_buffer_chunk, AbortResult, Drop
    <3>2. n \in DOMAIN in_progress
      BY <3>1 DEF ChunkAccepted, has_in_progress
    <3>3. in_progress'[n] = ChunkCopied(in_progress[n], off, cnt, wire[n].transfer)
      BY <1>3, <3>1 DEF handle_plot_buffer_chunk, ChunkResult, Put
    <3> QED
      BY <2>2, <2>3, <2>4, <3>2, <3>3 DEF Chunked
  <2>5. CASE x # n
    <3>1. x \in DOMAIN in_progress /\ in_progress'[x] = in_progress[x]
      BY <1>3, <2>5 DEF handle_plot_buffer_chunk, ChunkResult, AbortResult, Put, Drop
    <3> QED
      BY <1>0, <2>2, <2>5, <3>1 DEF Kept, AccountKept
  <2> QED
    BY <2>4, <2>5
<1>4. ASSUME NEW n \in Names, handle_plot_buffer_end(n) PROVE Goal
  <2>1. /\ in_progress' = Drop(in_progress, n)
        /\ wire' = [wire EXCEPT ![n].open = FALSE]
    BY <1>4 DEF handle_plot_buffer_end, EndResult
  <2>2. x # n /\ x \in DOMAIN in_progress /\ in_progress'[x] = in_progress[x]
    BY <2>1 DEF Drop
  <2>3. wire'[x] = wire[x]
    BY <1>0, <2>1, <2>2
  <2> QED
    BY <2>2, <2>3 DEF Kept, AccountKept
<1>5. ASSUME NEW n \in Names, NEW d \in Decls, NEW b \in ContentsBytes,
             handle_plot_buffer_contents(n, d, b)
      PROVE  Goal
  <2>1. /\ in_progress' = in_progress
        /\ wire' = [wire EXCEPT ![n].transfer = serial + 1, ![n].open = FALSE]
    BY <1>5 DEF handle_plot_buffer_contents
  <2>2. ~wire'[n].open /\ \A y \in Names \ {n} : wire'[y] = wire[y]
    BY <1>0, <2>1
  <2> QED
    BY <1>0, <2>1, <2>2 DEF Kept, AccountKept
<1>6. ASSUME NEW n \in Names, remove(n) PROVE Goal
  BY <1>6 DEF remove, Kept, AccountKept
<1>7. CASE UNCHANGED vars
  BY <1>7 DEF vars, Kept, AccountKept
<1>8. CASE Next
  BY <1>1, <1>2, <1>3, <1>4, <1>5, <1>6, <1>8 DEF Next
<1> QED
  BY <1>7, <1>8

\* What an accepted chunk of transfer t leaves in a row marked as received.
LEMMA ChunkedRow ==
    ASSUME NEW e, NEW off, NEW cnt, NEW t, NEW r \in Rows(e.decl),
           ChunkCopied(e, off, cnt, t).rows_received[r]
    PROVE  \/ ChunkCopied(e, off, cnt, t).bytes[r] = t
           \/ e.rows_received[r] /\ ChunkCopied(e, off, cnt, t).bytes[r] = e.bytes[r]
BY DEF ChunkCopied

\* A fresh entry has no row marked as received.
LEMMA FreshRow ==
    ASSUME NEW d, NEW t, NEW r \in Rows(FreshEntry(d, t).decl)
    PROVE  ~FreshEntry(d, t).rows_received[r]
BY DEF FreshEntry

\* A row marked as received stays written.
LEMMA ReceivedWrittenStep ==
    TypeOK /\ ReceivedWritten /\ [Next]_vars => ReceivedWritten'
<1> SUFFICES ASSUME TypeOK, ReceivedWritten, [Next]_vars,
                    NEW x \in DOMAIN in_progress', NEW r \in Rows(in_progress'[x].decl),
                    in_progress'[x].rows_received[r]
             PROVE  in_progress'[x].bytes[r] # ZeroFill
  BY DEF ReceivedWritten, Rows, ZeroFill
<1>1. CASE Kept(x)
  BY <1>1 DEF Kept, ReceivedWritten
<1>2. CASE Chunked(x)
  <2>1. PICK off, cnt : in_progress'[x] = ChunkCopied(in_progress[x], off, cnt, wire[x].transfer)
    BY <1>2 DEF Chunked
  <2>2. x \in DOMAIN in_progress /\ x \in Names /\ wire[x].open
    BY <1>2 DEF Chunked, TypeOK
  <2>3. wire[x].transfer # ZeroFill
    BY <2>2 DEF TypeOK, WireOK, ZeroFill
  <2>4. r \in Rows(in_progress[x].decl)
    BY <2>1 DEF ChunkCopied
  <2>5. \/ in_progress'[x].bytes[r] = wire[x].transfer
        \/ in_progress[x].rows_received[r] /\ in_progress'[x].bytes[r] = in_progress[x].bytes[r]
    BY <2>1, <2>4, ChunkedRow
  <2> QED
    BY <2>2, <2>3, <2>4, <2>5 DEF ReceivedWritten
<1>3. CASE Begun(x)
  BY <1>3, FreshRow DEF Begun
<1> QED
  BY <1>1, <1>2, <1>3, EntriesStep

\* No handler puts an unwritten row on display.
LEMMA NoUnwrittenStep ==
    TypeOK /\ ReceivedWritten /\ NoUnwrittenRow /\ [Next]_vars => NoUnwrittenRow'
<1> SUFFICES ASSUME TypeOK, ReceivedWritten, NoUnwrittenRow, [Next]_vars,
                    NEW x \in DOMAIN records', NEW r \in Rows(records'[x].decl)
             PROVE  records'[x].bytes[r] # ZeroFill
  BY DEF NoUnwrittenRow, Rows, ZeroFill
<1>1. CASE x \in DOMAIN records /\ records'[x] = records[x]
  BY <1>1 DEF NoUnwrittenRow
<1>2. CASE DeliveredByEnd(x)
  BY <1>2 DEF DeliveredByEnd, EndDelivers, has_in_progress, ReceivedWritten
<1>3. CASE BroughtWhole(x)
  BY <1>3 DEF BroughtWhole, TypeOK, ZeroFill
<1> QED
  BY <1>1, <1>2, <1>3, RecordsStep

\* No row is shown that no chunk ever wrote, even when the allocation of a BEGIN
\* in between failed.
THEOREM NoUnwrittenRows == Spec => []NoUnwrittenRow
<1>1. Init => Written
  BY DEF Init, Written, ReceivedWritten, NoUnwrittenRow
<1>2. TypeOK /\ Written /\ [Next]_vars => Written'
  BY ReceivedWrittenStep, NoUnwrittenStep DEF Written
<1>3. Written => NoUnwrittenRow
  BY DEF Written
<1> QED
  BY <1>1, <1>2, <1>3, TypeCorrect, PTL DEF Spec
-----------------------------------------------------------------------------
\* A row marked as received stays one of its entry's own transfer: the chunk that
\* wrote it belonged to the open transfer, which is the entry's.
LEMMA ReceivedOwnStep ==
    TypeOK /\ ReceivedOwn /\ EntryIsOpenTransfer /\ [Next]_vars => ReceivedOwn'
<1> SUFFICES ASSUME TypeOK, ReceivedOwn, EntryIsOpenTransfer, [Next]_vars,
                    NEW x \in DOMAIN in_progress' \ OOMNames, NEW r \in Rows(in_progress'[x].decl),
                    in_progress'[x].rows_received[r]
             PROVE  in_progress'[x].bytes[r] = in_progress'[x].transfer
  BY DEF ReceivedOwn, Rows
<1>1. CASE Kept(x)
  BY <1>1 DEF Kept, ReceivedOwn
<1>2. CASE Chunked(x)
  <2>1. PICK off, cnt : in_progress'[x] = ChunkCopied(in_progress[x], off, cnt, wire[x].transfer)
    BY <1>2 DEF Chunked
  <2>2. /\ x \in DOMAIN in_progress /\ wire[x].open
        /\ in_progress'[x].transfer = in_progress[x].transfer
        /\ r \in Rows(in_progress[x].decl)
    BY <1>2, <2>1 DEF Chunked, ChunkCopied
  <2>3. \/ in_progress'[x].bytes[r] = wire[x].transfer
        \/ in_progress[x].rows_received[r] /\ in_progress'[x].bytes[r] = in_progress[x].bytes[r]
    BY <2>1, <2>2, ChunkedRow
  <2> QED
    BY <2>2, <2>3 DEF ReceivedOwn, EntryIsOpenTransfer
<1>3. CASE Begun(x)
  BY <1>3, FreshRow DEF Begun
<1> QED
  BY <1>1, <1>2, <1>3, EntriesStep

\* The entry under an open name stays the open transfer where no BEGIN is lost.
LEMMA EntryIsOpenStep ==
    TypeOK /\ EntryIsOpenTransfer /\ [Next]_vars => EntryIsOpenTransfer'
<1> SUFFICES ASSUME TypeOK, EntryIsOpenTransfer, [Next]_vars,
                    NEW x \in DOMAIN in_progress' \ OOMNames, wire'[x].open
             PROVE  in_progress'[x].transfer = wire'[x].transfer
  BY DEF EntryIsOpenTransfer
<1>1. CASE Chunked(x)
  BY <1>1 DEF Chunked, ChunkCopied, EntryIsOpenTransfer
<1>2. CASE Begun(x)
  BY <1>2 DEF Begun, FreshEntry
<1>3. CASE Kept(x) /\ AccountKept(x)
  BY <1>3 DEF Kept, AccountKept, EntryIsOpenTransfer
<1> QED
  BY <1>1, <1>2, <1>3, EntriesStep

\* A sender's account of a name never goes back.
LEMMA AccountGrows ==
    ASSUME TypeOK, [Next]_vars, NEW x \in Names
    PROVE  wire[x].transfer <= wire'[x].transfer
<1>0. /\ wire = [y \in Names |-> wire[y]] /\ serial \in Nat
      /\ \A y \in Names : wire[y] \in [transfer : 0..serial, open : BOOLEAN, clean : BOOLEAN,
                                       covered : SUBSET Int, decl : Decls \cup {NoDecl}]
  BY DEF TypeOK, WireOK
<1>1. wire[x].transfer \in 0..serial
  BY <1>0
<1>2. ASSUME NEW n \in Names, NEW d \in Decls, SenderBegins(n, d)
      PROVE  wire[x].transfer <= wire'[x].transfer
  BY <1>0, <1>1, <1>2 DEF SenderBegins
<1>3. ASSUME NEW n \in Names, NEW off \in ChunkOffsets, NEW cnt \in ChunkCounts,
             NEW size \in ChunkSizes, handle_plot_buffer_chunk(n, off, cnt, size)
      PROVE  wire[x].transfer <= wire'[x].transfer
  <2>1. \/ wire' = [wire EXCEPT ![n].covered = @ \cup RowRange(off, cnt)]
        \/ wire' = [wire EXCEPT ![n].clean = FALSE]
    BY <1>3 DEF handle_plot_buffer_chunk
  <2>2. wire'[x].transfer = wire[x].transfer
    BY <1>0, <2>1
  <2> QED
    BY <1>1, <2>2
<1>4. ASSUME NEW n \in Names, handle_plot_buffer_end(n)
      PROVE  wire[x].transfer <= wire'[x].transfer
  BY <1>0, <1>1, <1>4 DEF handle_plot_buffer_end
<1>5. ASSUME NEW n \in Names, NEW d \in Decls, NEW b \in ContentsBytes,
             handle_plot_buffer_contents(n, d, b)
      PROVE  wire[x].transfer <= wire'[x].transfer
  BY <1>0, <1>1, <1>5 DEF handle_plot_buffer_contents
<1>6. ASSUME wire' = wire PROVE wire[x].transfer <= wire'[x].transfer
  BY <1>1, <1>6
<1>7. CASE Next
  BY <1>2, <1>3, <1>4, <1>5, <1>6, <1>7
  DEF Next, handle_plot_buffer_begin, BeginOutOfMemory, remove
<1> QED
  BY <1>6, <1>7 DEF vars

\* Nothing on display gets ahead of its sender.
LEMMA ShownNotAheadStep ==
    TypeOK /\ EntryIsOpenTransfer /\ ShownNotAhead /\ [Next]_vars => ShownNotAhead'
<1> SUFFICES ASSUME TypeOK, EntryIsOpenTransfer, ShownNotAhead, [Next]_vars,
                    NEW x \in DOMAIN records' \ OOMNames
             PROVE  records'[x].transfer <= wire'[x].transfer
  BY DEF ShownNotAhead
<1>1. CASE x \in DOMAIN records /\ records'[x] = records[x]
  <2>1. x \in Names /\ records[x].transfer \in Nat /\ wire[x].transfer \in Nat
    BY <1>1 DEF TypeOK, RecordOK, WireOK
  <2>2. TypeOK'
    BY TypeStep
  <2>3. wire'[x].transfer \in Nat
    BY <2>1, <2>2 DEF TypeOK, WireOK
  <2> QED
    BY <1>1, <2>1, <2>3, AccountGrows DEF ShownNotAhead
<1>2. CASE DeliveredByEnd(x)
  <2>1. x \in DOMAIN in_progress /\ wire[x].transfer \in Nat
    BY <1>2 DEF DeliveredByEnd, EndDelivers, has_in_progress, TypeOK, WireOK
  <2> QED
    BY <1>2, <2>1 DEF DeliveredByEnd, EntryIsOpenTransfer
<1>3. CASE BroughtWhole(x)
  BY <1>3 DEF BroughtWhole, TypeOK
<1> QED
  BY <1>1, <1>2, <1>3, RecordsStep

\* No handler puts a mixed buffer on display.
LEMMA NeverMixedStep ==
    TypeOK /\ ReceivedOwn /\ NeverMixed /\ [Next]_vars => NeverMixed'
<1> SUFFICES ASSUME TypeOK, ReceivedOwn, NeverMixed, [Next]_vars,
                    NEW x \in DOMAIN records' \ OOMNames, NEW r \in Rows(records'[x].decl)
             PROVE  records'[x].bytes[r] = records'[x].transfer
  BY DEF NeverMixed, Rows
<1>1. CASE x \in DOMAIN records /\ records'[x] = records[x]
  BY <1>1 DEF NeverMixed
<1>2. CASE DeliveredByEnd(x)
  BY <1>2 DEF DeliveredByEnd, EndDelivers, has_in_progress, ReceivedOwn
<1>3. CASE BroughtWhole(x)
  BY <1>3 DEF BroughtWhole
<1> QED
  BY <1>1, <1>2, <1>3, RecordsStep

\* The strengthened invariant: what the assembler holds under an open name is the
\* transfer its sender is sending, so what END hands over is that transfer alone.
LEMMA OwnInvariant == Spec => []Own
<1>1. Init => Own
  BY DEF Init, Own, ReceivedOwn, EntryIsOpenTransfer, ShownNotAhead, NeverMixed
<1>2. TypeOK /\ Own /\ [Next]_vars => Own'
  BY ReceivedOwnStep, EntryIsOpenStep, ShownNotAheadStep, NeverMixedStep DEF Own
<1> QED
  BY <1>1, <1>2, TypeCorrect, PTL DEF Spec

\* A buffer on display is whole and of one plot, for every sender, whatever the
\* allocations under other names do.
THEOREM WholeBuffers == Spec => []NeverMixed
<1>1. Own => NeverMixed
  BY DEF Own
<1> QED
  BY <1>1, OwnInvariant, PTL

\* What is on display under a name never goes back to an older plot, whatever the
\* allocations under other names do.
THEOREM NeverRollsBack == Spec => NoRollback
<1>1. TypeOK /\ Own /\ [Next]_vars =>
        [\A n \in (DOMAIN records \cap DOMAIN records') \ OOMNames :
            records'[n].transfer >= records[n].transfer]_vars
  <2> SUFFICES ASSUME TypeOK, Own, [Next]_vars,
                      NEW n \in (DOMAIN records \cap DOMAIN records') \ OOMNames
               PROVE  records'[n].transfer >= records[n].transfer
    OBVIOUS
  <2>1. records[n].transfer <= wire[n].transfer /\ n \in Names
    BY DEF Own, ShownNotAhead, TypeOK
  <2>2. /\ records[n].transfer \in 1..serial /\ serial \in Nat
        /\ wire[n].transfer \in 0..serial
    BY <2>1 DEF TypeOK, RecordOK, WireOK
  <2>3. CASE records'[n] = records[n]
    BY <2>2, <2>3
  <2>4. CASE DeliveredByEnd(n)
    BY <2>1, <2>2, <2>4 DEF DeliveredByEnd, EndDelivers, has_in_progress, Own, EntryIsOpenTransfer
  <2>5. CASE BroughtWhole(n)
    BY <2>2, <2>5 DEF BroughtWhole
  <2> QED
    BY <2>3, <2>4, <2>5, RecordsStep
<1> QED
  BY <1>1, OwnInvariant, TypeCorrect, PTL DEF Spec, NoRollback
-----------------------------------------------------------------------------
\* The assembler's entry for n is the sender's transfer, and the rows it has
\* marked are the rows the sender has sent.
HoldsTransfer(n) ==
    /\ n \in DOMAIN in_progress
    /\ in_progress[n].decl = wire[n].decl
    /\ in_progress[n].transfer = wire[n].transfer
    /\ \A r \in Rows(wire[n].decl) : in_progress[n].rows_received[r] <=> r \in wire[n].covered

\* What the assembler holds under an open name is exactly what the sender may
\* count on: its transfer if begin() took it and no chunk was malformed, nothing
\* otherwise.  With TypeOK, the inductive invariant of DeliveredIffComplete.
AgreesWithSender(n) ==
    wire[n].open =>
        IF wire[n].clean /\ BeginAccepted(wire[n].decl, wire[n].decl.total)
        THEN HoldsTransfer(n)
        ELSE n \notin DOMAIN in_progress

Agreement == \A n \in Names \ OOMNames : AgreesWithSender(n)

\* CheckedTimes() multiplies, if it yields a size at all.
LEMMA CheckedProduct ==
    ASSUME NEW size, NEW factor, CheckedTimes(size, factor) # NoSize
    PROVE  size # NoSize /\ CheckedTimes(size, factor) = size * factor
BY DEF CheckedTimes

\* The total of a transfer begin() took is a whole number of rows.
LEMMA TotalIsRows ==
    ASSUME NEW d \in Decls, BeginAccepted(d, d.total)
    PROVE  /\ d.height \in Nat \ {0}
           /\ d.total \div d.height \in Nat \ {0}
           /\ d.total = d.height * (d.total \div d.height)
<1> DEFINE t == type_size(d.type)
           k == (d.stride * d.channels) * t
           first == CheckedTimes(d.stride, d.height)
           second == CheckedTimes(first, d.channels)
<1>1. /\ Renderable(d) /\ CheckedTimes(second, t) # NoSize /\ d.total = CheckedTimes(second, t)
  BY DEF BeginAccepted, padded_payload_size
<1>2. /\ d.stride \in Nat \ {0} /\ d.height \in Nat \ {0} /\ d.channels \in Nat \ {0}
      /\ t \in Nat \ {0}
  BY <1>1, DeclsAssumption DEF Renderable, type_size
<1> HIDE DEF t, second
<1>3. second # NoSize /\ d.total = second * t
  BY <1>1, CheckedProduct
<1>4. first # NoSize /\ second = first * d.channels
  <2> HIDE DEF first
  <2> QED
    BY <1>3, CheckedProduct DEF second
<1>5. first = d.stride * d.height
  BY <1>4, CheckedProduct
<1>6. k \in Nat \ {0}
  BY <1>2
<1>7. d.total = k * d.height
  BY <1>2, <1>3, <1>4, <1>5
<1> HIDE DEF k, first
<1>8. d.total \div d.height = k
  BY <1>2, <1>6, <1>7
<1> QED
  BY <1>2, <1>6, <1>7, <1>8

\* chunk() takes exactly the chunks that fit the declaration of the transfer it
\* holds: its two bounds and its row size, which comes from the allocation, say
\* what the sender's arithmetic over the whole buffer says.
LEMMA ChunkAcceptedIff ==
    ASSUME NEW n, n \in DOMAIN in_progress, NEW d \in Decls, in_progress[n].decl = d,
           BeginAccepted(d, d.total), NEW off \in Nat, NEW cnt \in Nat, NEW size \in Nat
    PROVE  ChunkAccepted(n, off, cnt, size) <=> WellFormed(d, off, cnt, size)
<1> DEFINE h == d.height
           k == d.total \div d.height
<1>1. h \in Nat \ {0} /\ k \in Nat \ {0} /\ d.total = h * k
  BY TotalIsRows
<1>2. ChunkAccepted(n, off, cnt, size) <=>
        off <= h /\ cnt <= h - off /\ size = cnt * k /\ off * k + size <= d.total
  BY DEF ChunkAccepted, has_in_progress, BytesPerRow
<1>3. WellFormed(d, off, cnt, size) <=> off + cnt <= h /\ size * h = cnt * d.total
  BY DEF WellFormed
<1> HIDE DEF h, k
<1>4. off <= h /\ cnt <= h - off <=> off + cnt <= h
  BY <1>1
<1>5. size * h = cnt * (h * k) <=> size = cnt * k
  <2>1. cnt * (h * k) = (cnt * k) * h /\ cnt * k \in Nat
    BY <1>1
  <2>2. \A a, b \in Nat : a * h = b * h => a = b
    BY <1>1
  <2> QED
    BY <2>1, <2>2
<1>6. off + cnt <= h => off * k + cnt * k <= h * k
  <2>1. off * k + cnt * k = (off + cnt) * k
    BY <1>1
  <2>2. \A a, b \in Nat : a <= b => a * k <= b * k
    BY <1>1
  <2> QED
    BY <1>1, <2>1, <2>2
<1> QED
  BY <1>1, <1>2, <1>3, <1>4, <1>5, <1>6

\* A BEGIN starts in agreement.
LEMMA BeginAgrees ==
    ASSUME NEW n \in Names, NEW d \in Decls, NEW t, wire'[n] =
               [transfer |-> t, open |-> TRUE, clean |-> TRUE, covered |-> {}, decl |-> d],
           in_progress' = BeginResult(n, d, t)
    PROVE  AgreesWithSender(n)'
<1>1. CASE BeginAccepted(d, d.total)
  <2>1. n \in DOMAIN in_progress' /\ in_progress'[n] = FreshEntry(d, t)
    BY <1>1 DEF BeginResult, Put
  <2> QED
    BY <1>1, <2>1 DEF AgreesWithSender, HoldsTransfer, FreshEntry
<1>2. CASE ~BeginAccepted(d, d.total)
  <2>1. n \notin DOMAIN in_progress'
    BY <1>2 DEF BeginResult, Drop
  <2> QED
    BY <1>2, <2>1 DEF AgreesWithSender
<1> QED
  BY <1>1, <1>2

\* A chunk keeps the agreement: one that fits is copied, and its rows are counted
\* by both sides; one that does not ends the transfer for both.
LEMMA ChunkAgrees ==
    ASSUME TypeOK, NEW n \in Names, AgreesWithSender(n),
           NEW off \in ChunkOffsets, NEW cnt \in ChunkCounts, NEW size \in ChunkSizes,
           handle_plot_buffer_chunk(n, off, cnt, size)
    PROVE  AgreesWithSender(n)'
<1> DEFINE d == wire[n].decl
<1>0. /\ wire = [y \in Names |-> wire[y]]
      /\ wire[n] \in [transfer : 0..serial, open : BOOLEAN, clean : BOOLEAN,
                      covered : SUBSET Int, decl : Decls \cup {NoDecl}]
      /\ wire[n].open /\ d \in Decls
      /\ off \in Nat /\ cnt \in Nat /\ size \in Nat
  BY ClientAssumption DEF TypeOK, WireOK, handle_plot_buffer_chunk
<1>1. CASE wire[n].clean /\ BeginAccepted(d, d.total)
  <2>1. HoldsTransfer(n)
    BY <1>0, <1>1 DEF AgreesWithSender
  <2>2. ChunkAccepted(n, off, cnt, size) <=> WellFormed(d, off, cnt, size)
    BY <1>0, <1>1, <2>1, ChunkAcceptedIff DEF HoldsTransfer
  <2>3. CASE WellFormed(d, off, cnt, size)
    <3>1. wire' = [wire EXCEPT ![n].covered = @ \cup RowRange(off, cnt)]
      BY <2>3 DEF handle_plot_buffer_chunk
    <3>2. /\ wire'[n].open /\ wire'[n].clean /\ wire'[n].decl = d
          /\ wire'[n].transfer = wire[n].transfer
          /\ wire'[n].covered = wire[n].covered \cup RowRange(off, cnt)
      BY <1>0, <1>1, <3>1
    <3>3. in_progress' = ChunkResult(n, off, cnt, wire[n].transfer)
      BY <2>2, <2>3 DEF handle_plot_buffer_chunk
    <3>4. /\ n \in DOMAIN in_progress'
          /\ in_progress'[n] = ChunkCopied(in_progress[n], off, cnt, wire[n].transfer)
      BY <3>3 DEF ChunkResult, Put
    <3>5. HoldsTransfer(n)'
      BY <2>1, <3>2, <3>4 DEF HoldsTransfer, ChunkCopied
    <3> QED
      BY <1>1, <3>2, <3>5 DEF AgreesWithSender
  <2>4. CASE ~WellFormed(d, off, cnt, size)
    <3>1. wire' = [wire EXCEPT ![n].clean = FALSE] /\ in_progress' = AbortResult(n)
      BY <2>2, <2>4 DEF handle_plot_buffer_chunk
    <3>2. ~wire'[n].clean
      BY <1>0, <3>1
    <3> QED
      BY <3>1, <3>2 DEF AgreesWithSender, AbortResult, Drop
  <2> QED
    BY <2>3, <2>4
<1>2. CASE ~(wire[n].clean /\ BeginAccepted(d, d.total))
  <2>1. n \notin DOMAIN in_progress
    BY <1>0, <1>2 DEF AgreesWithSender
  <2>2. in_progress' = AbortResult(n)
    BY <2>1 DEF handle_plot_buffer_chunk, ChunkAccepted, has_in_progress
  <2>3. wire'[n].decl = d /\ (wire'[n].clean => wire[n].clean)
    <3>1. CASE wire' = [wire EXCEPT ![n].covered = @ \cup RowRange(off, cnt)]
      BY <1>0, <3>1
    <3>2. CASE wire' = [wire EXCEPT ![n].clean = FALSE]
      BY <1>0, <3>2
    <3> QED
      BY <3>1, <3>2 DEF handle_plot_buffer_chunk
  <2> QED
    BY <1>2, <2>2, <2>3 DEF AgreesWithSender, AbortResult, Drop
<1> QED
  BY <1>1, <1>2

\* A step that touches neither the entry nor the account of n.
LEMMA OthersAgree ==
    ASSUME NEW n, AgreesWithSender(n), wire'[n] = wire[n],
           n \in DOMAIN in_progress' <=> n \in DOMAIN in_progress,
           n \in DOMAIN in_progress' => in_progress'[n] = in_progress[n]
    PROVE  AgreesWithSender(n)'
BY DEF AgreesWithSender, HoldsTransfer

\* Every handler keeps the agreement.
LEMMA AgreementStep == TypeOK /\ Agreement /\ [Next]_vars => Agreement'
<1> SUFFICES ASSUME TypeOK, Agreement, NEW x \in Names \ OOMNames
             PROVE  [Next]_vars => AgreesWithSender(x)'
  BY DEF Agreement
<1>0. AgreesWithSender(x) /\ wire = [y \in Names |-> wire[y]] /\ x \notin OOMNames
  BY DEF Agreement, TypeOK
<1>1. ASSUME NEW n \in Names, NEW d \in Decls, handle_plot_buffer_begin(n, d)
      PROVE  AgreesWithSender(x)'
  <2>1. /\ in_progress' = BeginResult(n, d, serial + 1)
        /\ wire' = [wire EXCEPT ![n] = [transfer |-> serial + 1, open |-> TRUE,
                                        clean |-> TRUE, covered |-> {}, decl |-> d]]
    BY <1>1 DEF handle_plot_buffer_begin, SenderBegins
  <2>2. CASE x = n
    BY <1>0, <2>1, <2>2, BeginAgrees
  <2>3. CASE x # n
    <3>1. wire'[x] = wire[x]
      BY <1>0, <2>1, <2>3
    <3>2. /\ x \in DOMAIN in_progress' <=> x \in DOMAIN in_progress
          /\ x \in DOMAIN in_progress' => in_progress'[x] = in_progress[x]
      BY <2>1, <2>3 DEF BeginResult, Put, Drop
    <3> QED
      BY <1>0, <3>1, <3>2, OthersAgree
  <2> QED
    BY <2>2, <2>3
<1>2. ASSUME NEW n \in Names, NEW d \in Decls, BeginOutOfMemory(n, d) PROVE AgreesWithSender(x)'
  <2>1. n # x /\ in_progress' = in_progress /\ wire'[x] = wire[x]
    BY <1>0, <1>2 DEF BeginOutOfMemory, SenderBegins
  <2> QED
    BY <1>0, <2>1, OthersAgree
<1>3. ASSUME NEW n \in Names, NEW off \in ChunkOffsets, NEW cnt \in ChunkCounts,
             NEW size \in ChunkSizes, handle_plot_buffer_chunk(n, off, cnt, size)
      PROVE  AgreesWithSender(x)'
  <2>1. CASE x = n
    BY <1>0, <1>3, <2>1, ChunkAgrees
  <2>2. CASE x # n
    <3>1. wire'[x] = wire[x]
      <4>1. \/ wire' = [wire EXCEPT ![n].covered = @ \cup RowRange(off, cnt)]
            \/ wire' = [wire EXCEPT ![n].clean = FALSE]
        BY <1>3 DEF handle_plot_buffer_chunk
      <4> QED
        BY <1>0, <2>2, <4>1
    <3>2. /\ x \in DOMAIN in_progress' <=> x \in DOMAIN in_progress
          /\ x \in DOMAIN in_progress' => in_progress'[x] = in_progress[x]
      <4>1. CASE in_progress' = AbortResult(n)
        BY <2>2, <4>1 DEF AbortResult, Drop
      <4>2. CASE in_progress' = ChunkResult(n, off, cnt, wire[n].transfer)
        BY <2>2, <4>2 DEF ChunkResult, Put
      <4> QED
        BY <1>3, <4>1, <4>2 DEF handle_plot_buffer_chunk
    <3> QED
      BY <1>0, <3>1, <3>2, OthersAgree
  <2> QED
    BY <2>1, <2>2
<1>4. ASSUME NEW n \in Names, handle_plot_buffer_end(n) PROVE AgreesWithSender(x)'
  <2>1. /\ in_progress' = Drop(in_progress, n)
        /\ wire' = [wire EXCEPT ![n].open = FALSE]
    BY <1>4 DEF handle_plot_buffer_end, EndResult
  <2>2. CASE x = n
    <3>1. ~wire'[x].open
      <4>1. wire[x] \in [transfer : 0..serial, open : BOOLEAN, clean : BOOLEAN,
                         covered : SUBSET Int, decl : Decls \cup {NoDecl}]
        BY DEF TypeOK, WireOK
      <4> QED
        BY <1>0, <2>1, <2>2, <4>1
    <3> QED
      BY <3>1 DEF AgreesWithSender
  <2>3. CASE x # n
    <3>1. wire'[x] = wire[x]
      BY <1>0, <2>1, <2>3
    <3> QED
      BY <1>0, <2>1, <2>3, <3>1, OthersAgree DEF Drop
  <2> QED
    BY <2>2, <2>3
<1>5. ASSUME NEW n \in Names, NEW d \in Decls, NEW b \in ContentsBytes,
             handle_plot_buffer_contents(n, d, b)
      PROVE  AgreesWithSender(x)'
  <2>1. /\ in_progress' = in_progress
        /\ wire' = [wire EXCEPT ![n].transfer = serial + 1, ![n].open = FALSE]
    BY <1>5 DEF handle_plot_buffer_contents
  <2>2. CASE x = n
    <3>1. ~wire'[x].open
      <4>1. wire[x] \in [transfer : 0..serial, open : BOOLEAN, clean : BOOLEAN,
                         covered : SUBSET Int, decl : Decls \cup {NoDecl}]
        BY DEF TypeOK, WireOK
      <4> QED
        BY <1>0, <2>1, <2>2, <4>1
    <3> QED
      BY <3>1 DEF AgreesWithSender
  <2>3. CASE x # n
    <3>1. wire'[x] = wire[x]
      BY <1>0, <2>1, <2>3
    <3> QED
      BY <1>0, <2>1, <3>1, OthersAgree
  <2> QED
    BY <2>2, <2>3
<1>6. ASSUME NEW n \in Names, remove(n) PROVE AgreesWithSender(x)'
  BY <1>0, <1>6, OthersAgree DEF remove
<1>7. CASE UNCHANGED vars
  BY <1>0, <1>7, OthersAgree DEF vars
<1> QED
  BY <1>1, <1>2, <1>3, <1>4, <1>5, <1>6, <1>7 DEF Next

\* Only the END of n closes its transfer while leaving it the sender's last.
LEMMA EndedByEnd ==
    ASSUME TypeOK, NEW n \in Names, Ended(n)
    PROVE  [Next]_vars => handle_plot_buffer_end(n)
<1>0. /\ wire = [y \in Names |-> wire[y]] /\ serial \in Nat
      /\ \A y \in Names : wire[y] \in [transfer : 0..serial, open : BOOLEAN, clean : BOOLEAN,
                                       covered : SUBSET Int, decl : Decls \cup {NoDecl}]
      /\ wire[n].open /\ ~wire'[n].open /\ wire'[n].transfer = wire[n].transfer
  BY DEF TypeOK, WireOK, Ended
<1>1. ASSUME NEW x \in Names, NEW d \in Decls, SenderBegins(x, d) PROVE FALSE
  BY <1>0, <1>1 DEF SenderBegins
<1>2. ASSUME NEW x \in Names, NEW off \in ChunkOffsets, NEW cnt \in ChunkCounts,
             NEW size \in ChunkSizes, handle_plot_buffer_chunk(x, off, cnt, size)
      PROVE  FALSE
  <2>1. \/ wire' = [wire EXCEPT ![x].covered = @ \cup RowRange(off, cnt)]
        \/ wire' = [wire EXCEPT ![x].clean = FALSE]
    BY <1>2 DEF handle_plot_buffer_chunk
  <2> QED
    BY <1>0, <2>1
<1>3. ASSUME NEW x \in Names, x # n, handle_plot_buffer_end(x) PROVE FALSE
  BY <1>0, <1>3 DEF handle_plot_buffer_end
<1>4. ASSUME NEW x \in Names, NEW d \in Decls, NEW b \in ContentsBytes,
             handle_plot_buffer_contents(x, d, b)
      PROVE  FALSE
  <2>1. wire' = [wire EXCEPT ![x].transfer = serial + 1, ![x].open = FALSE]
    BY <1>4 DEF handle_plot_buffer_contents
  <2>2. wire'[n] = wire[n] \/ wire'[n].transfer = serial + 1
    BY <1>0, <2>1
  <2> QED
    BY <1>0, <2>2
<1>5. ASSUME NEW x \in Names, remove(x) PROVE FALSE
  BY <1>0, <1>5 DEF remove
<1>6. ASSUME UNCHANGED vars PROVE FALSE
  BY <1>0, <1>6 DEF vars
<1> QED
  BY <1>1, <1>2, <1>3, <1>4, <1>5, <1>6 DEF Next, handle_plot_buffer_begin, BeginOutOfMemory

\* What an END then does.
LEMMA EndDecides ==
    ASSUME TypeOK, NEW n \in Names, AgreesWithSender(n), handle_plot_buffer_end(n)
    PROVE  IF Complete(n)
           THEN n \in DOMAIN records' /\ records'[n].transfer = wire[n].transfer
           ELSE records' = records
<1>1. wire[n].open
  BY DEF handle_plot_buffer_end
<1>2. CASE wire[n].clean /\ BeginAccepted(wire[n].decl, wire[n].decl.total)
  <2>1. HoldsTransfer(n)
    BY <1>1, <1>2 DEF AgreesWithSender
  <2>2. EndDelivers(n) <=> Complete(n)
    BY <1>2, <2>1 DEF EndDelivers, Complete, HoldsTransfer, has_in_progress, Rows
  <2>3. CASE Complete(n)
    <3>1. upsert(n, in_progress[n].decl, in_progress[n].transfer, in_progress[n].bytes,
                 in_progress[n].decl.total)
      BY <2>2, <2>3 DEF handle_plot_buffer_end
    <3> QED
      BY <2>1, <2>3, <3>1 DEF upsert, Put, HoldsTransfer
  <2>4. CASE ~Complete(n)
    BY <2>2, <2>4 DEF handle_plot_buffer_end
  <2> QED
    BY <2>3, <2>4
<1>3. CASE ~(wire[n].clean /\ BeginAccepted(wire[n].decl, wire[n].decl.total))
  BY <1>1, <1>3 DEF AgreesWithSender, Complete, handle_plot_buffer_end, EndDelivers, has_in_progress
<1> QED
  BY <1>2, <1>3

\* For every sender, declaration and order of chunks: an END puts the plot on
\* display exactly when the sender completed it, where no BEGIN is lost to a
\* failed allocation (chunk(), end() and the abort() in
\* handle_plot_buffer_chunk()).
THEOREM DeliveredExactly == Spec => DeliveredIffComplete
<1>1. Init => Agreement
  BY DEF Init, Agreement, AgreesWithSender, Idle
<1>2. TypeOK /\ Agreement /\ [Next]_vars => Agreement'
  BY AgreementStep
<1>3. TypeOK /\ Agreement /\ [Next]_vars =>
        [\A n \in Names \ OOMNames : Ended(n) =>
            IF Complete(n)
            THEN n \in DOMAIN records' /\ records'[n].transfer = wire[n].transfer
            ELSE records' = records]_vars
  <2> SUFFICES ASSUME TypeOK, Agreement, NEW n \in Names \ OOMNames, Ended(n)
               PROVE  [Next]_vars =>
                          IF Complete(n)
                          THEN n \in DOMAIN records' /\ records'[n].transfer = wire[n].transfer
                          ELSE records' = records
    OBVIOUS
  <2>1. [Next]_vars => handle_plot_buffer_end(n)
    BY EndedByEnd
  <2>2. AgreesWithSender(n)
    BY DEF Agreement
  <2> QED
    BY <2>1, <2>2, EndDecides
<1> QED
  BY <1>1, <1>2, <1>3, TypeCorrect, PTL DEF Spec, DeliveredIffComplete
-----------------------------------------------------------------------------
\* What an END or a CONTENTS puts on display the renderer takes.
LEMMA NewIsDrawable ==
    ASSUME TypeOK, TypeOK', NEW x \in DOMAIN records', DeliveredByEnd(x) \/ BroughtWhole(x)
    PROVE  ConfigureAccepts(records'[x].decl, records'[x].size)
<1> DEFINE g == records'[x].decl
<1>1. g \in Decls
  BY DEF TypeOK, RecordOK
<1>2. Geometry(g)
  BY <1>1, DeclsAssumption DEF Geometry
<1>3. PICK n \in 0..SIZE_MAX : /\ HoldsPixels(g, n) /\ within_display_limits(g)
                              /\ ~exceeds_max_buffer_bytes(n)
                              /\ records'[x].size = RecordBytes(g, n)
  <2>1. CASE DeliveredByEnd(x)
    <3>1. /\ g = in_progress[x].decl /\ BeginAccepted(g, g.total)
          /\ records'[x].size = RecordBytes(g, g.total)
      BY <2>1 DEF DeliveredByEnd, EndDelivers, has_in_progress, TypeOK, EntryOK
    <3>2. /\ padded_payload_size(g) # NoSize /\ g.total = padded_payload_size(g)
          /\ within_display_limits(g) /\ ~exceeds_max_buffer_bytes(g.total)
      BY <3>1 DEF BeginAccepted
    <3>3. HoldsPixels(g, g.total) /\ g.total <= SIZE_MAX
      <4> HIDE DEF g
      <4> QED
        BY <1>2, <3>2, PaddedHolds, PaddedSize
    <3>4. g.total \in 0..SIZE_MAX
      BY <3>3, LimitsAssumption DEF HoldsPixels
    <3> QED
      BY <3>1, <3>2, <3>3, <3>4
  <2>2. CASE BroughtWhole(x)
    <3>1. PICK b \in ContentsBytes : /\ ContentsAccepted(g, b)
                                    /\ records'[x].size = RecordBytes(g, b)
      BY <2>2 DEF BroughtWhole
    <3>2. b \in 0..SIZE_MAX
      BY ClientAssumption
    <3>3. HoldsPixels(g, b)
      <4>1. b \in Nat /\ geometry_fits_payload(g, b)
        BY <3>1, <3>2, LimitsAssumption DEF ContentsAccepted
      <4> HIDE DEF g
      <4> QED
        BY <1>2, <4>1, FitsHolds
    <3> QED
      BY <3>1, <3>2, <3>3 DEF ContentsAccepted
  <2> QED
    BY <2>1, <2>2
<1> HIDE DEF g
<1>4. n <= MAX_BUFFER_BYTES
  BY <1>3, UnderCeiling
<1>5. ConfigureAccepts(g, RecordBytes(g, n))
  BY <1>2, <1>3, <1>4, HeldIsConfigured
<1> QED
  BY <1>3, <1>5 DEF g

\* Every buffer on display is one the renderer takes, whatever the peer declares and
\* sends, for every limit: Buffer::configure() refuses none, so no component goes on
\* drawing a span that was freed, and the channel order is one the renderer can use.
THEOREM Drawable == Spec => []ShownIsDrawable
<1>1. Init => ShownIsDrawable
  BY DEF Init, ShownIsDrawable
<1>2. TypeOK /\ TypeOK' /\ ShownIsDrawable /\ [Next]_vars => ShownIsDrawable'
  <2> SUFFICES ASSUME TypeOK, TypeOK', ShownIsDrawable, [Next]_vars, NEW x \in DOMAIN records'
               PROVE  /\ ConfigureAccepts(records'[x].decl, records'[x].size)
                      /\ \/ records'[x].decl.channels = 1
                         \/ is_valid_pixel_layout(records'[x].layout)
    BY DEF ShownIsDrawable, is_valid_pixel_layout
  <2>1. CASE x \in DOMAIN records /\ records'[x] = records[x]
    BY <2>1 DEF ShownIsDrawable
  <2>2. CASE /\ records'[x].layout = resolve_pixel_layout(x, records'[x].decl.layout,
                                                          records'[x].decl.channels)
             /\ DeliveredByEnd(x) \/ BroughtWhole(x)
    BY <2>2, NewIsDrawable, ResolvedUsable
  <2> QED
    BY <2>1, <2>2, RecordsStep
<1> QED
  BY <1>1, <1>2, TypeCorrect, PTL DEF Spec
=============================================================================
