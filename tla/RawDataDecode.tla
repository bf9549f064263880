--------------------------- MODULE RawDataDecode ---------------------------
(***************************************************************************)
(* The size rules every buffer passes through on its way to the screen:    *)
(* the wire layer's raw_data_decode.{h,cpp}, the file loader's own rules   *)
(* (npy_decode.cpp, file_buffer_loader.cpp), the renderer's in             *)
(* buffer_span_fits.h / Buffer::configure(), and the FLOAT64 narrowing of  *)
(* make_buffer_record() between them.  Pure operators: a geometry is a     *)
(* record [width, height, channels, stride, type] of plain integers, as    *)
(* the wire carries it.                                                    *)
(***************************************************************************)
EXTENDS Integers, Sequences

CONSTANTS MAX_BUFFER_BYTES,     \* 16 GiB in the source
          MAX_BUFFER_DIMENSION, \* 131072 in the source
          MAX_CHANNEL_COUNT,    \* 4 in the source
          SIZE_MAX              \* numeric_limits<size_t>::max()

ASSUME LimitsAssumption ==
    /\ MAX_BUFFER_BYTES \in Nat
    /\ MAX_BUFFER_DIMENSION \in Nat \ {0}
    /\ MAX_CHANNEL_COUNT \in Nat \ {0}
    /\ SIZE_MAX \in Nat \ {0}

\* enum class BufferType
UNSIGNED_BYTE == 0
UNSIGNED_SHORT == 2
SHORT == 3
INT32 == 4
FLOAT32 == 5
FLOAT64 == 6

is_known_buffer_type(t) ==
    t \in {UNSIGNED_BYTE, UNSIGNED_SHORT, SHORT, INT32, FLOAT32, FLOAT64}

\* sizeof the element; an unknown type is sized as one byte.
type_size(t) ==
    CASE t \in {INT32, FLOAT32} -> 4
      [] t \in {SHORT, UNSIGNED_SHORT} -> 2
      [] t = FLOAT64 -> 8
      [] OTHER -> 1

exceeds_max_buffer_bytes(n) == SIZE_MAX > MAX_BUFFER_BYTES /\ n > MAX_BUFFER_BYTES

within_display_limits(g) ==
    /\ g.width \in 1..MAX_BUFFER_DIMENSION
    /\ g.height \in 1..MAX_BUFFER_DIMENSION
    /\ g.channels \in 1..MAX_CHANNEL_COUNT

\* The shape test both sizing helpers start with.
Renderable(g) ==
    /\ g.width > 0 /\ g.height > 0 /\ g.channels > 0
    /\ g.stride >= g.width

\* std::nullopt of padded_payload_size().
NoSize == -1

\* Mutant of padded_payload_size(): multiplies in size_t unchecked.
Bug_TimesWraps(size, factor) ==
    IF size = NoSize THEN NoSize ELSE (size * factor) % (SIZE_MAX + 1)

\* size *= factor, refused before it can leave size_t.
CheckedTimes(size, factor) ==
    IF size = NoSize \/ size > SIZE_MAX \div factor THEN NoSize ELSE size * factor

padded_payload_size(g) ==
    IF is_known_buffer_type(g.type) /\ Renderable(g)
    THEN CheckedTimes(CheckedTimes(CheckedTimes(g.stride, g.height), g.channels),
                      type_size(g.type))
    ELSE NoSize

\* Pixels the renderer can address: the last row needs only its width.
PixelsAddressed(g) == (g.height - 1) * g.stride + g.width

\* Mutant: rows taken as packed.
Bug_FitsIgnoresStride(g, byte_count) ==
    /\ is_known_buffer_type(g.type)
    /\ Renderable(g)
    /\ byte_count \div (g.channels * type_size(g.type)) >= g.height * g.width

geometry_fits_payload(g, byte_count) ==
    /\ is_known_buffer_type(g.type)
    /\ Renderable(g)
    /\ byte_count \div (g.channels * type_size(g.type)) >= PixelsAddressed(g)

\* make_buffer_record(): a FLOAT64 payload is narrowed to float, element by
\* element (a trailing partial element is dropped); any other is moved.
RecordBytes(g, byte_count) ==
    IF g.type = FLOAT64 THEN (byte_count \div 8) * 4 ELSE byte_count

\* The element size the renderer reads a record with.
display_element_size(t) ==
    CASE t \in {SHORT, UNSIGNED_SHORT} -> 2
      [] t \in {INT32, FLOAT32, FLOAT64} -> 4
      [] OTHER -> 1

buffer_span_fits(g, element_size, byte_count) ==
    /\ Renderable(g)
    /\ byte_count \div (g.channels * element_size) >= PixelsAddressed(g)

\* Buffer::configure(): the checks a record must pass before the component
\* takes its span.  A refused record leaves the component's old span in place.
ConfigureAccepts(g, byte_count) ==
    /\ byte_count > 0
    /\ within_display_limits(g)
    /\ g.stride >= g.width
    /\ byte_count <= MAX_BUFFER_BYTES
    /\ buffer_span_fits(g, display_element_size(g.type), byte_count)

\* IpcClient::handle_plot_buffer_contents(): the single-shot path.  The byte
\* vector itself was capped while it was decoded (MessageDecoder::read).
ContentsAccepted(g, byte_count) ==
    /\ ~exceeds_max_buffer_bytes(byte_count)
    /\ is_known_buffer_type(g.type)
    /\ within_display_limits(g)
    /\ geometry_fits_payload(g, byte_count)

\* BufferAssembler::begin(): the row-strip path.
BeginAccepted(g, total) ==
    /\ is_known_buffer_type(g.type)
    /\ ~exceeds_max_buffer_bytes(total)
    /\ within_display_limits(g)
    /\ padded_payload_size(g) # NoSize
    /\ padded_payload_size(g) = total

\* sysinfo.get_buffer_size(): the bytes a debugger reads for a variable.
get_buffer_size(g) == type_size(g.type) * g.channels * g.stride * g.height

\* A w-bit two's-complement int, and its conversion to size_t.
ToInt(n, w) == ((n + 2^(w - 1)) % 2^w) - 2^(w - 1)
ToSize(n) == n % (SIZE_MAX + 1)

\* layout_from_shape(): the image a NumPy shape stands for; a Fortran-order
\* matrix is its transpose.  {} is the error.
layout_from_shape(dims, fortran, type) ==
    LET Layout(w, h, c) == [width |-> w, height |-> h, channels |-> c, stride |-> w, type |-> type]
        image == CASE Len(dims) = 2 /\ fortran  -> {Layout(dims[1], dims[2], 1)}
                   [] Len(dims) = 2 /\ ~fortran -> {Layout(dims[2], dims[1], 1)}
                   [] Len(dims) = 3 /\ ~fortran -> {Layout(dims[2], dims[1], dims[3])}
                   [] OTHER -> {}
    IN {g \in image : within_display_limits(g)}

\* decode_npy(): the payload of a file must be exactly the product of the
\* shape, taken in size_t; map_dtype() yields the known types only.
NpyPayloadMatches(dims, type, byte_count) ==
    /\ is_known_buffer_type(type)
    /\ byte_count = ToSize(dims[1] * dims[2] * (IF Len(dims) = 3 THEN dims[3] ELSE 1)
                           * type_size(type))

\* decode_file_bytes() takes a .npy file of this shape as buffer g.
NpyAccepted(dims, fortran, g, byte_count) ==
    g \in layout_from_shape(dims, fortran, g.type) /\ NpyPayloadMatches(dims, g.type, byte_count)

\* decode_stb(): what the header claims is bounded before anything is decoded,
\* every element counted as a float; the decoder returns one to four channels.
StbAccepted(g, byte_count) ==
    /\ g.width \in 1..MAX_BUFFER_DIMENSION /\ g.height \in 1..MAX_BUFFER_DIMENSION
    /\ g.channels \in 1..MAX_CHANNEL_COUNT /\ g.stride = g.width
    /\ g.width * g.height * g.channels * 4 <= MAX_BUFFER_BYTES
    /\ g.type \in {UNSIGNED_BYTE, UNSIGNED_SHORT, FLOAT32}
    /\ byte_count = ToSize(g.width * g.height * g.channels * type_size(g.type))

\* Mutant of oid_plot_buffer(): expects packed rows.
Bug_ExpectsPackedRows(g, int_bits) ==
    ToSize(ToSize(ToInt(ToInt(g.width * g.height, int_bits) * g.channels, int_bits))
           * type_size(g.type))

\* oid_plot_buffer(): the size the bridge demands of a debugger buffer.  The
\* product stride * height * channels is taken in int before it is widened.
buff_size_expected(g, int_bits) ==
    ToSize(ToSize(ToInt(ToInt(g.stride * g.height, int_bits) * g.channels, int_bits))
           * type_size(g.type))

\* oid_plot_buffer() refuses a "shorter buffer then expected".
BridgeAccepts(g, int_bits, byte_count) == byte_count >= buff_size_expected(g, int_bits)

\* Mutant: the type is reported as it was plotted.
Bug_ReportsPlottedType(t) == t

\* The type of the bytes an agent is served: a FLOAT64 record holds floats.
wire_buffer_type(t) == IF t = FLOAT64 THEN FLOAT32 ELSE t

\* AgentCore::handle_get_buffer(): a sound shape whose declared size, and whose
\* actual one, keep to the cap; the fold leaves off before it can overflow.
handle_get_buffer(g, record_bytes, max_bytes) ==
    /\ Renderable(g)
    /\ g.stride * g.channels * type_size(wire_buffer_type(g.type)) * g.height <= max_bytes
    /\ record_bytes <= max_bytes

\* decode_buffer() of the MCP server: raises unless all rows are there in full,
\* the last one's padding included.
decode_buffer(g, type, raw_bytes) ==
    /\ is_known_buffer_type(type)
    /\ Renderable(g)
    /\ raw_bytes >= g.height * g.stride * g.channels * type_size(type)
=============================================================================
