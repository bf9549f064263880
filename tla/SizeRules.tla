----------------------------- MODULE SizeRules -----------------------------
(***************************************************************************)
(* RawDataDecode's rules checked against each other and against reference  *)
(* definitions, over every geometry and byte count within small bounds.    *)
(* The limits are scaled down with the integers: a few bits stand for      *)
(* int, size_t and the 16 GiB ceiling, in the order they have in the build *)
(* being modelled.                                                         *)
(***************************************************************************)
EXTENDS BufferReaders

CONSTANTS Widths, Heights, Channels, Strides, Types, Counts, \* what a peer may claim
          MAX_OPEN_FILE_BYTES, \* 512 MiB in the source
          NPY_HEADER_BYTES,    \* 128 in the source, for every shape on display
          AgentMaxBytes      \* an agent's cap: max_bytes, at most DEFAULT_MAX_BYTES

ASSUME RangesAssumption ==
    /\ Widths \cup Heights \cup Channels \cup Strides \cup Types \subseteq Int
    /\ Counts \subseteq 0..SIZE_MAX
    /\ MAX_OPEN_FILE_BYTES \in 0..MAX_BUFFER_BYTES
    /\ NPY_HEADER_BYTES \in Nat /\ AgentMaxBytes \in Nat

VARIABLES geometry, byte_count

sizeVars == <<geometry, byte_count>>

\* Every claim of a peer or a file.
SizeInit ==
    /\ geometry \in [width : Widths, height : Heights, channels : Channels,
                     stride : Strides, type : Types]
    /\ byte_count \in Counts
-----------------------------------------------------------------------------
\* Elements of the record, as the renderer reads them.
ElementsHeld(g, n) == RecordBytes(g, n) \div display_element_size(g.type)

\* load_buffer_from_file() of a .npy file: its size is limited before it is read.
load_buffer_from_file(header_bytes, dims, fortran, g, n) ==
    /\ header_bytes + n <= MAX_OPEN_FILE_BYTES
    /\ NpyAccepted(dims, fortran, g, n)

\* The buffer came from a .npy or an image file; the header that some program
\* wrote is not counted.  The loaders multiply in size_t and do not check the
\* product: that it fits is a property of the 64-bit builds, where 131072 x 131072
\* x 4 doubles is far from the end of size_t.
FromFile ==
    LET g == geometry IN
    /\ \/ StbAccepted(g, byte_count)
       \/ \E dims \in {<<g.height, g.width>>, <<g.width, g.height>>,
                       <<g.height, g.width, g.channels>>}, fortran \in BOOLEAN :
              load_buffer_from_file(0, dims, fortran, g, byte_count)
    /\ g.width * g.height * g.channels * type_size(g.type) <= SIZE_MAX

\* A record of this geometry and size can reach the model: by a single message,
\* by row strips, or from a file.
Delivered ==
    \/ ContentsAccepted(geometry, byte_count)
    \/ BeginAccepted(geometry, byte_count)
    \/ FromFile

\* The columns (rows) whose values are drawn in some view.
DrawnUnderSomeView(n) ==
    UNION {LabelRange(n, tl, br) : tl \in -(n + 2)..(n + 2), br \in -(n + 2)..(n + 2)}

\* Everything that is read of a record while it is shown; isolated is
\* the channel the Format combo singled out, or -1.
ElementsRead(g, isolated) ==
    setup_gl_buffer(g) \cup reset_contrast_brightness_parameters(g)
    \cup draw_pixel_values(g, DrawnUnderSomeView(g.width), DrawnUnderSomeView(g.height), isolated)
    \cup UNION {get_pixel_info(g, x, y, isolated) : x \in -1..g.width, y \in -1..g.height}

\* No reader checks an index against the span.  Whatever the wire layer or the
\* file loader took, every element read is inside the record -- after the FLOAT64
\* narrowing, for trimmed last rows and for every view -- provided the elements
\* can be counted in an int, in which Buffer and BufferValues compute the index.
EveryPixelInside ==
    LET g == geometry IN
    (Delivered /\ PixelsAddressed(g) * g.channels <= 2^(IntBits - 1)) =>
        /\ \A isolated \in -1..2 :
              ElementsRead(g, isolated) \subseteq Upto(ElementsHeld(g, byte_count))
        /\ ExportedElements(g)
              \subseteq Upto(RecordBytes(g, byte_count) \div ExportedElementSize(g.type))

\* Along an axis of n pixels: pixel x is a texel of exactly one tile and is drawn
\* at its place, but half a pixel off in the tiles of an odd n that are not the
\* last; its value is drawn in its middle and contrasted with its own texel.
InPlace(n, x) ==
    \E t \in Upto(num_textures(n)) :
        LET i == x - t * MAX_TEXTURE_SIZE
            seam == n % 2 = 1 /\ t < num_textures(n) - 1
            coord == tile_coord(n, LabelPixel(n, x)) IN
        /\ i \in Upto(TileSize(n, t))
        /\ TileEdge2(n, t) + 2 * i = (-n + 2 * x) - (IF seam THEN 1 ELSE 0)
        /\ LabelCentre2(n, x) = -n + 2 * x + 1
        /\ LabelPixel(n, x) = x /\ sub_texture_id_at_coord(LabelPixel(n, x)) = t
        /\ coord.num = i /\ coord.den > 0 /\ (i > 0 => coord.den = TileSize(n, t) - 1)

\* Texture, pixel values and cursor agree on where a pixel is, for images of one
\* and of several tiles, even and odd (setup_gl_buffer(), draw(), draw_text()); a
\* view of the whole image has every value drawn.
PixelsInPlace ==
    Delivered =>
        \A n \in {geometry.width, geometry.height} :
            /\ \A x \in Upto(n) : InPlace(n, x)
            /\ LabelRange(n, -n, n) = Upto(n)

\* Neither the wire layer nor the file loader takes a buffer the renderer then
\* refuses: Buffer::configure() would keep the span of the record that was
\* replaced, which is freed memory (stage_manager.cpp sync(), buffer.cpp
\* configure()).
DeliveredImpliesConfigure ==
    Delivered => ConfigureAccepts(geometry, RecordBytes(geometry, byte_count))

\* What the bridge forwards the viewer displays: for a geometry inside the
\* display limits whose element count fits the bridge's int, oid_plot_buffer()
\* raises exactly for a buffer shorter than its padded rows, and a buffer it
\* sends is one handle_plot_buffer_contents() takes (unless over the ceiling).
\* The bytes the debugger reads of a variable are what the bridge demands.
BridgeAgreesWithViewer ==
    LET g == geometry
        elements == g.stride * g.height * g.channels IN
    (/\ is_known_buffer_type(g.type) /\ within_display_limits(g) /\ g.stride >= g.width
     /\ elements = ToInt(elements, IntBits)
     /\ elements * type_size(g.type) <= SIZE_MAX) =>
        /\ get_buffer_size(g) = buff_size_expected(g, IntBits)
        /\ BridgeAccepts(g, IntBits, byte_count)
               <=> byte_count >= elements * type_size(g.type)
        /\ BridgeAccepts(g, IntBits, byte_count) =>
               ContentsAccepted(g, byte_count) \/ byte_count > MAX_BUFFER_BYTES

\* What leaves the viewer can be read again.  For a buffer on display whose rows
\* are all there in full, as the bridge, a row-strip transfer and the file loader
\* send them, get_buffer answers if and only if the bytes keep to the cap, and the
\* MCP server's decode_buffer() then makes an array of them -- FLOAT64 included,
\* which the viewer holds and serves as FLOAT32.  And the .npy file a buffer was
\* exported to is loaded if and only if it keeps to the loader's limit, as an array
\* of the buffer's width, height, channels and element type on display and of its
\* elements without the padding.  (The pixel layout and the transposition are not
\* in the file: what the channels mean, and which way up, the loader guesses.)
ReadBack ==
    LET g == geometry
        held == RecordBytes(g, byte_count)
        served == handle_get_buffer(g, held, AgentMaxBytes)
        saved == [g EXCEPT !.stride = g.width, !.type = npy_descr(g.type)] IN
    Delivered =>
        /\ byte_count >= g.stride * g.height * g.channels * type_size(g.type) =>
              /\ served <=> held <= AgentMaxBytes
              /\ served => decode_buffer(g, wire_buffer_type(g.type), held)
        /\ type_size(saved.type) = ExportedElementSize(g.type)
        /\ load_buffer_from_file(NPY_HEADER_BYTES, NpyShape(g), FALSE, saved, NpyBytes(g))
              <=> NPY_HEADER_BYTES + NpyBytes(g) <= MAX_OPEN_FILE_BYTES
        /\ \A x \in Upto(g.width), y \in Upto(g.height), c \in Upto(g.channels) :
              ExportedRow(g, y)[x * g.channels + c + 1] = g.channels * (y * g.stride + x) + c
=============================================================================
