--------------------------- MODULE BufferReaders ---------------------------
(***************************************************************************)
(* Who reads a displayed record, and at which elements: the upload into    *)
(* textures of bounded size and their placement (Buffer), the pixel values *)
(* drawn over a zoomed image (BufferValues), the value under the cursor,   *)
(* the minima and maxima for auto-contrast, and the exporters.  Pure       *)
(* operators over a geometry g of RawDataDecode.  The drawing code works   *)
(* in multiples of half a pixel around the image's centre: such lengths    *)
(* are integers here, counted in half pixels and named with a 2.           *)
(***************************************************************************)
EXTENDS RawDataDecode

CONSTANTS MAX_TEXTURE_SIZE, \* 2048 in the source
          IntBits           \* width of int

ASSUME ReadersAssumption ==
    /\ MAX_TEXTURE_SIZE \in Nat \ {0, 1}
    /\ IntBits \in Nat \ {0}

\* Column or row range 0..n-1.
Upto(n) == 0..(n - 1)

\* channels_ * (y * step_ + x) + c, computed in int.
PixelElement(g, x, y, c) == ToInt(g.channels * (y * g.stride + x) + c, IntBits)
-----------------------------------------------------------------------------
\* setup_gl_buffer(): the tiles along an axis of n pixels, ceil(n / max).
num_textures(n) == (n + MAX_TEXTURE_SIZE - 1) \div MAX_TEXTURE_SIZE

\* min(remaining, max) of tile t.
TileSize(n, t) ==
    LET remaining == n - t * MAX_TEXTURE_SIZE IN
    IF remaining < MAX_TEXTURE_SIZE THEN remaining ELSE MAX_TEXTURE_SIZE

\* The element the driver reads for component c of texel <<i, j>> of a tile, by
\* GL_UNPACK_ROW_LENGTH, SKIP_ROWS and SKIP_PIXELS; computed in the driver's sizes.
UnpackedElement(g, tx, ty, i, j, c) ==
    ((ty * MAX_TEXTURE_SIZE + j) * g.stride + tx * MAX_TEXTURE_SIZE + i) * g.channels + c

setup_gl_buffer(g) ==
    UNION {{UnpackedElement(g, tx, ty, i, j, c) :
               i \in Upto(TileSize(g.width, tx)), j \in Upto(TileSize(g.height, ty)),
               c \in Upto(g.channels)} :
           tx \in Upto(num_textures(g.width)), ty \in Upto(num_textures(g.height))}

\* recompute_min_color_values() and recompute_max_color_values(): every pixel.
reset_contrast_brightness_parameters(g) ==
    {PixelElement(g, x, y, c) : x \in Upto(g.width), y \in Upto(g.height), c \in Upto(g.channels)}

\* Mutant of draw(): the starting position ignores the odd half pixel.
Bug_StartIgnoresOdd(n, t) ==
    -n + 2 * t * MAX_TEXTURE_SIZE + (TileSize(n, t) % 2)

\* draw(): the left (top) edge of tile t of n pixels.  The position starts half
\* a pixel further out for an odd n, and an odd tile takes half a pixel back.
TileEdge2(n, t) ==
    LET size == TileSize(n, t)
        start2 == -n - (n % 2)
        before2 == t * (2 * MAX_TEXTURE_SIZE + (MAX_TEXTURE_SIZE % 2))
        centre2 == start2 + before2 + size + (size % 2)
    IN centre2 - size
-----------------------------------------------------------------------------
\* A float of half pixels converted to int: towards zero.
Truncated(h2) == IF h2 >= 0 THEN h2 \div 2 ELSE -((-h2) \div 2)

clamp(v, lo, hi) == IF v < lo THEN lo ELSE IF v > hi THEN hi ELSE v

pos_center(n) == Truncated(-n)

\* BufferValues::draw(): the columns (rows) whose values are drawn when the view
\* spans tl to br, truncated and rounded up to whole pixels from the centre.
LabelRange(n, tl, br) ==
    LET lower == Truncated(clamp(2 * tl - 2, -n, n - 2))
        upper == Truncated(clamp(2 * br + 2, -(n + 1) + 2, n + 1))
    IN (lower - pos_center(n))..(upper - pos_center(n) - 1)

\* draw_text(): the centre of the value of pixel x; half a pixel on if n is even.
LabelCentre2(n, x) == 2 * (x + pos_center(n)) + (IF n % 2 = 0 THEN 1 ELSE 0)

\* The pixel whose colour the text is contrasted with, from the label's position.
LabelPixel(n, x) == Truncated(2 * (x + pos_center(n)) + n)

\* sub_texture_id_at_coord(): the tile of that pixel; an index past the tiles
\* would be past the end of buff_tex_.
sub_texture_id_at_coord(x) == x \div MAX_TEXTURE_SIZE

\* tile_coord_x(), tile_coord_y(): the pixel's place in its tile, as a fraction
\* [num, den] of the tile's last texel.
tile_coord(n, x) ==
    LET last == n % MAX_TEXTURE_SIZE
        size == IF x > n - last THEN last ELSE MAX_TEXTURE_SIZE
    IN [num |-> x % MAX_TEXTURE_SIZE, den |-> size - 1]

\* draw_pixel_values() of the pixels xs by ys: all channels or the isolated one.
draw_pixel_values(g, xs, ys, isolated) ==
    {PixelElement(g, x, y, c) :
        x \in xs, y \in ys,
        c \in IF isolated = -1 THEN Upto(g.channels)
              ELSE {IF isolated < g.channels THEN isolated ELSE 0}}

\* get_pixel_info(): the value under the cursor, wherever the cursor is.
get_pixel_info(g, x, y, isolated) ==
    IF x \notin Upto(g.width) \/ y \notin Upto(g.height) THEN {}
    ELSE {PixelElement(g, x, y, c) :
             c \in (IF isolated = -1 THEN Upto(g.channels) ELSE {isolated}) \cap Upto(g.channels)}
-----------------------------------------------------------------------------
\* normalize_to_rgba8_impl(), export_octave_impl() and export_npy_impl(): the
\* width of each row, rows a stride apart; computed in size_t.
ExportedRow(g, y) == [i \in 1..(g.width * g.channels) |-> y * g.stride * g.channels + i - 1]

ExportedElements(g) == UNION {{ExportedRow(g, y)[i] : i \in 1..(g.width * g.channels)} : y \in Upto(g.height)}

\* The element type *_raw() dispatches on: what a record of doubles holds is floats.
ExportedElementSize(t) ==
    CASE t = UNSIGNED_BYTE -> 1
      [] t \in {UNSIGNED_SHORT, SHORT} -> 2
      [] t \in {INT32, FLOAT32, FLOAT64} -> 4

\* npy_descr(): doubles are held, and written, as floats.
npy_descr(t) == IF t = FLOAT64 THEN FLOAT32 ELSE t

\* write_npy_header(): the shape, without a channel axis for a single channel.
NpyShape(g) ==
    IF g.channels = 1 THEN <<g.height, g.width>> ELSE <<g.height, g.width, g.channels>>

\* export_npy_impl(): the payload's bytes, packed rows.
NpyBytes(g) == g.height * g.width * g.channels * type_size(npy_descr(g.type))
=============================================================================
