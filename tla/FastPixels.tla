----------------------------- MODULE FastPixels -----------------------------
(***************************************************************************)
(* The inline functions of image/xcb_pixel.h that get and put pixels of    *)
(* one layout each, used on the same images as xcb_image_get_pixel and     *)
(* xcb_image_put_pixel.  They check nothing: the layout has to fit, and    *)
(* pixels have no more bits than the depth.                                *)
(***************************************************************************)
EXTENDS ImagePixels

CONSTANTS
    FastWidth,      \* the width of images with several units in a row,
    FastSources     \* and the formats in which the client creates them

ASSUME FastAssumption ==
    /\ FastWidth \in Nat /\ FastWidth > Width
    /\ \A f \in FastSources : ImageFormat(f)

\* The formats of 24 bits per pixel all have one byte order: the library does
\* not convert between the two.
OneOrderOf24(order) ==
    /\ \A f \in Sources \cup Targets \cup FastSources :
          effective_format(f) = "Z" /\ f.bpp = 24 => f.byte_order = order
    /\ \A server \in Servers : \A fmt \in server.formats : fmt.bpp = 24 => server.byte_order = order

Variant == {"XY32M", "XY32L", "Z8", "Z32M", "Z32L"}

IsBitmap32(im, byte, bit) ==
    /\ effective_format(im) = "XY" /\ im.depth = 1 /\ im.unit = 32
    /\ im.byte_order = byte /\ im.bit_order = bit

IsPixmap(im, bpp, byte) == im.format = "Z" /\ im.bpp = bpp /\ im.byte_order \in byte

\* The layouts the functions are right for: those of bitmaps are for least
\* significant bytes first, and the letter is the order of the bits.
Suits(variant, im) ==
    \/ variant = "XY32M" /\ IsBitmap32(im, LSB, MSB)
    \/ variant = "XY32L" /\ IsBitmap32(im, LSB, LSB)
    \/ variant = "Z8"    /\ IsPixmap(im, 8, {LSB, MSB})
    \/ variant = "Z32M"  /\ IsPixmap(im, 32, {MSB})
    \/ variant = "Z32L"  /\ IsPixmap(im, 32, {LSB})

\* Mutant: bytes are counted from the start of the row, not of the unit.
PlaceInRow(variant, im, x, y, p) ==
    LET row == y * stride(im, im.width)
    IN  CASE variant = "XY32M" -> <<row + 3 - ((x \div 8) % 4), 7 - (x % 8)>>
          [] variant = "XY32L" -> <<row + (x \div 8), x % 8>>
          [] variant = "Z8"    -> <<row + x, p>>
          [] variant = "Z32M"  -> <<row + 4 * x + 3 - (p \div 8), p % 8>>
          [] variant = "Z32L"  -> <<row + 4 * x + (p \div 8), p % 8>>

\* The byte and the bit in it of bit p of the pixel at (x, y).
FastPlace(variant, im, x, y, p) ==
    LET row == y * stride(im, im.width)
    IN  CASE variant = "XY32M" -> <<row + Floor(x \div 8, 4) + 3 - ((x \div 8) % 4), 7 - (x % 8)>>
          [] variant = "XY32L" -> <<row + (x \div 8), x % 8>>
          [] variant = "Z8"    -> <<row + x, p>>
          [] variant = "Z32M"  -> <<row + 4 * x + 3 - (p \div 8), p % 8>>
          [] variant = "Z32L"  -> <<row + 4 * x + (p \div 8), p % 8>>

xcb_image_put_pixel_fast(variant, im, storage, x, y, pixel) ==
    Over(Layer([p \in 0 .. im.bpp - 1 |-> FastPlace(variant, im, x, y, p)], Fit(pixel, im.bpp)),
         storage)

xcb_image_get_pixel_fast(variant, im, storage, x, y) ==
    [p \in 0 .. im.bpp - 1 |-> storage[FastPlace(variant, im, x, y, p)]]

PutPixelFast(variant, x, y) ==
    /\ Step /\ Suits(variant, image)
    /\ LET pixel == [p \in 0 .. image.depth - 1 |-> <<"fast", p>>]
       IN  /\ data' = xcb_image_put_pixel_fast(variant, image, data, x, y, pixel)
           /\ drawn' = [drawn EXCEPT ![<<x, y>>] = Fit(pixel, image.bpp)]
    /\ UNCHANGED <<image, window>>

\* Images as in ImagePixels, and wider ones of FastSources, into which the
\* client puts pixels.
FastInit == Init \/ \E f \in FastSources : Filled(f, FastWidth, Height)

PutAny(x, y) == PutPixel(x, y) \/ \E variant \in Variant : PutPixelFast(variant, x, y)

FastNext ==
    \/ image.width <= Width /\ Next
    \/ image.width > Width /\ \E xy \in Coordinates(image) : PutAny(xy[1], xy[2])

FastSpec == FastInit /\ [][FastNext]_vars

-----------------------------------------------------------------------------
(* Properties.                                                              *)

FastPicture(variant) ==
    [xy \in Coordinates(image) |-> xcb_image_get_pixel_fast(variant, image, data, xy[1], xy[2])]

\* However puts of both kinds are mixed, both ways of getting a pixel see what
\* was put last ("Fast inline versions of xcb_image_get_pixel() and
\* xcb_image_put_pixel()", xcb_pixel.h:39).
FastAgrees ==
    StoresInside(image) =>
        /\ Picture(image, data) = drawn
        /\ \A variant \in Variant : Suits(variant, image) => FastPicture(variant) = drawn
=============================================================================
