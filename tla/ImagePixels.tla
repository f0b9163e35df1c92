---------------------------- MODULE ImagePixels ----------------------------
(***************************************************************************)
(* Images and their conversion: image/xcb_image.c.                         *)
(*                                                                         *)
(* An image is a header, which says in what format the pixels are stored,  *)
(* and the storage.  A client creates an image and puts pixels into it,    *)
(* extracts a part of it, converts it to another format or to the one a    *)
(* server uses, sends it to a drawable and gets it back.                   *)
(*                                                                         *)
(* The library only moves bits, so a bit is modelled by its origin: <<x,   *)
(* y, p>> is bit p of the pixel the client drew at (x, y).  Storage is a   *)
(* function on <<byte, bit>>; a write beyond the allocated storage extends *)
(* its domain.                                                             *)
(*                                                                         *)
(* An xy-bitmap is stored like an xy-pixmap; "XY" is both of them.  The    *)
(* plane mask is that of the depth: only xcb_image_get sets another one,   *)
(* and it is modelled for all planes.                                      *)
(*                                                                         *)
(* Of some formats that are valid there can be images whose pixels do not  *)
(* lie inside their storage.  Filling one overwrites what comes after it,  *)
(* and what the program does then is undefined: no step follows.           *)
(*                                                                         *)
(* A server is a record: byte_order, bit_order, unit and pad are those of  *)
(* its bitmaps, formats has a record (depth, bpp, pad) for every depth.    *)
(***************************************************************************)
EXTENDS Integers

CONSTANTS
    Width, Height,  \* the size of the client's image
    Sources,        \* the formats in which the client creates images
    Targets,        \* the formats to which it converts images
    Servers,        \* what the servers' setups say of images
    MaxSteps        \* bound: puts, extractions and conversions

ASSUME SizeAssumption == Width \in Nat \ {0} /\ Height \in Nat \ {0}

ASSUME BoundAssumption == MaxSteps \in Nat

LSB == "LSBFirst"
MSB == "MSBFirst"

VARIABLES
    image,      \* the header of the client's image
    data,       \* its storage
    drawn,      \* the pixels the client has put into it
    window,     \* what the client has put into a drawable, or Nothing
    steps

vars == <<image, data, drawn, window, steps>>

\* The value of a bit: clear, uninitialised, or bit p of a pixel.
Zero == <<>>
Junk == <<0>>
PixelBit(x, y, p) == <<x, y, p>>
NewBit(p) == <<p, 1>>

Nothing == [server |-> "none"]

-----------------------------------------------------------------------------
(* Headers.                                                                 *)

\* The largest multiple of n up to k, and the smallest from k on.
Floor(k, n) == k - (k % n)
xcb_roundup(k, n) == Floor(k + n - 1, n)

effective_format(f) == IF f.format = "Z" /\ f.bpp # 1 THEN "Z" ELSE "XY"

format_valid(f) ==
    /\ f.depth <= f.bpp
    /\ \/ /\ effective_format(f) = "XY"
          /\ {f.unit, f.pad} \subseteq {8, 16, 32}
          /\ f.pad >= f.bpp
       \/ /\ effective_format(f) = "Z"
          /\ f.bpp \in {4, 8, 16, 24, 32}
          /\ f.unit = IF f.bpp = 4 THEN 8 ELSE f.bpp

\* Bytes per row, and bytes in all.
stride(f, width) ==
    xcb_roundup(IF effective_format(f) = "XY" THEN width ELSE width * f.bpp, f.pad) \div 8

Size(im) ==
    im.height * stride(im, im.width) * (IF effective_format(im) = "XY" THEN im.depth ELSE 1)

\* The formats there are images of.
ImageFormat(f) ==
    /\ f \in [format : {"XY", "Z"}, pad : {8, 16, 32}, depth : Nat \ {0}, bpp : Nat \ {0},
              unit : {8, 16, 24, 32}, byte_order : {LSB, MSB}, bit_order : {LSB, MSB}]
    /\ format_valid(f)

ASSUME FormatAssumption == \A f \in Sources \cup Targets : ImageFormat(f)

\* Do the pixels of an image, whatever its size, lie inside its storage?  There
\* is storage for as many planes as the depth has, and bytes that trade places
\* in a unit stay in a row of whole units only.
StoresInside(f) ==
    effective_format(f) = "XY" => /\ f.bpp = f.depth
                                  /\ f.byte_order # f.bit_order => f.unit <= f.pad

\* The image of a format and a size.
Header(f, width, height) ==
    [width |-> width, height |-> height, format |-> f.format, pad |-> f.pad,
     depth |-> f.depth, bpp |-> f.bpp, unit |-> f.unit, byte_order |-> f.byte_order,
     bit_order |-> f.bit_order]

\* What xcb_image_create allocates.
Fresh(im) == [c \in (0 .. Size(im) - 1) \X (0 .. 7) |-> Junk]

Coordinates(im) == (0 .. im.width - 1) \X (0 .. im.height - 1)

\* The pixel a scan row after row visits after k others.
Scan(im, k) == <<k % im.width, k \div im.width>>

-----------------------------------------------------------------------------
(* Pixels: functions from bit numbers to bits.                              *)

\* Exclusive or of a number and one below 4.
Xor(k, flip) ==
    LET low(n) == n % 2
    IN  Floor(k, 4) + ((low(k) + low(flip)) % 2) + 2 * ((low(k \div 2) + low(flip \div 2)) % 2)

\* Which bytes of a scanline trade places in a unit of that many bits.
UnitFlip(unit) == IF unit = 16 THEN 1 ELSE IF unit = 32 THEN 3 ELSE 0

\* Mutant: the bytes of a unit are always in order.
BytesInOrder(im, x) == x \div 8

xy_image_byte(im, x) ==
    IF im.byte_order = im.bit_order THEN x \div 8 ELSE Xor(x \div 8, UnitFlip(im.unit))

xy_image_bit(im, x) == IF im.bit_order = MSB THEN 7 - (x % 8) ELSE x % 8

\* Where bit p of the pixel at (x, y) is stored: its byte and its bit.
Place(im, x, y, p) ==
    LET row   == y * stride(im, im.width)
        plane == im.height * stride(im, im.width)
        bytes == im.bpp \div 8
    IN  IF effective_format(im) = "XY"
        THEN <<(im.bpp - 1 - p) * plane + row + xy_image_byte(im, x), xy_image_bit(im, x)>>
        ELSE IF im.bpp = 4
        THEN <<row + (x \div 2), IF (x % 2 = 1) <=> (im.byte_order = MSB) THEN p + 4 ELSE p>>
        ELSE <<row + x * bytes + (IF im.byte_order = MSB THEN bytes - 1 - (p \div 8) ELSE p \div 8),
               p % 8>>

\* The bits that are stored: those that the plane mask selects.
Stored(im) == 0 .. (IF effective_format(im) = "XY" THEN im.depth ELSE im.bpp) - 1

\* A pixel with another number of bits.
Fit(pixel, bits) == [p \in 0 .. bits - 1 |-> IF p \in DOMAIN pixel THEN pixel[p] ELSE Zero]

\* A storage on top of another one.
Over(new, old) == [c \in DOMAIN new \cup DOMAIN old |-> IF c \in DOMAIN new THEN new[c] ELSE old[c]]

\* Layers on top of a storage, a later one on top of an earlier one.
Layered(storage, layers, n) ==
    LET upto[k \in 0 .. n] == IF k = 0 THEN storage ELSE Over(layers[k], upto[k - 1])
    IN  upto[n]

\* The bits of a pixel at their places.
Layer(place, pixel) ==
    [c \in {place[p] : p \in DOMAIN place} |-> pixel[CHOOSE p \in DOMAIN place : place[p] = c]]

Places(im, x, y) == [p \in Stored(im) |-> Place(im, x, y, p)]

xcb_image_put_pixel(im, storage, x, y, pixel) ==
    IF x > im.width \/ y > im.height THEN storage
    ELSE Over(Layer(Places(im, x, y), Fit(pixel, im.bpp)), storage)

xcb_image_get_pixel(im, storage, x, y) ==
    [p \in 0 .. im.bpp - 1 |-> IF p \in Stored(im) THEN storage[Place(im, x, y, p)] ELSE Zero]

\* Storage with the pixels of a picture at their places, put one after the other.
Painted(im, storage, places, picture) ==
    LET n == im.width * im.height
    IN  Layered(storage, [k \in 1 .. n |-> Layer(places[Scan(im, k - 1)], picture[Scan(im, k - 1)])], n)

\* xcb_image_put_pixel for all pixels.
PutAll(im, storage, picture) ==
    Painted(im, storage, [xy \in Coordinates(im) |-> Places(im, xy[1], xy[2])],
            [xy \in Coordinates(im) |-> Fit(picture[xy], im.bpp)])

Picture(im, storage) ==
    [xy \in Coordinates(im) |-> xcb_image_get_pixel(im, storage, xy[1], xy[2])]

-----------------------------------------------------------------------------
(* xcb_image_convert                                                        *)

byte_order(f) == IF f.byte_order = MSB /\ f.bpp \in {16, 32} THEN UnitFlip(f.bpp) ELSE 0
bit_order(f)  == IF f.byte_order # f.bit_order THEN UnitFlip(f.unit) ELSE 0

\* Mutant: the bytes of xy units are left in their places.
NoUnitSwap(from, to) ==
    IF effective_format(from) = "XY" THEN 0 ELSE Xor(byte_order(from), byte_order(to))

conversion_byte_swap(from, to) ==
    IF effective_format(from) = "XY" THEN Xor(bit_order(from), bit_order(to))
    ELSE Xor(byte_order(from), byte_order(to))

\* The bit of the source's byte that becomes bit b.
SwappedBit(from, to, b) ==
    IF effective_format(from) = "Z"
    THEN IF from.bpp = 4 /\ from.byte_order # to.byte_order THEN (b + 4) % 8 ELSE b
    ELSE IF from.bit_order # to.bit_order THEN 7 - b ELSE b

\* Mutant: no byte is left out.
FitsAnywhere(d, row) == TRUE

\* "if (d > dst_stride) continue;"
FitsRow(d, row) == d <= row

\* Row after row, later rows on top of earlier ones.
swap_image(from, storage, to) ==
    LET old == stride(from, from.width)
        new == stride(to, to.width)
        height == from.height * (IF effective_format(from) = "XY" THEN from.depth ELSE 1)
        target(s) == Xor(s, conversion_byte_swap(from, to))
        row(y) == [c \in {<<y * new + target(s), b>> : s \in {s \in 0 .. old - 1 : FitsRow(target(s), new)},
                                                       b \in 0 .. 7} |->
                      storage[<<y * old + target(c[1] - y * new), SwappedBit(from, to, c[2])>>]]
    IN  Layered(Fresh(to), [k \in 1 .. height |-> row(k - 1)], height)

SameKind(from, to) == effective_format(from) = effective_format(to) /\ from.bpp = to.bpp

SameLayout(from, to) ==
    /\ from.unit = to.unit /\ from.pad = to.pad /\ from.byte_order = to.byte_order
    /\ effective_format(from) = "Z" \/ from.bit_order = to.bit_order

\* The storage of the new image.
xcb_image_convert(from, storage, to) ==
    IF ~SameKind(from, to) THEN PutAll(to, Fresh(to), Picture(from, storage))
    ELSE IF SameLayout(from, to)
    THEN Over([c \in (0 .. Size(from) - 1) \X (0 .. 7) |-> storage[c]], Fresh(to))
    ELSE swap_image(from, storage, to)

-----------------------------------------------------------------------------
(* Servers.                                                                 *)

\* A setup lists one format for a depth; that of bitmaps has one bit per pixel.
\* Formats of 4 bits per pixel, which no server has any more, are left out.
ProperServer(server) ==
    /\ server \in [byte_order : {LSB, MSB}, bit_order : {LSB, MSB}, unit : {8, 16, 32}, pad : {8, 16, 32},
                   formats : SUBSET [depth : Nat \ {0}, bpp : {1, 8, 16, 24, 32}, pad : {8, 16, 32}]]
    /\ server.unit <= server.pad
    /\ \A fmt, other \in server.formats : fmt.depth = other.depth => fmt = other
    /\ \A fmt \in server.formats : fmt.depth = 1 => fmt.bpp = 1

ASSUME ServerAssumption == \A server \in Servers : ProperServer(server)

Of(server, depth) == {fmt \in server.formats : fmt.depth = depth}

\* What xcb_image_create takes for unit 0, in whole pixels.
DefaultUnit(bpp) == IF bpp = 1 THEN 32 ELSE IF bpp < 8 THEN 8 ELSE bpp

\* The header, without the size, that xcb_image_native converts to: none or one.
NativeFormat(server, f) ==
    LET fmts == Of(server, f.depth)
    IN  IF effective_format(f) = "XY"
        THEN {[f EXCEPT !.pad = server.pad, !.bpp = fmt.bpp, !.unit = server.unit,
                        !.byte_order = server.byte_order, !.bit_order = server.bit_order] :
                  fmt \in IF f.depth > 1 THEN fmts ELSE {[bpp |-> 1]}}
        ELSE {[f EXCEPT !.pad = fmt.pad, !.bpp = fmt.bpp, !.unit = DefaultUnit(fmt.bpp),
                        !.byte_order = server.byte_order, !.bit_order = MSB] : fmt \in fmts}

\* Is the image in native format?
IsNative(server, f) ==
    \E to \in NativeFormat(server, f) :
        /\ to.pad = f.pad /\ to.byte_order = f.byte_order /\ to.bpp = f.bpp
        /\ effective_format(f) = "XY" => to.unit = f.unit /\ to.bit_order = f.bit_order

\* The header of xcb_image_create_native: none or one.
CreateNative(server, format, depth) ==
    IF format = "XY" \/ depth = 1
    THEN {[format |-> format, pad |-> server.pad, depth |-> depth, bpp |-> depth,
           unit |-> server.unit, byte_order |-> server.byte_order, bit_order |-> server.bit_order] :
              fmt \in IF depth > 1 THEN Of(server, depth) ELSE {1}}
    ELSE {[format |-> format, pad |-> fmt.pad, depth |-> depth, bpp |-> fmt.bpp,
           unit |-> DefaultUnit(fmt.bpp), byte_order |-> server.byte_order, bit_order |-> MSB] :
              fmt \in Of(server, depth)}

\* The protocol: where bit p of the pixel at (x, y) is on the wire.  A row
\* consists of units, in xy formats of several pixels of one plane each, else
\* of one pixel; the most significant plane comes first.
WirePlace(server, im, x, y, p) ==
    LET fmt   == CHOOSE fmt \in Of(server, im.depth) : TRUE
        xy    == im.format = "XY" \/ im.depth = 1
        unit  == IF xy THEN server.unit ELSE fmt.bpp
        row   == IF xy THEN xcb_roundup(im.width, server.pad) \div 8
                 ELSE xcb_roundup(im.width * fmt.bpp, fmt.pad) \div 8
        plane == IF xy THEN (im.depth - 1 - p) * im.height * row ELSE 0
        start == (unit \div 8) * (IF xy THEN x \div unit ELSE x)
        bit   == IF ~xy THEN p ELSE IF server.bit_order = LSB THEN x % unit
                 ELSE unit - 1 - (x % unit)
        byte  == IF server.byte_order = LSB THEN bit \div 8 ELSE (unit \div 8) - 1 - (bit \div 8)
    IN  <<plane + y * row + start + byte, bit % 8>>

WirePixel(server, im, x, y) == [p \in 0 .. im.depth - 1 |-> WirePlace(server, im, x, y, p)]

\* What the server draws, and what it sends.
Drawing(server, im, storage) ==
    [xy \in Coordinates(im) |->
        LET at == WirePixel(server, im, xy[1], xy[2])
        IN  [p \in DOMAIN at |-> IF at[p] \in DOMAIN storage THEN storage[at[p]] ELSE Junk]]

Encoding(server, im, picture) ==
    Painted(im, [c \in DOMAIN Fresh(im) |-> Zero],
            [xy \in Coordinates(im) |-> WirePixel(server, im, xy[1], xy[2])], picture)

-----------------------------------------------------------------------------

\* An image the client has created and put a pixel everywhere into.
Filled(f, width, height) ==
    /\ image = Header(f, width, height)
    /\ drawn = [xy \in Coordinates(image) |->
                   Fit([p \in 0 .. image.depth - 1 |-> PixelBit(xy[1], xy[2], p)], image.bpp)]
    /\ data = PutAll(image, Fresh(image), drawn)
    /\ window = Nothing
    /\ steps = 0

Init == \E f \in Sources : Filled(f, Width, Height)

Step == StoresInside(image) /\ steps < MaxSteps /\ steps' = steps + 1

\* Coordinates that xcb_image_put_pixel rejects; it lets the image's width and
\* height through, where no client puts a pixel.
Outside(im) == {<<im.width + 1, 0>>, <<0, im.height + 1>>}

PutPixel(x, y) ==
    /\ Step
    /\ LET pixel == [p \in 0 .. image.depth - 1 |-> NewBit(p)]
       IN  /\ data' = xcb_image_put_pixel(image, data, x, y, pixel)
           /\ drawn' = IF <<x, y>> \in Coordinates(image)
                       THEN [drawn EXCEPT ![<<x, y>>] = Fit(pixel, image.bpp)] ELSE drawn
    /\ UNCHANGED <<image, window>>

ConvertTo(f) ==
    LET to == Header(f, image.width, image.height)
    IN  /\ image' = to
        /\ data' = xcb_image_convert(image, data, to)
        /\ drawn' = [xy \in DOMAIN drawn |-> Fit(drawn[xy], to.bpp)]

\* xcb_image_convert, between images of the same depth.
Convert(f) == Step /\ f.depth = image.depth /\ ConvertTo(f) /\ UNCHANGED window

\* xcb_image_native, of an image that is not in native format.
xcb_image_native(server) ==
    /\ Step
    /\ ~IsNative(server, image)
    /\ \E f \in NativeFormat(server, image) :
          /\ format_valid(f)
          /\ ConvertTo(f)
    /\ UNCHANGED window

\* The part of the image from (x, y) on.
xcb_image_subimage(x, y, width, height) ==
    LET to == Header(image, width, height)
        picture == [xy \in Coordinates(to) |-> xcb_image_get_pixel(image, data, x + xy[1], y + xy[2])]
    IN  /\ Step
        /\ x + width <= image.width /\ y + height <= image.height
        /\ image' = to
        /\ data' = PutAll(to, Fresh(to), picture)
        /\ drawn' = [xy \in Coordinates(to) |-> drawn[<<x + xy[1], y + xy[2]>>]]
        /\ UNCHANGED window

\* xcb_image_put, of an image in native format, and what the server makes of it.
xcb_image_put(server) ==
    /\ window = Nothing /\ StoresInside(image)
    /\ IsNative(server, image) /\ Of(server, image.depth) # {}
    /\ window' = [server |-> server, width |-> image.width, height |-> image.height,
                  depth |-> image.depth,
                  picture |-> Drawing(server, image, data),
                  meant |-> [xy \in DOMAIN drawn |-> Fit(drawn[xy], image.depth)]]
    /\ UNCHANGED <<image, data, drawn, steps>>

\* xcb_image_get, of the whole drawable and all planes; the reply becomes the
\* storage.  The program may also end here: a reply's length is a multiple of
\* four bytes, and "assert(bytes == image->size)" fails if the size is none.
xcb_image_get(format) ==
    /\ window # Nothing /\ StoresInside(image)
    /\ \E f \in CreateNative(window.server, format, window.depth) :
          LET im == Header(f, window.width, window.height)
          IN  /\ format_valid(im)
              /\ image' = im
              /\ data' = Encoding(window.server, im, window.picture)
              /\ drawn' = [xy \in Coordinates(im) |-> Fit(window.picture[xy], im.bpp)]
    /\ UNCHANGED <<window, steps>>

Next ==
    \/ \E xy \in Coordinates(image) \cup Outside(image) : PutPixel(xy[1], xy[2])
    \/ \E f \in Targets : Convert(f)
    \/ \E server \in Servers : xcb_image_native(server) \/ xcb_image_put(server)
    \/ \E xy \in Coordinates(image), width \in 1 .. Width, height \in 1 .. Height :
          xcb_image_subimage(xy[1], xy[2], width, height)
    \/ \E format \in {"XY", "Z"} : xcb_image_get(format)

Spec == Init /\ [][Next]_vars

-----------------------------------------------------------------------------
(* Properties.                                                              *)

\* Headers stay valid, so that xcb_image_get gets an image from what it asks
\* for, and all the storage an image needs is there.
TypeOK ==
    /\ format_valid(image)
    /\ StoresInside(image) => DOMAIN Fresh(image) \subseteq DOMAIN data
    /\ DOMAIN drawn = Coordinates(image)
    /\ steps \in 0 .. MaxSteps

\* Every pixel reads as what was put there last, through conversions between
\* all formats of its depth, extractions and round trips through a server
\* (xcb_image.h:428: "tries to convert the image data of the src image to the
\* format implied by the dst image"), if it lies inside the storage at all.
PixelsAreKept == StoresInside(image) => Picture(image, data) = drawn

\* A server draws what the client has drawn: an image in its native format
\* has every bit where the protocol says, whatever the byte and bit orders.
PutDrawsPicture == window # Nothing => window.picture = window.meant

\* All the storage an image needs is there, and no write goes further beyond it
\* than to the next byte ("we establish the invariant that data points at
\* sufficient storage", xcb_image.c:256) but of images that cannot lie inside
\* their storage: xy images with more bits per pixel than planes, and those
\* whose rows end inside a unit in which bytes trade places.  xcb_image_native
\* makes both (xcb_image.c:402, 215-219).  The next byte is written by
\* swap_image when rows become shorter: it skips a byte only "if (d >
\* dst_stride)" (xcb_image.c:848).
StaysNearStorage ==
    /\ TypeOK
    /\ StoresInside(image) => \A c \in DOMAIN data : c[1] <= Size(image)
=============================================================================
