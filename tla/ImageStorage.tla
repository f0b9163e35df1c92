---------------------------- MODULE ImageStorage ----------------------------
(***************************************************************************)
(* Who owns what in image/xcb_image.c: the structures of images, their     *)
(* storage, and the replies that become storage.  What the storage holds   *)
(* is in ImagePixels.                                                      *)
(*                                                                         *)
(* Blocks and images are numbers, the smallest that is free when they are  *)
(* allocated: addresses are used again.  A negative number -k is an array  *)
(* of k bytes the client has, which is never freed.  No function here runs *)
(* beside another.  One that allocates is the set of its outcomes: the     *)
(* store, and the image it returns, Null for NULL.                         *)
(***************************************************************************)
EXTENDS Integers, FiniteSets

CONSTANTS
    Depth,          \* the depths of images
    FormatDepth,    \* those the server has a format for
    MaxSize,        \* bound: bytes in an image
    MaxBlocks,      \* bound: blocks of storage at a time
    MaxImages       \* bound: images the client has at a time

\* What the constants are; ImageMemory, which gives them their values, assumes it.
\* Every server has a format for depth 1.
DepthAssumption == 1 \in FormatDepth /\ FormatDepth \subseteq Depth

BoundAssumption == {MaxSize, MaxBlocks, MaxImages} \subseteq Nat \ {0}

Null == 0
AllOnes == -1       \* ~0, as a number of bytes

VARIABLES
    store,      \* heap: the bytes of each block that is allocated;
                \* images: each image structure that is allocated
    mine,       \* the blocks the client has to free
    known,      \* the images the client has to destroy
    crashed     \* was a null pointer followed?

vars == <<store, mine, known, crashed>>

Sizes == 1 .. MaxSize

\* Whether the server can take an image as it is, and its two pointers.
Image == [depth : Depth, native : BOOLEAN, size : Sizes,
          base : 0 .. MaxBlocks, data : -MaxSize .. MaxBlocks]

\* How large the memory at an address is.
Room(p) == IF p < 0 THEN -p ELSE store.heap[p]

FreeNumber(f) == CHOOSE n \in 1 .. Cardinality(DOMAIN f) + 1 :
                    n \notin DOMAIN f /\ 1 .. n - 1 \subseteq DOMAIN f

With(f, k, v) == [x \in DOMAIN f \cup {k} |-> IF x = k THEN v ELSE f[x]]

Without(f, k) == [x \in DOMAIN f \ {k} |-> f[x]]

WithBlock(s, bytes) == [s EXCEPT !.heap = With(@, FreeNumber(@), bytes)]

Init ==
    /\ store = [heap |-> <<>>, images |-> <<>>]
    /\ mine = {} /\ known = {}
    /\ crashed = FALSE

-----------------------------------------------------------------------------
(* Creating and destroying.                                                 *)

Returns(s, i) == {[store |-> s, image |-> i]}

\* malloc fails.
NoMemory(s) == Returns(s, Null)

\* An image of that depth and size, and its pointers.
Made(s, f, base, data) ==
    LET i == FreeNumber(s.images)
        im == [depth |-> f.depth, native |-> f.native, size |-> f.size,
               base |-> base, data |-> data]
    IN  Returns([s EXCEPT !.images = With(@, i, im)], i)

\* f says whether the arguments are a valid format, too.
xcb_image_create(s, f, base, bytes, data) ==
    LET enough ==
            \/ bytes >= f.size \/ bytes = AllOnes
            \/ base = Null /\ data # Null /\ bytes = 0
    IN  IF ~f.valid THEN Returns(s, Null)
        ELSE NoMemory(s) \cup
             (IF base = Null /\ data = Null
              THEN IF bytes = AllOnes THEN Made(s, f, Null, Null)
                   ELSE Made(WithBlock(s, f.size), f, FreeNumber(s.heap), FreeNumber(s.heap))
              ELSE IF enough THEN Made(s, f, base, IF data # Null THEN data ELSE base)
              ELSE Returns(s, Null))

find_format_by_depth(depth) == depth \in FormatDepth

xcb_image_create_native(s, f, base, bytes, data) ==
    IF f.depth > 1 /\ ~find_format_by_depth(f.depth) THEN Returns(s, Null)
    ELSE xcb_image_create(s, [f EXCEPT !.native = TRUE], base, bytes, data)

xcb_image_destroy(s, i) ==
    [heap |-> Without(s.heap, s.images[i].base), images |-> Without(s.images, i)]

-----------------------------------------------------------------------------
(* Functions that make images.                                              *)

\* Mutant: a reply whose image cannot be made is kept.
GetKeeping(s, f) ==
    LET reply == FreeNumber(s.heap)
    IN  xcb_image_create_native(WithBlock(s, f.size), f, reply, f.size, reply)

\* The reply is a block that becomes the base of the image, or is freed;
\* there is none when the server refuses or the connection breaks.
xcb_image_get(s, f) ==
    LET reply == FreeNumber(s.heap)
    IN  Returns(s, Null) \cup
        {IF o.image = Null THEN [o EXCEPT !.store.heap = Without(@, reply)] ELSE o :
            o \in xcb_image_create_native(WithBlock(s, f.size), f, reply, f.size, reply)}

\* The image itself if it is native, a converted one, whose rows may be padded
\* otherwise, if that is asked for.  Both have the same width and height, so
\* xcb_image_convert does not fail.
xcb_image_native(s, i, convert) ==
    LET im == s.images[i]
    IN  IF im.depth > 1 /\ ~find_format_by_depth(im.depth) THEN Returns(s, Null)
        ELSE IF im.native THEN Returns(s, i)
        ELSE IF ~convert THEN Returns(s, Null)
        ELSE UNION {xcb_image_create(s, [depth |-> im.depth, native |-> TRUE, size |-> size,
                                         valid |-> TRUE], Null, 0, Null) : size \in Sizes}

\* A part of an image, unless it reaches beyond.  The pixels are then copied to
\* where the new image points.
xcb_image_subimage(s, i, size, base, bytes, data) ==
    IF size > s.images[i].size THEN Returns(s, Null)
    ELSE xcb_image_create(s, [depth |-> s.images[i].depth, native |-> s.images[i].native,
                              size |-> size, valid |-> TRUE], base, bytes, data)

CopiesToNull(o) == o.image # Null /\ o.store.images[o.image].data = Null

\* Bits in rows of bytes, which the client keeps.  A server whose bitmaps are
\* like that can take them as they are.
xcb_image_create_from_bitmap_data(s, size, data) ==
    UNION {xcb_image_create(s, [depth |-> 1, native |-> native, size |-> size, valid |-> TRUE],
                            Null, 0, data) : native \in BOOLEAN}

\* The images that are to go at the end, one or two of them.
Destroyed(s, image, other) ==
    IF other \in {image, Null} THEN xcb_image_destroy(s, image)
    ELSE xcb_image_destroy(xcb_image_destroy(s, other), image)

\* Both images are gone at the end.
Draw(image, o) == [o EXCEPT !.store = Destroyed(@, image, o.image)]

\* The image it returns stands for the pixmap.
xcb_create_pixmap_from_bitmap_data(s, size, data) ==
    UNION {IF o.image = Null THEN {o}
           ELSE {Draw(o.image, n) : n \in xcb_image_native(o.store, o.image, TRUE)} :
              o \in xcb_image_create_from_bitmap_data(s, size, data)}

-----------------------------------------------------------------------------
(* The client.                                                              *)

\* The client takes what a call returned; a base it gave with the call is its
\* own no more once there is an image.
Take(o, base) ==
    /\ ~crashed
    /\ DOMAIN o.store.heap \subseteq 1 .. MaxBlocks
    /\ store' = o.store
    /\ known' = known \cup ({o.image} \ {Null})
    /\ mine' = IF o.image = Null THEN mine ELSE mine \ {base}
    /\ UNCHANGED crashed

\* A null pointer is followed, and the program ends.
Crash ==
    /\ ~crashed
    /\ crashed' = TRUE
    /\ UNCHANGED <<store, mine, known>>

HasRoom == Cardinality(known) < MaxImages

\* The blocks of the client that no image uses.
Spare == mine \ {store.images[i].data : i \in DOMAIN store.images}

\* The base, bytes and data a client may honestly give: at most what there is,
\* and data that lies in the base if both are given.
Arguments(size) ==
    {a \in [base : Spare \cup {Null}, data : Spare \cup -MaxSize .. 0, bytes : -1 .. MaxSize] :
        LET memory == IF a.data # Null THEN a.data ELSE a.base
        IN  /\ a.base # Null /\ a.data # Null => a.data = a.base
            /\ IF memory = Null THEN a.bytes \in {0, AllOnes} ELSE a.bytes \in 0 .. Room(memory)
            /\ a.data # Null /\ a.base = Null /\ a.bytes = 0 => Room(a.data) >= size}

Malloc(bytes) ==
    /\ ~crashed /\ Cardinality(DOMAIN store.heap) < MaxBlocks
    /\ store' = WithBlock(store, bytes)
    /\ mine' = mine \cup {FreeNumber(store.heap)}
    /\ UNCHANGED <<known, crashed>>

Free(block) ==
    /\ ~crashed
    /\ store' = [store EXCEPT !.heap = Without(@, block)]
    /\ mine' = mine \ {block}
    /\ UNCHANGED <<known, crashed>>

Create(f, a) ==
    /\ HasRoom
    /\ \E o \in xcb_image_create(store, f, a.base, a.bytes, a.data) : Take(o, a.base)

CreateNative(f, a) ==
    /\ HasRoom
    /\ \E o \in xcb_image_create_native(store, f, a.base, a.bytes, a.data) :
          Take(o, a.base)

\* An image made with AllOnes: the client sets its pointers.
Supply(i, block) ==
    /\ ~crashed /\ store.images[i].data = Null /\ Room(block) >= store.images[i].size
    /\ store' = [store EXCEPT !.images[i].data = block,
                              !.images[i].base = IF block > 0 THEN block ELSE Null]
    /\ mine' = mine \ {block}
    /\ UNCHANGED <<known, crashed>>

Destroy(i) ==
    /\ ~crashed
    /\ store' = xcb_image_destroy(store, i)
    /\ known' = known \ {i}
    /\ UNCHANGED <<mine, crashed>>

\* Drawables have depths there are formats for.
Get(f) ==
    /\ HasRoom /\ find_format_by_depth(f.depth) /\ f.valid
    /\ \E o \in xcb_image_get(store, f) : Take(o, Null)

\* The planes that are there are copied from an image that is NULL.
GetSomePlanes == Crash

Native(i, convert) ==
    /\ HasRoom /\ store.images[i].data # Null
    /\ \E o \in xcb_image_native(store, i, convert) : Take(o, Null)

Subimage(i, size, a) ==
    /\ HasRoom /\ store.images[i].data # Null
    /\ \E o \in xcb_image_subimage(store, i, size, a.base, a.bytes, a.data) :
          \/ ~CopiesToNull(o) /\ Take(o, a.base)
          \/ CopiesToNull(o) /\ Crash

FromBitmap(size, data) ==
    /\ HasRoom /\ Room(data) >= size
    /\ \E o \in xcb_image_create_from_bitmap_data(store, size, data) : Take(o, Null)

\* A pixmap is no image to be destroyed.
Pixmap(size, data) ==
    /\ Room(data) >= size
    /\ \E o \in xcb_create_pixmap_from_bitmap_data(store, size, data) :
          Take([o EXCEPT !.image = Null], Null)

Requests == [depth : Depth, native : BOOLEAN, size : Sizes, valid : BOOLEAN]

Next ==
    \/ \E bytes \in Sizes : Malloc(bytes)
    \/ \E block \in Spare : Free(block)
    \/ \E f \in Requests : \E a \in Arguments(f.size) : Create(f, a) \/ CreateNative(f, a)
    \/ \E i \in known, block \in Spare \cup -MaxSize .. -1 : Supply(i, block)
    \/ \E i \in known : Destroy(i)
    \/ \E f \in Requests : Get(f)
    \/ GetSomePlanes
    \/ \E i \in known, convert \in BOOLEAN : Native(i, convert)
    \/ \E i \in known, size \in Sizes : \E a \in Arguments(size) : Subimage(i, size, a)
    \/ \E size \in Sizes, data \in -MaxSize .. -1 : FromBitmap(size, data) \/ Pixmap(size, data)

Spec == Init /\ [][Next]_vars

-----------------------------------------------------------------------------
(* Properties.                                                              *)

\* The types of all variables.
TypeOK ==
    /\ DOMAIN store.heap \subseteq 1 .. MaxBlocks
    /\ \A b \in DOMAIN store.heap : store.heap[b] \in Sizes
    /\ \A i \in DOMAIN store.images : store.images[i] \in Image
    /\ mine \subseteq 1 .. MaxBlocks /\ known \subseteq 1 .. MaxImages + 1
    /\ crashed \in BOOLEAN

\* Every block is the client's or the base of one image, every image is one
\* the client was given: nothing leaks and nothing is freed twice, whichever
\* of the allocations a function makes fails (xcb_image.c:256-259, 291-297).
\* What an image points at is allocated and large enough for it ("data points
\* at sufficient storage", xcb_image.c:256-258).
StorageIsOwned ==
    LET bases == {i \in DOMAIN store.images : store.images[i].base # Null}
    IN  /\ TypeOK
        /\ DOMAIN store.images = known
        /\ DOMAIN store.heap = mine \cup {store.images[i].base : i \in bases}
        /\ \A i \in bases :
              /\ store.images[i].base \notin mine
              /\ \A j \in bases \ {i} : store.images[i].base # store.images[j].base
        /\ \A i \in DOMAIN store.images :
              LET im == store.images[i]
              IN  im.data # Null => /\ im.data > 0 => im.data \in DOMAIN store.heap
                                    /\ Room(im.data) >= im.size
=============================================================================
