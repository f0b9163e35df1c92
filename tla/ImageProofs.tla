----------------------------- MODULE ImageProofs -----------------------------
(***************************************************************************)
(* Proofs about images: that their pixels are kept, for all sizes, formats *)
(* and servers; that their storage has one owner, for any sizes and        *)
(* numbers of blocks and images; and that shared memory is read and        *)
(* written whole, for any number of pictures, puts and gets.               *)
(*                                                                         *)
(* The library and its servers move whole bits between places, so that     *)
(* what has to be shown of pixels is where the places are: that the bits   *)
(* of an image lie in its storage and apart from each other, and that      *)
(* conversions and servers move a bit from its place to its place.         *)
(***************************************************************************)
EXTENDS FastPixels, ImageMemory, FiniteSetTheorems, NaturalsInduction, SequenceTheorems,
        WellFoundedInduction, TLAPS

-----------------------------------------------------------------------------
(* Numbers, and storage in layers.                                          *)

\* A number made of a quotient and a remainder has them.
LEMMA DivMod ==
    ASSUME NEW n \in Nat \ {0}, NEW q \in Nat, NEW r \in 0 .. n - 1
    PROVE  (q * n + r) \div n = q /\ (q * n + r) % n = r
BY Z3

\* Numbered slots of one size do not overlap.
LEMMA Slots ==
    ASSUME NEW size \in Nat, NEW a \in Nat, NEW b \in Nat, NEW i \in 0 .. size - 1,
           NEW j \in 0 .. size - 1,
           a * size + i = b * size + j
    PROVE  a = b /\ i = j
BY Z3

\* A slot of the first n ones ends within them.
LEMMA Within ==
    ASSUME NEW size \in Nat, NEW n \in Nat, NEW a \in 0 .. n - 1, NEW i \in 0 .. size - 1
    PROVE  a * size + i \in 0 .. n * size - 1
BY Z3

\* A storage on top of another hides what it covers.
LEMMA OverFacts ==
    ASSUME NEW new, NEW old
    PROVE  /\ DOMAIN Over(new, old) = DOMAIN new \cup DOMAIN old
           /\ \A c \in DOMAIN new : Over(new, old)[c] = new[c]
           /\ \A c \in DOMAIN old \ DOMAIN new : Over(new, old)[c] = old[c]
BY DEF Over

\* upto is what Layered builds, as far as layer k.
Builds(upto, storage, layers, k) ==
    upto = [j \in 0 .. k |-> IF j = 0 THEN storage ELSE Over(layers[j], upto[j - 1])]

\* There is such a function: no number of layers is the least without one.
LEMMA BuildsExists ==
    ASSUME NEW storage, NEW layers, NEW n \in Nat
    PROVE  \E upto : Builds(upto, storage, layers, n)
<1> DEFINE Missing == {k \in Nat : ~\E upto : Builds(upto, storage, layers, k)}
<1>1. SUFFICES ASSUME Missing # {} PROVE FALSE
  OBVIOUS
<1>2. PICK k \in Missing : \A j \in Missing : ~(j < k)
  <2>1. Missing \subseteq Nat
    OBVIOUS
  <2>2. IsWellFoundedOn(OpToRel(<, Nat), Nat)
    BY NatLessThanWellFounded
  <2>3. PICK k \in Missing : \A j \in Missing : <<j, k>> \notin OpToRel(<, Nat)
    BY <1>1, <2>1, <2>2, WFMin
  <2> QED
    BY <2>1, <2>3, Zenon DEF OpToRel
<1>3. k # 0
  <2>1. Builds([j \in 0 .. 0 |-> storage], storage, layers, 0)
    BY DEF Builds
  <2> QED
    BY <2>1
<1>4. PICK upto : Builds(upto, storage, layers, k - 1)
  BY <1>2, <1>3
<1> DEFINE more == [j \in 0 .. k |-> IF j < k THEN upto[j] ELSE Over(layers[k], upto[k - 1])]
<1>5. Builds(more, storage, layers, k)
  <2>1. \A j \in 0 .. k : more[j] = IF j = 0 THEN storage ELSE Over(layers[j], more[j - 1])
    BY <1>3, <1>4 DEF Builds
  <2> QED
    BY <2>1 DEF Builds
<1> QED
  BY <1>5

\* Layer k is uppermost at a cell, or there is none.
Top(layers, n, k, c) == c \in DOMAIN layers[k] /\ \A j \in 1 .. n : j > k => c \notin DOMAIN layers[j]
Bare(layers, n, c) == \A k \in 1 .. n : c \notin DOMAIN layers[k]

\* What is at a cell of a layered storage.
LEMMA Layers ==
    ASSUME NEW storage, NEW layers, NEW n \in Nat
    PROVE  /\ \A c : c \in DOMAIN Layered(storage, layers, n)
                  <=> c \in DOMAIN storage \/ ~Bare(layers, n, c)
           /\ \A c \in DOMAIN storage : Bare(layers, n, c)
                  => Layered(storage, layers, n)[c] = storage[c]
           /\ \A k \in 1 .. n : \A c : Top(layers, n, k, c)
                  => Layered(storage, layers, n)[c] = layers[k][c]
<1> DEFINE upto == CHOOSE upto : Builds(upto, storage, layers, n)
<1>1. Builds(upto, storage, layers, n)
  BY BuildsExists
<1>2. Layered(storage, layers, n) = upto[n]
  BY DEF Layered, Builds
<1> HIDE DEF upto
<1>3. upto[0] = storage /\ \A k \in 1 .. n : upto[k] = Over(layers[k], upto[k - 1])
  BY <1>1 DEF Builds
<1> DEFINE Right(m) ==
      /\ \A c : c \in DOMAIN upto[m] <=> c \in DOMAIN storage \/ ~Bare(layers, m, c)
      /\ \A c \in DOMAIN storage : Bare(layers, m, c) => upto[m][c] = storage[c]
      /\ \A k \in 1 .. m : \A c : Top(layers, m, k, c) => upto[m][c] = layers[k][c]
<1>4. Right(0)
  BY <1>3 DEF Bare
<1>5. ASSUME NEW m \in 1 .. n, Right(m - 1) PROVE Right(m)
  <2> DEFINE new == layers[m]
             old == upto[m - 1]
  <2>1. upto[m] = Over(new, old)
    BY <1>3
  <2>2. /\ DOMAIN Over(new, old) = DOMAIN new \cup DOMAIN old
        /\ \A c \in DOMAIN new : Over(new, old)[c] = new[c]
        /\ \A c \in DOMAIN old \ DOMAIN new : Over(new, old)[c] = old[c]
    <3> HIDE DEF new, old
    <3> QED
      BY OverFacts
  <2>3. \A c : Bare(layers, m, c) <=> Bare(layers, m - 1, c) /\ c \notin DOMAIN new
    <3>1. \A k : k \in 1 .. m <=> k \in 1 .. m - 1 \/ k = m
      OBVIOUS
    <3> QED
      BY <3>1 DEF Bare
  <2>4. ASSUME NEW c PROVE c \in DOMAIN upto[m] <=> c \in DOMAIN storage \/ ~Bare(layers, m, c)
    BY <1>5, <2>1, <2>2, <2>3
  <2>5. ASSUME NEW c \in DOMAIN storage, Bare(layers, m, c) PROVE upto[m][c] = storage[c]
    BY <1>5, <2>1, <2>2, <2>3, <2>5
  <2>6. ASSUME NEW k \in 1 .. m, NEW c, Top(layers, m, k, c) PROVE upto[m][c] = layers[k][c]
    <3>1. CASE k = m
      BY <2>1, <2>2, <2>6, <3>1 DEF Top
    <3>2. CASE k # m
      <4>1. k \in 1 .. m - 1 /\ m \in 1 .. m /\ m > k
        BY <3>2
      <4>2. c \notin DOMAIN new
        BY <2>6, <4>1 DEF Top
      <4>3. Top(layers, m - 1, k, c)
        BY <2>6, <4>1 DEF Top
      <4>4. ~Bare(layers, m - 1, c)
        BY <4>1, <4>3 DEF Top, Bare
      <4>5. old[c] = layers[k][c] /\ c \in DOMAIN old
        BY <1>5, <4>1, <4>3, <4>4
      <4> QED
        BY <2>1, <2>2, <4>2, <4>5
    <3> QED
      BY <3>1, <3>2
  <2> QED
    BY <2>4, <2>5, <2>6
<1> HIDE DEF Right
<1> DEFINE Wrong == {k \in Nat : k <= n /\ ~Right(k)}
<1>6. Wrong = {}
  <2>1. SUFFICES ASSUME Wrong # {} PROVE FALSE
    OBVIOUS
  <2>2. Wrong \subseteq Nat /\ IsWellFoundedOn(OpToRel(<, Nat), Nat)
    BY NatLessThanWellFounded
  <2>3. PICK k \in Wrong : \A j \in Wrong : <<j, k>> \notin OpToRel(<, Nat)
    BY <2>1, <2>2, WFMin
  <2>4. \A j \in Wrong : ~(j < k)
    BY <2>2, <2>3, Zenon DEF OpToRel
  <2>5. k \in 1 .. n /\ k - 1 \notin Wrong
    BY <1>4, <2>4
  <2> QED
    BY <1>5, <2>5
<1>7. Right(n)
  BY <1>6
<1> QED
  BY <1>2, <1>7 DEF Right

\* No two bits of a pixel have the same place.
OneToOne(place) == \A p, q \in DOMAIN place : place[p] = place[q] => p = q

\* A layer has every bit of its pixel at the place of that bit.
LEMMA LayerFacts ==
    ASSUME NEW place, NEW pixel, OneToOne(place)
    PROVE  /\ DOMAIN Layer(place, pixel) = {place[p] : p \in DOMAIN place}
           /\ \A p \in DOMAIN place : Layer(place, pixel)[place[p]] = pixel[p]
<1>1. DOMAIN Layer(place, pixel) = {place[p] : p \in DOMAIN place}
  BY DEF Layer
<1>2. ASSUME NEW p \in DOMAIN place PROVE Layer(place, pixel)[place[p]] = pixel[p]
  <2>1. (CHOOSE q \in DOMAIN place : place[q] = place[p]) = p
    BY DEF OneToOne
  <2> QED
    BY <2>1 DEF Layer
<1> QED
  BY <1>1, <1>2

-----------------------------------------------------------------------------
(* Arithmetic of headers.                                                   *)

\* Rows are long enough and end with a unit.
LEMMA RoundupFacts ==
    ASSUME NEW k \in Nat \ {0}, NEW n \in {8, 16, 32}, NEW s, s = xcb_roundup(k, n) \div 8
    PROVE  /\ s \in Nat \ {0}
           /\ k <= 8 * s
           /\ n > 8 => s % 2 = 0
           /\ n > 16 => s % 4 = 0
<1>1. CASE n = 8
  BY <1>1 DEF xcb_roundup, Floor
<1>2. CASE n = 16
  BY <1>2 DEF xcb_roundup, Floor
<1>3. CASE n = 32
  BY <1>3 DEF xcb_roundup, Floor
<1> QED
  BY <1>1, <1>2, <1>3

\* Exclusive or with each number there is, by division.
LEMMA XorIs ==
    ASSUME NEW k \in Nat
    PROVE  /\ Xor(k, 0) = k
           /\ Xor(k, 1) = k + 1 - 2 * (k % 2)
           /\ Xor(k, 2) = 4 * (k \div 4) + (((k % 4) + 2) % 4)
           /\ Xor(k, 3) = 4 * (k \div 4) + 3 - (k % 4)
BY DEF Xor, Floor

\* What exchanging neighbours does,
LEMMA FlipPairs ==
    ASSUME NEW k \in Nat, NEW j, j = k + 1 - 2 * (k % 2)
    PROVE  /\ j \in Nat
           /\ j + 1 - 2 * (j % 2) = k
           /\ j \div 2 = k \div 2
           /\ 4 * (j \div 4) + (((j % 4) + 2) % 4) = 4 * (k \div 4) + 3 - (k % 4)
           /\ \A n \in Nat : n % 2 = 0 /\ k < n => j < n
<1>1. j \in Nat
  OBVIOUS
<1>2. j \div 2 = k \div 2
  BY <1>1
<1>3. j + 1 - 2 * (j % 2) = k
  BY <1>1
<1>4. 4 * (j \div 4) + (((j % 4) + 2) % 4) = 4 * (k \div 4) + 3 - (k % 4)
  BY <1>1
<1>5. \A n \in Nat : n % 2 = 0 /\ k < n => j < n
  BY <1>1
<1> QED
  BY <1>1, <1>2, <1>3, <1>4, <1>5

\* and what reversing groups of four does.
LEMMA FlipFours ==
    ASSUME NEW k \in Nat, NEW j, j = 4 * (k \div 4) + 3 - (k % 4)
    PROVE  /\ j \in Nat
           /\ 4 * (j \div 4) + 3 - (j % 4) = k
           /\ j \div 4 = k \div 4
           /\ 4 * (j \div 4) + (((j % 4) + 2) % 4) = k + 1 - 2 * (k % 2)
           /\ \A n \in Nat : n % 4 = 0 /\ k < n => j < n
<1>1. j \in Nat
  OBVIOUS
<1>2. j \div 4 = k \div 4
  BY <1>1
<1>3. 4 * (j \div 4) + 3 - (j % 4) = k
  BY <1>1
<1>4. 4 * (j \div 4) + (((j % 4) + 2) % 4) = k + 1 - 2 * (k % 2)
  BY <1>1
<1>5. \A n \in Nat : n % 4 = 0 /\ k < n => j < n
  BY <1>1
<1> QED
  BY <1>1, <1>2, <1>3, <1>4, <1>5

\* Exclusive or moves a number within a group of flip + 1, and back.
LEMMA XorFacts ==
    ASSUME NEW k \in Nat, NEW flip \in {0, 1, 3}
    PROVE  /\ Xor(k, flip) \in Nat
           /\ Xor(Xor(k, flip), flip) = k
           /\ Xor(k, flip) \div (flip + 1) = k \div (flip + 1)
           /\ \A n \in Nat : n % (flip + 1) = 0 /\ k < n => Xor(k, flip) < n
<1>1. CASE flip = 0
  BY <1>1, XorIs
<1>2. CASE flip = 1
  <2> DEFINE j == Xor(k, 1)
  <2>1. j = k + 1 - 2 * (k % 2)
    BY XorIs
  <2> HIDE DEF j
  <2>2. /\ j \in Nat
        /\ j + 1 - 2 * (j % 2) = k
        /\ j \div 2 = k \div 2
        /\ \A n \in Nat : n % 2 = 0 /\ k < n => j < n
    BY <2>1, FlipPairs
  <2>3. Xor(j, 1) = k
    BY <2>2, XorIs
  <2> QED
    BY <1>2, <2>2, <2>3 DEF j
<1>3. CASE flip = 3
  <2> DEFINE j == Xor(k, 3)
  <2>1. j = 4 * (k \div 4) + 3 - (k % 4)
    BY XorIs
  <2> HIDE DEF j
  <2>2. /\ j \in Nat
        /\ 4 * (j \div 4) + 3 - (j % 4) = k
        /\ j \div 4 = k \div 4
        /\ \A n \in Nat : n % 4 = 0 /\ k < n => j < n
    BY <2>1, FlipFours
  <2>3. Xor(j, 3) = k
    BY <2>2, XorIs
  <2> QED
    BY <1>3, <2>2, <2>3 DEF j
<1> QED
  BY <1>1, <1>2, <1>3

\* Undoing one exclusive or and doing another is a third.
LEMMA XorXor ==
    ASSUME NEW k \in Nat, NEW a \in {0, 1, 3}, NEW b \in {0, 1, 3}
    PROVE  /\ Xor(Xor(k, a), Xor(a, b)) = Xor(k, b)
           /\ Xor(a, b) = Xor(b, a)
<1>1. /\ \A c \in {0, 1, 3} : Xor(c, c) = 0 /\ Xor(0, c) = c /\ Xor(c, 0) = c
      /\ Xor(1, 3) = 2 /\ Xor(3, 1) = 2
  BY XorIs
<1>2. Xor(k, a) \in Nat /\ Xor(Xor(k, a), 0) = Xor(k, a) /\ Xor(Xor(k, a), a) = k /\ Xor(k, 0) = k
  BY XorFacts, XorIs
<1>3. CASE a = b
  BY <1>1, <1>2, <1>3
<1>4. CASE a = 0 \/ b = 0
  BY <1>1, <1>2, <1>4
<1>5. CASE a = 1 /\ b = 3
  <2> DEFINE j == Xor(k, 1)
  <2>1. j = k + 1 - 2 * (k % 2)
    BY XorIs
  <2> HIDE DEF j
  <2>2. j \in Nat /\ 4 * (j \div 4) + (((j % 4) + 2) % 4) = 4 * (k \div 4) + 3 - (k % 4)
    BY <2>1, FlipPairs
  <2>3. Xor(j, 2) = 4 * (j \div 4) + (((j % 4) + 2) % 4)
    BY <2>2, XorIs
  <2>4. Xor(k, 3) = 4 * (k \div 4) + 3 - (k % 4)
    BY XorIs
  <2> QED
    BY <1>1, <1>5, <2>2, <2>3, <2>4 DEF j
<1>6. CASE a = 3 /\ b = 1
  <2> DEFINE j == Xor(k, 3)
  <2>1. j = 4 * (k \div 4) + 3 - (k % 4)
    BY XorIs
  <2> HIDE DEF j
  <2>2. j \in Nat /\ 4 * (j \div 4) + (((j % 4) + 2) % 4) = k + 1 - 2 * (k % 2)
    BY <2>1, FlipFours
  <2>3. Xor(j, 2) = 4 * (j \div 4) + (((j % 4) + 2) % 4)
    BY <2>2, XorIs
  <2>4. Xor(k, 1) = k + 1 - 2 * (k % 2)
    BY XorIs
  <2> QED
    BY <1>1, <1>6, <2>2, <2>3, <2>4 DEF j
<1> QED
  BY <1>3, <1>4, <1>5, <1>6

-----------------------------------------------------------------------------
(* Where the pixels of an image are.                                        *)

\* A format whose images have all their pixels inside their storage,
ProperFormat(f) == ImageFormat(f) /\ StoresInside(f)

\* and an image of it.
ProperImage(im) ==
    /\ im \in [width : Nat \ {0}, height : Nat \ {0}, format : {"XY", "Z"}, pad : {8, 16, 32},
               depth : Nat \ {0}, bpp : Nat \ {0}, unit : {8, 16, 24, 32},
               byte_order : {LSB, MSB}, bit_order : {LSB, MSB}]
    /\ format_valid(im)
    /\ StoresInside(im)

\* An image of a proper format is proper.
LEMMA HeaderIsProper ==
    ASSUME NEW f, ProperFormat(f), NEW width \in Nat \ {0}, NEW height \in Nat \ {0}
    PROVE  /\ ProperImage(Header(f, width, height))
           /\ effective_format(Header(f, width, height)) = effective_format(f)
           /\ Header(f, width, height).width = width
           /\ Header(f, width, height).height = height
           /\ Header(f, width, height).depth = f.depth
           /\ Header(f, width, height).bpp = f.bpp
BY DEF ProperImage, ProperFormat, ImageFormat, StoresInside, Header, format_valid, effective_format

\* What a proper image of planes is like,
LEMMA XYImage ==
    ASSUME NEW im, ProperImage(im), effective_format(im) = "XY"
    PROVE  /\ im.unit \in {8, 16, 32} /\ im.pad \in {8, 16, 32}
           /\ im.byte_order # im.bit_order => im.unit <= im.pad
           /\ im.bpp = im.depth /\ im.bpp \in Nat \ {0}
BY DEF ProperImage, StoresInside, format_valid, effective_format

\* and one of whole pixels.
LEMMA ZImage ==
    ASSUME NEW im, ProperImage(im), effective_format(im) # "XY"
    PROVE  /\ effective_format(im) = "Z" /\ im.format = "Z"
           /\ im.bpp \in {4, 8, 16, 24, 32} /\ im.depth \in 1 .. im.bpp
           /\ im.unit = IF im.bpp = 4 THEN 8 ELSE im.bpp
BY DEF ProperImage, format_valid, effective_format

\* Rows have room for their pixels; those in which bytes trade places end with
\* a unit.
LEMMA StrideFacts ==
    ASSUME NEW im, ProperImage(im)
    PROVE  /\ stride(im, im.width) \in Nat \ {0}
           /\ effective_format(im) = "XY" => /\ im.width <= 8 * stride(im, im.width)
           /\ effective_format(im) = "XY" /\ im.byte_order # im.bit_order
              => /\ im.unit = 16 => stride(im, im.width) % 2 = 0
                 /\ im.unit = 32 => stride(im, im.width) % 4 = 0
           /\ effective_format(im) # "XY" => im.width * im.bpp <= 8 * stride(im, im.width)
<1>1. im.width \in Nat \ {0} /\ im.bpp \in Nat \ {0} /\ im.pad \in {8, 16, 32}
  BY DEF ProperImage
<1> DEFINE s == stride(im, im.width)
<1>2. CASE effective_format(im) = "XY"
  <2>1. s = xcb_roundup(im.width, im.pad) \div 8
    BY <1>2 DEF stride
  <2>2. im.unit \in {8, 16, 32} /\ (im.byte_order # im.bit_order => im.unit <= im.pad)
    BY <1>2, XYImage
  <2> HIDE DEF s
  <2>3. /\ s \in Nat \ {0} /\ im.width <= 8 * s
        /\ im.pad > 8 => s % 2 = 0
        /\ im.pad > 16 => s % 4 = 0
    BY <1>1, <2>1, RoundupFacts
  <2> QED
    BY <1>1, <1>2, <2>2, <2>3 DEF s
<1>3. CASE effective_format(im) # "XY"
  <2> DEFINE k == im.width * im.bpp
  <2>1. s = xcb_roundup(k, im.pad) \div 8
    BY <1>3 DEF stride
  <2>2. k \in Nat \ {0}
    BY <1>1
  <2> HIDE DEF k, s
  <2>3. s \in Nat \ {0} /\ k <= 8 * s
    BY <1>1, <2>1, <2>2, RoundupFacts
  <2> QED
    BY <1>3, <2>3 DEF k, s
<1> QED
  BY <1>2, <1>3

\* The plane of bit p, and its byte and bit in a row of that plane.
PlaneOf(im, p) == IF effective_format(im) = "XY" THEN im.bpp - 1 - p ELSE 0

ByteOf(im, x, p) ==
    IF effective_format(im) = "XY" THEN xy_image_byte(im, x)
    ELSE IF im.bpp = 4 THEN x \div 2
    ELSE x * (im.bpp \div 8)
         + (IF im.byte_order = MSB THEN (im.bpp \div 8) - 1 - (p \div 8) ELSE p \div 8)

BitOf(im, x, p) ==
    IF effective_format(im) = "XY" THEN xy_image_bit(im, x)
    ELSE IF im.bpp = 4 THEN (IF (x % 2 = 1) <=> (im.byte_order = MSB) THEN p + 4 ELSE p)
    ELSE p % 8

Planes(im) == IF effective_format(im) = "XY" THEN im.depth ELSE 1

\* How xy formats move the bytes of a row.
FlipOf(im) == IF im.byte_order = im.bit_order THEN 0 ELSE UnitFlip(im.unit)

\* The bytes of a plane's row change places within units.
LEMMA FlipFacts ==
    ASSUME NEW im, ProperImage(im), effective_format(im) = "XY"
    PROVE  /\ FlipOf(im) \in {0, 1, 3}
           /\ stride(im, im.width) % (FlipOf(im) + 1) = 0
           /\ bit_order(im) = FlipOf(im)
           /\ \A x \in Nat : xy_image_byte(im, x) = Xor(x \div 8, FlipOf(im))
<1>1. im.unit \in {8, 16, 32}
  BY XYImage
<1>2. FlipOf(im) \in {0, 1, 3} /\ bit_order(im) = FlipOf(im)
  BY <1>1 DEF FlipOf, UnitFlip, bit_order
<1>3. stride(im, im.width) % (FlipOf(im) + 1) = 0
  <2>1. /\ FlipOf(im) = 1 => im.unit = 16 /\ im.byte_order # im.bit_order
        /\ FlipOf(im) = 3 => im.unit = 32 /\ im.byte_order # im.bit_order
    BY <1>1 DEF FlipOf, UnitFlip
  <2> DEFINE s == stride(im, im.width)
  <2>2. /\ s \in Nat
        /\ im.byte_order # im.bit_order
           => (im.unit = 16 => s % 2 = 0) /\ (im.unit = 32 => s % 4 = 0)
    BY StrideFacts
  <2> HIDE DEF s
  <2>3. s % (FlipOf(im) + 1) = 0
    <3>1. CASE FlipOf(im) = 0
      BY <2>2, <3>1
    <3>2. CASE FlipOf(im) = 1
      BY <2>1, <2>2, <3>2
    <3>3. CASE FlipOf(im) = 3
      BY <2>1, <2>2, <3>3
    <3> QED
      BY <1>2, <3>1, <3>2, <3>3
  <2> QED
    BY <2>3 DEF s
<1>4. ASSUME NEW x \in Nat PROVE xy_image_byte(im, x) = Xor(x \div 8, FlipOf(im))
  <2>1. Xor(x \div 8, 0) = x \div 8
    BY XorIs
  <2> QED
    BY <2>1 DEF xy_image_byte, FlipOf
<1> QED
  BY <1>2, <1>3, <1>4

\* A place is a row of a plane, and a byte and a bit in it.
LEMMA PlaceIs ==
    ASSUME NEW im, ProperImage(im), NEW x \in 0 .. im.width - 1, NEW y \in 0 .. im.height - 1,
           NEW p \in 0 .. im.bpp - 1
    PROVE  Place(im, x, y, p)
              = <<(PlaneOf(im, p) * im.height + y) * stride(im, im.width) + ByteOf(im, x, p),
                  BitOf(im, x, p)>>
<1> DEFINE s == stride(im, im.width)
<1>1. s \in Nat /\ im.height \in Nat /\ im.bpp \in Nat /\ im.width \in Nat
  BY StrideFacts DEF ProperImage
<1>2. CASE effective_format(im) = "XY"
  <2>1. Place(im, x, y, p)
          = <<(im.bpp - 1 - p) * (im.height * s) + y * s + xy_image_byte(im, x), xy_image_bit(im, x)>>
    BY <1>2 DEF Place
  <2>2. ByteOf(im, x, p) = xy_image_byte(im, x) /\ PlaneOf(im, p) = im.bpp - 1 - p
        /\ BitOf(im, x, p) = xy_image_bit(im, x)
    BY <1>2 DEF ByteOf, PlaneOf, BitOf
  <2>3. xy_image_byte(im, x) \in Nat
    <3>1. (x \div 8) \in Nat
      BY <1>1
    <3>2. Xor(x \div 8, FlipOf(im)) \in Nat
      BY <1>2, <3>1, FlipFacts, XorFacts
    <3> QED
      BY <1>1, <1>2, <3>2, FlipFacts
  <2> HIDE DEF s
  <2>4. \A plane, h, b \in Nat :
           plane * (h * s) + y * s + b = (plane * h + y) * s + b
    BY <1>1
  <2> DEFINE plane == im.bpp - 1 - p
             h == im.height
             b == xy_image_byte(im, x)
  <2>5. plane \in Nat /\ h \in Nat /\ b \in Nat
    BY <1>1, <2>3
  <2>6. plane * (h * s) + y * s + b = (plane * h + y) * s + b
    <3> HIDE DEF plane, h, b
    <3> QED
      BY <2>4, <2>5
  <2> QED
    BY <2>1, <2>2, <2>6, Zenon DEF s
<1>3. CASE effective_format(im) # "XY"
  <2>1. PlaneOf(im, p) * im.height + y = y
    BY <1>1, <1>3 DEF PlaneOf
  <2>2. CASE im.bpp = 4
    BY <1>3, <2>1, <2>2 DEF Place, ByteOf, BitOf
  <2>3. CASE im.bpp # 4
    <3>1. im.bpp \in {8, 16, 24, 32}
      BY <1>3, <2>3, ZImage
    <3> QED
      BY <1>1, <1>3, <2>1, <2>3, <3>1 DEF Place, ByteOf, BitOf
  <2> QED
    BY <2>2, <2>3
<1> QED
  BY <1>2, <1>3

\* The byte of a pixel is in its row.
LEMMA RowRange ==
    ASSUME NEW im, ProperImage(im), NEW x \in 0 .. im.width - 1, NEW p \in 0 .. im.bpp - 1
    PROVE  /\ PlaneOf(im, p) \in 0 .. Planes(im) - 1
           /\ ByteOf(im, x, p) \in 0 .. stride(im, im.width) - 1
           /\ BitOf(im, x, p) \in 0 .. 7
<1> DEFINE s == stride(im, im.width)
<1>1. s \in Nat /\ im.bpp \in Nat /\ im.width \in Nat /\ im.bit_order \in {LSB, MSB}
  BY StrideFacts DEF ProperImage
<1>2. CASE effective_format(im) = "XY"
  <2>1. PlaneOf(im, p) \in 0 .. Planes(im) - 1
    BY <1>1, <1>2, XYImage DEF PlaneOf, Planes
  <2>2. BitOf(im, x, p) \in 0 .. 7
    BY <1>1, <1>2 DEF BitOf, xy_image_bit
  <2>3. ByteOf(im, x, p) \in 0 .. s - 1
    <3> DEFINE k == x \div 8
    <3>1. k \in Nat
      BY <1>1
    <3>2. ByteOf(im, x, p) = Xor(k, FlipOf(im))
      BY <1>1, <1>2, FlipFacts DEF ByteOf
    <3>3. k < s
      <4>1. im.width <= 8 * s
        BY <1>2, StrideFacts
      <4> HIDE DEF s
      <4> QED
        BY <1>1, <4>1
    <3>4. FlipOf(im) \in {0, 1, 3} /\ s % (FlipOf(im) + 1) = 0
      BY <1>2, FlipFacts
    <3> HIDE DEF k, s
    <3>5. Xor(k, FlipOf(im)) \in Nat /\ Xor(k, FlipOf(im)) < s
      BY <1>1, <3>1, <3>3, <3>4, XorFacts
    <3> QED
      BY <1>1, <3>2, <3>5
  <2> QED
    BY <2>1, <2>2, <2>3
<1>3. CASE effective_format(im) # "XY"
  <2>1. im.width * im.bpp <= 8 * s /\ im.bpp \in {4, 8, 16, 24, 32}
    BY <1>3, StrideFacts, ZImage
  <2>2. PlaneOf(im, p) \in 0 .. Planes(im) - 1
    BY <1>3 DEF PlaneOf, Planes
  <2>3. CASE im.bpp = 4
    <3>1. BitOf(im, x, p) \in 0 .. 7
      BY <1>3, <2>3 DEF BitOf
    <3>2. ByteOf(im, x, p) = x \div 2
      BY <1>3, <2>3 DEF ByteOf
    <3> HIDE DEF s
    <3>3. (x \div 2) \in 0 .. s - 1
      BY <1>1, <2>1, <2>3
    <3> QED
      BY <2>2, <3>1, <3>2, <3>3 DEF s
  <2>4. CASE im.bpp # 4
    <3>1. BitOf(im, x, p) \in 0 .. 7
      BY <1>1, <1>3, <2>4 DEF BitOf
    <3> DEFINE b == IF im.byte_order = MSB THEN (im.bpp \div 8) - 1 - (p \div 8) ELSE p \div 8
               n == im.bpp \div 8
    <3>2. ByteOf(im, x, p) = x * n + b
      BY <1>3, <2>4 DEF ByteOf
    <3>3. im.width * n <= s /\ b \in 0 .. n - 1 /\ n \in Nat
      <4> HIDE DEF s
      <4>1. CASE im.bpp = 8
        BY <1>1, <2>1, <4>1
      <4>2. CASE im.bpp = 16
        BY <1>1, <2>1, <4>2
      <4>3. CASE im.bpp = 24
        BY <1>1, <2>1, <4>3
      <4>4. CASE im.bpp = 32
        BY <1>1, <2>1, <4>4
      <4> QED
        BY <2>1, <2>4, <4>1, <4>2, <4>3, <4>4
    <3> HIDE DEF b, n, s
    <3>4. x * n + b \in 0 .. im.width * n - 1
      BY <1>1, <3>3, Within
    <3>5. x * n + b \in 0 .. s - 1
      BY <1>1, <3>3, <3>4
    <3> QED
      BY <2>2, <3>1, <3>2, <3>5 DEF s
  <2> QED
    BY <2>3, <2>4
<1> QED
  BY <1>2, <1>3

\* Two bits with the same byte and bit of rows in the same plane are one.
LEMMA RowDiffers ==
    ASSUME NEW im, ProperImage(im),
           NEW x \in 0 .. im.width - 1, NEW p \in 0 .. im.bpp - 1,
           NEW v \in 0 .. im.width - 1, NEW q \in 0 .. im.bpp - 1,
           PlaneOf(im, p) = PlaneOf(im, q), ByteOf(im, x, p) = ByteOf(im, v, q),
           BitOf(im, x, p) = BitOf(im, v, q)
    PROVE  x = v /\ p = q
<1>1. im.bpp \in Nat /\ im.width \in Nat /\ im.bit_order \in {LSB, MSB} /\ im.byte_order \in {LSB, MSB}
  BY DEF ProperImage
<1>2. CASE effective_format(im) = "XY"
  <2>1. p = q
    BY <1>1, <1>2 DEF PlaneOf
  <2>2. x % 8 = v % 8
    BY <1>1, <1>2 DEF BitOf, xy_image_bit
  <2> DEFINE k == x \div 8
             j == v \div 8
  <2>3. k \in Nat /\ j \in Nat
    BY <1>1
  <2>4. Xor(k, FlipOf(im)) = Xor(j, FlipOf(im))
    BY <1>1, <1>2, FlipFacts DEF ByteOf
  <2>5. FlipOf(im) \in {0, 1, 3}
    BY <1>2, FlipFacts
  <2>6. k = j
    <3> HIDE DEF k, j
    <3>1. Xor(Xor(k, FlipOf(im)), FlipOf(im)) = k
      BY <2>3, <2>5, XorFacts
    <3>2. Xor(Xor(j, FlipOf(im)), FlipOf(im)) = j
      BY <2>3, <2>5, XorFacts
    <3> QED
      BY <2>4, <3>1, <3>2
  <2>7. x = v
    BY <1>1, <2>2, <2>6
  <2> QED
    BY <2>1, <2>7
<1>3. CASE effective_format(im) # "XY"
  <2>1. im.bpp \in {4, 8, 16, 24, 32}
    BY <1>3, ZImage
  <2>2. CASE im.bpp = 4
    <3>1. x \div 2 = v \div 2
      BY <1>3, <2>2 DEF ByteOf
    <3>2. (IF (x % 2 = 1) <=> (im.byte_order = MSB) THEN p + 4 ELSE p)
             = (IF (v % 2 = 1) <=> (im.byte_order = MSB) THEN q + 4 ELSE q)
      BY <1>3, <2>2 DEF BitOf
    <3>3. p = q /\ x % 2 = v % 2
      BY <1>1, <2>2, <3>2
    <3> QED
      BY <1>1, <3>1, <3>3
  <2>3. CASE im.bpp # 4
    <3>1. p % 8 = q % 8
      BY <1>3, <2>3 DEF BitOf
    <3> DEFINE n == im.bpp \div 8
               b(i) == IF im.byte_order = MSB THEN n - 1 - (i \div 8) ELSE i \div 8
    <3>2. x * n + b(p) = v * n + b(q)
      BY <1>3, <2>3 DEF ByteOf
    <3>3. n \in Nat /\ b(p) \in 0 .. n - 1 /\ b(q) \in 0 .. n - 1
      <4>1. n \in Nat /\ (p \div 8) \in 0 .. n - 1 /\ (q \div 8) \in 0 .. n - 1
        BY <1>1, <2>1, <2>3
      <4> HIDE DEF n
      <4> QED
        BY <4>1
    <3>4. x = v /\ b(p) = b(q)
      <4> HIDE DEF n, b
      <4> QED
        BY <1>1, <3>2, <3>3, Slots
    <3>5. p \div 8 = q \div 8
      <4>1. n \in Nat /\ (p \div 8) \in Nat /\ (q \div 8) \in Nat
        BY <1>1, <3>3
      <4> HIDE DEF n
      <4> QED
        BY <3>4, <4>1
    <3> QED
      BY <1>1, <3>1, <3>4, <3>5
  <2> QED
    BY <2>2, <2>3
<1> QED
  BY <1>2, <1>3

\* Every bit of a pixel has a place in the storage of the image, and no two
\* bits have the same.
LEMMA PlaceInside ==
    ASSUME NEW im, ProperImage(im), NEW x \in 0 .. im.width - 1, NEW y \in 0 .. im.height - 1,
           NEW p \in 0 .. im.bpp - 1
    PROVE  Place(im, x, y, p) \in (0 .. Size(im) - 1) \X (0 .. 7)
<1> DEFINE s == stride(im, im.width)
           h == im.height
           row == PlaneOf(im, p) * h + y
<1>1. s \in Nat /\ h \in Nat /\ Planes(im) \in Nat
  BY StrideFacts DEF ProperImage, Planes
<1>2. row \in 0 .. Planes(im) * h - 1
  <2>1. PlaneOf(im, p) \in 0 .. Planes(im) - 1
    BY RowRange
  <2>2. h \in Nat /\ y \in 0 .. h - 1
    BY <1>1
  <2> HIDE DEF h
  <2> QED
    BY <1>1, <2>1, <2>2, Within
<1>3. ByteOf(im, x, p) \in 0 .. s - 1 /\ BitOf(im, x, p) \in 0 .. 7
  BY RowRange
<1>4. Place(im, x, y, p) = <<row * s + ByteOf(im, x, p), BitOf(im, x, p)>>
  BY PlaceIs
<1>5. Size(im) = (h * s) * Planes(im)
  BY DEF Size, Planes
<1> HIDE DEF row, s, h
<1>6. (Planes(im) * h) * s = (h * s) * Planes(im) /\ Planes(im) * h \in Nat
  BY <1>1
<1>7. row * s + ByteOf(im, x, p) \in 0 .. (Planes(im) * h) * s - 1
  BY <1>1, <1>2, <1>3, <1>6, Within
<1> QED
  BY <1>3, <1>4, <1>5, <1>6, <1>7

\* No two bits of an image have the same place.
LEMMA PlacesDiffer ==
    ASSUME NEW im, ProperImage(im),
           NEW x \in 0 .. im.width - 1, NEW y \in 0 .. im.height - 1, NEW p \in 0 .. im.bpp - 1,
           NEW v \in 0 .. im.width - 1, NEW w \in 0 .. im.height - 1, NEW q \in 0 .. im.bpp - 1,
           Place(im, x, y, p) = Place(im, v, w, q)
    PROVE  x = v /\ y = w /\ p = q
<1> DEFINE s == stride(im, im.width)
           h == im.height
           row == PlaneOf(im, p) * h + y
           other == PlaneOf(im, q) * h + w
           i == ByteOf(im, x, p)
           j == ByteOf(im, v, q)
<1>1. s \in Nat /\ h \in Nat
  BY StrideFacts DEF ProperImage
<1>2. /\ PlaneOf(im, p) \in Nat /\ i \in 0 .. s - 1
      /\ PlaneOf(im, q) \in Nat /\ j \in 0 .. s - 1
  BY RowRange
<1>3. row \in Nat /\ other \in Nat
  BY <1>1, <1>2
<1>4. /\ Place(im, x, y, p) = <<row * s + i, BitOf(im, x, p)>>
      /\ Place(im, v, w, q) = <<other * s + j, BitOf(im, v, q)>>
  BY PlaceIs
<1>5. row * s + i = other * s + j /\ BitOf(im, x, p) = BitOf(im, v, q)
  <2> HIDE DEF row, other, s, i, j
  <2>1. <<row * s + i, BitOf(im, x, p)>> = <<other * s + j, BitOf(im, v, q)>>
    BY <1>4, Zenon
  <2> QED
    BY <2>1, Zenon
<1>6. row = other /\ i = j
  <2> HIDE DEF row, other, s, i, j
  <2> QED
    BY <1>1, <1>2, <1>3, <1>5, Slots
<1>7. PlaneOf(im, p) = PlaneOf(im, q) /\ y = w
  <2>1. y \in 0 .. h - 1 /\ w \in 0 .. h - 1
    OBVIOUS
  <2> HIDE DEF h
  <2> QED
    BY <1>1, <1>2, <1>6, <2>1, Slots
<1> QED
  BY <1>5, <1>6, <1>7, RowDiffers

-----------------------------------------------------------------------------
(* Storage into which a picture is put.                                     *)

\* A scan row after row visits every pixel once.
LEMMA ScanFacts ==
    ASSUME NEW im, ProperImage(im)
    PROVE  /\ im.width * im.height \in Nat
           /\ \A k \in 1 .. im.width * im.height : Scan(im, k - 1) \in Coordinates(im)
           /\ \A xy \in Coordinates(im) : \E k \in 1 .. im.width * im.height : Scan(im, k - 1) = xy
           /\ \A k, j \in 1 .. im.width * im.height : Scan(im, k - 1) = Scan(im, j - 1) => k = j
<1> DEFINE w == im.width
           h == im.height
<1>1. w \in Nat \ {0} /\ h \in Nat \ {0}
  BY DEF ProperImage
<1>2. \A k : Scan(im, k) = <<k % w, k \div w>>
  BY DEF Scan
<1>3. Coordinates(im) = (0 .. w - 1) \X (0 .. h - 1)
  BY DEF Coordinates
<1> HIDE DEF w, h
<1>4. w * h \in Nat
  BY <1>1
<1>5. ASSUME NEW k \in 0 .. w * h - 1
      PROVE  /\ k % w \in 0 .. w - 1
             /\ (k \div w) \in 0 .. h - 1
             /\ (k \div w) * w + (k % w) = k
  <2>1. k \in Nat /\ k < w * h
    BY <1>4
  <2>2. k % w \in 0 .. w - 1 /\ (k \div w) * w + (k % w) = k
    BY <1>1, <2>1, Z3
  <2>3. (k \div w) \in Nat
    BY <1>1, <2>1, Z3
  <2>4. k \div w < h
    BY <1>1, <2>1, <2>2, <2>3, Z3
  <2> QED
    BY <1>1, <2>2, <2>3, <2>4
<1>6. ASSUME NEW x \in 0 .. w - 1, NEW y \in 0 .. h - 1
      PROVE  y * w + x \in 0 .. w * h - 1 /\ Scan(im, y * w + x) = <<x, y>>
  <2>1. y * w + x \in 0 .. h * w - 1 /\ h * w = w * h
    BY <1>1, Within
  <2>2. (y * w + x) \div w = y /\ (y * w + x) % w = x
    BY <1>1, DivMod
  <2> QED
    BY <1>2, <2>1, <2>2
<1>7. \A k \in 1 .. w * h : Scan(im, k - 1) \in Coordinates(im)
  BY <1>2, <1>3, <1>4, <1>5
<1>8. ASSUME NEW xy \in Coordinates(im) PROVE \E k \in 1 .. w * h : Scan(im, k - 1) = xy
  <2>1. PICK x \in 0 .. w - 1, y \in 0 .. h - 1 : xy = <<x, y>>
    BY <1>3
  <2>2. y * w + x \in 0 .. w * h - 1 /\ Scan(im, y * w + x) = <<x, y>>
    BY <1>6
  <2> DEFINE k == y * w + x
  <2>3. k + 1 \in 1 .. w * h /\ Scan(im, (k + 1) - 1) = xy
    <3> HIDE DEF k
    <3>1. k \in 0 .. w * h - 1 /\ Scan(im, k) = xy
      BY <2>1, <2>2 DEF k
    <3>2. (k + 1) - 1 = k
      BY <3>1
    <3> QED
      BY <1>4, <3>1, <3>2
  <2> QED
    BY <2>3
<1>9. ASSUME NEW k \in 1 .. w * h, NEW j \in 1 .. w * h, Scan(im, k - 1) = Scan(im, j - 1) PROVE k = j
  <2> DEFINE a == k - 1
             b == j - 1
  <2>1. a \in 0 .. w * h - 1 /\ b \in 0 .. w * h - 1
    BY <1>4
  <2>2. <<a % w, a \div w>> = <<b % w, b \div w>>
    BY <1>2, <1>9, Zenon
  <2> HIDE DEF a, b
  <2>3. a % w = b % w /\ a \div w = b \div w
    BY <2>2, Zenon
  <2>4. a = (a \div w) * w + (a % w) /\ b = (b \div w) * w + (b % w)
    BY <1>5, <2>1
  <2>5. a = b
    BY <2>3, <2>4
  <2> QED
    BY <1>4, <2>5 DEF a, b
<1> QED
  BY <1>4, <1>7, <1>8, <1>9 DEF w, h

\* Every pixel of a picture is at its places in the storage it is painted on,
\* and the other cells are as before.
At(places, B, xy, c) == \E p \in B : c = places[xy][p]

\* The pixels of an image have bits B, and no two bits have the same place.
Spread(im, places, B) ==
    /\ \A xy \in Coordinates(im) : DOMAIN places[xy] = B
    /\ \A xy, uv \in Coordinates(im) : \A p, q \in B : places[xy][p] = places[uv][q] => xy = uv /\ p = q

\* Each layer that is painted stays visible.
LEMMA PaintingFacts ==
    ASSUME NEW im, ProperImage(im), NEW storage, NEW B, NEW places, NEW picture,
           Spread(im, places, B)
    PROVE  /\ \A c : c \in DOMAIN Painted(im, storage, places, picture)
                     <=> c \in DOMAIN storage \/ \E xy \in Coordinates(im) : At(places, B, xy, c)
           /\ \A xy \in Coordinates(im), p \in B :
                 Painted(im, storage, places, picture)[places[xy][p]] = picture[xy][p]
           /\ \A c \in DOMAIN storage :
                 (\A xy \in Coordinates(im) : ~At(places, B, xy, c))
                 => Painted(im, storage, places, picture)[c] = storage[c]
<1> DEFINE C == Coordinates(im)
           n == im.width * im.height
           layers == [k \in 1 .. n |-> Layer(places[Scan(im, k - 1)], picture[Scan(im, k - 1)])]
           painted == Painted(im, storage, places, picture)
<1>1. painted = Layered(storage, layers, n)
  BY DEF Painted
<1>2. /\ n \in Nat
      /\ \A k \in 1 .. n : Scan(im, k - 1) \in C
      /\ \A xy \in C : \E k \in 1 .. n : Scan(im, k - 1) = xy
      /\ \A k, j \in 1 .. n : Scan(im, k - 1) = Scan(im, j - 1) => k = j
  BY ScanFacts
<1>3. ASSUME NEW xy \in C
      PROVE  /\ DOMAIN Layer(places[xy], picture[xy]) = {places[xy][p] : p \in B}
             /\ \A p \in B : Layer(places[xy], picture[xy])[places[xy][p]] = picture[xy][p]
  <2> DEFINE place == places[xy]
             pixel == picture[xy]
  <2>1. DOMAIN place = B
    BY DEF Spread
  <2>2. OneToOne(place)
    BY <2>1 DEF OneToOne, Spread
  <2> HIDE DEF place, pixel
  <2>3. /\ DOMAIN Layer(place, pixel) = {place[p] : p \in DOMAIN place}
        /\ \A p \in DOMAIN place : Layer(place, pixel)[place[p]] = pixel[p]
    BY ONLY <2>2, LayerFacts
  <2> QED
    BY <2>1, <2>3 DEF place, pixel
<1>4. \A k \in 1 .. n : layers[k] = Layer(places[Scan(im, k - 1)], picture[Scan(im, k - 1)])
  OBVIOUS
<1>5. \A xy, uv \in C : \A c : At(places, B, xy, c) /\ At(places, B, uv, c) => xy = uv
  BY DEF At, Spread
<1> HIDE DEF C, layers, n, painted
<1>6. /\ \A c : c \in DOMAIN painted <=> c \in DOMAIN storage \/ ~Bare(layers, n, c)
      /\ \A c \in DOMAIN storage : Bare(layers, n, c) => painted[c] = storage[c]
      /\ \A k \in 1 .. n : \A c : Top(layers, n, k, c) => painted[c] = layers[k][c]
  BY ONLY <1>1, <1>2, Layers
<1>7. ASSUME NEW k \in 1 .. n, NEW c
      PROVE  c \in DOMAIN layers[k] <=> At(places, B, Scan(im, k - 1), c)
  <2> DEFINE xy == Scan(im, k - 1)
  <2>1. xy \in C /\ layers[k] = Layer(places[xy], picture[xy])
    BY <1>2, <1>4
  <2> HIDE DEF xy
  <2>2. DOMAIN layers[k] = {places[xy][p] : p \in B}
    BY <1>3, <2>1
  <2>3. c \in DOMAIN layers[k] <=> At(places, B, xy, c)
    BY ONLY <2>2 DEF At
  <2> QED
    BY <2>3 DEF xy
<1>8. ASSUME NEW c PROVE Bare(layers, n, c) <=> \A xy \in C : ~At(places, B, xy, c)
  BY ONLY <1>2, <1>7 DEF Bare
<1>9. ASSUME NEW xy \in C, NEW p \in B PROVE painted[places[xy][p]] = picture[xy][p]
  <2> DEFINE c == places[xy][p]
  <2>1. At(places, B, xy, c)
    BY DEF At
  <2>2. PICK k \in 1 .. n : Scan(im, k - 1) = xy
    BY <1>2
  <2>3. layers[k] = Layer(places[xy], picture[xy])
    BY <1>4, <2>2
  <2>4. layers[k][c] = picture[xy][p]
    <3>1. Layer(places[xy], picture[xy])[places[xy][p]] = picture[xy][p]
      BY <1>3
    <3> QED
      BY ONLY <2>3, <3>1
  <2> HIDE DEF c
  <2>5. c \in DOMAIN layers[k]
    BY ONLY <1>7, <2>1, <2>2
  <2>6. ASSUME NEW j \in 1 .. n, j > k PROVE c \notin DOMAIN layers[j]
    <3> DEFINE uv == Scan(im, j - 1)
    <3>1. uv # xy /\ uv \in C
      BY ONLY <1>2, <2>2, <2>6
    <3>2. ~At(places, B, uv, c)
      BY ONLY <1>5, <2>1, <3>1, xy \in C
    <3> QED
      BY ONLY <1>7, <3>2
  <2>7. Top(layers, n, k, c)
    BY ONLY <2>5, <2>6 DEF Top
  <2> QED
    BY <1>6, <2>4, <2>7 DEF c
<1> QED
  BY <1>6, <1>8, <1>9 DEF painted, C

\* All bits of a pixel are stored, so that a picture is what is at the places.
LEMMA AllStored ==
    ASSUME NEW im, ProperImage(im)
    PROVE  Stored(im) = 0 .. im.bpp - 1
BY XYImage DEF Stored

\* What is read is what is at the places.
LEMMA PictureIs ==
    ASSUME NEW im, ProperImage(im), NEW storage
    PROVE  Picture(im, storage)
              = [xy \in Coordinates(im) |-> [p \in 0 .. im.bpp - 1 |->
                  storage[Place(im, xy[1], xy[2], p)]]]
<1>1. ASSUME NEW xy \in Coordinates(im)
      PROVE  xcb_image_get_pixel(im, storage, xy[1], xy[2])
                = [p \in 0 .. im.bpp - 1 |-> storage[Place(im, xy[1], xy[2], p)]]
  BY AllStored DEF xcb_image_get_pixel
<1> QED
  BY <1>1 DEF Picture

\* What a pixel of another size has.
LEMMA FitFacts ==
    ASSUME NEW pixel, NEW bits, NEW p \in 0 .. bits - 1
    PROVE  /\ DOMAIN Fit(pixel, bits) = 0 .. bits - 1
           /\ p \in DOMAIN pixel => Fit(pixel, bits)[p] = pixel[p]
           /\ p \notin DOMAIN pixel => Fit(pixel, bits)[p] = Zero
BY DEF Fit

\* The places of a picture are within the storage and differ.
LEMMA PlacesFacts ==
    ASSUME NEW im, ProperImage(im), NEW bits \in 0 .. im.bpp, NEW places,
           places = [xy \in Coordinates(im) |-> [p \in 0 .. bits - 1 |-> Place(im, xy[1], xy[2], p)]]
    PROVE  /\ Spread(im, places, 0 .. bits - 1)
           /\ \A xy \in Coordinates(im), p \in 0 .. bits - 1 :
                 places[xy][p] = Place(im, xy[1], xy[2], p)
           /\ \A xy \in Coordinates(im) : \A c : At(places, 0 .. bits - 1, xy, c)
                  => c \in DOMAIN Fresh(im)
<1>1. im.bpp \in Nat /\ \A p \in 0 .. bits - 1 : p \in 0 .. im.bpp - 1
  BY DEF ProperImage
<1>2. /\ \A xy \in Coordinates(im) : DOMAIN places[xy] = 0 .. bits - 1
      /\ \A xy \in Coordinates(im), p \in 0 .. bits - 1 : places[xy][p] = Place(im, xy[1], xy[2], p)
  OBVIOUS
<1>3. \A xy \in Coordinates(im) :
         xy[1] \in 0 .. im.width - 1 /\ xy[2] \in 0 .. im.height - 1 /\ xy = <<xy[1], xy[2]>>
  BY DEF Coordinates
<1>4. ASSUME NEW xy \in Coordinates(im), NEW uv \in Coordinates(im),
             NEW p \in 0 .. bits - 1, NEW q \in 0 .. bits - 1, places[xy][p] = places[uv][q]
      PROVE  xy = uv /\ p = q
  <2>1. Place(im, xy[1], xy[2], p) = Place(im, uv[1], uv[2], q)
    BY <1>2, <1>4
  <2>2. xy[1] = uv[1] /\ xy[2] = uv[2] /\ p = q
    BY ONLY <1>1, <1>3, <2>1, ProperImage(im), PlacesDiffer
  <2> QED
    BY <1>3, <2>2
<1>5. ASSUME NEW xy \in Coordinates(im), NEW p \in 0 .. bits - 1
      PROVE  places[xy][p] \in DOMAIN Fresh(im)
  <2>1. Place(im, xy[1], xy[2], p) \in (0 .. Size(im) - 1) \X (0 .. 7)
    BY ONLY <1>1, <1>3, ProperImage(im), PlaceInside
  <2> QED
    BY <1>2, <2>1 DEF Fresh
<1>6. \A xy \in Coordinates(im) : \A c : At(places, 0 .. bits - 1, xy, c) => c \in DOMAIN Fresh(im)
  BY ONLY <1>5 DEF At
<1> QED
  BY ONLY <1>2, <1>4, <1>6 DEF Spread

\* What is read after a picture was put, and where it was written.
LEMMA PutAllFacts ==
    ASSUME NEW im, ProperImage(im), NEW storage, NEW picture, DOMAIN Fresh(im) \subseteq DOMAIN storage
    PROVE  /\ Picture(im, PutAll(im, storage, picture))
                 = [xy \in Coordinates(im) |-> Fit(picture[xy], im.bpp)]
           /\ DOMAIN PutAll(im, storage, picture) = DOMAIN storage
<1> DEFINE places == [xy \in Coordinates(im) |-> [p \in 0 .. im.bpp - 1 |-> Place(im, xy[1], xy[2], p)]]
           pixels == [xy \in Coordinates(im) |-> Fit(picture[xy], im.bpp)]
           B == 0 .. im.bpp - 1
<1>1. PutAll(im, storage, picture) = Painted(im, storage, places, pixels)
  <2>1. \A xy \in Coordinates(im) : Places(im, xy[1], xy[2]) = places[xy]
    BY AllStored DEF Places
  <2>2. [xy \in Coordinates(im) |-> Places(im, xy[1], xy[2])] = places
    BY <2>1
  <2> QED
    BY <2>2 DEF PutAll
<1>2. im.bpp \in 0 .. im.bpp
  BY DEF ProperImage
<1>3. \A xy \in Coordinates(im) : pixels[xy] = Fit(picture[xy], im.bpp)
  OBVIOUS
<1>4. places = [xy \in Coordinates(im) |-> [p \in 0 .. im.bpp - 1 |-> Place(im, xy[1], xy[2], p)]]
  OBVIOUS
<1>5. pixels = [xy \in Coordinates(im) |-> Fit(picture[xy], im.bpp)]
  OBVIOUS
<1>6. B = 0 .. im.bpp - 1
  OBVIOUS
<1> DEFINE painted == Painted(im, storage, places, pixels)
<1> HIDE DEF places, pixels, B, painted
<1>7. /\ Spread(im, places, B)
      /\ \A xy \in Coordinates(im), p \in B : places[xy][p] = Place(im, xy[1], xy[2], p)
      /\ \A xy \in Coordinates(im) : \A c : At(places, B, xy, c) => c \in DOMAIN Fresh(im)
  BY ONLY <1>2, <1>4, <1>6, ProperImage(im), PlacesFacts
<1>8. /\ \A c : c \in DOMAIN painted <=> c \in DOMAIN storage \/ \E xy \in Coordinates(im) : At(places, B, xy, c)
      /\ \A xy \in Coordinates(im), p \in B : painted[places[xy][p]] = pixels[xy][p]
  BY ONLY <1>7, ProperImage(im), PaintingFacts DEF painted
<1>9. DOMAIN painted = DOMAIN storage
  BY <1>7, <1>8
<1>10. ASSUME NEW xy \in Coordinates(im)
       PROVE  [p \in B |-> painted[Place(im, xy[1], xy[2], p)]] = Fit(picture[xy], im.bpp)
  <2>1. \A p \in B : painted[Place(im, xy[1], xy[2], p)] = Fit(picture[xy], im.bpp)[p]
    BY <1>3, <1>7, <1>8
  <2> DEFINE pixel == picture[xy]
  <2>2. Fit(pixel, im.bpp) = [p \in B |-> Fit(pixel, im.bpp)[p]]
    BY <1>6 DEF Fit
  <2> QED
    BY <2>1, <2>2
<1>11. Picture(im, painted) = [xy \in Coordinates(im) |->
           [p \in B |-> painted[Place(im, xy[1], xy[2], p)]]]
  BY <1>6, PictureIs
<1>12. Picture(im, painted) = [xy \in Coordinates(im) |-> Fit(picture[xy], im.bpp)]
  BY <1>10, <1>11
<1> QED
  BY <1>1, <1>9, <1>12 DEF painted

\* The places of the pixel at (x, y).
IsPlaceOf(place, im, x, y) == place = [p \in 0 .. im.bpp - 1 |-> Place(im, x, y, p)]

\* What a pixel that is put at a place changes.
PutIsRead(im, storage, x, y, pixel, place) ==
    /\ Picture(im, Over(Layer(place, Fit(pixel, im.bpp)), storage))
          = [Picture(im, storage) EXCEPT ![<<x, y>>] = Fit(pixel, im.bpp)]
    /\ DOMAIN Over(Layer(place, Fit(pixel, im.bpp)), storage) = DOMAIN storage

\* A pixel that was put is read, and the others read as before.
LEMMA PutPixelFacts ==
    ASSUME NEW im, ProperImage(im), NEW storage, DOMAIN Fresh(im) \subseteq DOMAIN storage,
           NEW x \in 0 .. im.width - 1, NEW y \in 0 .. im.height - 1, NEW pixel, NEW place,
           IsPlaceOf(place, im, x, y)
    PROVE  PutIsRead(im, storage, x, y, pixel, place)
<1> DEFINE B == 0 .. im.bpp - 1
           fit == Fit(pixel, im.bpp)
           layer == Layer(place, fit)
           put == Over(layer, storage)
<1>1. OneToOne(place) /\ DOMAIN place = B /\ \A p \in B : place[p] = Place(im, x, y, p)
  <2>1. place = [p \in B |-> Place(im, x, y, p)]
    BY DEF IsPlaceOf
  <2> QED
    BY <2>1, PlacesDiffer DEF OneToOne
<1>2. /\ DOMAIN layer = {place[p] : p \in B}
      /\ \A p \in B : layer[place[p]] = fit[p]
  <2> HIDE DEF fit
  <2>1. /\ DOMAIN Layer(place, fit) = {place[p] : p \in DOMAIN place}
        /\ \A p \in DOMAIN place : Layer(place, fit)[place[p]] = fit[p]
    <3>1. OneToOne(place)
      BY <1>1
    <3> HIDE DEF B, layer, put
    <3> QED
      BY ONLY <3>1, LayerFacts
  <2> QED
    BY ONLY <1>1, <2>1
<1>3. \A p \in B : place[p] \in DOMAIN storage
  <2>1. \A p \in B : Place(im, x, y, p) \in DOMAIN Fresh(im)
    BY PlaceInside DEF Fresh
  <2> QED
    BY <1>1, <2>1
<1>4. fit = [p \in B |-> fit[p]]
  BY DEF Fit
<1>5. /\ DOMAIN put = DOMAIN layer \cup DOMAIN storage
      /\ \A c \in DOMAIN layer : put[c] = layer[c]
      /\ \A c \in DOMAIN storage \ DOMAIN layer : put[c] = storage[c]
  <2> HIDE DEF layer
  <2> QED
    BY OverFacts
<1> HIDE DEF layer, put, fit, B
<1>6. DOMAIN put = DOMAIN storage
  BY ONLY <1>2, <1>3, <1>5
<1> DEFINE old == [xy \in Coordinates(im) |-> [p \in B |-> storage[Place(im, xy[1], xy[2], p)]]]
           new == [xy \in Coordinates(im) |-> [p \in B |-> put[Place(im, xy[1], xy[2], p)]]]
<1>7. Picture(im, storage) = old /\ Picture(im, put) = new
  BY ONLY ProperImage(im), PictureIs DEF B
<1>8. \A p \in B : put[Place(im, x, y, p)] = fit[p]
  BY <1>1, <1>2, <1>5
<1>9. ASSUME NEW v \in 0 .. im.width - 1, NEW w \in 0 .. im.height - 1, <<v, w>> # <<x, y>>
      PROVE  [p \in B |-> put[Place(im, v, w, p)]] = [p \in B |-> storage[Place(im, v, w, p)]]
  <2>1. ASSUME NEW p \in B PROVE put[Place(im, v, w, p)] = storage[Place(im, v, w, p)]
    <3>1. \A q \in B : Place(im, v, w, p) # Place(im, x, y, q)
      BY <1>9, PlacesDiffer DEF B
    <3>2. Place(im, v, w, p) \notin DOMAIN layer
      BY <1>1, <1>2, <3>1
    <3>3. Place(im, v, w, p) \in DOMAIN storage
      BY PlaceInside DEF Fresh, B
    <3> QED
      BY <1>5, <3>2, <3>3
  <2> QED
    BY <2>1
<1>10. new = [old EXCEPT ![<<x, y>>] = fit]
  <2>1. \A xy \in Coordinates(im) : new[xy] = IF xy = <<x, y>> THEN fit ELSE old[xy]
    <3> SUFFICES ASSUME NEW xy \in Coordinates(im)
                 PROVE  new[xy] = IF xy = <<x, y>> THEN fit ELSE old[xy]
      OBVIOUS
    <3>1. PICK v \in 0 .. im.width - 1, w \in 0 .. im.height - 1 : xy = <<v, w>>
      BY DEF Coordinates
    <3>2. <<v, w>> \in Coordinates(im)
      BY DEF Coordinates
    <3>3. /\ new[<<v, w>>] = [p \in B |-> put[Place(im, v, w, p)]]
          /\ old[<<v, w>>] = [p \in B |-> storage[Place(im, v, w, p)]]
      BY <3>2
    <3>4. CASE <<v, w>> = <<x, y>>
      <4>1. v = x /\ w = y
        BY <3>4, Zenon
      <4>2. [p \in B |-> put[Place(im, v, w, p)]] = [p \in B |-> fit[p]]
        BY <1>8, <4>1
      <4> QED
        BY <1>4, <3>1, <3>3, <3>4, <4>2
    <3>5. CASE <<v, w>> # <<x, y>>
      BY <1>9, <3>1, <3>3, <3>5
    <3> QED
      BY <3>4, <3>5
  <2> QED
    BY <2>1
<1> QED
  BY <1>6, <1>7, <1>10 DEF put, layer, fit, PutIsRead

\* The inline functions use the places of the layout they suit.
LEMMA FastPlaces ==
    ASSUME NEW im, ProperImage(im), NEW variant \in Variant, Suits(variant, im),
           NEW x \in 0 .. im.width - 1, NEW y \in 0 .. im.height - 1, NEW p \in 0 .. im.bpp - 1
    PROVE  FastPlace(variant, im, x, y, p) = Place(im, x, y, p)
<1> DEFINE row == y * stride(im, im.width)
<1>1. /\ im.width \in Nat /\ im.height \in Nat /\ im.bpp \in Nat
      /\ stride(im, im.width) \in Nat /\ row \in Nat
  <2>1. im.width \in Nat /\ im.height \in Nat /\ im.bpp \in Nat /\ stride(im, im.width) \in Nat
    BY StrideFacts DEF ProperImage
  <2> DEFINE s == stride(im, im.width)
  <2>2. y * s \in Nat
    <3> HIDE DEF s
    <3> QED
      BY <2>1 DEF s
  <2> QED
    BY <2>1, <2>2
<1> DEFINE k == x \div 8
<1>2. k \in Nat
  BY <1>1
<1>3. CASE variant \in {"XY32M", "XY32L"}
  <2>1. effective_format(im) = "XY" /\ im.depth = 1 /\ im.unit = 32 /\ im.byte_order = LSB
    BY <1>3 DEF Suits, IsBitmap32
  <2>2. im.bpp = 1 /\ p = 0
    BY <1>1, <2>1, XYImage
  <2>3. Place(im, x, y, p) = <<row + xy_image_byte(im, x), xy_image_bit(im, x)>>
    <3>1. Place(im, x, y, p)
            = <<(im.bpp - 1 - p) * (im.height * stride(im, im.width)) + row + xy_image_byte(im, x),
                xy_image_bit(im, x)>>
      BY <2>1 DEF Place
    <3> DEFINE plane == im.height * stride(im, im.width)
    <3>2. plane \in Nat
      <4> DEFINE s == stride(im, im.width)
                 h == im.height
      <4>1. s \in Nat /\ h \in Nat
        BY <1>1
      <4>2. h * s \in Nat
        <5> HIDE DEF s, h
        <5> QED
          BY <4>1
      <4> QED
        BY <4>2
    <3>3. (im.bpp - 1 - p) * plane + row = row
      <4> HIDE DEF plane, row
      <4> QED
        BY <1>1, <2>2, <3>2
    <3> QED
      BY <3>1, <3>3
  <2>4. CASE variant = "XY32M"
    <3>1. im.bit_order = MSB
      BY <2>4 DEF Suits, IsBitmap32
    <3>2. xy_image_byte(im, x) = Xor(k, 3) /\ xy_image_bit(im, x) = 7 - (x % 8)
      BY <2>1, <3>1 DEF xy_image_byte, xy_image_bit, UnitFlip, LSB, MSB
    <3>3. Xor(k, 3) = Floor(k, 4) + 3 - (k % 4)
      <4> HIDE DEF k
      <4> QED
        BY <1>2, XorIs DEF Floor
    <3>4. FastPlace(variant, im, x, y, p) = <<row + Floor(k, 4) + 3 - (k % 4), 7 - (x % 8)>>
      BY <2>4 DEF FastPlace
    <3>5. row + Floor(k, 4) + 3 - (k % 4) = row + (Floor(k, 4) + 3 - (k % 4))
      <4> HIDE DEF k, row
      <4> QED
        BY <1>1, <1>2 DEF Floor
    <3> QED
      BY <2>3, <3>2, <3>3, <3>4, <3>5, Zenon
  <2>5. CASE variant = "XY32L"
    <3>1. im.bit_order = LSB
      BY <2>5 DEF Suits, IsBitmap32
    <3>2. xy_image_byte(im, x) = k /\ xy_image_bit(im, x) = x % 8
      BY <2>1, <3>1 DEF xy_image_byte, xy_image_bit, LSB, MSB
    <3>3. FastPlace(variant, im, x, y, p) = <<row + k, x % 8>>
      BY <2>5 DEF FastPlace
    <3> QED
      BY <2>3, <3>2, <3>3, Zenon
  <2> QED
    BY <1>3, <2>4, <2>5
<1>4. CASE variant = "Z8"
  <2>1. im.format = "Z" /\ im.bpp = 8
    BY <1>4 DEF Suits, IsPixmap
  <2>2. effective_format(im) = "Z"
    BY <2>1 DEF effective_format
  <2>3. Place(im, x, y, p) = <<row + x * 1 + (IF im.byte_order = MSB THEN 1 - 1 - (p \div 8) ELSE p \div 8), p % 8>>
    BY <2>1, <2>2 DEF Place
  <2>4. p \in 0 .. 7 /\ p \div 8 = 0 /\ p % 8 = p
    BY <2>1
  <2>5. FastPlace(variant, im, x, y, p) = <<row + x, p>>
    BY <1>4 DEF FastPlace
  <2> HIDE DEF row
  <2> QED
    BY <1>1, <2>3, <2>4, <2>5
<1>5. CASE variant \in {"Z32M", "Z32L"}
  <2>1. im.format = "Z" /\ im.bpp = 32
    BY <1>5 DEF Suits, IsPixmap
  <2>2. effective_format(im) = "Z"
    BY <2>1 DEF effective_format
  <2>3. Place(im, x, y, p) = <<row + x * 4 + (IF im.byte_order = MSB THEN 4 - 1 - (p \div 8) ELSE p \div 8), p % 8>>
    BY <2>1, <2>2 DEF Place
  <2>4. im.byte_order = IF variant = "Z32M" THEN MSB ELSE LSB
    BY <1>5 DEF Suits, IsPixmap
  <2>5. FastPlace(variant, im, x, y, p)
          = <<row + 4 * x + (IF variant = "Z32M" THEN 3 - (p \div 8) ELSE p \div 8), p % 8>>
    <3>1. CASE variant = "Z32M"
      <4>1. FastPlace(variant, im, x, y, p) = <<row + 4 * x + 3 - (p \div 8), p % 8>>
        BY <3>1 DEF FastPlace
      <4>2. row + 4 * x + 3 - (p \div 8) = row + 4 * x + (3 - (p \div 8))
        <5> HIDE DEF row
        <5> QED
          BY <1>1
      <4> QED
        BY <3>1, <4>1, <4>2
    <3>2. CASE variant = "Z32L"
      BY <3>2 DEF FastPlace
    <3> QED
      BY <1>5, <3>1, <3>2
  <2>6. row + x * 4 = row + 4 * x /\ 4 - 1 - (p \div 8) = 3 - (p \div 8)
    <3> HIDE DEF row
    <3> QED
      BY <1>1
  <2>7. CASE variant = "Z32M"
    BY <2>3, <2>4, <2>5, <2>6, <2>7
  <2>8. CASE variant = "Z32L"
    BY <2>3, <2>4, <2>5, <2>6, <2>8 DEF LSB, MSB
  <2> QED
    BY <1>5, <2>7, <2>8
<1> QED
  BY <1>3, <1>4, <1>5 DEF Variant

-----------------------------------------------------------------------------
(* Conversion.                                                              *)

\* Two images of the same kind.
Similar(from, to) ==
    /\ ProperImage(from) /\ ProperImage(to) /\ SameKind(from, to)
    /\ from.width = to.width /\ from.height = to.height /\ from.depth = to.depth
    /\ effective_format(from) = "Z" /\ from.bpp = 24 => from.byte_order = to.byte_order

\* Images of the same kind and layout have the same places.
LEMMA SameLayoutFacts ==
    ASSUME NEW from, NEW to, Similar(from, to), SameLayout(from, to)
    PROVE  /\ stride(from, from.width) = stride(to, to.width)
           /\ Size(from) = Size(to)
           /\ \A x \in 0 .. to.width - 1, y \in 0 .. to.height - 1, p \in 0 .. to.bpp - 1 :
                 Place(from, x, y, p) = Place(to, x, y, p)
<1>1. /\ effective_format(from) = effective_format(to) /\ from.bpp = to.bpp /\ from.width = to.width
      /\ from.height = to.height /\ from.depth = to.depth /\ from.pad = to.pad /\ from.unit = to.unit
      /\ from.byte_order = to.byte_order
      /\ effective_format(to) = "XY" => from.bit_order = to.bit_order
  BY DEF Similar, SameKind, SameLayout
<1>2. stride(from, from.width) = stride(to, to.width)
  BY <1>1 DEF stride
<1>3. Size(from) = Size(to)
  BY <1>1, <1>2 DEF Size
<1>4. ASSUME NEW x \in 0 .. to.width - 1, NEW y \in 0 .. to.height - 1, NEW p \in 0 .. to.bpp - 1
      PROVE  Place(from, x, y, p) = Place(to, x, y, p)
  <2>1. CASE effective_format(to) = "XY"
    <3>1. xy_image_byte(from, x) = xy_image_byte(to, x) /\ xy_image_bit(from, x) = xy_image_bit(to, x)
      BY <1>1, <2>1 DEF xy_image_byte, xy_image_bit
    <3> QED
      BY <1>1, <1>2, <2>1, <3>1 DEF Place
  <2>2. CASE effective_format(to) # "XY"
    BY <1>1, <1>2, <2>2 DEF Place
  <2> QED
    BY <2>1, <2>2
<1> QED
  BY <1>2, <1>3, <1>4

\* The bytes of a row and their bits are exchanged as the two layouts differ.
LEMMA SwapFollowsLayout ==
    ASSUME NEW from, NEW to, Similar(from, to),
           NEW x \in 0 .. to.width - 1, NEW p \in 0 .. to.bpp - 1
    PROVE  /\ Xor(ByteOf(from, x, p), conversion_byte_swap(from, to)) = ByteOf(to, x, p)
           /\ Xor(ByteOf(to, x, p), conversion_byte_swap(from, to)) = ByteOf(from, x, p)
           /\ SwappedBit(from, to, BitOf(to, x, p)) = BitOf(from, x, p)
<1>1. /\ ProperImage(from) /\ ProperImage(to)
      /\ effective_format(from) = effective_format(to) /\ from.bpp = to.bpp /\ to.width \in Nat
             /\ to.bpp \in Nat
      /\ from.byte_order \in {LSB, MSB} /\ to.byte_order \in {LSB, MSB}
      /\ from.bit_order \in {LSB, MSB} /\ to.bit_order \in {LSB, MSB}
      /\ LSB # MSB
  BY DEF Similar, SameKind, ProperImage, LSB, MSB
<1>2. CASE effective_format(to) = "XY"
  <2> DEFINE k == x \div 8
             a == FlipOf(from)
             b == FlipOf(to)
  <2>1. k \in Nat
    BY <1>1
  <2>2. a \in {0, 1, 3} /\ b \in {0, 1, 3} /\ bit_order(from) = a /\ bit_order(to) = b
    BY <1>1, <1>2, FlipFacts
  <2>3. xy_image_byte(from, x) = Xor(k, a) /\ xy_image_byte(to, x) = Xor(k, b)
    BY <1>1, <1>2, FlipFacts
  <2>4. ByteOf(from, x, p) = Xor(k, a) /\ ByteOf(to, x, p) = Xor(k, b)
    BY <1>1, <1>2, <2>3 DEF ByteOf
  <2>5. conversion_byte_swap(from, to) = Xor(a, b)
    BY <1>1, <1>2, <2>2 DEF conversion_byte_swap
  <2>6. Xor(Xor(k, a), Xor(a, b)) = Xor(k, b) /\ Xor(Xor(k, b), Xor(b, a)) = Xor(k, a)
            /\ Xor(a, b) = Xor(b, a)
    <3> HIDE DEF k, a, b
    <3> QED
      BY <2>1, <2>2, XorXor
  <2>7. SwappedBit(from, to, BitOf(to, x, p)) = BitOf(from, x, p)
    BY <1>1, <1>2 DEF SwappedBit, BitOf, xy_image_bit
  <2> QED
    BY <2>4, <2>5, <2>6, <2>7
<1>3. CASE effective_format(to) # "XY"
  <2>1. /\ effective_format(from) = "Z" /\ effective_format(to) = "Z"
        /\ to.bpp \in {4, 8, 16, 24, 32}
    BY <1>1, <1>3, ZImage
  <2> DEFINE flip == conversion_byte_swap(from, to)
  <2>2. flip = Xor(byte_order(from), byte_order(to))
    BY <2>1 DEF conversion_byte_swap
  <2>3. Xor(0, 0) = 0 /\ Xor(1, 1) = 0 /\ Xor(3, 3) = 0 /\ Xor(0, 1) = 1 /\ Xor(1, 0) = 1
        /\ Xor(0, 3) = 3 /\ Xor(3, 0) = 3
    BY XorIs
  <2>4. flip = IF from.byte_order = to.byte_order \/ to.bpp \notin {16, 32} THEN 0 ELSE UnitFlip(to.bpp)
    BY <1>1, <2>1, <2>2, <2>3 DEF byte_order, UnitFlip
  <2>5. CASE to.bpp = 4
    <3>1. flip = 0 /\ ByteOf(from, x, p) = x \div 2 /\ ByteOf(to, x, p) = x \div 2
      BY <1>1, <2>1, <2>4, <2>5 DEF ByteOf
    <3>2. Xor(x \div 2, 0) = x \div 2
      BY <1>1, XorIs
    <3>3. p \in 0 .. 3
      BY <2>5
    <3>4. SwappedBit(from, to, BitOf(to, x, p)) = BitOf(from, x, p)
      <4>1. CASE from.byte_order = to.byte_order
        BY <1>1, <2>1, <2>5, <4>1 DEF SwappedBit, BitOf
      <4>2. CASE from.byte_order # to.byte_order
        <5>1. BitOf(from, x, p) = IF BitOf(to, x, p) = p THEN p + 4 ELSE p
          BY <1>1, <2>1, <2>5, <3>3, <4>2 DEF BitOf
        <5>2. BitOf(to, x, p) \in {p, p + 4}
          BY <1>1, <2>1, <2>5 DEF BitOf
        <5>3. SwappedBit(from, to, BitOf(to, x, p)) = (BitOf(to, x, p) + 4) % 8
          BY <1>1, <2>1, <2>5, <4>2 DEF SwappedBit
        <5> QED
          BY <3>3, <5>1, <5>2, <5>3
      <4> QED
        BY <4>1, <4>2
    <3> QED
      BY <3>1, <3>2, <3>4
  <2>6. CASE to.bpp # 4
    <3>1. SwappedBit(from, to, BitOf(to, x, p)) = BitOf(from, x, p)
      BY <1>1, <2>1, <2>6 DEF SwappedBit, BitOf
    <3> DEFINE n == to.bpp \div 8
               e == p \div 8
               place(order) == x * n + (IF order = MSB THEN n - 1 - e ELSE e)
    <3>2. ByteOf(from, x, p) = place(from.byte_order) /\ ByteOf(to, x, p) = place(to.byte_order)
      BY <1>1, <2>1, <2>6 DEF ByteOf
    <3>3. n \in 1 .. 4 /\ e \in 0 .. n - 1 /\ (to.bpp = 16 => n = 2) /\ (to.bpp = 32 => n = 4)
          /\ (to.bpp = 8 => n = 1)
      BY <1>1, <2>1, <2>6
    <3>4. place(from.byte_order) \in Nat /\ place(to.byte_order) \in Nat
      <4> HIDE DEF n, e
      <4> QED
        BY <1>1, <3>3
    <3>5. \A k \in Nat : Xor(k, 0) = k
      BY XorIs
    <3>6. CASE from.byte_order = to.byte_order
      <4>1. flip = 0
        BY <2>4, <3>6
      <4> HIDE DEF n, e, place, flip
      <4> QED
        BY <3>1, <3>2, <3>4, <3>5, <3>6, <4>1 DEF flip
    <3>7. CASE from.byte_order # to.byte_order
      <4>1. to.bpp \in {8, 16, 32}
        BY <1>1, <2>1, <2>6, <3>7 DEF Similar
      <4>2. ASSUME NEW i \in 0 .. n - 1
            PROVE  Xor(x * n + i, flip) = x * n + (n - 1 - i)
                       /\ Xor(x * n + (n - 1 - i), flip) = x * n + i
        <5>1. CASE to.bpp = 8
          <6>1. flip = 0 /\ n = 1 /\ i = 0
            BY <2>4, <3>3, <5>1
          <6> HIDE DEF n, flip
          <6> QED
            BY <1>1, <3>5, <6>1
        <5>2. CASE to.bpp = 16
          <6>1. flip = 1 /\ n = 2
            BY <2>4, <3>3, <3>7, <5>2 DEF UnitFlip
          <6>2. \A k \in Nat : Xor(k, 1) = k + 1 - 2 * (k % 2)
            BY XorIs
          <6> HIDE DEF n, flip
          <6>3. x \in Nat /\ i \in 0 .. 1
            BY <1>1, <6>1
          <6>4. \A j \in 0 .. 1 : x * 2 + j \in Nat /\ (x * 2 + j) % 2 = j
            BY <6>3
          <6>5. \A j \in 0 .. 1 : Xor(x * 2 + j, 1) = x * 2 + (2 - 1 - j)
            BY <6>2, <6>3, <6>4
          <6>6. Xor(x * 2 + (2 - 1 - i), 1) = x * 2 + i
            BY <6>3, <6>5
          <6> QED
            BY <6>1, <6>3, <6>5, <6>6
        <5>3. CASE to.bpp = 32
          <6>1. flip = 3 /\ n = 4
            BY <2>4, <3>3, <3>7, <5>3 DEF UnitFlip
          <6>2. \A k \in Nat : Xor(k, 3) = 4 * (k \div 4) + 3 - (k % 4)
            BY XorIs
          <6> HIDE DEF n, flip
          <6>3. x \in Nat /\ i \in 0 .. 3
            BY <1>1, <6>1
          <6>4. \A j \in 0 .. 3 : x * 4 + j \in Nat /\ (x * 4 + j) % 4 = j /\ (x * 4 + j) \div 4 = x
            BY <6>3
          <6>5. ASSUME NEW j \in 0 .. 3 PROVE Xor(x * 4 + j, 3) = x * 4 + (4 - 1 - j)
            <7> DEFINE k == x * 4 + j
            <7>1. k \in Nat /\ k % 4 = j /\ k \div 4 = x
              BY <6>4
            <7> HIDE DEF k
            <7>2. Xor(k, 3) = 4 * (k \div 4) + 3 - (k % 4)
              BY <6>2, <7>1
            <7>3. Xor(k, 3) = x * 4 + (4 - 1 - j)
              BY <6>3, <7>1, <7>2
            <7> QED
              BY <7>3 DEF k
          <6>6. Xor(x * 4 + (4 - 1 - i), 3) = x * 4 + i
            BY <6>3, <6>5
          <6> QED
            BY <6>1, <6>3, <6>5, <6>6
        <5> QED
          BY <4>1, <5>1, <5>2, <5>3
      <4>3. CASE from.byte_order = MSB
        <5>1. place(from.byte_order) = x * n + (n - 1 - e) /\ place(to.byte_order) = x * n + e
          BY <1>1, <3>7, <4>3
        <5> HIDE DEF n, e, flip, place
        <5> QED
          BY <3>1, <3>2, <3>3, <4>2, <5>1 DEF flip
      <4>4. CASE from.byte_order # MSB
        <5>1. place(to.byte_order) = x * n + (n - 1 - e) /\ place(from.byte_order) = x * n + e
          BY <1>1, <3>7, <4>4
        <5> HIDE DEF n, e, flip, place
        <5> QED
          BY <3>1, <3>2, <3>3, <4>2, <5>1 DEF flip
      <4> QED
        BY <4>3, <4>4
    <3> QED
      BY <3>6, <3>7
  <2> QED
    BY <2>5, <2>6
<1> QED
  BY <1>2, <1>3

\* Exclusive or leads from bytes to bytes.
Closed(flip) == \A s \in Nat : Xor(s, flip) \in Nat

\* A cell of the image that swap_image makes is that of the source whose byte
\* and bit change places with it; the byte beyond a row that is written is
\* overwritten by the next row, except after the last one.
Moves(from, storage, to, height, old, new, flip) ==
    /\ \A y \in 0 .. height - 1, s \in 0 .. old - 1, t \in 0 .. new - 1, b \in 0 .. 7 :
          Xor(s, flip) = t /\ Xor(t, flip) = s
          => swap_image(from, storage, to)[<<y * new + t, b>>]
              = storage[<<y * old + s, SwappedBit(from, to, b)>>]
    /\ \A c \in DOMAIN swap_image(from, storage, to) : c \in DOMAIN Fresh(to) \/ c[1] <= height * new
    /\ DOMAIN Fresh(to) \subseteq DOMAIN swap_image(from, storage, to)

\* Row after row, swap_image moves the cells of its source.
LEMMA SwapCell ==
    ASSUME NEW from, NEW storage, NEW to, NEW height \in Nat, NEW old \in Nat, NEW new \in Nat,
           NEW flip,
           height = from.height * (IF effective_format(from) = "XY" THEN from.depth ELSE 1),
           old = stride(from, from.width), new = stride(to, to.width),
               flip = conversion_byte_swap(from, to),
           Closed(flip)
    PROVE  Moves(from, storage, to, height, old, new, flip)
<1> DEFINE cells(y) == {<<y * new + Xor(s, flip), b>> :
                           s \in {s \in 0 .. old - 1 : FitsRow(Xor(s, flip), new)},
                           b \in 0 .. 7}
           row(y) == [c \in cells(y) |->
                         storage[<<y * old + Xor(c[1] - y * new, flip), SwappedBit(from, to, c[2])>>]]
           layers == [k \in 1 .. height |-> row(k - 1)]
           swapped == swap_image(from, storage, to)
<1>0. \A s \in Nat : Xor(s, flip) \in Nat
  BY DEF Closed
<1>1. swapped = Layered(Fresh(to), layers, height)
  BY DEF swap_image
<1>2. ASSUME NEW k \in 1 .. height
      PROVE  /\ DOMAIN layers[k] = cells(k - 1)
             /\ \A c \in cells(k - 1) :
                   layers[k][c] = storage[<<(k - 1) * old + Xor(c[1] - (k - 1) * new, flip),
                       SwappedBit(from, to, c[2])>>]
  <2>1. layers[k] = row(k - 1)
    OBVIOUS
  <2> HIDE DEF layers, cells
  <2> QED
    BY <2>1
<1>3. ASSUME NEW y \in 0 .. height - 1, NEW c
      PROVE  c \in cells(y) <=> \E s \in 0 .. old - 1, b \in 0 .. 7 :
                                    Xor(s, flip) <= new /\ c = <<y * new + Xor(s, flip), b>>
  BY DEF FitsRow
<1> HIDE DEF layers, cells, swapped
<1>4. /\ \A c : c \in DOMAIN swapped <=> c \in DOMAIN Fresh(to) \/ ~Bare(layers, height, c)
      /\ \A k \in 1 .. height : \A c : Top(layers, height, k, c) => swapped[c] = layers[k][c]
  BY ONLY <1>1, height \in Nat, Layers
<1>5. ASSUME NEW y \in 0 .. height - 1, NEW s \in 0 .. old - 1, NEW t \in 0 .. new - 1,
             NEW b \in 0 .. 7,
             Xor(s, flip) = t, Xor(t, flip) = s
      PROVE  swapped[<<y * new + t, b>>] = storage[<<y * old + s, SwappedBit(from, to, b)>>]
  <2> DEFINE c == <<y * new + t, b>>
             k == y + 1
  <2>1. k \in 1 .. height /\ k - 1 = y
    OBVIOUS
  <2>2. c \in cells(y)
    <3>1. Xor(s, flip) <= new /\ c = <<y * new + Xor(s, flip), b>>
      BY <1>5
    <3> HIDE DEF c
    <3> QED
      BY <1>3, <3>1
  <2>3. c[1] = y * new + t /\ c[2] = b /\ (y * new + t) - y * new = t
    OBVIOUS
  <2>4. ASSUME NEW j \in 1 .. height, j > k PROVE c \notin DOMAIN layers[j]
    <3>1. SUFFICES ASSUME c \in cells(j - 1) PROVE FALSE
      BY <1>2
    <3>2. j - 1 \in 0 .. height - 1
      OBVIOUS
    <3>3. PICK r \in 0 .. old - 1, a \in 0 .. 7 :
             Xor(r, flip) <= new /\ c = <<(j - 1) * new + Xor(r, flip), a>>
      BY <1>3, <3>1, <3>2
    <3>4. y * new + t = (j - 1) * new + Xor(r, flip)
      BY <3>3
    <3>5. Xor(r, flip) \in Nat
      BY <1>0
    <3> DEFINE x == Xor(r, flip)
               l == j - 1
    <3>6. y * new + t = l * new + x /\ x \in Nat /\ l \in Nat /\ l > y /\ y \in Nat
      BY <2>4, <3>4, <3>5
    <3> HIDE DEF x, l
    <3>7. l * new >= (y + 1) * new
      BY ONLY <3>6, new \in Nat
    <3>8. (y + 1) * new = y * new + new /\ y * new \in Nat /\ l * new \in Nat
      BY ONLY <3>6, new \in Nat
    <3> QED
      BY ONLY <3>6, <3>7, <3>8, t \in 0 .. new - 1, new \in Nat
  <2>5. layers[k][c] = storage[<<y * old + s, SwappedBit(from, to, b)>>]
    <3>1. layers[k][c] = storage[<<y * old + Xor(c[1] - y * new, flip), SwappedBit(from, to, c[2])>>]
      <4> HIDE DEF c, k
      <4> QED
        BY <1>2, <2>1, <2>2
    <3> QED
      BY <1>5, <2>3, <3>1
  <2>6. Top(layers, height, k, c)
    <3>1. c \in DOMAIN layers[k]
      <4> HIDE DEF c, k
      <4> QED
        BY <1>2, <2>1, <2>2
    <3> HIDE DEF c, k
    <3> QED
      BY ONLY <2>4, <3>1 DEF Top
  <2> HIDE DEF c, k
  <2>7. swapped[c] = layers[k][c]
    BY ONLY <1>4, <2>1, <2>6
  <2> QED
    BY <2>5, <2>7 DEF c
<1>6. ASSUME NEW c \in DOMAIN swapped PROVE c \in DOMAIN Fresh(to) \/ c[1] <= height * new
  <2>1. SUFFICES ASSUME ~Bare(layers, height, c) PROVE c \in DOMAIN Fresh(to) \/ c[1] <= height * new
    BY <1>4
  <2>2. PICK k \in 1 .. height : c \in cells(k - 1)
    BY <1>2, <2>1 DEF Bare
  <2> DEFINE l == k - 1
  <2>3. l \in 0 .. height - 1
    OBVIOUS
  <2>4. PICK r \in 0 .. old - 1, a \in 0 .. 7 : Xor(r, flip) <= new /\ c = <<l * new + Xor(r, flip), a>>
    BY <1>3, <2>2, <2>3
  <2> DEFINE x == Xor(r, flip)
  <2>5. x \in Nat /\ x <= new /\ c[1] = l * new + x
    BY <1>0, <2>4
  <2> HIDE DEF l, x
  <2>6. l * new + x <= (l + 1) * new /\ (l + 1) * new <= height * new
    BY ONLY <2>3, <2>5, new \in Nat, height \in Nat
  <2>7. l * new \in Nat /\ (l + 1) * new \in Nat /\ height * new \in Nat
    BY ONLY <2>3, new \in Nat, height \in Nat
  <2> QED
    BY ONLY <2>5, <2>6, <2>7
<1>7. DOMAIN Fresh(to) \subseteq DOMAIN swapped
  BY <1>4
<1>8. \A y \in 0 .. height - 1, s \in 0 .. old - 1, t \in 0 .. new - 1, b \in 0 .. 7 :
         Xor(s, flip) = t /\ Xor(t, flip) = s
         => swapped[<<y * new + t, b>>] = storage[<<y * old + s, SwappedBit(from, to, b)>>]
  BY ONLY <1>5
<1> QED
  BY ONLY <1>6, <1>7, <1>8, Zenon DEF swapped, Moves

\* The storage of an image is its rows, plane after plane.
LEMMA SizeFacts ==
    ASSUME NEW im, ProperImage(im)
    PROVE  /\ Size(im) \in Nat
           /\ Planes(im) \in Nat
           /\ Size(im) = (im.height * Planes(im)) * stride(im, im.width)
           /\ \A c \in DOMAIN Fresh(im) : c[1] <= Size(im)
<1> DEFINE s == stride(im, im.width)
           h == im.height
<1>1. s \in Nat /\ h \in Nat /\ Planes(im) \in Nat
  BY StrideFacts DEF ProperImage, Planes
<1>2. Size(im) = (h * s) * Planes(im)
  BY DEF Size, Planes
<1> HIDE DEF s, h
<1>3. (h * s) * Planes(im) \in Nat /\ (h * s) * Planes(im) = (h * Planes(im)) * s
  BY <1>1
<1>4. \A c \in DOMAIN Fresh(im) : c[1] <= Size(im)
  BY <1>2, <1>3 DEF Fresh
<1> QED
  BY <1>1, <1>2, <1>3, <1>4 DEF s, h

\* A pixel of the right size fits.
LEMMA FitSame ==
    ASSUME NEW pixel, NEW bits, pixel = [p \in 0 .. bits - 1 |-> pixel[p]]
    PROVE  Fit(pixel, bits) = pixel
<1>1. DOMAIN pixel = 0 .. bits - 1
  OBVIOUS
<1>2. Fit(pixel, bits) = [p \in 0 .. bits - 1 |-> pixel[p]]
  BY <1>1 DEF Fit
<1> QED
  BY <1>2

\* The storage an image needs is there, and no more than a byte beyond it.
Near(im, storage) ==
    /\ DOMAIN Fresh(im) \subseteq DOMAIN storage
    /\ \A c \in DOMAIN storage : c[1] <= Size(im)

\* swap_image moves every bit of the source to its place in the new image.
LEMMA SwapFacts ==
    ASSUME NEW from, NEW to, Similar(from, to), NEW storage
    PROVE  /\ Near(to, swap_image(from, storage, to))
           /\ \A x \in 0 .. to.width - 1, y \in 0 .. to.height - 1, p \in 0 .. to.bpp - 1 :
                 swap_image(from, storage, to)[Place(to, x, y, p)] = storage[Place(from, x, y, p)]
<1> DEFINE height == from.height * (IF effective_format(from) = "XY" THEN from.depth ELSE 1)
           old == stride(from, from.width)
           new == stride(to, to.width)
           flip == conversion_byte_swap(from, to)
           swapped == swap_image(from, storage, to)
<1>1. /\ ProperImage(from) /\ ProperImage(to)
      /\ effective_format(from) = effective_format(to) /\ from.bpp = to.bpp
      /\ from.width = to.width /\ from.height = to.height /\ from.depth = to.depth
  BY DEF Similar, SameKind
<1>2. old \in Nat /\ new \in Nat /\ Planes(to) \in Nat /\ to.height \in Nat /\ to.width \in Nat
          /\ to.bpp \in Nat
  BY <1>1, StrideFacts DEF ProperImage, Planes
<1>3. height = to.height * Planes(to)
  BY <1>1 DEF Planes
<1>4. height \in Nat
  BY <1>2, <1>3
<1>5. Closed(flip)
  <2>1. flip \in {0, 1, 2, 3}
    <3>1. effective_format(from) = "XY" => bit_order(from) \in {0, 1, 3} /\ bit_order(to) \in {0, 1, 3}
      BY <1>1, FlipFacts
    <3>2. byte_order(from) \in {0, 1, 3} /\ byte_order(to) \in {0, 1, 3}
      BY DEF byte_order, UnitFlip
    <3>3. \A a, b \in {0, 1, 3} : Xor(a, b) \in {0, 1, 2, 3}
      BY XorIs
    <3> QED
      BY <3>1, <3>2, <3>3 DEF conversion_byte_swap
  <2> HIDE DEF flip
  <2>2. ASSUME NEW s \in Nat PROVE Xor(s, flip) \in Nat
    <3>1. Xor(s, 0) \in Nat /\ Xor(s, 1) \in Nat /\ Xor(s, 3) \in Nat
      BY XorFacts
    <3>2. Xor(s, 2) = 4 * (s \div 4) + (((s % 4) + 2) % 4)
      BY XorIs
    <3>3. Xor(s, 2) \in Nat
      BY <3>2
    <3> QED
      BY <2>1, <3>1, <3>3
  <2> QED
    BY <2>2 DEF Closed
<1>6. /\ \A y \in 0 .. height - 1, s \in 0 .. old - 1, t \in 0 .. new - 1, b \in 0 .. 7 :
            Xor(s, flip) = t /\ Xor(t, flip) = s
            => swapped[<<y * new + t, b>>] = storage[<<y * old + s, SwappedBit(from, to, b)>>]
      /\ \A c \in DOMAIN swapped : c \in DOMAIN Fresh(to) \/ c[1] <= height * new
      /\ DOMAIN Fresh(to) \subseteq DOMAIN swapped
  <2> DEFINE h == height
             o == old
             n == new
             f == flip
  <2>1. /\ h = from.height * (IF effective_format(from) = "XY" THEN from.depth ELSE 1)
        /\ o = stride(from, from.width) /\ n = stride(to, to.width)
               /\ f = conversion_byte_swap(from, to)
    OBVIOUS
  <2>2. h \in Nat /\ o \in Nat /\ n \in Nat /\ Closed(f)
    BY <1>2, <1>4, <1>5
  <2> HIDE DEF h, o, n, f
  <2>3. Moves(from, storage, to, h, o, n, f)
    BY ONLY <2>1, <2>2, SwapCell
  <2> QED
    BY <2>3, Zenon DEF h, o, n, f, Moves
<1>7. Near(to, swapped)
  <2>1. Size(to) = height * new
    BY <1>1, <1>3, SizeFacts
  <2>2. \A c \in DOMAIN Fresh(to) : c[1] <= Size(to)
    BY <1>1, SizeFacts
  <2> HIDE DEF height, new, swapped
  <2> QED
    BY <1>6, <2>1, <2>2 DEF Near
<1>8. ASSUME NEW x \in 0 .. to.width - 1, NEW y \in 0 .. to.height - 1, NEW p \in 0 .. to.bpp - 1
      PROVE  swapped[Place(to, x, y, p)] = storage[Place(from, x, y, p)]
  <2> DEFINE line == PlaneOf(to, p) * to.height + y
             s == ByteOf(from, x, p)
             t == ByteOf(to, x, p)
             b == BitOf(to, x, p)
  <2>1. PlaneOf(to, p) \in 0 .. Planes(to) - 1 /\ t \in 0 .. new - 1 /\ b \in 0 .. 7
    BY <1>1, RowRange
  <2>2. s \in 0 .. old - 1
    BY <1>1, RowRange
  <2>3. line \in 0 .. height - 1
    <3> DEFINE plane == PlaneOf(to, p)
               h == to.height
               n == Planes(to)
    <3>1. plane \in 0 .. n - 1 /\ n \in Nat /\ h \in Nat /\ y \in 0 .. h - 1
      BY <1>2, <2>1
    <3>2. plane * h + y \in 0 .. n * h - 1 /\ n * h = h * n
      <4> HIDE DEF plane, h, n
      <4> QED
        BY <3>1, Within
    <3> HIDE DEF height
    <3> QED
      BY <1>3, <3>2
  <2>4. Xor(s, flip) = t /\ Xor(t, flip) = s /\ SwappedBit(from, to, b) = BitOf(from, x, p)
    BY SwapFollowsLayout
  <2>5. Place(to, x, y, p) = <<line * new + t, b>>
    BY <1>1, PlaceIs
  <2>6. Place(from, x, y, p) = <<line * old + s, BitOf(from, x, p)>>
    <3>1. Place(from, x, y, p) = <<(PlaneOf(from, p) * from.height + y) * old + s, BitOf(from, x, p)>>
      BY <1>1, PlaceIs
    <3>2. PlaneOf(from, p) = PlaneOf(to, p)
      BY <1>1 DEF PlaneOf
    <3> QED
      BY <1>1, <3>1, <3>2
  <2> HIDE DEF line, s, t, b, old, new, height, flip, swapped
  <2>7. swapped[<<line * new + t, b>>] = storage[<<line * old + s, SwappedBit(from, to, b)>>]
    BY ONLY <1>6, <2>1, <2>2, <2>3, <2>4
  <2> QED
    BY ONLY <2>4, <2>5, <2>6, <2>7
<1> QED
  BY <1>7, <1>8

\* What a conversion makes.
IsConverted(from, storage, to, converted) ==
    /\ Near(to, converted)
    /\ Picture(to, converted) = [xy \in Coordinates(to) |-> Fit(Picture(from, storage)[xy], to.bpp)]

\* Conversion keeps what is read, as far as it fits into the new pixels.
LEMMA ConvertFacts ==
    ASSUME NEW from, NEW to, ProperImage(from), ProperImage(to), NEW storage, Near(from, storage),
           from.width = to.width, from.height = to.height, from.depth = to.depth,
           effective_format(from) = "Z" /\ effective_format(to) = "Z" /\ from.bpp = 24 /\ to.bpp = 24
           => from.byte_order = to.byte_order
    PROVE  IsConverted(from, storage, to, xcb_image_convert(from, storage, to))
<1>0. SUFFICES /\ Near(to, xcb_image_convert(from, storage, to))
               /\ Picture(to, xcb_image_convert(from, storage, to))
                     = [xy \in Coordinates(to) |-> Fit(Picture(from, storage)[xy], to.bpp)]
  BY DEF IsConverted
<1>1. Size(to) \in Nat /\ \A c \in DOMAIN Fresh(to) : c[1] <= Size(to)
  BY SizeFacts
<1> DEFINE converted == xcb_image_convert(from, storage, to)
<1>2. CASE ~SameKind(from, to)
  <2>1. converted = PutAll(to, Fresh(to), Picture(from, storage))
    BY <1>2 DEF xcb_image_convert
  <2>2. /\ Picture(to, PutAll(to, Fresh(to), Picture(from, storage)))
              = [xy \in Coordinates(to) |-> Fit(Picture(from, storage)[xy], to.bpp)]
        /\ DOMAIN PutAll(to, Fresh(to), Picture(from, storage)) = DOMAIN Fresh(to)
    BY PutAllFacts
  <2> QED
    BY <1>1, <2>1, <2>2 DEF Near
<1>3. CASE SameKind(from, to)
  <2>1. Similar(from, to)
    BY <1>3 DEF Similar, SameKind
  <2>2. to.bpp = from.bpp /\ Coordinates(to) = Coordinates(from)
    BY <1>3 DEF SameKind, Coordinates
  <2>3. SUFFICES /\ Near(to, converted)
                 /\ \A x \in 0 .. to.width - 1, y \in 0 .. to.height - 1, p \in 0 .. to.bpp - 1 :
                       converted[Place(to, x, y, p)] = storage[Place(from, x, y, p)]
    <3> HIDE DEF converted
    <3> DEFINE B == 0 .. to.bpp - 1
               old == [xy \in Coordinates(to) |-> [p \in B |-> storage[Place(from, xy[1], xy[2], p)]]]
    <3>1. Picture(from, storage) = old
      BY ONLY <2>2, ProperImage(from), PictureIs
    <3>2. Picture(to, converted) = [xy \in Coordinates(to) |->
              [p \in B |-> converted[Place(to, xy[1], xy[2], p)]]]
      BY ONLY ProperImage(to), PictureIs
    <3>3. ASSUME NEW xy \in Coordinates(to)
          PROVE  [p \in B |-> converted[Place(to, xy[1], xy[2], p)]] = Fit(old[xy], to.bpp)
      <4>1. xy[1] \in 0 .. to.width - 1 /\ xy[2] \in 0 .. to.height - 1
        BY DEF Coordinates
      <4> DEFINE pixel == [p \in B |-> storage[Place(from, xy[1], xy[2], p)]]
      <4>2. [p \in B |-> converted[Place(to, xy[1], xy[2], p)]] = pixel
        BY <2>3, <4>1
      <4>3. pixel = [p \in 0 .. to.bpp - 1 |-> pixel[p]]
        OBVIOUS
      <4>4. old[xy] = pixel
        OBVIOUS
      <4> HIDE DEF pixel
      <4>5. Fit(pixel, to.bpp) = pixel
        BY ONLY <4>3, FitSame
      <4> QED
        BY ONLY <4>2, <4>4, <4>5
    <3>4. Picture(to, converted) = [xy \in Coordinates(to) |-> Fit(old[xy], to.bpp)]
      BY ONLY <3>2, <3>3
    <3> QED
      BY <2>3, <3>1, <3>4 DEF converted
  <2>4. CASE SameLayout(from, to)
    <3> DEFINE copy == [c \in (0 .. Size(from) - 1) \X (0 .. 7) |-> storage[c]]
    <3>1. converted = Over(copy, Fresh(to))
      BY <1>3, <2>4 DEF xcb_image_convert
    <3>2. /\ Size(from) = Size(to)
          /\ \A x \in 0 .. to.width - 1, y \in 0 .. to.height - 1, p \in 0 .. to.bpp - 1 :
                Place(from, x, y, p) = Place(to, x, y, p)
      BY <2>1, <2>4, SameLayoutFacts
    <3>3. DOMAIN copy = DOMAIN Fresh(to)
      BY <3>2 DEF Fresh
    <3>4. /\ DOMAIN Over(copy, Fresh(to)) = DOMAIN copy \cup DOMAIN Fresh(to)
          /\ \A c \in DOMAIN copy : Over(copy, Fresh(to))[c] = copy[c]
      <4> HIDE DEF copy
      <4> QED
        BY OverFacts
    <3>5. DOMAIN converted = DOMAIN Fresh(to)
      BY <3>1, <3>3, <3>4
    <3>6. Near(to, converted)
      BY <1>1, <3>5 DEF Near
    <3>7. \A c \in DOMAIN Fresh(to) : converted[c] = storage[c]
      BY <3>1, <3>3, <3>4
    <3>8. ASSUME NEW x \in 0 .. to.width - 1, NEW y \in 0 .. to.height - 1, NEW p \in 0 .. to.bpp - 1
          PROVE  converted[Place(to, x, y, p)] = storage[Place(from, x, y, p)]
      <4>1. Place(to, x, y, p) \in DOMAIN Fresh(to)
        BY PlaceInside DEF Fresh
      <4> HIDE DEF converted
      <4> QED
        BY <3>2, <3>7, <4>1
    <3> QED
      BY <3>6, <3>8
  <2>5. CASE ~SameLayout(from, to)
    <3>1. converted = swap_image(from, storage, to)
      BY <1>3, <2>5 DEF xcb_image_convert
    <3> QED
      BY <2>1, <3>1, SwapFacts
  <2> QED
    BY <2>4, <2>5
<1> QED
  BY <1>2, <1>3

-----------------------------------------------------------------------------
(* What is sent to a server and comes from it.                              *)

\* The image has the layout that the server uses for its depth.
WireImage(server, im) ==
    /\ ProperImage(im) /\ ProperServer(server)
    /\ effective_format(im) = "XY" <=> (im.format = "XY" \/ im.depth = 1)
    /\ im.byte_order = server.byte_order
    /\ effective_format(im) = "XY"
       => im.pad = server.pad /\ im.unit = server.unit /\ im.bit_order = server.bit_order
    /\ effective_format(im) # "XY"
       => \E fmt \in Of(server, im.depth) : fmt.bpp = im.bpp /\ fmt.pad = im.pad

\* A unit of 8, 16 or 32 pixels of a plane, counted from either end.
LEMMA UnitBytes ==
    ASSUME NEW unit \in {8, 16, 32}, NEW x \in Nat
    PROVE  /\ (unit \div 8) * (x \div unit) + ((x % unit) \div 8) = Xor(x \div 8, 0)
           /\ (unit \div 8) * (x \div unit) + ((unit \div 8) - 1 - ((x % unit) \div 8))
                 = Xor(x \div 8, UnitFlip(unit))
           /\ (unit - 1 - (x % unit)) \div 8 = (unit \div 8) - 1 - ((x % unit) \div 8)
           /\ (x % unit) % 8 = x % 8
           /\ (unit - 1 - (x % unit)) % 8 = 7 - (x % 8)
<1> DEFINE k == x \div 8
<1>1. k \in Nat
  OBVIOUS
<1>2. Xor(k, 0) = k /\ Xor(k, 1) = k + 1 - 2 * (k % 2) /\ Xor(k, 3) = 4 * (k \div 4) + 3 - (k % 4)
  BY <1>1, XorIs
<1>3. CASE unit = 8
  BY <1>2, <1>3 DEF UnitFlip
<1>4. CASE unit = 16
  <2>1. (x % 16) \div 8 = k % 2 /\ x \div 16 = k \div 2 /\ (x % 16) % 8 = x % 8
    OBVIOUS
  <2>2. (15 - (x % 16)) \div 8 = 1 - ((x % 16) \div 8) /\ (15 - (x % 16)) % 8 = 7 - (x % 8)
    OBVIOUS
  <2>3. 2 * (k \div 2) + (k % 2) = k /\ 2 * (k \div 2) + (1 - (k % 2)) = k + 1 - 2 * (k % 2)
    BY <1>1
  <2> QED
    BY <1>2, <1>4, <2>1, <2>2, <2>3 DEF UnitFlip
<1>5. CASE unit = 32
  <2>1. (x % 32) \div 8 = k % 4 /\ x \div 32 = k \div 4 /\ (x % 32) % 8 = x % 8
    OBVIOUS
  <2>2. (31 - (x % 32)) \div 8 = 3 - ((x % 32) \div 8) /\ (31 - (x % 32)) % 8 = 7 - (x % 8)
    OBVIOUS
  <2>3. 4 * (k \div 4) + (k % 4) = k /\ 4 * (k \div 4) + (3 - (k % 4)) = 4 * (k \div 4) + 3 - (k % 4)
    BY <1>1
  <2> QED
    BY <1>2, <1>5, <2>1, <2>2, <2>3 DEF UnitFlip
<1> QED
  BY <1>3, <1>4, <1>5

\* The server looks for every bit where the image has it.
LEMMA WireIsPlace ==
    ASSUME NEW server, NEW im, WireImage(server, im),
           NEW x \in 0 .. im.width - 1, NEW y \in 0 .. im.height - 1, NEW p \in 0 .. im.depth - 1
    PROVE  WirePlace(server, im, x, y, p) = Place(im, x, y, p)
<1> DEFINE s == stride(im, im.width)
           h == im.height
<1>1. /\ ProperImage(im) /\ im.width \in Nat /\ h \in Nat /\ im.depth \in Nat /\ im.bpp \in Nat
      /\ s \in Nat /\ im.depth <= im.bpp
      /\ im.byte_order \in {LSB, MSB} /\ im.bit_order \in {LSB, MSB} /\ LSB # MSB
      /\ im.byte_order = server.byte_order
  BY StrideFacts DEF WireImage, ProperImage, format_valid, LSB, MSB
<1>2. y * s \in Nat
  <2> HIDE DEF s
  <2> QED
    BY <1>1
<1>3. CASE effective_format(im) = "XY"
  <2> DEFINE u == im.unit
             bit == IF im.bit_order = LSB THEN x % u ELSE u - 1 - (x % u)
             byte == IF im.byte_order = LSB THEN bit \div 8 ELSE (u \div 8) - 1 - (bit \div 8)
             start == (u \div 8) * (x \div u)
             plane == (im.depth - 1 - p) * h * s
  <2>1. /\ u \in {8, 16, 32} /\ im.bpp = im.depth /\ x \in Nat
        /\ im.pad = server.pad /\ u = server.unit /\ im.bit_order = server.bit_order
    BY <1>1, <1>3, XYImage DEF WireImage
  <2>2. im.format = "XY" \/ im.depth = 1
    BY <1>3 DEF WireImage
  <2>3. s = xcb_roundup(im.width, server.pad) \div 8
    BY <1>3, <2>1 DEF stride
  <2>4. WirePlace(server, im, x, y, p) = <<plane + y * s + start + byte, bit % 8>>
    BY <1>1, <2>1, <2>2, <2>3 DEF WirePlace
  <2>5. Place(im, x, y, p)
          = <<(im.depth - 1 - p) * (h * s) + y * s + xy_image_byte(im, x), xy_image_bit(im, x)>>
    BY <1>3, <2>1 DEF Place
  <2>6. start + byte = xy_image_byte(im, x) /\ bit % 8 = xy_image_bit(im, x)
    <3>1. /\ start + ((x % u) \div 8) = Xor(x \div 8, 0)
          /\ start + ((u \div 8) - 1 - ((x % u) \div 8)) = Xor(x \div 8, UnitFlip(u))
          /\ (u - 1 - (x % u)) \div 8 = (u \div 8) - 1 - ((x % u) \div 8)
          /\ (x % u) % 8 = x % 8
          /\ (u - 1 - (x % u)) % 8 = 7 - (x % 8)
      BY ONLY <2>1, UnitBytes
    <3>2. x \div 8 \in Nat /\ Xor(x \div 8, 0) = x \div 8
      BY <2>1, XorIs
    <3>3. (u \div 8) - 1 - ((u \div 8) - 1 - ((x % u) \div 8)) = (x % u) \div 8
      BY <2>1
    <3> QED
      BY <1>1, <3>1, <3>2, <3>3 DEF xy_image_byte, xy_image_bit
  <2>7. plane = (im.depth - 1 - p) * (h * s) /\ plane \in Nat
    <3> DEFINE q == im.depth - 1 - p
    <3>1. q \in Nat
      BY <1>1
    <3> HIDE DEF q, h, s
    <3>2. q * h * s = q * (h * s) /\ q * h * s \in Nat
      BY <1>1, <3>1
    <3> QED
      BY <3>2 DEF q
  <2>8. start + byte \in Int /\ start \in Int /\ byte \in Int
    BY <2>1
  <2> HIDE DEF plane, start, byte, bit, s, h
  <2>9. plane + y * s + start + byte = plane + y * s + xy_image_byte(im, x)
    BY <1>2, <2>6, <2>7, <2>8
  <2> QED
    BY <2>4, <2>5, <2>6, <2>7, <2>9
<1>4. CASE effective_format(im) # "XY"
  <2>1. im.bpp \in {8, 16, 24, 32} /\ Of(server, im.depth) # {}
    /\ \A fmt \in Of(server, im.depth) : fmt.bpp = im.bpp /\ fmt.pad = im.pad
    <3>1. PICK fmt \in Of(server, im.depth) : fmt.bpp = im.bpp /\ fmt.pad = im.pad
      BY <1>4 DEF WireImage
    <3>2. fmt \in server.formats /\ fmt.depth = im.depth
      BY DEF Of
    <3>3. \A other \in Of(server, im.depth) : other = fmt
      BY <3>2 DEF Of, WireImage, ProperServer
    <3>4. fmt.bpp \in {1, 8, 16, 24, 32}
      BY <3>2 DEF WireImage, ProperServer
    <3> QED
      BY <1>1, <1>4, <3>1, <3>3, <3>4, ZImage
  <2>2. ~(im.format = "XY" \/ im.depth = 1)
    BY <1>4 DEF WireImage
  <2> DEFINE byte == IF im.byte_order = LSB THEN p \div 8 ELSE (im.bpp \div 8) - 1 - (p \div 8)
  <2>3. WirePlace(server, im, x, y, p)
          = <<0 + y * (xcb_roundup(im.width * im.bpp, im.pad) \div 8) + (im.bpp \div 8) * x + byte,
              p % 8>>
    BY <1>1, <2>1, <2>2 DEF WirePlace
  <2>4. s = xcb_roundup(im.width * im.bpp, im.pad) \div 8
    BY <1>4 DEF stride
  <2>5. Place(im, x, y, p) = <<y * s + x * (im.bpp \div 8) + byte, p % 8>>
    <3> DEFINE flipped == IF im.byte_order = MSB THEN (im.bpp \div 8) - 1 - (p \div 8) ELSE p \div 8
    <3>1. byte = flipped
      BY <1>1
    <3>2. Place(im, x, y, p) = <<y * s + x * (im.bpp \div 8) + flipped, p % 8>>
      <4>1. im.bpp # 4
        BY <2>1
      <4> QED
        BY <1>4, <4>1, Zenon DEF Place
    <3> HIDE DEF byte, flipped, s
    <3> QED
      BY <3>1, <3>2
  <2>6. (im.bpp \div 8) * x = x * (im.bpp \div 8) /\ x * (im.bpp \div 8) \in Nat
    BY <1>1, <2>1
  <2> HIDE DEF s, byte
  <2>7. 0 + y * s + (im.bpp \div 8) * x = y * s + x * (im.bpp \div 8)
    BY <1>2, <2>6
  <2> QED
    BY <2>3, <2>4, <2>5, <2>7
<1> QED
  BY <1>3, <1>4

\* The pixels, cut to the depth, that a server makes of the storage.
LEMMA DrawingIs ==
    ASSUME NEW server, NEW im, WireImage(server, im), NEW storage,
           DOMAIN Fresh(im) \subseteq DOMAIN storage
    PROVE  Drawing(server, im, storage)
              = [xy \in Coordinates(im) |-> Fit(Picture(im, storage)[xy], im.depth)]
<1>1. ProperImage(im) /\ im.depth \in Nat /\ im.bpp \in Nat /\ im.depth <= im.bpp
  BY DEF WireImage, ProperImage, format_valid
<1> DEFINE D == 0 .. im.depth - 1
           B == 0 .. im.bpp - 1
<1>2. Picture(im, storage) = [xy \in Coordinates(im) |->
          [p \in B |-> storage[Place(im, xy[1], xy[2], p)]]]
  BY <1>1, PictureIs
<1>3. ASSUME NEW xy \in Coordinates(im)
      PROVE  LET at == WirePixel(server, im, xy[1], xy[2])
             IN  [p \in DOMAIN at |-> IF at[p] \in DOMAIN storage THEN storage[at[p]] ELSE Junk]
                 = Fit(Picture(im, storage)[xy], im.depth)
  <2> DEFINE at == WirePixel(server, im, xy[1], xy[2])
             pixel == Picture(im, storage)[xy]
  <2>1. xy[1] \in 0 .. im.width - 1 /\ xy[2] \in 0 .. im.height - 1
    BY DEF Coordinates
  <2>2. DOMAIN at = D
    BY DEF WirePixel
  <2>3. ASSUME NEW p \in D
        PROVE  /\ at[p] = Place(im, xy[1], xy[2], p) /\ at[p] \in DOMAIN storage
               /\ p \in B
    <3>1. p \in B
      BY <1>1
    <3>2. WirePlace(server, im, xy[1], xy[2], p) = Place(im, xy[1], xy[2], p)
      BY <2>1, WireIsPlace
    <3>3. Place(im, xy[1], xy[2], p) \in (0 .. Size(im) - 1) \X (0 .. 7)
      BY <1>1, <2>1, <3>1, PlaceInside
    <3> QED
      BY <3>1, <3>2, <3>3 DEF WirePixel, Fresh
  <2>4. DOMAIN pixel = B /\ \A p \in B : pixel[p] = storage[Place(im, xy[1], xy[2], p)]
    BY <1>2
  <2> HIDE DEF at, pixel
  <2>5. Fit(pixel, im.depth) = [p \in D |-> storage[at[p]]]
    BY <2>3, <2>4 DEF Fit
  <2>6. [p \in DOMAIN at |-> IF at[p] \in DOMAIN storage THEN storage[at[p]] ELSE Junk]
           = [p \in D |-> storage[at[p]]]
    BY <2>2, <2>3
  <2> QED
    BY <2>5, <2>6 DEF at, pixel
<1> QED
  BY <1>3 DEF Drawing

\* A picture of pixels that have as many bits as the depth.
Deep(im, picture) == \A xy \in Coordinates(im) : DOMAIN picture[xy] = 0 .. im.depth - 1

\* The storage that a server sends has the picture; bits beyond the depth are
\* clear.
LEMMA EncodingFacts ==
    ASSUME NEW server, NEW im, WireImage(server, im), NEW picture, Deep(im, picture)
    PROVE  /\ DOMAIN Encoding(server, im, picture) = DOMAIN Fresh(im)
           /\ Picture(im, Encoding(server, im, picture))
                 = [xy \in Coordinates(im) |-> Fit(picture[xy], im.bpp)]
<1>1. ProperImage(im) /\ im.depth \in Nat /\ im.bpp \in Nat /\ im.depth <= im.bpp
  BY DEF WireImage, ProperImage, format_valid
<1> DEFINE D == 0 .. im.depth - 1
           B == 0 .. im.bpp - 1
           blank == [c \in DOMAIN Fresh(im) |-> Zero]
           places == [xy \in Coordinates(im) |->
                         [p \in 0 .. im.depth - 1 |-> Place(im, xy[1], xy[2], p)]]
           encoding == Painted(im, blank, places, picture)
<1>2. Encoding(server, im, picture) = encoding
  <2>1. ASSUME NEW xy \in Coordinates(im)
        PROVE  WirePixel(server, im, xy[1], xy[2]) = [p \in 0 .. im.depth - 1 |-> Place(im, xy[1], xy[2], p)]
    <3>1. xy[1] \in 0 .. im.width - 1 /\ xy[2] \in 0 .. im.height - 1
      BY DEF Coordinates
    <3>2. \A p \in D : WirePlace(server, im, xy[1], xy[2], p) = Place(im, xy[1], xy[2], p)
      BY <3>1, WireIsPlace
    <3> QED
      BY <3>2 DEF WirePixel
  <2>2. [xy \in Coordinates(im) |-> WirePixel(server, im, xy[1], xy[2])] = places
    BY <2>1
  <2> QED
    BY <2>2 DEF Encoding
<1>3. places = [xy \in Coordinates(im) |-> [p \in 0 .. im.depth - 1 |-> Place(im, xy[1], xy[2], p)]]
      /\ im.depth \in 0 .. im.bpp /\ D = 0 .. im.depth - 1 /\ D \subseteq B
      /\ DOMAIN blank = DOMAIN Fresh(im) /\ \A c \in DOMAIN Fresh(im) : blank[c] = Zero
  BY <1>1
<1>4. \A xy \in Coordinates(im) : DOMAIN picture[xy] = D
  BY DEF Deep
<1> HIDE DEF places, D, blank, encoding
<1>5. /\ Spread(im, places, D)
      /\ \A xy \in Coordinates(im), p \in D : places[xy][p] = Place(im, xy[1], xy[2], p)
      /\ \A xy \in Coordinates(im) : \A c : At(places, D, xy, c) => c \in DOMAIN Fresh(im)
  BY ONLY <1>1, <1>3, PlacesFacts
<1>6. /\ \A c : c \in DOMAIN encoding <=> c \in DOMAIN blank \/ \E xy \in Coordinates(im) : At(places, D, xy, c)
      /\ \A xy \in Coordinates(im), p \in D : encoding[places[xy][p]] = picture[xy][p]
      /\ \A c \in DOMAIN blank : (\A xy \in Coordinates(im) : ~At(places, D, xy, c))
             => encoding[c] = blank[c]
  BY ONLY <1>1, <1>5, PaintingFacts DEF encoding
<1>7. DOMAIN encoding = DOMAIN Fresh(im)
  BY <1>3, <1>5, <1>6
<1>8. ASSUME NEW xy \in Coordinates(im)
      PROVE  [p \in B |-> encoding[Place(im, xy[1], xy[2], p)]] = Fit(picture[xy], im.bpp)
  <2>1. xy[1] \in 0 .. im.width - 1 /\ xy[2] \in 0 .. im.height - 1
    BY DEF Coordinates
  <2>2. \A p \in D : encoding[Place(im, xy[1], xy[2], p)] = picture[xy][p]
    BY <1>5, <1>6
  <2>3. ASSUME NEW p \in B, p \notin D PROVE encoding[Place(im, xy[1], xy[2], p)] = Zero
    <3> DEFINE c == Place(im, xy[1], xy[2], p)
    <3>1. c \in DOMAIN Fresh(im)
      BY <1>1, <2>1, PlaceInside DEF Fresh
    <3>2. ASSUME NEW uv \in Coordinates(im), At(places, D, uv, c) PROVE FALSE
      <4>1. PICK q \in D : c = places[uv][q]
        BY <3>2 DEF At
      <4>2. c = Place(im, uv[1], uv[2], q)
        BY <1>5, <4>1
      <4>3. uv[1] \in 0 .. im.width - 1 /\ uv[2] \in 0 .. im.height - 1 /\ q \in 0 .. im.bpp - 1
        BY <1>3 DEF Coordinates
      <4>4. p = q
        BY ONLY <1>1, <2>1, <4>2, <4>3, p \in B, PlacesDiffer DEF c, B
      <4> QED
        BY <2>3, <4>4
    <3> HIDE DEF c
    <3>3. encoding[c] = blank[c]
      BY <1>3, <1>6, <3>1, <3>2
    <3> QED
      BY <1>3, <3>1, <3>3 DEF c
  <2>4. Fit(picture[xy], im.bpp) = [p \in B |-> IF p \in D THEN picture[xy][p] ELSE Zero]
    BY <1>4 DEF Fit
  <2> QED
    BY <2>2, <2>3, <2>4
<1>9. Picture(im, encoding) = [xy \in Coordinates(im) |->
          [p \in B |-> encoding[Place(im, xy[1], xy[2], p)]]]
  BY <1>1, PictureIs
<1> QED
  BY <1>2, <1>7, <1>8, <1>9

\* What is in native format has the layout of the server; so has what the
\* library creates for a server's answer.
LEMMA NativeIsWire ==
    ASSUME NEW server, ProperServer(server), NEW im, ProperImage(im), IsNative(server, im),
           Of(server, im.depth) # {}
    PROVE  WireImage(server, im)
<1>1. PICK to \in NativeFormat(server, im) :
         /\ to.pad = im.pad /\ to.byte_order = im.byte_order /\ to.bpp = im.bpp
         /\ effective_format(im) = "XY" => to.unit = im.unit /\ to.bit_order = im.bit_order
  BY DEF IsNative
<1>2. DOMAIN im = {"width", "height", "format", "pad", "depth", "bpp", "unit", "byte_order",
          "bit_order"}
      /\ im.depth \in Nat \ {0} /\ im.format \in {"XY", "Z"} /\ im.depth <= im.bpp /\ im.bpp \in Nat
  BY DEF ProperImage, format_valid
<1>3. CASE effective_format(im) = "XY"
  <2>1. im.bpp = im.depth
    BY <1>3, XYImage
  <2>2. PICK fmt \in (IF im.depth > 1 THEN Of(server, im.depth) ELSE {[bpp |-> 1]}) :
           to = [im EXCEPT !.pad = server.pad, !.bpp = fmt.bpp, !.unit = server.unit,
                           !.byte_order = server.byte_order, !.bit_order = server.bit_order]
    BY <1>1, <1>3, Zenon DEF NativeFormat
  <2>3. /\ to.pad = server.pad /\ to.unit = server.unit
        /\ to.byte_order = server.byte_order /\ to.bit_order = server.bit_order
    BY <1>2, <2>2
  <2>4. im.format = "XY" \/ im.depth = 1
    BY <1>2, <1>3, <2>1 DEF effective_format
  <2> QED
    BY <1>1, <1>3, <2>3, <2>4 DEF WireImage
<1>4. CASE effective_format(im) # "XY"
  <2>1. im.format = "Z" /\ im.bpp # 1
    BY <1>2, <1>4, ZImage
  <2>2. PICK fmt \in Of(server, im.depth) :
           to = [im EXCEPT !.pad = fmt.pad, !.bpp = fmt.bpp, !.unit = DefaultUnit(fmt.bpp),
                           !.byte_order = server.byte_order, !.bit_order = MSB]
    BY <1>1, <1>4 DEF NativeFormat
  <2>3. to.pad = fmt.pad /\ to.bpp = fmt.bpp /\ to.byte_order = server.byte_order
    BY <1>2, <2>2
  <2>4. fmt \in server.formats /\ fmt.depth = im.depth
    BY DEF Of
  <2>5. im.depth # 1
    BY <1>1, <2>1, <2>3, <2>4 DEF ProperServer
  <2> QED
    BY <1>1, <1>4, <2>1, <2>3, <2>5 DEF WireImage
<1> QED
  BY <1>3, <1>4

\* What xcb_image_native converts to is proper if its pixels lie inside the
\* storage.
LEMMA NativeIsProper ==
    ASSUME NEW server, ProperServer(server), NEW im, ProperImage(im),
           NEW f \in NativeFormat(server, im),
           format_valid(f), StoresInside(f)
    PROVE  /\ ProperImage(Header(f, im.width, im.height))
           /\ Header(f, im.width, im.height).width = im.width
           /\ Header(f, im.width, im.height).height = im.height
           /\ Header(f, im.width, im.height).depth = im.depth
           /\ Header(f, im.width, im.height).bpp = f.bpp
           /\ effective_format(Header(f, im.width, im.height)) = "Z"
              => Header(f, im.width, im.height).byte_order = server.byte_order
           /\ \/ effective_format(Header(f, im.width, im.height)) = "XY"
              \/ \E fmt \in server.formats : fmt.bpp = f.bpp
<1>1. /\ DOMAIN im = {"width", "height", "format", "pad", "depth", "bpp", "unit", "byte_order",
             "bit_order"}
      /\ im.width \in Nat \ {0} /\ im.height \in Nat \ {0} /\ im.depth \in Nat \ {0}
             /\ im.format \in {"XY", "Z"}
      /\ im.bpp \in Nat \ {0}
  BY DEF ProperImage
<1>2. /\ server.pad \in {8, 16, 32} /\ server.unit \in {8, 16, 32} /\ server.unit <= server.pad
      /\ server.byte_order \in {LSB, MSB} /\ server.bit_order \in {LSB, MSB}
      /\ \A fmt \in server.formats : fmt.bpp \in {1, 8, 16, 24, 32} /\ fmt.pad \in {8, 16, 32}
  BY DEF ProperServer
<1> DEFINE to == Header(f, im.width, im.height)
<1>3. /\ to \in [width : {im.width}, height : {im.height}, format : {f.format}, pad : {f.pad},
             depth : {f.depth},
                 bpp : {f.bpp}, unit : {f.unit}, byte_order : {f.byte_order}, bit_order : {f.bit_order}]
      /\ effective_format(to) = effective_format(f)
      /\ format_valid(to) /\ StoresInside(to)
  BY DEF Header, effective_format, format_valid, StoresInside
<1> HIDE DEF to
<1>4. f.depth = im.depth /\ f.format = im.format /\ f.byte_order = server.byte_order
  BY <1>1 DEF NativeFormat
<1>5. CASE effective_format(im) = "XY"
  <2>1. PICK fmt \in (IF im.depth > 1 THEN Of(server, im.depth) ELSE {[bpp |-> 1]}) :
           f = [im EXCEPT !.pad = server.pad, !.bpp = fmt.bpp, !.unit = server.unit,
                          !.byte_order = server.byte_order, !.bit_order = server.bit_order]
    BY <1>5, Zenon DEF NativeFormat
  <2>2. f.pad = server.pad /\ f.bpp = fmt.bpp /\ f.unit = server.unit /\ f.bit_order = server.bit_order
    BY <1>1, <2>1
  <2>3. f.bpp \in Nat \ {0}
    <3>1. fmt = [bpp |-> 1] \/ fmt \in server.formats
      BY DEF Of
    <3> QED
      BY <1>2, <2>2, <3>1
  <2>4. effective_format(f) = "XY"
    <3>1. im.format = "XY" \/ im.depth = 1
      BY <1>1, <1>5, XYImage DEF effective_format
    <3>2. CASE im.format = "XY"
      BY <1>4, <3>2 DEF effective_format
    <3>3. CASE im.depth = 1
      <4>1. fmt = [bpp |-> 1]
        BY <1>1, <3>3
      <4>2. f.bpp = 1
        BY <2>2, <4>1
      <4> QED
        BY <4>2 DEF effective_format
    <3> QED
      BY <3>1, <3>2, <3>3
  <2>5. ProperImage(to)
    BY <1>1, <1>2, <1>3, <1>4, <2>2, <2>3, <2>4 DEF ProperImage
  <2> QED
    BY <1>3, <1>4, <2>4, <2>5 DEF to
<1>6. CASE effective_format(im) # "XY"
  <2>1. PICK fmt \in server.formats :
           f = [im EXCEPT !.pad = fmt.pad, !.bpp = fmt.bpp, !.unit = DefaultUnit(fmt.bpp),
                          !.byte_order = server.byte_order, !.bit_order = MSB]
    BY <1>6 DEF NativeFormat, Of
  <2>2. /\ f.pad = fmt.pad /\ f.bpp = fmt.bpp /\ f.unit = DefaultUnit(fmt.bpp)
        /\ f.bit_order = MSB
    BY <1>1, <2>1
  <2>3. f.unit \in {8, 16, 24, 32} /\ f.bpp \in Nat \ {0}
    BY <1>2, <2>2 DEF DefaultUnit
  <2>5. ProperImage(to)
    BY <1>1, <1>2, <1>3, <1>4, <2>2, <2>3 DEF ProperImage
  <2> QED
    BY <1>3, <1>4, <2>2, <2>5 DEF to
<1> QED
  BY <1>5, <1>6

\* What the library creates for an answer has the layout of the server.
LEMMA CreatedIsWire ==
    ASSUME NEW server, ProperServer(server), NEW format \in {"XY", "Z"}, NEW depth \in Nat \ {0},
           NEW width \in Nat \ {0}, NEW height \in Nat \ {0},
           NEW f \in CreateNative(server, format, depth), format_valid(Header(f, width, height))
    PROVE  /\ WireImage(server, Header(f, width, height))
           /\ Header(f, width, height).depth = depth
           /\ Header(f, width, height).width = width
           /\ Header(f, width, height).height = height
<1>1. /\ server.pad \in {8, 16, 32} /\ server.unit \in {8, 16, 32} /\ server.unit <= server.pad
      /\ server.byte_order \in {LSB, MSB} /\ server.bit_order \in {LSB, MSB}
      /\ \A fmt \in server.formats : fmt.bpp \in {1, 8, 16, 24, 32} /\ fmt.pad \in {8, 16, 32}
  BY DEF ProperServer
<1> DEFINE im == Header(f, width, height)
<1>2. /\ im \in [width : {width}, height : {height}, format : {f.format}, pad : {f.pad},
             depth : {f.depth},
                 bpp : {f.bpp}, unit : {f.unit}, byte_order : {f.byte_order}, bit_order : {f.bit_order}]
      /\ effective_format(im) = effective_format(f)
  BY DEF Header, effective_format
<1>3. format_valid(im)
  OBVIOUS
<1> HIDE DEF im
<1>4. CASE format = "XY" \/ depth = 1
  <2>1. f = [format |-> format, pad |-> server.pad, depth |-> depth, bpp |-> depth,
            unit |-> server.unit,
             byte_order |-> server.byte_order, bit_order |-> server.bit_order]
    BY <1>4 DEF CreateNative
  <2>2. effective_format(f) = "XY"
    BY <1>4, <2>1 DEF effective_format
  <2>3. ProperImage(im)
    BY <1>1, <1>2, <1>3, <2>1, <2>2 DEF ProperImage, StoresInside
  <2> QED
    BY <1>2, <1>4, <2>1, <2>2, <2>3 DEF WireImage, im
<1>5. CASE ~(format = "XY" \/ depth = 1)
  <2>1. PICK fmt \in Of(server, depth) :
           f = [format |-> format, pad |-> fmt.pad, depth |-> depth, bpp |-> fmt.bpp,
                unit |-> DefaultUnit(fmt.bpp), byte_order |-> server.byte_order, bit_order |-> MSB]
    BY <1>5 DEF CreateNative
  <2>2. fmt \in server.formats
    BY DEF Of
  <2>3. f.bpp > 1 /\ f.bpp \in {8, 16, 24, 32}
    BY <1>1, <1>2, <1>3, <1>5, <2>1, <2>2 DEF format_valid
  <2>4. effective_format(f) = "Z"
    BY <1>5, <2>1, <2>3 DEF effective_format
  <2>5. ProperImage(im)
    BY <1>1, <1>2, <1>3, <2>1, <2>2, <2>3, <2>4 DEF ProperImage, StoresInside, DefaultUnit
  <2> QED
    BY <1>2, <1>5, <2>1, <2>3, <2>4, <2>5 DEF WireImage, im
<1> QED
  BY <1>4, <1>5

-----------------------------------------------------------------------------
(* The client.                                                              *)

\* A drawable into which an image was put has the picture that was meant.
Sent(w) ==
    /\ w.server \in Servers
    /\ w.width \in Nat \ {0} /\ w.height \in Nat \ {0} /\ w.depth \in Nat \ {0}
    /\ w.picture = w.meant
    /\ \A xy \in (0 .. w.width - 1) \X (0 .. w.height - 1) : DOMAIN w.picture[xy] = 0 .. w.depth - 1

\* What the properties say, of an image whose header is proper, has the one byte
\* order of 24 bits per pixel that there is, and leaves no bits out.
PixelInv(order) ==
    /\ ProperImage(image)
    /\ effective_format(image) = "Z" /\ image.bpp = 24 => image.byte_order = order
    /\ Near(image, data)
    /\ Picture(image, data) = drawn
    /\ window = Nothing \/ Sent(window)
    /\ steps \in 0 .. MaxSteps

\* An image was filled that cannot lie inside its storage: nothing is known of
\* what its storage holds, and no step follows.
Overwritten ==
    /\ format_valid(image) /\ ~StoresInside(image)
    /\ DOMAIN drawn = Coordinates(image)
    /\ window = Nothing \/ Sent(window)
    /\ steps \in 0 .. MaxSteps

\* The invariant.
Kept(order) == PixelInv(order) \/ Overwritten

\* A picture that is put into fresh storage is read.
LEMMA FreshFacts ==
    ASSUME NEW im, ProperImage(im), NEW picture
    PROVE  /\ Near(im, PutAll(im, Fresh(im), picture))
           /\ Picture(im, PutAll(im, Fresh(im), picture))
                 = [xy \in Coordinates(im) |-> Fit(picture[xy], im.bpp)]
<1>1. /\ Picture(im, PutAll(im, Fresh(im), picture)) 
            = [xy \in Coordinates(im) |-> Fit(picture[xy], im.bpp)]
      /\ DOMAIN PutAll(im, Fresh(im), picture) = DOMAIN Fresh(im)
  BY PutAllFacts
<1>2. \A c \in DOMAIN Fresh(im) : c[1] <= Size(im)
  BY SizeFacts
<1> QED
  BY <1>1, <1>2 DEF Near

\* Pixels that fit need not be fitted.
LEMMA FitAgain ==
    ASSUME NEW pixel, NEW bits PROVE Fit(Fit(pixel, bits), bits) = Fit(pixel, bits)
<1> DEFINE fit == Fit(pixel, bits)
<1>1. fit = [p \in 0 .. bits - 1 |-> fit[p]]
  BY DEF Fit
<1> HIDE DEF fit
<1>2. Fit(fit, bits) = fit
  BY <1>1, FitSame
<1> QED
  BY <1>2 DEF fit

\* A client begins with what it has drawn.
LEMMA FilledFacts ==
    ASSUME NEW order, OneOrderOf24(order), NEW f \in Sources \cup FastSources, NEW width \in Nat \ {0},
           StoresInside(f), Filled(f, width, Height)
    PROVE  PixelInv(order)
<1>1. ProperFormat(f) /\ Height \in Nat \ {0} /\ MaxSteps \in Nat
  BY FormatAssumption, FastAssumption, SizeAssumption, BoundAssumption DEF ProperFormat
<1>2. /\ ProperImage(image)
      /\ effective_format(image) = effective_format(f) /\ image.bpp = f.bpp
      /\ image.byte_order = f.byte_order
  <2>1. image = Header(f, width, Height)
    BY DEF Filled
  <2> QED
    BY <1>1, <2>1, HeaderIsProper DEF Header
<1>3. effective_format(image) = "Z" /\ image.bpp = 24 => image.byte_order = order
  BY <1>2 DEF OneOrderOf24
<1> DEFINE pixel(xy) == [p \in 0 .. image.depth - 1 |-> PixelBit(xy[1], xy[2], p)]
<1>4. /\ drawn = [xy \in Coordinates(image) |-> Fit(pixel(xy), image.bpp)]
      /\ data = PutAll(image, Fresh(image), drawn)
      /\ window = Nothing /\ steps = 0
  BY DEF Filled
<1> HIDE DEF pixel
<1>5. /\ Near(image, data)
      /\ Picture(image, data) = [xy \in Coordinates(image) |-> Fit(drawn[xy], image.bpp)]
  BY <1>2, <1>4, FreshFacts
<1>6. \A xy \in Coordinates(image) : Fit(drawn[xy], image.bpp) = Fit(pixel(xy), image.bpp)
  BY <1>4, FitAgain
<1>7. Picture(image, data) = drawn
  BY <1>4, <1>5, <1>6
<1> QED
  BY <1>1, <1>2, <1>3, <1>4, <1>5, <1>7 DEF PixelInv

\* It may be that the pixels do not lie inside.
LEMMA FilledKeeps ==
    ASSUME NEW order, OneOrderOf24(order), NEW f \in Sources \cup FastSources, NEW width \in Nat \ {0},
           Filled(f, width, Height)
    PROVE  Kept(order)
<1>1. CASE StoresInside(f)
  BY <1>1, FilledFacts DEF Kept
<1>2. CASE ~StoresInside(f)
  <2>1. format_valid(f) /\ MaxSteps \in Nat
    BY FormatAssumption, FastAssumption, BoundAssumption DEF ImageFormat
  <2>2. /\ image = Header(f, width, Height) /\ DOMAIN drawn = Coordinates(image)
        /\ window = Nothing /\ steps = 0
    BY DEF Filled
  <2>3. format_valid(image) /\ ~StoresInside(image)
    BY <1>2, <2>1, <2>2 DEF Header, format_valid, effective_format, StoresInside
  <2> QED
    BY <2>1, <2>2, <2>3 DEF Kept, Overwritten
<1> QED
  BY <1>1, <1>2

\* A put of either kind.
LEMMA PutFacts ==
    ASSUME NEW order, PixelInv(order), NEW x \in 0 .. image.width - 1, NEW y \in 0 .. image.height - 1,
           NEW pixel, NEW place, IsPlaceOf(place, image, x, y), Step,
           data' = Over(Layer(place, Fit(pixel, image.bpp)), data),
           drawn' = [drawn EXCEPT ![<<x, y>>] = Fit(pixel, image.bpp)], UNCHANGED <<image, window>>
    PROVE  PixelInv(order)'
<1>1. ProperImage(image) /\ Near(image, data) /\ Picture(image, data) = drawn
  BY DEF PixelInv
<1>2. DOMAIN Fresh(image) \subseteq DOMAIN data
  BY <1>1 DEF Near
<1>3. /\ Picture(image, Over(Layer(place, Fit(pixel, image.bpp)), data))
            = [Picture(image, data) EXCEPT ![<<x, y>>] = Fit(pixel, image.bpp)]
      /\ DOMAIN Over(Layer(place, Fit(pixel, image.bpp)), data) = DOMAIN data
  <2>1. PutIsRead(image, data, x, y, pixel, place)
    BY <1>1, <1>2, PutPixelFacts
  <2> QED
    BY <2>1, Zenon DEF PutIsRead
<1>4. Picture(image, data') = drawn' /\ DOMAIN data' = DOMAIN data
  BY <1>1, <1>3
<1>5. Near(image, data')
  BY <1>1, <1>4 DEF Near
<1>6. image' = image /\ window' = window
  OBVIOUS
<1>7. steps' \in 0 .. MaxSteps
  BY BoundAssumption DEF Step, PixelInv
<1>8. Picture(image', data') = drawn' /\ Near(image', data')
  BY <1>4, <1>5, <1>6
<1> QED
  BY <1>6, <1>7, <1>8 DEF PixelInv, ProperImage, effective_format, format_valid, StoresInside, Near, Picture,
         Coordinates,
     xcb_image_get_pixel, Sent, Nothing

\* A conversion, whoever asks for it.
LEMMA ConvertToFacts ==
    ASSUME NEW order, PixelInv(order), NEW f, ConvertTo(f), Step, UNCHANGED window,
           ProperImage(Header(f, image.width, image.height)),
           Header(f, image.width, image.height).width = image.width,
           Header(f, image.width, image.height).height = image.height,
           Header(f, image.width, image.height).depth = image.depth,
           effective_format(Header(f, image.width, image.height)) = "Z"
              /\ Header(f, image.width, image.height).bpp = 24
           => Header(f, image.width, image.height).byte_order = order
    PROVE  PixelInv(order)'
<1> DEFINE to == Header(f, image.width, image.height)
           from == image
           converted == xcb_image_convert(from, data, to)
<1>1. ProperImage(from) /\ Near(from, data) /\ Picture(from, data) = drawn
  BY DEF PixelInv
<1>2. image' = to /\ data' = converted /\ drawn' = [xy \in DOMAIN drawn |-> Fit(drawn[xy], to.bpp)]
  BY DEF ConvertTo
<1>3. /\ ProperImage(to) /\ from.width = to.width /\ from.height = to.height /\ from.depth = to.depth
      /\ effective_format(to) = "Z" /\ to.bpp = 24 => to.byte_order = order
      /\ effective_format(from) = "Z" /\ from.bpp = 24 => from.byte_order = order
  BY DEF PixelInv
<1> HIDE DEF to
<1>4. /\ Near(to, converted)
      /\ Picture(to, converted) = [xy \in Coordinates(to) |-> Fit(Picture(from, data)[xy], to.bpp)]
  <2>1. IsConverted(from, data, to, converted)
    BY <1>1, <1>3, ConvertFacts
  <2> QED
    BY <2>1, Zenon DEF IsConverted
<1>5. DOMAIN drawn = Coordinates(to)
  <2>1. DOMAIN drawn = Coordinates(from)
    BY <1>1 DEF Picture
  <2> QED
    BY <1>3, <2>1 DEF Coordinates
<1>6. Picture(image', data') = drawn' /\ Near(image', data')
  BY <1>1, <1>2, <1>4, <1>5
<1>7. window' = window /\ steps' \in 0 .. MaxSteps
  BY BoundAssumption DEF Step, PixelInv
<1>8. ProperImage(image') /\ (effective_format(image') = "Z" /\ image'.bpp = 24 => image'.byte_order = order)
  BY <1>2, <1>3
<1> QED
  BY <1>6, <1>7, <1>8 DEF PixelInv, ProperImage, effective_format, format_valid, StoresInside, Near, Picture,
         Coordinates,
     xcb_image_get_pixel, Sent, Nothing

\* A conversion to a format whose pixels cannot lie inside the storage.
LEMMA Overwrites ==
    ASSUME NEW order, PixelInv(order), NEW f, ConvertTo(f), Step, UNCHANGED window,
           format_valid(f), ~StoresInside(f)
    PROVE  Kept(order)'
<1> DEFINE to == Header(f, image.width, image.height)
<1>1. image' = to /\ DOMAIN drawn' = DOMAIN drawn
  BY DEF ConvertTo
<1>2. format_valid(to) /\ ~StoresInside(to)
  BY DEF Header, format_valid, effective_format, StoresInside
<1>3. DOMAIN drawn = Coordinates(to)
  BY DEF PixelInv, Picture, Coordinates, Header
<1>4. window' = window /\ steps' \in 0 .. MaxSteps
  BY BoundAssumption DEF Step, PixelInv
<1>5. format_valid(image') /\ ~StoresInside(image') /\ DOMAIN drawn' = Coordinates(image')
  BY <1>1, <1>2, <1>3
<1>6. Overwritten'
  BY <1>4, <1>5 DEF PixelInv, Overwritten, format_valid, StoresInside, effective_format, Coordinates,
     Sent, Nothing
<1> QED
  BY <1>6 DEF Kept

\* Each operation keeps the invariant: xcb_image_convert,
LEMMA ConvertKeeps ==
    ASSUME NEW order, OneOrderOf24(order), PixelInv(order), NEW f \in Targets, Convert(f)
    PROVE  Kept(order)'
<1>6. f.depth = image.depth /\ Step /\ ConvertTo(f) /\ UNCHANGED window /\ ImageFormat(f)
  BY FormatAssumption DEF Convert
<1>7. CASE ~StoresInside(f)
  BY <1>6, <1>7, Overwrites DEF ImageFormat
<1>8. CASE StoresInside(f)
  <2> DEFINE to == Header(f, image.width, image.height)
  <2>1. ProperFormat(f) /\ ProperImage(image)
    BY <1>6, <1>8 DEF PixelInv, ProperFormat
  <2>2. image.width \in Nat \ {0} /\ image.height \in Nat \ {0}
    BY <2>1 DEF ProperImage
  <2>3. /\ ProperImage(to) /\ effective_format(to) = effective_format(f) /\ to.width = image.width
        /\ to.height = image.height /\ to.depth = f.depth /\ to.bpp = f.bpp
    BY <2>1, <2>2, HeaderIsProper
  <2>4. to.byte_order = f.byte_order
    BY DEF Header
  <2>5. effective_format(to) = "Z" /\ to.bpp = 24 => to.byte_order = order
    BY <2>3, <2>4 DEF OneOrderOf24
  <2>6. PixelInv(order)'
    BY <1>6, <2>3, <2>5, ConvertToFacts
  <2> QED
    BY <2>6 DEF Kept
<1> QED
  BY <1>7, <1>8

\* xcb_image_native,
LEMMA NativeKeeps ==
    ASSUME NEW order, OneOrderOf24(order), PixelInv(order), NEW server \in Servers,
           xcb_image_native(server)
    PROVE  Kept(order)'
<1>1. ProperServer(server) /\ ProperImage(image)
  BY ServerAssumption DEF PixelInv
<1>2. Step /\ UNCHANGED window
  BY DEF xcb_image_native
<1>3. PICK f \in NativeFormat(server, image) : format_valid(f) /\ ConvertTo(f)
  BY DEF xcb_image_native
<1>4. CASE ~StoresInside(f)
  BY <1>2, <1>3, <1>4, Overwrites
<1>5. CASE StoresInside(f)
  <2> DEFINE to == Header(f, image.width, image.height)
  <2>1. /\ ProperImage(to) /\ to.width = image.width /\ to.height = image.height
        /\ to.depth = image.depth /\ to.bpp = f.bpp
        /\ effective_format(to) = "Z" => to.byte_order = server.byte_order
        /\ effective_format(to) = "XY" \/ \E fmt \in server.formats : fmt.bpp = f.bpp
    BY <1>1, <1>3, <1>5, NativeIsProper
  <2>2. effective_format(to) = "Z" /\ to.bpp = 24 => to.byte_order = order
    BY <2>1 DEF OneOrderOf24
  <2>3. PixelInv(order)'
    BY <1>2, <1>3, <2>1, <2>2, ConvertToFacts
  <2> QED
    BY <2>3 DEF Kept
<1> QED
  BY <1>4, <1>5

\* xcb_image_subimage,
LEMMA SubimageKeeps ==
    ASSUME NEW order, PixelInv(order), NEW xy \in Coordinates(image), NEW width \in 1 .. Width,
           NEW height \in 1 .. Height, xcb_image_subimage(xy[1], xy[2], width, height)
    PROVE  PixelInv(order)'
<1> DEFINE to == Header(image, width, height)
           x == xy[1]
           y == xy[2]
           picture == [at \in Coordinates(to) |-> xcb_image_get_pixel(image, data, x + at[1],
               y + at[2])]
<1>1. ProperImage(image) /\ Near(image, data) /\ Picture(image, data) = drawn
  BY DEF PixelInv
<1>2. /\ Step /\ image' = to /\ data' = PutAll(to, Fresh(to), picture) /\ window' = window
      /\ drawn' = [at \in Coordinates(to) |-> drawn[<<x + at[1], y + at[2]>>]]
      /\ x + width <= image.width /\ y + height <= image.height
  BY DEF xcb_image_subimage
<1>3. width \in Nat \ {0} /\ height \in Nat \ {0}
  BY SizeAssumption
<1>4. /\ ProperImage(to) /\ to.width = width /\ to.height = height /\ to.bpp = image.bpp
      /\ to.byte_order = image.byte_order /\ effective_format(to) = effective_format(image)
  BY <1>1, <1>3 DEF Header, ProperImage, format_valid, StoresInside, effective_format
<1>5. x \in 0 .. image.width - 1 /\ y \in 0 .. image.height - 1 /\ image.width \in Nat
          /\ image.height \in Nat
  BY <1>1 DEF Coordinates, ProperImage
<1>6. Coordinates(to) = (0 .. width - 1) \X (0 .. height - 1)
  BY <1>4 DEF Coordinates
<1> HIDE DEF to, picture, x, y
<1>7. Near(to, data') /\ Picture(to, data') = [at \in Coordinates(to) |-> Fit(picture[at], to.bpp)]
  BY <1>2, <1>4, FreshFacts
<1>8. ASSUME NEW at \in Coordinates(to)
      PROVE  Fit(picture[at], to.bpp) = drawn[<<x + at[1], y + at[2]>>]
  <2>1. <<x + at[1], y + at[2]>> \in Coordinates(image)
    BY <1>2, <1>3, <1>5, <1>6 DEF Coordinates
  <2>2. drawn[<<x + at[1], y + at[2]>>] = xcb_image_get_pixel(image, data, x + at[1], y + at[2])
    BY <1>1, <2>1 DEF Picture
  <2>3. picture[at] = xcb_image_get_pixel(image, data, x + at[1], y + at[2])
    BY DEF picture
  <2> DEFINE pixel == picture[at]
  <2>4. pixel = [p \in 0 .. to.bpp - 1 |-> pixel[p]]
    BY <1>4, <2>3 DEF xcb_image_get_pixel
  <2> HIDE DEF pixel
  <2>5. Fit(pixel, to.bpp) = pixel
    BY <2>4, FitSame
  <2> QED
    BY <2>2, <2>3, <2>5 DEF pixel
<1>9. Picture(image', data') = drawn' /\ Near(image', data') /\ ProperImage(image')
  BY <1>2, <1>4, <1>7, <1>8
<1>10. window' = window /\ steps' \in 0 .. MaxSteps
  BY <1>2, BoundAssumption DEF Step, PixelInv
<1>11. effective_format(image') = "Z" /\ image'.bpp = 24 => image'.byte_order = order
  BY <1>2, <1>4 DEF PixelInv
<1> QED
  BY <1>9, <1>10, <1>11 DEF PixelInv, ProperImage, effective_format, format_valid, StoresInside, Near, Picture,
         Coordinates,
     xcb_image_get_pixel, Sent, Nothing

\* xcb_image_put,
LEMMA PutKeeps ==
    ASSUME NEW order, PixelInv(order), NEW server \in Servers, xcb_image_put(server)
    PROVE  PixelInv(order)'
<1>1. /\ ProperImage(image) /\ Near(image, data) /\ Picture(image, data) = drawn /\ ProperServer(server)
      /\ IsNative(server, image) /\ Of(server, image.depth) # {}
  BY ServerAssumption DEF PixelInv, xcb_image_put
<1>2. /\ window' = [server |-> server, width |-> image.width, height |-> image.height,
             depth |-> image.depth,
                    picture |-> Drawing(server, image, data),
                    meant |-> [xy \in DOMAIN drawn |-> Fit(drawn[xy], image.depth)]]
      /\ UNCHANGED <<image, data, drawn, steps>>
  BY DEF xcb_image_put
<1>3. WireImage(server, image)
  BY <1>1, NativeIsWire
<1>4. Drawing(server, image, data) = [xy \in Coordinates(image) |-> Fit(drawn[xy], image.depth)]
  BY <1>1, <1>3, DrawingIs DEF Near
<1>5. DOMAIN drawn = Coordinates(image)
  BY <1>1 DEF Picture
<1>6. Sent(window')
  <2>1. /\ window'.server = server /\ window'.width = image.width /\ window'.height = image.height
        /\ window'.depth = image.depth
        /\ window'.picture = [xy \in Coordinates(image) |-> Fit(drawn[xy], image.depth)]
        /\ window'.meant = window'.picture
    BY <1>2, <1>4, <1>5
  <2>2. image.width \in Nat \ {0} /\ image.height \in Nat \ {0} /\ image.depth \in Nat \ {0}
    BY <1>1 DEF ProperImage
  <2>3. \A xy \in (0 .. window'.width - 1) \X (0 .. window'.height - 1) :
           DOMAIN window'.picture[xy] = 0 .. window'.depth - 1
    BY <2>1, FitFacts DEF Coordinates, Fit
  <2> QED
    BY <2>1, <2>2, <2>3 DEF Sent
<1>7. (window = Nothing \/ Sent(window))'
  BY <1>6 DEF Sent
<1> QED
  BY <1>2, <1>7 DEF PixelInv, ProperImage, effective_format, format_valid, StoresInside, Near, Picture, Coordinates,
     xcb_image_get_pixel

\* xcb_image_get,
LEMMA GetKeeps ==
    ASSUME NEW order, OneOrderOf24(order), PixelInv(order), NEW format \in {"XY", "Z"},
           xcb_image_get(format)
    PROVE  PixelInv(order)'
<1>1. Sent(window) /\ window' = window /\ steps' = steps
  BY DEF PixelInv, xcb_image_get
<1> DEFINE server == window.server
<1>2. PICK f \in CreateNative(server, format, window.depth) :
         LET im == Header(f, window.width, window.height)
         IN  /\ format_valid(im)
             /\ image' = im
             /\ data' = Encoding(server, im, window.picture)
             /\ drawn' = [xy \in Coordinates(im) |-> Fit(window.picture[xy], im.bpp)]
  BY DEF xcb_image_get
<1> DEFINE im == Header(f, window.width, window.height)
<1>3. server \in Servers /\ ProperServer(server)
  BY <1>1, ServerAssumption DEF Sent
<1>4. window.width \in Nat \ {0} /\ window.height \in Nat \ {0} /\ window.depth \in Nat \ {0}
  BY <1>1 DEF Sent
<1>5. WireImage(server, im) /\ im.depth = window.depth /\ im.width = window.width
          /\ im.height = window.height
  BY <1>2, <1>3, <1>4, CreatedIsWire
<1>6. /\ image' = im /\ data' = Encoding(server, im, window.picture)
      /\ drawn' = [xy \in Coordinates(im) |-> Fit(window.picture[xy], im.bpp)]
  BY <1>2
<1> HIDE DEF im, server
<1>7. Deep(im, window.picture)
  BY <1>1, <1>5 DEF Sent, Deep, Coordinates
<1>8. /\ DOMAIN data' = DOMAIN Fresh(im)
      /\ Picture(im, data') = [xy \in Coordinates(im) |-> Fit(window.picture[xy], im.bpp)]
  BY <1>5, <1>6, <1>7, EncodingFacts
<1>9. ProperImage(im)
  BY <1>5 DEF WireImage
<1>10. Near(im, data')
  BY <1>8, <1>9, SizeFacts DEF Near
<1>11. effective_format(im) = "Z" /\ im.bpp = 24 => im.byte_order = order
  <2>1. SUFFICES ASSUME effective_format(im) = "Z", im.bpp = 24 PROVE im.byte_order = order
    OBVIOUS
  <2>2. im.byte_order = server.byte_order /\ \E fmt \in server.formats : fmt.bpp = 24
    BY <1>5, <2>1 DEF WireImage, Of
  <2> QED
    BY <1>3, <2>2 DEF OneOrderOf24
<1>12. /\ ProperImage(image') /\ Near(image', data') /\ Picture(image', data') = drawn'
       /\ effective_format(image') = "Z" /\ image'.bpp = 24 => image'.byte_order = order
  BY <1>6, <1>8, <1>9, <1>10, <1>11
<1> QED
  BY <1>1, <1>12 DEF PixelInv, ProperImage, effective_format, format_valid, StoresInside, Near, Picture, Coordinates,
     xcb_image_get_pixel, Sent, Nothing

\* xcb_image_put_pixel,
LEMMA PutPixelKeeps ==
    ASSUME NEW order, PixelInv(order), NEW xy \in Coordinates(image), PutPixel(xy[1], xy[2])
    PROVE  PixelInv(order)'
<1> DEFINE x == xy[1]
           y == xy[2]
           pixel == [p \in 0 .. image.depth - 1 |-> NewBit(p)]
           place == Places(image, x, y)
<1>1. x \in 0 .. image.width - 1 /\ y \in 0 .. image.height - 1
  BY DEF Coordinates
<1>4. <<x, y>> \in Coordinates(image) /\ ~(x > image.width \/ y > image.height)
  BY <1>1 DEF Coordinates, PixelInv, ProperImage
<1>2. IsPlaceOf(place, image, x, y)
  BY AllStored DEF Places, IsPlaceOf, PixelInv
<1>3. /\ Step /\ data' = Over(Layer(place, Fit(pixel, image.bpp)), data)
      /\ drawn' = [drawn EXCEPT ![<<x, y>>] = Fit(pixel, image.bpp)] /\ UNCHANGED <<image, window>>
  BY <1>4 DEF PutPixel, xcb_image_put_pixel
<1> HIDE DEF x, y, pixel, place
<1> QED
  BY <1>1, <1>2, <1>3, PutFacts

\* also outside the image, where nothing happens,
LEMMA PutOutsideKeeps ==
    ASSUME NEW order, PixelInv(order), NEW xy \in Outside(image), PutPixel(xy[1], xy[2])
    PROVE  PixelInv(order)'
<1>1. image.width \in Nat /\ image.height \in Nat
  BY DEF PixelInv, ProperImage
<1>2. /\ xy[1] > image.width \/ xy[2] > image.height
      /\ <<xy[1], xy[2]>> \notin Coordinates(image)
  BY <1>1 DEF Outside, Coordinates
<1>3. Step /\ UNCHANGED <<image, data, drawn, window>>
  BY <1>2 DEF PutPixel, xcb_image_put_pixel
<1>4. steps' \in 0 .. MaxSteps
  BY <1>3, BoundAssumption DEF Step, PixelInv
<1> QED
  BY <1>3, <1>4 DEF PixelInv, ProperImage, effective_format, format_valid, StoresInside, Near, Picture,
     Coordinates, xcb_image_get_pixel, Sent, Nothing

\* and the inline functions.
LEMMA PutPixelFastKeeps ==
    ASSUME NEW order, PixelInv(order), NEW xy \in Coordinates(image), NEW variant \in Variant,
           PutPixelFast(variant, xy[1], xy[2])
    PROVE  PixelInv(order)'
<1> DEFINE x == xy[1]
           y == xy[2]
           pixel == [p \in 0 .. image.depth - 1 |-> <<"fast", p>>]
           place == [p \in 0 .. image.bpp - 1 |-> FastPlace(variant, image, x, y, p)]
<1>1. x \in 0 .. image.width - 1 /\ y \in 0 .. image.height - 1
  BY DEF Coordinates
<1>2. IsPlaceOf(place, image, x, y)
  <2>1. ProperImage(image) /\ Suits(variant, image)
    BY DEF PixelInv, PutPixelFast
  <2>2. \A p \in 0 .. image.bpp - 1 : FastPlace(variant, image, x, y, p) = Place(image, x, y, p)
    BY <1>1, <2>1, FastPlaces
  <2> QED
    BY <2>2 DEF IsPlaceOf
<1>3. /\ Step /\ data' = Over(Layer(place, Fit(pixel, image.bpp)), data)
      /\ drawn' = [drawn EXCEPT ![<<x, y>>] = Fit(pixel, image.bpp)] /\ UNCHANGED <<image, window>>
  BY DEF PutPixelFast, xcb_image_put_pixel_fast
<1> HIDE DEF x, y, pixel, place
<1> QED
  BY <1>1, <1>2, <1>3, PutFacts

\* All steps of a client that uses no inline functions.
LEMMA StepKeeps ==
    ASSUME NEW order, OneOrderOf24(order), PixelInv(order), Next
    PROVE  Kept(order)'
<1>1. ASSUME NEW xy \in Coordinates(image), PutPixel(xy[1], xy[2]) PROVE PixelInv(order)'
  BY <1>1, PutPixelKeeps
<1>2. ASSUME NEW xy \in Outside(image), PutPixel(xy[1], xy[2]) PROVE PixelInv(order)'
  BY <1>2, PutOutsideKeeps
<1>3. ASSUME NEW f \in Targets, Convert(f) PROVE Kept(order)'
  BY <1>3, ConvertKeeps
<1>4. ASSUME NEW server \in Servers, xcb_image_native(server) PROVE Kept(order)'
  BY <1>4, NativeKeeps
<1>5. ASSUME NEW server \in Servers, xcb_image_put(server) PROVE PixelInv(order)'
  BY <1>5, PutKeeps
<1>6. ASSUME NEW xy \in Coordinates(image), NEW width \in 1 .. Width, NEW height \in 1 .. Height,
             xcb_image_subimage(xy[1], xy[2], width, height)
      PROVE  PixelInv(order)'
  BY <1>6, SubimageKeeps
<1>7. ASSUME NEW format \in {"XY", "Z"}, xcb_image_get(format) PROVE PixelInv(order)'
  BY <1>7, GetKeeps
<1>8. PixelInv(order)' => Kept(order)'
  BY DEF Kept
<1> QED
  BY <1>1, <1>2, <1>3, <1>4, <1>5, <1>6, <1>7, <1>8 DEF Next

\* Nothing happens after storage was overwritten.
LEMMA OverwrittenEnds ==
    ASSUME Overwritten, FastNext PROVE FALSE
<1>1. ~StoresInside(image)
  BY DEF Overwritten
<1>2. ~Step
  BY <1>1 DEF Step
<1>3. /\ \A x, y : ~PutPixel(x, y)
      /\ \A variant, x, y : ~PutPixelFast(variant, x, y)
      /\ \A f : ~Convert(f)
      /\ \A server : ~xcb_image_native(server)
      /\ \A x, y, width, height : ~xcb_image_subimage(x, y, width, height)
  <2>1. \A x, y : ~PutPixel(x, y)
    BY <1>2 DEF PutPixel
  <2>2. \A variant, x, y : ~PutPixelFast(variant, x, y)
    BY <1>2 DEF PutPixelFast
  <2>3. \A f : ~Convert(f)
    BY <1>2 DEF Convert
  <2>4. \A server : ~xcb_image_native(server)
    BY <1>2 DEF xcb_image_native
  <2>5. \A x, y, width, height : ~xcb_image_subimage(x, y, width, height)
    BY <1>2 DEF xcb_image_subimage
  <2> QED
    BY <2>1, <2>2, <2>3, <2>4, <2>5
<1>4. \A server : ~xcb_image_put(server)
  BY <1>1 DEF xcb_image_put
<1>5. \A format : ~xcb_image_get(format)
  BY <1>1 DEF xcb_image_get
<1> QED
  BY <1>3, <1>4, <1>5 DEF FastNext, Next, PutAny

\* The invariant holds for every size of an image, all formats there are images
\* of and all servers whose setup is proper, if one byte order of 24 bits per
\* pixel is left out, which the library does not convert (image/xcb_image.c).
THEOREM PixelsInvariant ==
    ASSUME NEW order, OneOrderOf24(order)
    PROVE  FastSpec => []Kept(order)
<1>1. FastInit => Kept(order)
  <2>1. FastWidth \in Nat \ {0} /\ Width \in Nat \ {0}
    BY FastAssumption, SizeAssumption
  <2> QED
    BY <2>1, FilledKeeps DEF FastInit, Init
<1>2. Kept(order) /\ [FastNext]_vars => Kept(order)'
  <2>1. ASSUME PixelInv(order), FastNext PROVE Kept(order)'
    <3>1. CASE Next
      BY <2>1, <3>1, StepKeeps
    <3>2. ASSUME NEW xy \in Coordinates(image), PutAny(xy[1], xy[2]) PROVE PixelInv(order)'
      <4>1. CASE PutPixel(xy[1], xy[2])
        BY <2>1, <4>1, PutPixelKeeps
      <4>2. ASSUME NEW variant \in Variant, PutPixelFast(variant, xy[1], xy[2]) PROVE PixelInv(order)'
        BY <2>1, <4>2, PutPixelFastKeeps
      <4> QED
        BY <3>2, <4>1, <4>2 DEF PutAny
    <3> QED
      BY <2>1, <3>1, <3>2 DEF FastNext, Kept
  <2>2. ASSUME PixelInv(order), UNCHANGED vars PROVE PixelInv(order)'
    BY <2>2 DEF vars, PixelInv, ProperImage, effective_format, format_valid, StoresInside, Near, Picture,
       Coordinates, xcb_image_get_pixel, Sent, Nothing
  <2>3. ASSUME Overwritten, UNCHANGED vars PROVE Overwritten'
    BY <2>3 DEF vars, Overwritten, effective_format, format_valid, StoresInside, Coordinates, Sent,
       Nothing
  <2> QED
    BY <2>1, <2>2, <2>3, OverwrittenEnds DEF Kept
<1> QED
  BY <1>1, <1>2, PTL DEF FastSpec

\* Every pixel reads as what was put there last, through any number of puts,
\* of either kind, conversions, extractions and round trips through a server
\* (xcb_image_put_pixel, xcb_image_convert, xcb_image_native,
\* xcb_image_subimage, xcb_image_put, xcb_image_get).
THEOREM PixelsStay ==
    ASSUME NEW order, OneOrderOf24(order)
    PROVE  FastSpec => []PixelsAreKept
<1>1. Kept(order) => PixelsAreKept
  BY DEF Kept, PixelInv, Overwritten, PixelsAreKept
<1> QED
  BY <1>1, PixelsInvariant, PTL

\* However puts of both kinds are mixed, xcb_image_get_pixel and the inline
\* functions of xcb_pixel.h that suit the layout see what was put last.
THEOREM FastReadsAgree ==
    ASSUME NEW order, OneOrderOf24(order)
    PROVE  FastSpec => []FastAgrees
<1>1. Kept(order) => FastAgrees
  <2> SUFFICES ASSUME PixelInv(order) PROVE FastAgrees
    BY DEF Kept, Overwritten, FastAgrees
  <2>1. ProperImage(image) /\ Picture(image, data) = drawn
    BY DEF PixelInv
  <2>2. Picture(image, data)
          = [xy \in Coordinates(image) |-> [p \in 0 .. image.bpp - 1 |-> data[Place(image, xy[1],
              xy[2], p)]]]
    BY <2>1, PictureIs
  <2>3. ASSUME NEW variant \in Variant, Suits(variant, image) PROVE FastPicture(variant) = drawn
    <3>1. ASSUME NEW xy \in Coordinates(image)
          PROVE  xcb_image_get_pixel_fast(variant, image, data, xy[1], xy[2])
                    = [p \in 0 .. image.bpp - 1 |-> data[Place(image, xy[1], xy[2], p)]]
      <4>1. xy[1] \in 0 .. image.width - 1 /\ xy[2] \in 0 .. image.height - 1
        BY DEF Coordinates
      <4>2. \A p \in 0 .. image.bpp - 1 :
               FastPlace(variant, image, xy[1], xy[2], p) = Place(image, xy[1], xy[2], p)
        BY <2>1, <2>3, <4>1, FastPlaces
      <4> QED
        BY <4>2 DEF xcb_image_get_pixel_fast
    <3> QED
      BY <2>1, <2>2, <3>1 DEF FastPicture
  <2> QED
    BY <2>1, <2>3 DEF FastAgrees
<1> QED
  BY <1>1, PixelsInvariant, PTL

\* A server draws what the client has drawn: what xcb_image_put sends has every
\* bit where the protocol says, whatever the byte and bit orders of the server.
THEOREM ServersDrawThePicture ==
    ASSUME NEW order, OneOrderOf24(order)
    PROVE  FastSpec => []PutDrawsPicture
<1>1. Kept(order) => PutDrawsPicture
  BY DEF Kept, PixelInv, Overwritten, PutDrawsPicture, Sent
<1> QED
  BY <1>1, PixelsInvariant, PTL

\* Headers stay valid, all the storage an image needs is there, and no write
\* of xcb_image_put_pixel, xcb_image_convert and the others goes further beyond
\* it than to the next byte.
THEOREM WritesStayNear ==
    ASSUME NEW order, OneOrderOf24(order)
    PROVE  FastSpec => []StaysNearStorage
<1>1. Kept(order) => StaysNearStorage
  <2> SUFFICES ASSUME PixelInv(order) PROVE StaysNearStorage
    BY DEF Kept, Overwritten, StaysNearStorage, TypeOK
  <2>1. DOMAIN drawn = Coordinates(image)
    BY DEF PixelInv, Picture
  <2> QED
    BY <2>1 DEF PixelInv, ProperImage, Near, StaysNearStorage, TypeOK
<1> QED
  BY <1>1, PixelsInvariant, PTL

-----------------------------------------------------------------------------
(* The memory that images own.                                              *)

\* What the assumptions say of the constants.
LEMMA MemoryBounds ==
    /\ MaxSize \in Nat \ {0} /\ MaxBlocks \in Nat \ {0} /\ MaxImages \in Nat \ {0}
    /\ 1 \in FormatDepth /\ FormatDepth \subseteq Depth
  BY MemoryAssumption DEF Storage!BoundAssumption, Storage!DepthAssumption

\* The instance counts as this module does.
LEMMA SameSize == \A S : Storage!Cardinality(S) = Cardinality(S)
  BY DEF Storage!Cardinality, Cardinality

\* Any set of natural numbers that is not empty has a least one.
LEMMA LeastNumber ==
    ASSUME NEW T, T \subseteq Nat, T # {}
    PROVE  \E n \in T : \A m \in T : n <= m
<1>1. PICK n \in T : \A m \in T : <<m, n>> \notin OpToRel(<, Nat)
  BY NatLessThanWellFounded, WFMin
<1>2. \A m \in T : ~(m < n)
  BY <1>1, Zenon DEF OpToRel
<1> QED
  BY <1>2

\* An address is free, and no larger than it has to be.
LEMMA FreeNumberIsFree ==
    ASSUME NEW f, IsFiniteSet(DOMAIN f)
    PROVE  /\ Storage!FreeNumber(f) \in Nat \ {0} /\ Storage!FreeNumber(f) \notin DOMAIN f
           /\ Storage!FreeNumber(f) <= Cardinality(DOMAIN f) + 1
<1> DEFINE c == Cardinality(DOMAIN f)
           free == {n \in Nat \ {0} : n \notin DOMAIN f}
<1>1. c \in Nat
  BY FS_CardinalityType
<1>2. PICK k \in 1 .. c + 1 : k \notin DOMAIN f
  <2>1. /\ IsFiniteSet(1 .. c + 1)
        /\ Cardinality(1 .. c + 1) = c + 1
    BY <1>1, FS_Interval
  <2>2. ~(1 .. c + 1 \subseteq DOMAIN f)
    <3> SUFFICES ASSUME 1 .. c + 1 \subseteq DOMAIN f PROVE FALSE
      OBVIOUS
    <3>1. c + 1 <= c
      BY <2>1, FS_Subset
    <3> QED
      BY <3>1, <1>1
  <2> QED
    BY <2>2
<1>3. k \in free
  BY <1>1, <1>2
<1>4. PICK n \in free : \A m \in free : n <= m
  BY <1>3, LeastNumber
<1>5. n \in 1 .. c + 1 /\ n \notin DOMAIN f
  BY <1>1, <1>2, <1>3, <1>4
<1>6. 1 .. n - 1 \subseteq DOMAIN f
  <2> SUFFICES ASSUME NEW m \in 1 .. n - 1, m \notin DOMAIN f PROVE FALSE
    OBVIOUS
  <2>1. m \in free /\ m < n
    BY <1>5, <1>1
  <2> QED
    BY <2>1, <1>4, <1>5
<1>7. Storage!FreeNumber(f) \in 1 .. c + 1 /\ Storage!FreeNumber(f) \notin DOMAIN f
  BY <1>5, <1>6, SameSize DEF Storage!FreeNumber
<1> QED
  BY <1>7, <1>1

-----------------------------------------------------------------------------

\* Room, in any store.
RoomIn(s, p) == IF p < 0 THEN -p ELSE s.heap[p]

\* The types of a store that is finite.
Shape(s) ==
    /\ s = [heap |-> s.heap, images |-> s.images]
    /\ IsFiniteSet(DOMAIN s.heap) /\ IsFiniteSet(DOMAIN s.images)
    /\ DOMAIN s.heap \subseteq Nat \ {0} /\ DOMAIN s.images \subseteq Nat \ {0}
    /\ \A b \in DOMAIN s.heap : s.heap[b] \in Storage!Sizes
    /\ \A i \in DOMAIN s.images :
          s.images[i] \in [depth : Depth, native : BOOLEAN, size : Storage!Sizes, base : Nat,
              data : Int]

\* Where an image of the store may point when the client owns the blocks own.
Points(s, own, im) ==
    /\ im.base \in DOMAIN s.heap \cup {Storage!Null} /\ im.base \notin own
    /\ im.data = Storage!Null => im.base = Storage!Null
    /\ im.data # Storage!Null => /\ im.data \in {im.base} \cup own \cup -MaxSize .. -1
                         /\ RoomIn(s, im.data) >= im.size

\* Every block is the client's or the base of one image.
Owners(s, own) ==
    /\ own \subseteq DOMAIN s.heap
    /\ \A b \in DOMAIN s.heap : b \in own \/ \E i \in DOMAIN s.images : s.images[i].base = b
    /\ \A i, j \in DOMAIN s.images :
          i # j => s.images[i].base = Storage!Null \/ s.images[i].base # s.images[j].base

Owned(s, own) ==
    /\ Shape(s) /\ Owners(s, own)
    /\ \A i \in DOMAIN s.images : Points(s, own, s.images[i])

\* No image has its bits there.
Unused(s, p) == \A i \in DOMAIN s.images : s.images[i].data # p

LEMMA OwnsBlock ==
    ASSUME NEW s, NEW own, Owned(s, own), NEW bytes \in Storage!Sizes,
           NEW n, n = Storage!FreeNumber(s.heap)
    PROVE  /\ n \in Nat \ {0} /\ n \notin DOMAIN s.heap /\ n \notin own
           /\ Storage!WithBlock(s, bytes) = [heap |-> Storage!With(s.heap, n, bytes),
                  images |-> s.images]
           /\ Unused(s, n)
           /\ Owned(Storage!WithBlock(s, bytes), own \cup {n})
<1> DEFINE t == Storage!WithBlock(s, bytes)
<1>a. Shape(s) /\ Owners(s, own) /\ \A i \in DOMAIN s.images : Points(s, own, s.images[i])
  BY DEF Owned
<1>1. n \in Nat \ {0} /\ n \notin DOMAIN s.heap /\ n \notin own
  BY <1>a, FreeNumberIsFree DEF Shape, Owners
<1>2. t = [heap |-> Storage!With(s.heap, n, bytes), images |-> s.images]
  BY <1>a DEF Shape, Storage!WithBlock
<1>3. /\ t.images = s.images /\ DOMAIN t.heap = DOMAIN s.heap \cup {n} /\ t.heap[n] = bytes
      /\ \A b \in DOMAIN s.heap : t.heap[b] = s.heap[b]
  BY <1>1, <1>2 DEF Storage!With
<1> HIDE DEF t
<1>4. ASSUME NEW i \in DOMAIN s.images
      PROVE  Points(t, own \cup {n}, s.images[i]) /\ s.images[i].data # n
  <2> DEFINE im == s.images[i]
  <2>1. Points(s, own, im) /\ im.base \in Nat /\ im.data \in Int /\ im.size \in Nat
    BY <1>a DEF Shape, Storage!Sizes
  <2> HIDE DEF im
  <2>2. im.base # n /\ im.data # n
    BY <1>1, <2>1, <1>a, MemoryBounds DEF Points, Owners, Storage!Null
  <2>3. im.data # Storage!Null => RoomIn(t, im.data) = RoomIn(s, im.data)
    BY <1>3, <2>1, <1>a, MemoryBounds DEF Points, RoomIn, Owners, Storage!Null
  <2>4. Points(t, own \cup {n}, im)
    BY <2>1, <2>2, <2>3, <1>3 DEF Points
  <2> QED
    BY <2>2, <2>4 DEF im
<1>5. Shape(t)
  <2>1. IsFiniteSet(DOMAIN t.heap)
    BY <1>3, <1>a, FS_AddElement DEF Shape
  <2>2. t = [heap |-> t.heap, images |-> t.images]
    BY <1>2
  <2>3. DOMAIN t.heap \subseteq Nat \ {0} /\ \A b \in DOMAIN t.heap : t.heap[b] \in Storage!Sizes
    BY <1>1, <1>3, <1>a DEF Shape
  <2> QED
    BY <2>1, <2>2, <2>3, <1>3, <1>a DEF Shape
<1>6. Owners(t, own \cup {n})
  BY <1>3, <1>a DEF Owners
<1>7. Owned(t, own \cup {n}) /\ Unused(s, n)
  BY <1>3, <1>4, <1>5, <1>6 DEF Owned, Unused
<1> QED
  BY <1>1, <1>2, <1>7 DEF t

\* What a function that makes an image returns: NULL and the store as it was,
\* or a new image that has taken its base from the client.
Fits(s, own, base, o) ==
    /\ o = [store |-> o.store, image |-> o.image]
    /\ o.image = Storage!Null => o.store = s
    /\ o.image # Storage!Null =>
          /\ o.image = Storage!FreeNumber(s.images) /\ o.image \in Nat \ {0}
          /\ o.image \notin DOMAIN s.images
          /\ DOMAIN o.store.images = DOMAIN s.images \cup {o.image}
          /\ Owned(o.store, own \ {base})

LEMMA OwnsImage ==
    ASSUME NEW s, NEW own, Owned(s, own), NEW f, NEW base, NEW bits,
           f.depth \in Depth, f.native \in BOOLEAN, f.size \in Storage!Sizes,
           base \in own \cup {Storage!Null}, bits \in own \cup -MaxSize .. 0,
           base # Storage!Null => Unused(s, base) /\ bits = base,
           bits # Storage!Null => RoomIn(s, bits) >= f.size,
           NEW o \in Storage!Made(s, f, base, bits)
    PROVE  Fits(s, own, base, o) /\ o.image # Storage!Null
<1> DEFINE n == Storage!FreeNumber(s.images)
           im == [depth |-> f.depth, native |-> f.native, size |-> f.size,
                  base |-> base, data |-> bits]
           t == [heap |-> s.heap, images |-> Storage!With(s.images, n, im)]
<1>a. Shape(s) /\ Owners(s, own) /\ \A i \in DOMAIN s.images : Points(s, own, s.images[i])
  BY DEF Owned
<1>b. /\ own \subseteq Nat \ {0} /\ MaxSize \in Nat /\ -MaxSize .. 0 \subseteq Int
      /\ base \in Nat /\ bits \in Int
  BY <1>a, MemoryBounds DEF Shape, Owners, Storage!Null
<1>1. n \in Nat \ {0} /\ n \notin DOMAIN s.images /\ n # Storage!Null
  BY <1>a, FreeNumberIsFree DEF Shape, Storage!Null
<1>2. o = [store |-> t, image |-> n]
  <2>1. [s EXCEPT !.images = Storage!With(s.images, n, im)] = t
    BY <1>a DEF Shape
  <2> QED
    BY <2>1 DEF Storage!Made, Storage!Returns
<1>3. /\ t = [heap |-> t.heap, images |-> t.images] /\ t.heap = s.heap
      /\ DOMAIN t.images = DOMAIN s.images \cup {n} /\ t.images[n] = im
      /\ \A i \in DOMAIN s.images : t.images[i] = s.images[i]
  BY <1>1 DEF Storage!With
<1>4. /\ im.base = base /\ im.data = bits /\ im.size = f.size
      /\ im \in [depth : Depth, native : BOOLEAN, size : Storage!Sizes, base : Nat, data : Int]
  BY <1>b
<1> HIDE DEF t, im, n
<1>5. Shape(t)
  <2>1. IsFiniteSet(DOMAIN t.images)
    BY <1>3, <1>a, FS_AddElement DEF Shape
  <2> QED
    BY <2>1, <1>1, <1>3, <1>4, <1>a DEF Shape
<1>6. Owners(t, own \ {base})
  <2>1. own \ {base} \subseteq DOMAIN t.heap
    BY <1>3, <1>a DEF Owners
  <2>2. ASSUME NEW b \in DOMAIN t.heap
        PROVE  b \in own \ {base} \/ \E i \in DOMAIN t.images : t.images[i].base = b
    BY <1>3, <1>4, <1>a DEF Owners
  <2>3. \A i \in DOMAIN s.images : base = Storage!Null \/ s.images[i].base # base
    BY <1>a, <1>b DEF Points
  <2>4. ASSUME NEW i \in DOMAIN t.images, NEW j \in DOMAIN t.images, i # j
        PROVE  t.images[i].base = Storage!Null \/ t.images[i].base # t.images[j].base
    BY <2>3, <2>4, <1>3, <1>4, <1>a DEF Owners
  <2> QED
    BY <2>1, <2>2, <2>4 DEF Owners
<1>7. ASSUME NEW p PROVE RoomIn(t, p) = RoomIn(s, p)
  BY <1>3 DEF RoomIn
<1>8. ASSUME NEW i \in DOMAIN t.images PROVE Points(t, own \ {base}, t.images[i])
  <2>1. CASE i \in DOMAIN s.images
    <3>1. Points(s, own, s.images[i]) /\ (base # Storage!Null => s.images[i].data # base)
      BY <2>1, <1>a DEF Unused
    <3>2. s.images[i].data \in own => s.images[i].data \in own \ {base}
      BY <3>1, <1>b DEF Storage!Null
    <3> QED
      BY <2>1, <3>1, <3>2, <1>3, <1>7 DEF Points
  <2>2. CASE i = n
    <3>1. im.base \in DOMAIN t.heap \cup {Storage!Null} /\ im.base \notin own \ {base}
      BY <1>3, <1>4, <1>a DEF Owners
    <3>2. im.data = Storage!Null => im.base = Storage!Null
      BY <1>4
    <3>3. im.data # Storage!Null => RoomIn(t, im.data) >= im.size
      BY <1>4, <1>7
    <3>4. im.data # Storage!Null => im.data \in {im.base} \cup (own \ {base}) \cup -MaxSize .. -1
      BY <1>4, <1>b DEF Storage!Null
    <3> QED
      BY <2>2, <3>1, <3>2, <3>3, <3>4, <1>3 DEF Points
  <2> QED
    BY <2>1, <2>2, <1>3
<1>9. Owned(t, own \ {base})
  BY <1>5, <1>6, <1>8 DEF Owned
<1> QED
  BY <1>1, <1>2, <1>3, <1>9 DEF Fits, n

LEMMA OwnsLess ==
    ASSUME NEW s, NEW own, Owned(s, own), NEW b \in own, Unused(s, b)
    PROVE  Owned([s EXCEPT !.heap = Storage!Without(@, b)], own \ {b})
<1> DEFINE t == [heap |-> Storage!Without(s.heap, b), images |-> s.images]
<1>a. Shape(s) /\ Owners(s, own) /\ \A i \in DOMAIN s.images : Points(s, own, s.images[i])
  BY DEF Owned
<1>1. [s EXCEPT !.heap = Storage!Without(@, b)] = t
  BY <1>a DEF Shape
<1>2. /\ t = [heap |-> t.heap, images |-> t.images] /\ t.images = s.images
      /\ DOMAIN t.heap = DOMAIN s.heap \ {b}
      /\ \A x \in DOMAIN s.heap : x # b => t.heap[x] = s.heap[x]
  BY DEF Storage!Without
<1>b. b \in Nat \ {0} /\ b \in DOMAIN s.heap
  BY <1>a DEF Shape, Owners
<1> HIDE DEF t
<1>3. Shape(t)
  <2>1. IsFiniteSet(DOMAIN t.heap)
    <3>1. IsFiniteSet(DOMAIN s.heap)
      BY <1>a DEF Shape
    <3>2. IsFiniteSet(DOMAIN s.heap \ {b})
      BY <3>1, FS_RemoveElement
    <3> QED
      BY <3>2, <1>2
  <2> QED
    BY <2>1, <1>2, <1>a DEF Shape
<1>4. Owners(t, own \ {b})
  BY <1>2, <1>a DEF Owners
<1>5. ASSUME NEW i \in DOMAIN s.images PROVE Points(t, own \ {b}, s.images[i])
  <2> DEFINE im == s.images[i]
  <2>1. Points(s, own, im) /\ im.data # b /\ im.data \in Int
    BY <1>a DEF Unused, Shape
  <2> HIDE DEF im
  <2>2. im.base \in DOMAIN t.heap \cup {Storage!Null} /\ im.base \notin own \ {b}
    BY <2>1, <1>2 DEF Points
  <2>3. im.data # Storage!Null => im.data < 0 \/ im.data \in DOMAIN s.heap
    BY <2>1, <1>a, MemoryBounds DEF Points, Owners, Storage!Null
  <2>4. im.data # Storage!Null => RoomIn(t, im.data) = RoomIn(s, im.data)
    BY <2>1, <2>3, <1>2 DEF RoomIn
  <2> QED
    BY <2>1, <2>2, <2>4 DEF Points, im
<1> QED
  BY <1>1, <1>2, <1>3, <1>4, <1>5 DEF Owned

LEMMA OwnsDestroyed ==
    ASSUME NEW s, NEW own, Owned(s, own), NEW k \in DOMAIN s.images
    PROVE  /\ Owned(Storage!xcb_image_destroy(s, k), own)
           /\ DOMAIN Storage!xcb_image_destroy(s, k).images = DOMAIN s.images \ {k}
<1> DEFINE b == s.images[k].base
           t == Storage!xcb_image_destroy(s, k)
<1>a. Shape(s) /\ Owners(s, own) /\ \A i \in DOMAIN s.images : Points(s, own, s.images[i])
  BY DEF Owned
<1>1. /\ t = [heap |-> t.heap, images |-> t.images]
      /\ DOMAIN t.heap = DOMAIN s.heap \ {b} /\ DOMAIN t.images = DOMAIN s.images \ {k}
      /\ \A x \in DOMAIN s.heap : x # b => t.heap[x] = s.heap[x]
      /\ \A i \in DOMAIN s.images : i # k => t.images[i] = s.images[i]
  BY DEF Storage!xcb_image_destroy, Storage!Without
<1>2. b \in Nat /\ b \notin own /\ \A i \in DOMAIN s.images \ {k} : b = Storage!Null \/ s.images[i].base # b
  BY <1>a DEF Shape, Owners, Points
<1> HIDE DEF b, t
<1>3. Shape(t)
  <2>1. IsFiniteSet(DOMAIN t.heap) /\ IsFiniteSet(DOMAIN t.images)
    BY <1>1, <1>a, FS_RemoveElement DEF Shape
  <2> QED
    BY <2>1, <1>1, <1>a DEF Shape
<1>4. Owners(t, own)
  <2>1. own \subseteq DOMAIN t.heap
    BY <1>1, <1>2, <1>a DEF Owners
  <2>2. ASSUME NEW x \in DOMAIN t.heap, x \notin own
        PROVE  \E i \in DOMAIN t.images : t.images[i].base = x
    <3>1. PICK i \in DOMAIN s.images : s.images[i].base = x
      BY <2>2, <1>1, <1>a DEF Owners
    <3>2. i # k
      BY <2>2, <3>1, <1>1 DEF b
    <3> QED
      BY <3>1, <3>2, <1>1
  <2>3. \A i, j \in DOMAIN t.images :
           i # j => t.images[i].base = Storage!Null \/ t.images[i].base # t.images[j].base
    BY <1>1, <1>a DEF Owners
  <2> QED
    BY <2>1, <2>2, <2>3 DEF Owners
<1>5. ASSUME NEW i \in DOMAIN s.images \ {k} PROVE Points(t, own, s.images[i])
  <2> DEFINE im == s.images[i]
  <2>1. Points(s, own, im) /\ im.base \in Nat /\ im.data \in Int /\ (b = Storage!Null \/ im.base # b)
    BY <1>a, <1>2 DEF Shape
  <2> HIDE DEF im
  <2>2. Storage!Null \notin DOMAIN s.heap /\ own \subseteq DOMAIN s.heap
    BY <1>a DEF Shape, Owners, Storage!Null
  <2>3. im.base \in DOMAIN t.heap \cup {Storage!Null} /\ im.base \notin own
    BY <2>1, <2>2, <1>1 DEF Points
  <2>4. im.data # Storage!Null => im.data < 0 \/ im.data \in DOMAIN s.heap \ {b}
    BY <2>1, <2>2, <1>2, MemoryBounds DEF Points, Storage!Null
  <2>5. im.data # Storage!Null => RoomIn(t, im.data) = RoomIn(s, im.data)
    BY <2>1, <2>4, <1>1 DEF RoomIn
  <2> QED
    BY <2>1, <2>3, <2>5 DEF Points, im
<1>6. Owned(t, own)
  BY <1>1, <1>3, <1>4, <1>5 DEF Owned
<1> QED
  BY <1>1, <1>6 DEF t

\* The pointers of an image, set by the client.
Supplied(s, k, block) ==
    [s EXCEPT !.images[k].data = block, !.images[k].base = IF block > 0 THEN block ELSE Storage!Null]

LEMMA OwnsSupplied ==
    ASSUME NEW s, NEW own, Owned(s, own), NEW k \in DOMAIN s.images,
           s.images[k].data = Storage!Null, NEW block \in own \cup -MaxSize .. -1,
           block \in own => Unused(s, block),
           RoomIn(s, block) >= s.images[k].size
    PROVE  /\ Owned(Supplied(s, k, block), own \ {block})
           /\ DOMAIN Supplied(s, k, block).images = DOMAIN s.images
           /\ Supplied(s, k, block).heap = s.heap
<1> DEFINE t == Supplied(s, k, block)
           base == IF block > 0 THEN block ELSE Storage!Null
           im == [s.images[k] EXCEPT !.data = block, !.base = base]
<1>a. Shape(s) /\ Owners(s, own) /\ \A i \in DOMAIN s.images : Points(s, own, s.images[i])
  BY DEF Owned
<1>b. /\ own \subseteq Nat \ {0} /\ MaxSize \in Nat /\ block \in Int /\ base \in Nat
      /\ block # Storage!Null /\ (block \in own => base = block)
             /\ (block \notin own => base = Storage!Null)
  BY <1>a, MemoryBounds DEF Shape, Owners, Storage!Null
<1>1. /\ s.images[k] \in [depth : Depth, native : BOOLEAN, size : Storage!Sizes, base : Nat, data : Int]
      /\ s.images[k].base = Storage!Null
  BY <1>a DEF Shape, Points
<1>2. /\ im \in [depth : Depth, native : BOOLEAN, size : Storage!Sizes, base : Nat, data : Int]
      /\ im.base = base /\ im.data = block /\ im.size = s.images[k].size
  BY <1>1, <1>b
<1>3. t = [heap |-> s.heap, images |-> [s.images EXCEPT ![k] = im]]
  <2>1. t.images = [s.images EXCEPT ![k] = im]
    BY <1>a DEF Shape, Supplied
  <2> DEFINE bits == [s EXCEPT !.images[k].data = block]
  <2>2. bits = [heap |-> s.heap, images |-> bits.images]
    <3>1. \A d : d = bits => d = [heap |-> s.heap, images |-> d.images]
      BY <1>a DEF Shape
    <3> QED
      BY <3>1, Zenon
  <2>3. t = [bits EXCEPT !.images[k].base = base]
    BY Zenon DEF Supplied
  <2> HIDE DEF bits, base
  <2>4. t = [heap |-> s.heap, images |-> t.images]
    <3>1. \A d : d = t => d = [heap |-> s.heap, images |-> d.images]
      BY <2>2, <2>3
    <3> QED
      BY <3>1, Zenon
  <2> QED
    BY <2>1, <2>4
<1> HIDE DEF im, base, t
<1> DEFINE m == [s.images EXCEPT ![k] = im]
           u == [heap |-> s.heap, images |-> m]
<1>c. /\ DOMAIN m = DOMAIN s.images /\ m[k] = im
      /\ \A i \in DOMAIN s.images : i # k => m[i] = s.images[i]
  OBVIOUS
<1>d. t = u
  BY <1>3, Zenon
<1> HIDE DEF m
<1>4. /\ u = [heap |-> u.heap, images |-> u.images] /\ u.heap = s.heap
      /\ DOMAIN u.images = DOMAIN s.images /\ u.images[k] = im
      /\ \A i \in DOMAIN s.images : i # k => u.images[i] = s.images[i]
  BY <1>c
<1> HIDE DEF u
<1>5. Shape(u)
  BY <1>2, <1>4, <1>a DEF Shape
<1>6. Owners(u, own \ {block})
  <2>1. own \ {block} \subseteq DOMAIN u.heap
    BY <1>4, <1>a DEF Owners
  <2>2. ASSUME NEW b \in DOMAIN u.heap
        PROVE  b \in own \ {block} \/ \E i \in DOMAIN u.images : u.images[i].base = b
    <3>1. CASE b = block /\ b \in own
      BY <3>1, <1>2, <1>4, <1>b
    <3>2. CASE b \in own /\ b # block
      BY <3>2
    <3>3. CASE b \notin own
      <4>1. PICK i \in DOMAIN s.images : s.images[i].base = b
        BY <3>3, <1>4, <1>a DEF Owners
      <4>2. i # k
        BY <4>1, <1>1, <1>4, <1>a DEF Shape, Storage!Null
      <4> QED
        BY <4>1, <4>2, <1>4
    <3> QED
      BY <3>1, <3>2, <3>3
  <2>3. \A i \in DOMAIN s.images : base = Storage!Null \/ s.images[i].base # base
    BY <1>a, <1>b DEF Points
  <2>4. ASSUME NEW i \in DOMAIN u.images, NEW j \in DOMAIN u.images, i # j
        PROVE  u.images[i].base = Storage!Null \/ u.images[i].base # u.images[j].base
    BY <2>3, <2>4, <1>2, <1>4, <1>a DEF Owners
  <2> QED
    BY <2>1, <2>2, <2>4 DEF Owners
<1>7. ASSUME NEW p PROVE RoomIn(u, p) = RoomIn(s, p)
  BY <1>4 DEF RoomIn
<1>8. ASSUME NEW i \in DOMAIN u.images PROVE Points(u, own \ {block}, u.images[i])
  <2>1. CASE i # k
    <3>1. Points(s, own, s.images[i]) /\ (block \in own => s.images[i].data # block)
      BY <1>4, <1>a DEF Unused
    <3> QED
      BY <2>1, <3>1, <1>4, <1>7 DEF Points
  <2>2. CASE i = k
    <3>1. im.base \in DOMAIN u.heap \cup {Storage!Null} /\ im.base \notin own \ {block}
      BY <1>2, <1>4, <1>b, <1>a DEF Owners, Storage!Null
    <3>2. im.data # Storage!Null /\ RoomIn(u, im.data) >= im.size
      BY <1>2, <1>7, <1>b
    <3>3. im.data \in {im.base} \cup (own \ {block}) \cup -MaxSize .. -1
      BY <1>2, <1>b
    <3> QED
      BY <2>2, <3>1, <3>2, <3>3, <1>4 DEF Points
  <2> QED
    BY <2>1, <2>2
<1>9. Owned(u, own \ {block})
  BY <1>5, <1>6, <1>8 DEF Owned
<1> QED
  BY <1>4, <1>9, <1>d DEF t

\* What a client may give: see Arguments.
Given(s, own, size, base, bytes, bits) ==
    LET memory == IF bits # Storage!Null THEN bits ELSE base
    IN  /\ base \in own \cup {Storage!Null} /\ bits \in own \cup -MaxSize .. 0
        /\ base # Storage!Null => Unused(s, base)
        /\ base # Storage!Null /\ bits # Storage!Null => bits = base
        /\ IF memory = Storage!Null THEN bytes \in {0, Storage!AllOnes} ELSE bytes \in 0 .. RoomIn(s,
               memory)
        /\ bits # Storage!Null /\ base = Storage!Null /\ bytes = 0 => RoomIn(s, bits) >= size

Format(f) == f.depth \in Depth /\ f.native \in BOOLEAN /\ f.size \in Storage!Sizes

LEMMA OwnsCreated ==
    ASSUME NEW s, NEW own, Owned(s, own), NEW f, Format(f), NEW base, NEW bytes, NEW bits,
           Given(s, own, f.size, base, bytes, bits),
           NEW o \in Storage!xcb_image_create(s, f, base, bytes, bits)
    PROVE  Fits(s, own, base, o)
<1>a. Shape(s) /\ Owners(s, own)
  BY DEF Owned
<1>b. /\ own \subseteq Nat \ {0} /\ own \subseteq DOMAIN s.heap
      /\ f.size \in Nat \ {0} /\ MaxSize \in Nat
  BY <1>a, MemoryBounds DEF Shape, Owners, Format, Storage!Sizes
<1>1. CASE o \in Storage!Returns(s, Storage!Null)
  BY <1>1 DEF Storage!Returns, Fits
<1>2. CASE base = Storage!Null /\ bits = Storage!Null /\ bytes = Storage!AllOnes
               /\ o \in Storage!Made(s, f, Storage!Null, Storage!Null)
  <2>1. Storage!Null \in own \cup {Storage!Null} /\ Storage!Null \in own \cup -MaxSize .. 0
    BY <1>b DEF Storage!Null
  <2> QED
    BY <1>2, <2>1, OwnsImage, Zenon DEF Format
<1>3. CASE /\ base = Storage!Null /\ bits = Storage!Null
           /\ o \in Storage!Made(Storage!WithBlock(s, f.size), f, Storage!FreeNumber(s.heap),
                  Storage!FreeNumber(s.heap))
  <2> DEFINE n == Storage!FreeNumber(s.heap)
             w == Storage!WithBlock(s, f.size)
             more == own \cup {n}
  <2>1. /\ n \in Nat \ {0} /\ n \notin own /\ Unused(s, n)
        /\ w = [heap |-> Storage!With(s.heap, n, f.size), images |-> s.images]
        /\ Owned(w, more)
    BY OwnsBlock DEF Format
  <2>2. w.images = s.images /\ w.heap[n] = f.size
    BY <2>1 DEF Storage!With
  <2>3. o \in Storage!Made(w, f, n, n)
    BY <1>3
  <2> HIDE DEF n, w
  <2>4. n \in more \cup {Storage!Null} /\ n \in more \cup -MaxSize .. 0 /\ Unused(w, n)
    BY <2>1, <2>2 DEF Unused
  <2>5. RoomIn(w, n) >= f.size
    BY <2>1, <2>2, <1>b DEF RoomIn
  <2> HIDE DEF more
  <2>6. Fits(w, more, n, o) /\ o.image # Storage!Null
    BY <2>1, <2>3, <2>4, <2>5, OwnsImage DEF Format
  <2>7. more \ {n} = own \ {base}
    BY <2>1, <1>3, <1>b DEF more, Storage!Null
  <2> QED
    BY <2>6, <2>7, <2>2, Zenon DEF Fits
<1>4. CASE /\ ~(base = Storage!Null /\ bits = Storage!Null)
           /\ bytes >= f.size \/ bytes = Storage!AllOnes \/ (base = Storage!Null /\ bits # Storage!Null /\ bytes = 0)
           /\ o \in Storage!Made(s, f, base, IF bits # Storage!Null THEN bits ELSE base)
  <2> DEFINE memory == IF bits # Storage!Null THEN bits ELSE base
  <2>1. /\ memory # Storage!Null /\ memory \in own \cup -MaxSize .. 0
        /\ base \in own \cup {Storage!Null}
        /\ base # Storage!Null => Unused(s, base) /\ memory = base
    BY <1>4 DEF Given
  <2>2. bytes \in 0 .. RoomIn(s, memory)
    BY <2>1 DEF Given
  <2>a. base = Storage!Null /\ bits # Storage!Null /\ bytes = 0 => RoomIn(s, memory) >= f.size
    BY DEF Given
  <2> HIDE DEF memory
  <2>3. RoomIn(s, memory) \in Int
    <3>1. memory \in own => memory > 0 /\ s.heap[memory] \in Int
      BY <1>a, <1>b DEF Shape, Storage!Sizes
    <3>2. memory \in Int
      BY <2>1, <1>b
    <3> QED
      BY <2>1, <3>1, <3>2, <1>b DEF RoomIn, Storage!Null
  <2>4. RoomIn(s, memory) >= f.size
    <3>1. CASE bytes >= f.size
      BY <3>1, <2>2, <2>3, <1>b
    <3>2. CASE bytes = Storage!AllOnes
      BY <3>2, <2>2, <2>3 DEF Storage!AllOnes
    <3>3. CASE base = Storage!Null /\ bits # Storage!Null /\ bytes = 0
      BY <3>3, <2>a
    <3> QED
      BY <1>4, <3>1, <3>2, <3>3
  <2>5. o \in Storage!Made(s, f, base, memory)
    BY <1>4 DEF memory
  <2> QED
    BY <2>1, <2>4, <2>5, OwnsImage DEF Format
<1> QED
  BY <1>1, <1>2, <1>3, <1>4, Zenon DEF Storage!xcb_image_create, Storage!NoMemory

LEMMA OwnsNative ==
    ASSUME NEW s, NEW own, Owned(s, own), NEW f, Format(f), NEW base, NEW bytes, NEW bits,
           f = [depth |-> f.depth, native |-> f.native, size |-> f.size, valid |-> f.valid],
           Given(s, own, f.size, base, bytes, bits),
           NEW o \in Storage!xcb_image_create_native(s, f, base, bytes, bits)
    PROVE  Fits(s, own, base, o)
<1>1. CASE o \in Storage!Returns(s, Storage!Null)
  BY <1>1 DEF Storage!Returns, Fits
<1>2. CASE o \in Storage!xcb_image_create(s, [f EXCEPT !.native = TRUE], base, bytes, bits)
  <2> DEFINE g == [f EXCEPT !.native = TRUE]
  <2>1. g.depth = f.depth /\ g.native = TRUE /\ g.size = f.size
    OBVIOUS
  <2> HIDE DEF g
  <2>2. Format(g) /\ Given(s, own, g.size, base, bytes, bits)
    BY <2>1 DEF Format
  <2> QED
    BY <1>2, <2>2, OwnsCreated DEF g
<1> QED
  BY <1>1, <1>2, Zenon DEF Storage!xcb_image_create_native

LEMMA OwnsGot ==
    ASSUME NEW s, NEW own, Owned(s, own), NEW f \in Storage!Requests,
           NEW o \in Storage!xcb_image_get(s, f)
    PROVE  \/ o.image = Storage!Null /\ Owned(o.store, own) /\ o.store.images = s.images
           \/ o.image # Storage!Null /\ Fits(s, own, Storage!Null, o)
<1> DEFINE n == Storage!FreeNumber(s.heap)
           w == Storage!WithBlock(s, f.size)
           more == own \cup {n}
<1>a. Shape(s) /\ Owners(s, own)
  BY DEF Owned
<1>b. Format(f) /\ f = [depth |-> f.depth, native |-> f.native, size |-> f.size, valid |-> f.valid]
  BY DEF Storage!Requests, Format
<1>1. /\ n \in Nat \ {0} /\ n \notin own /\ Unused(s, n)
      /\ w = [heap |-> Storage!With(s.heap, n, f.size), images |-> s.images]
      /\ Owned(w, more)
  BY <1>b, OwnsBlock DEF Format
<1>2. w.images = s.images /\ w.heap[n] = f.size
  BY <1>1 DEF Storage!With
<1>3. /\ Storage!Null \notin own /\ Storage!Null # n /\ f.size \in Nat
  BY <1>1, <1>a, <1>b, MemoryBounds DEF Shape, Owners, Storage!Null, Format, Storage!Sizes
<1>4. CASE o \in Storage!Returns(s, Storage!Null)
  BY <1>4 DEF Storage!Returns
<1>5. ASSUME NEW p \in Storage!xcb_image_create_native(w, f, n, f.size, n),
             o = IF p.image = Storage!Null THEN [p EXCEPT !.store.heap = Storage!Without(@, n)] ELSE p
      PROVE  \/ o.image = Storage!Null /\ Owned(o.store, own) /\ o.store.images = s.images
             \/ o.image # Storage!Null /\ Fits(s, own, Storage!Null, o)
  <2> HIDE DEF n, w
  <2>1. Unused(w, n)
    BY <1>1, <1>2 DEF Unused
  <2>2. Given(w, more, f.size, n, f.size, n)
    <3>1. RoomIn(w, n) = f.size
      BY <1>1, <1>2 DEF RoomIn
    <3> QED
      BY <3>1, <2>1, <1>3 DEF Given
  <2> HIDE DEF more
  <2>3. Fits(w, more, n, p)
    BY <1>1, <1>5, <1>b, <2>2, OwnsNative
  <2>4. more \ {n} = own \ {Storage!Null} /\ more \ {n} = own /\ n \in more
    BY <1>1, <1>3 DEF more
  <2>5. CASE p.image = Storage!Null
    <3>1. p.store = w /\ p = [store |-> w, image |-> Storage!Null]
      BY <2>3, <2>5 DEF Fits
    <3> DEFINE t == [w EXCEPT !.heap = Storage!Without(@, n)]
    <3>2. Owned(t, own)
      BY <1>1, <2>1, <2>4, OwnsLess
    <3>3. t.images = s.images
      BY <1>1
    <3>4. o = [p EXCEPT !.store.heap = Storage!Without(@, n)]
      BY <1>5, <2>5
    <3> HIDE DEF t
    <3>5. o = [p EXCEPT !.store = t]
      BY <3>1, <3>4, Zenon DEF t
    <3>6. o = [store |-> t, image |-> Storage!Null]
      BY <3>1, <3>5
    <3> QED
      BY <3>2, <3>3, <3>6
  <2>6. CASE p.image # Storage!Null
    BY <1>5, <2>6, <2>3, <2>4, <1>2, Zenon DEF Fits
  <2> QED
    BY <2>5, <2>6
<1> QED
  BY <1>4, <1>5, Zenon DEF Storage!xcb_image_get

LEMMA OwnsNativeOf ==
    ASSUME NEW s, NEW own, Owned(s, own), NEW i \in DOMAIN s.images, NEW convert \in BOOLEAN,
           NEW o \in Storage!xcb_image_native(s, i, convert)
    PROVE  \/ o = [store |-> s, image |-> o.image] /\ o.image \in {i, Storage!Null}
           \/ Fits(s, own, Storage!Null, o) /\ o.image # Storage!Null
<1>a. Shape(s) /\ Owners(s, own)
  BY DEF Owned
<1> DEFINE im == s.images[i]
<1>1. im \in [depth : Depth, native : BOOLEAN, size : Storage!Sizes, base : Nat, data : Int]
  BY <1>a DEF Shape
<1> HIDE DEF im
<1>2. CASE o \in Storage!Returns(s, Storage!Null)
  BY <1>2 DEF Storage!Returns
<1>3. CASE o \in Storage!Returns(s, i)
  BY <1>3 DEF Storage!Returns
<1>4. ASSUME NEW size \in Storage!Sizes,
             o \in Storage!xcb_image_create(s, [depth |-> im.depth, native |-> TRUE, size |-> size,
                                        valid |-> TRUE], Storage!Null, 0, Storage!Null)
      PROVE  Fits(s, own, Storage!Null, o)
  <2> DEFINE f == [depth |-> im.depth, native |-> TRUE, size |-> size, valid |-> TRUE]
  <2>1. f.depth \in Depth /\ f.native = TRUE /\ f.size \in Storage!Sizes
    BY <1>1
  <2> HIDE DEF f
  <2>2. Given(s, own, f.size, Storage!Null, 0, Storage!Null)
    BY MemoryBounds DEF Given, Storage!Null, Storage!AllOnes
  <2> QED
    BY <1>4, <2>1, <2>2, OwnsCreated DEF Format, f
<1>5. Fits(s, own, Storage!Null, o) =>
        (o = [store |-> s, image |-> o.image] /\ o.image = Storage!Null) \/ o.image # Storage!Null
  BY DEF Fits
<1> QED
  BY <1>2, <1>3, <1>4, <1>5, Zenon DEF Storage!xcb_image_native, im

LEMMA OwnsPart ==
    ASSUME NEW s, NEW own, Owned(s, own), NEW i \in DOMAIN s.images, NEW size \in Storage!Sizes,
           NEW base, NEW bytes, NEW bits, Given(s, own, size, base, bytes, bits),
           NEW o \in Storage!xcb_image_subimage(s, i, size, base, bytes, bits)
    PROVE  Fits(s, own, base, o)
<1> DEFINE im == s.images[i]
           f == [depth |-> im.depth, native |-> im.native, size |-> size, valid |-> TRUE]
<1>1. im \in [depth : Depth, native : BOOLEAN, size : Storage!Sizes, base : Nat, data : Int]
  BY DEF Owned, Shape
<1> HIDE DEF im
<1>2. f.depth \in Depth /\ f.native \in BOOLEAN /\ f.size = size
  BY <1>1
<1> HIDE DEF f
<1>3. CASE o \in Storage!Returns(s, Storage!Null)
  BY <1>3 DEF Storage!Returns, Fits
<1>4. CASE o \in Storage!xcb_image_create(s, f, base, bytes, bits)
  BY <1>2, <1>4, OwnsCreated DEF Format
<1> QED
  BY <1>3, <1>4, Zenon DEF Storage!xcb_image_subimage, f, im

LEMMA OwnsBitmap ==
    ASSUME NEW s, NEW own, Owned(s, own), NEW size \in Storage!Sizes, NEW bits \in -MaxSize .. -1,
           RoomIn(s, bits) >= size, NEW o \in Storage!xcb_image_create_from_bitmap_data(s, size, bits)
    PROVE  Fits(s, own, Storage!Null, o)
<1>4. PICK native \in BOOLEAN :
         o \in Storage!xcb_image_create(s, [depth |-> 1, native |-> native, size |-> size, valid |-> TRUE],
                                       Storage!Null, 0, bits)
  BY DEF Storage!xcb_image_create_from_bitmap_data
<1> DEFINE f == [depth |-> 1, native |-> native, size |-> size, valid |-> TRUE]
<1>1. f.depth \in Depth /\ f.native \in BOOLEAN /\ f.size = size
  BY MemoryBounds
<1> HIDE DEF f
<1>2. MaxSize \in Nat
  BY MemoryBounds
<1>3. Given(s, own, f.size, Storage!Null, 0, bits)
  BY <1>1, <1>2 DEF Given, Storage!Null, RoomIn
<1> QED
  BY <1>1, <1>3, <1>4, OwnsCreated DEF f, Format

LEMMA OwnsPixmap ==
    ASSUME NEW s, NEW own, Owned(s, own), NEW size \in Storage!Sizes, NEW bits \in -MaxSize .. -1,
           RoomIn(s, bits) >= size, NEW o \in Storage!xcb_create_pixmap_from_bitmap_data(s, size, bits)
    PROVE  Owned(o.store, own) /\ DOMAIN o.store.images = DOMAIN s.images
<1> DEFINE Bitmaps == Storage!xcb_image_create_from_bitmap_data(s, size, bits)
           From(b) == {Storage!Draw(b.image, n) : n \in Storage!xcb_image_native(b.store, b.image,
               TRUE)}
<1>1. PICK b \in Bitmaps : o \in IF b.image = Storage!Null THEN {b} ELSE From(b)
  BY DEF Storage!xcb_create_pixmap_from_bitmap_data
<1>2. Fits(s, own, Storage!Null, b) /\ own \ {Storage!Null} = own
  BY OwnsBitmap DEF Owned, Shape, Owners, Storage!Null
<1> HIDE DEF Bitmaps
<1>3. CASE b.image = Storage!Null
  BY <1>1, <1>2, <1>3 DEF Fits
<1>4. CASE b.image # Storage!Null
  <2> DEFINE t == b.store
             i == b.image
  <2>1. /\ i \notin DOMAIN s.images /\ DOMAIN t.images = DOMAIN s.images \cup {i}
        /\ Owned(t, own)
    BY <1>2, <1>4 DEF Fits
  <2>2. PICK n \in Storage!xcb_image_native(t, i, TRUE) : o = Storage!Draw(i, n)
    BY <1>1, <1>4
  <2> HIDE DEF t, From
  <2>3. i \in DOMAIN t.images /\ i # Storage!Null
    BY <2>1, <1>4
  <2> HIDE DEF i
  <2>4. \/ n = [store |-> t, image |-> n.image] /\ n.image \in {i, Storage!Null}
        \/ Fits(t, own, Storage!Null, n) /\ n.image # Storage!Null
    BY <2>1, <2>3, OwnsNativeOf
  <2>5. n = [store |-> n.store, image |-> n.image]
    BY <2>4 DEF Fits
  <2>6. o.store = Storage!Destroyed(n.store, i, n.image)
    BY <2>2, <2>5 DEF Storage!Draw
  <2>7. CASE n.store = t /\ n.image \in {i, Storage!Null}
    <3>1. o.store = Storage!xcb_image_destroy(t, i)
      BY <2>6, <2>7 DEF Storage!Destroyed
    <3>2. Owned(Storage!xcb_image_destroy(t, i), own)
          /\ DOMAIN Storage!xcb_image_destroy(t, i).images = DOMAIN t.images \ {i}
      BY <2>1, <2>3, OwnsDestroyed
    <3> QED
      BY <3>1, <3>2, <2>1
  <2>8. CASE Fits(t, own, Storage!Null, n) /\ n.image # Storage!Null
    <3> DEFINE u == n.store
               j == n.image
               v == Storage!xcb_image_destroy(u, j)
    <3>1. /\ j \notin DOMAIN t.images /\ DOMAIN u.images = DOMAIN t.images \cup {j}
          /\ Owned(u, own) /\ j # i /\ j # Storage!Null
      BY <2>8, <2>3, <1>2 DEF Fits
    <3>2. o.store = Storage!xcb_image_destroy(v, i)
      BY <2>6, <3>1 DEF Storage!Destroyed
    <3> HIDE DEF u, j
    <3>a. Owned(v, own) /\ DOMAIN v.images = DOMAIN u.images \ {j}
      BY <3>1, OwnsDestroyed
    <3> HIDE DEF v
    <3>3. Owned(v, own) /\ DOMAIN v.images = DOMAIN t.images
      BY <3>1, <3>a
    <3>4. /\ Owned(Storage!xcb_image_destroy(v, i), own)
          /\ DOMAIN Storage!xcb_image_destroy(v, i).images = DOMAIN v.images \ {i}
      BY <3>3, <2>3, OwnsDestroyed
    <3> QED
      BY <3>2, <3>3, <3>4, <2>1
  <2> QED
    BY <2>4, <2>7, <2>8
<1> QED
  BY <1>3, <1>4

-----------------------------------------------------------------------------

\* The inductive invariant.
StorageSafe ==
    /\ Owned(store, mine)
    /\ DOMAIN store.heap \subseteq 1 .. MaxBlocks
    /\ DOMAIN store.images = known /\ known \subseteq 1 .. MaxImages

LEMMA ArgumentsAreGiven ==
    ASSUME StorageSafe, NEW size \in Storage!Sizes, NEW a \in Storage!Arguments(size)
    PROVE  Given(store, mine, size, a.base, a.bytes, a.data)
<1>1. \A p : Storage!Room(p) = RoomIn(store, p)
  BY DEF Storage!Room, RoomIn
<1>2. \A p \in Storage!Spare : p \in mine /\ Unused(store, p)
  BY DEF Storage!Spare, Unused
<1>3. a.base \in Storage!Spare \cup {Storage!Null} /\ a.data \in Storage!Spare \cup -MaxSize .. 0
  BY DEF Storage!Arguments
<1>4. /\ a.base # Storage!Null /\ a.data # Storage!Null => a.data = a.base
      /\ LET memory == IF a.data # Storage!Null THEN a.data ELSE a.base
         IN  IF memory = Storage!Null THEN a.bytes \in {0,
             Storage!AllOnes} ELSE a.bytes \in 0 .. Storage!Room(memory)
      /\ a.data # Storage!Null /\ a.base = Storage!Null /\ a.bytes = 0 => Storage!Room(a.data) >= size
  BY DEF Storage!Arguments
<1> QED
  BY <1>1, <1>2, <1>3, <1>4 DEF Given

\* The client takes what a function returned.
LEMMA Takes ==
    ASSUME StorageSafe, NEW o, NEW base, Storage!Take(o, base),
           Owned(o.store, IF o.image = Storage!Null THEN mine ELSE mine \ {base}),
           DOMAIN o.store.images = known \cup ({o.image} \ {Storage!Null}),
           o.image \in known \cup {Storage!Null} \cup 1 .. MaxImages
    PROVE  StorageSafe'
<1>1. /\ store' = o.store /\ known' = known \cup ({o.image} \ {Storage!Null})
      /\ mine' = IF o.image = Storage!Null THEN mine ELSE mine \ {base}
      /\ DOMAIN store'.heap \subseteq 1 .. MaxBlocks
  BY DEF Storage!Take
<1>2. Owned(store', mine')
  BY <1>1
<1> QED
  BY <1>1, <1>2 DEF StorageSafe

LEMMA TakesNew ==
    ASSUME StorageSafe, Storage!HasRoom, NEW o, NEW base, Storage!Take(o, base), Fits(store, mine,
           base, o)
    PROVE  StorageSafe'
<1>1. CASE o.image = Storage!Null
  BY <1>1, Takes DEF Fits, StorageSafe
<1>2. CASE o.image # Storage!Null
  <2>1. IsFiniteSet(known) /\ Cardinality(known) < MaxImages
    BY SameSize DEF Storage!HasRoom, StorageSafe, Owned, Shape
  <2>2. o.image \in Nat \ {0} /\ o.image <= Cardinality(known) + 1
    BY <1>2, <2>1, FreeNumberIsFree DEF Fits, StorageSafe
  <2>3. o.image \in 1 .. MaxImages
    BY <2>1, <2>2, FS_CardinalityType, MemoryBounds
  <2> QED
    BY <1>2, <2>3, Takes DEF Fits, StorageSafe
<1> QED
  BY <1>1, <1>2

LEMMA StorageInit == Storage!Init => StorageSafe
<1> SUFFICES ASSUME Storage!Init PROVE StorageSafe
  OBVIOUS
<1>1. /\ store.heap = <<>> /\ store.images = <<>> /\ mine = {} /\ known = {}
      /\ store = [heap |-> store.heap, images |-> store.images]
  BY DEF Storage!Init
<1>2. DOMAIN store.heap = {} /\ DOMAIN store.images = {}
  BY <1>1
<1>3. Shape(store)
  BY <1>1, <1>2, FS_EmptySet DEF Shape
<1> QED
  BY <1>1, <1>2, <1>3 DEF StorageSafe, Owned, Owners

LEMMA StorageStep == StorageSafe /\ [Storage!Next]_storage_vars => StorageSafe'
<1> SUFFICES ASSUME StorageSafe, [Storage!Next]_storage_vars PROVE StorageSafe'
  OBVIOUS
<1>a. Owned(store, mine) /\ Shape(store) /\ Owners(store, mine) /\ DOMAIN store.images = known
  BY DEF StorageSafe, Owned
<1>b. \A p : Storage!Room(p) = RoomIn(store, p)
  BY DEF Storage!Room, RoomIn
<1>c. \A p \in Storage!Spare : p \in mine /\ Unused(store, p)
  BY DEF Storage!Spare, Unused
<1>d. MaxSize \in Nat
  BY MemoryBounds
<1>1. ASSUME NEW bytes \in Storage!Sizes, Storage!Malloc(bytes) PROVE StorageSafe'
  <2> DEFINE n == Storage!FreeNumber(store.heap)
  <2>1. /\ n \in Nat \ {0} /\ Owned(Storage!WithBlock(store, bytes), mine \cup {n})
        /\ Storage!WithBlock(store, bytes) = [heap |-> Storage!With(store.heap, n, bytes),
                                      images |-> store.images]
    BY <1>a, OwnsBlock
  <2>2. store' = Storage!WithBlock(store, bytes) /\ mine' = mine \cup {n} /\ known' = known
    BY <1>1 DEF Storage!Malloc
  <2>3. n \in 1 .. MaxBlocks
    <3>1. IsFiniteSet(DOMAIN store.heap) /\ Cardinality(DOMAIN store.heap) < MaxBlocks
      BY <1>1, <1>a, SameSize DEF Storage!Malloc, Shape
    <3> QED
      BY <3>1, <2>1, FreeNumberIsFree, FS_CardinalityType, MemoryBounds
  <2> HIDE DEF n
  <2>4. DOMAIN store'.heap = DOMAIN store.heap \cup {n} /\ store'.images = store.images
    BY <2>1, <2>2 DEF Storage!With
  <2>5. Owned(store', mine')
    BY <2>1, <2>2
  <2> QED
    BY <2>2, <2>3, <2>4, <2>5 DEF StorageSafe
<1>2. ASSUME NEW block \in Storage!Spare, Storage!Free(block) PROVE StorageSafe'
  <2>1. /\ store' = [store EXCEPT !.heap = Storage!Without(@, block)]
        /\ mine' = mine \ {block} /\ known' = known
    BY <1>2 DEF Storage!Free
  <2>2. Owned(store', mine')
    BY <2>1, <1>a, <1>c, OwnsLess
  <2>3. store'.images = store.images /\ store'.heap = Storage!Without(store.heap, block)
    BY <2>1, <1>a DEF Shape
  <2>4. DOMAIN store'.heap \subseteq DOMAIN store.heap
    BY <2>3 DEF Storage!Without
  <2> QED
    BY <2>1, <2>2, <2>3, <2>4 DEF StorageSafe
<1>3. ASSUME NEW f \in Storage!Requests, NEW a \in Storage!Arguments(f.size), Storage!Create(f,
             a) \/ Storage!CreateNative(f, a)
      PROVE  StorageSafe'
  <2>1. /\ Format(f)
        /\ f = [depth |-> f.depth, native |-> f.native, size |-> f.size, valid |-> f.valid]
    BY DEF Storage!Requests, Format
  <2>2. Given(store, mine, f.size, a.base, a.bytes, a.data)
    BY <2>1, ArgumentsAreGiven DEF Format
  <2>3. PICK o \in Storage!xcb_image_create(store, f, a.base, a.bytes, a.data)
                   \cup Storage!xcb_image_create_native(store, f, a.base, a.bytes, a.data) :
                Storage!HasRoom /\ Storage!Take(o, a.base)
    BY <1>3 DEF Storage!Create, Storage!CreateNative
  <2>4. Fits(store, mine, a.base, o)
    BY <2>1, <2>2, <2>3, <1>a, OwnsCreated, OwnsNative
  <2> QED
    BY <2>3, <2>4, TakesNew
<1>4. ASSUME NEW i \in known, NEW block \in Storage!Spare \cup -MaxSize .. -1, Storage!Supply(i, block)
      PROVE  StorageSafe'
  <2>1. /\ store.images[i].data = Storage!Null /\ RoomIn(store, block) >= store.images[i].size
        /\ store' = [store EXCEPT !.images[i].data = block,
                                  !.images[i].base = IF block > 0 THEN block ELSE Storage!Null]
        /\ mine' = mine \ {block} /\ known' = known
    BY <1>4, <1>b DEF Storage!Supply
  <2>2. block \in mine \cup -MaxSize .. -1 /\ (block \in mine => Unused(store, block))
    <3>1. CASE block \in Storage!Spare
      BY <3>1, <1>c
    <3>2. CASE block \in -MaxSize .. -1
      BY <3>2, <1>a, <1>d DEF Owners, Shape
    <3> QED
      BY <3>1, <3>2
  <2>3. /\ Owned(store', mine') /\ DOMAIN store'.images = DOMAIN store.images
        /\ store'.heap = store.heap
    <3>1. i \in DOMAIN store.images
      BY <1>a
    <3>2. store' = Supplied(store, i, block) /\ mine' = mine \ {block}
      BY <2>1, Zenon DEF Supplied
    <3> QED
      BY <2>1, <2>2, <3>1, <3>2, <1>a, OwnsSupplied
  <2> QED
    BY <2>1, <2>3 DEF StorageSafe
<1>5. ASSUME NEW i \in known, Storage!Destroy(i) PROVE StorageSafe'
  <2>1. store' = Storage!xcb_image_destroy(store, i) /\ known' = known \ {i} /\ mine' = mine
    BY <1>5 DEF Storage!Destroy
  <2>2. Owned(store', mine') /\ DOMAIN store'.images = known'
    BY <2>1, <1>a, OwnsDestroyed
  <2>3. DOMAIN store'.heap \subseteq DOMAIN store.heap
    BY <2>1 DEF Storage!xcb_image_destroy, Storage!Without
  <2> QED
    BY <2>1, <2>2, <2>3 DEF StorageSafe
<1>6. ASSUME NEW f \in Storage!Requests, Storage!Get(f) PROVE StorageSafe'
  <2>1. PICK o \in Storage!xcb_image_get(store, f) : Storage!HasRoom /\ Storage!Take(o, Storage!Null)
    BY <1>6 DEF Storage!Get
  <2>2. CASE o.image = Storage!Null /\ Owned(o.store, mine) /\ o.store.images = store.images
    BY <2>1, <2>2, <1>a, Takes
  <2>3. CASE Fits(store, mine, Storage!Null, o)
    BY <2>1, <2>3, TakesNew
  <2> QED
    BY <2>1, <2>2, <2>3, <1>a, OwnsGot
<1>7. CASE Storage!GetSomePlanes
  BY <1>7 DEF Storage!GetSomePlanes, Storage!Crash, StorageSafe
<1>8. ASSUME NEW i \in known, NEW convert \in BOOLEAN, Storage!Native(i, convert) PROVE StorageSafe'
  <2>1. PICK o \in Storage!xcb_image_native(store, i, convert) : Storage!HasRoom
                 /\ Storage!Take(o, Storage!Null)
    BY <1>8 DEF Storage!Native
  <2>2. CASE o = [store |-> store, image |-> o.image] /\ o.image \in {i, Storage!Null}
    <3>1. o.store = store /\ mine \ {Storage!Null} = mine
      BY <2>2, <1>a DEF Shape, Owners, Storage!Null
    <3>2. Owned(o.store, IF o.image = Storage!Null THEN mine ELSE mine \ {Storage!Null})
      BY <3>1, <1>a
    <3>3. /\ o.image \in known \cup {Storage!Null}
          /\ DOMAIN o.store.images = known \cup ({o.image} \ {Storage!Null})
      BY <3>1, <2>2, <1>a
    <3> QED
      BY <2>1, <3>2, <3>3, Takes
  <2>3. CASE Fits(store, mine, Storage!Null, o)
    BY <2>1, <2>3, TakesNew
  <2> QED
    BY <2>1, <2>2, <2>3, <1>a, OwnsNativeOf
<1>9. ASSUME NEW i \in known, NEW size \in Storage!Sizes,
             NEW a \in Storage!Arguments(size), Storage!Subimage(i, size, a)
      PROVE  StorageSafe'
  <2>1. PICK o \in Storage!xcb_image_subimage(store, i, size, a.base, a.bytes, a.data) :
           Storage!HasRoom /\ (Storage!Take(o, a.base) \/ Storage!Crash)
    BY <1>9 DEF Storage!Subimage
  <2>2. CASE Storage!Take(o, a.base)
    <3>1. Fits(store, mine, a.base, o)
      BY <2>1, <1>a, ArgumentsAreGiven, OwnsPart
    <3> QED
      BY <2>1, <2>2, <3>1, TakesNew
  <2>3. CASE Storage!Crash
    BY <2>3 DEF Storage!Crash, StorageSafe
  <2> QED
    BY <2>1, <2>2, <2>3
<1>10. ASSUME NEW size \in Storage!Sizes, NEW bits \in -MaxSize .. -1, Storage!FromBitmap(size, bits)
       PROVE  StorageSafe'
  <2>1. PICK o \in Storage!xcb_image_create_from_bitmap_data(store, size, bits) :
           Storage!HasRoom /\ Storage!Take(o, Storage!Null) /\ RoomIn(store, bits) >= size
    BY <1>10, <1>b DEF Storage!FromBitmap
  <2> QED
    BY <2>1, <1>a, OwnsBitmap, TakesNew
<1>11. ASSUME NEW size \in Storage!Sizes, NEW bits \in -MaxSize .. -1, Storage!Pixmap(size, bits)
       PROVE  StorageSafe'
  <2>1. PICK p \in Storage!xcb_create_pixmap_from_bitmap_data(store, size, bits) :
           Storage!Take([p EXCEPT !.image = Storage!Null], Storage!Null) /\ RoomIn(store,
           bits) >= size
    BY <1>11, <1>b DEF Storage!Pixmap
  <2>2. Owned(p.store, mine) /\ DOMAIN p.store.images = known
    BY <2>1, <1>a, OwnsPixmap
  <2> DEFINE o == [p EXCEPT !.image = Storage!Null]
  <2>3. o.store = p.store /\ o.image = Storage!Null
    BY <2>1, <2>2
  <2>4. Storage!Take(o, Storage!Null)
    BY <2>1
  <2> HIDE DEF o
  <2> QED
    BY <2>2, <2>3, <2>4, Takes
<1>12. CASE UNCHANGED storage_vars
  BY <1>12 DEF storage_vars, StorageSafe
<1> QED
  BY <1>1, <1>2, <1>3, <1>4, <1>5, <1>6, <1>7, <1>8, <1>9, <1>10, <1>11, <1>12 DEF Storage!Next

LEMMA StorageSafeOwned ==
    ASSUME StorageSafe, crashed \in BOOLEAN PROVE Storage!StorageIsOwned
<1>a. /\ Shape(store) /\ Owners(store, mine)
      /\ \A i \in DOMAIN store.images : Points(store, mine, store.images[i])
      /\ MaxSize \in Nat /\ MaxBlocks \in Nat /\ MaxImages \in Nat
      /\ DOMAIN store.heap \subseteq 1 .. MaxBlocks
      /\ DOMAIN store.images = known /\ known \subseteq 1 .. MaxImages
  BY MemoryBounds DEF StorageSafe, Owned
<1>1. ASSUME NEW i \in DOMAIN store.images
      PROVE  /\ store.images[i] \in Storage!Image
             /\ store.images[i].data > 0 => store.images[i].data \in DOMAIN store.heap
             /\ store.images[i].data # Storage!Null => Storage!Room(store.images[i].data) >= store.images[i].size
             /\ store.images[i].base \notin mine
             /\ store.images[i].base # Storage!Null => store.images[i].base \in DOMAIN store.heap
  <2> DEFINE im == store.images[i]
  <2>1. /\ im \in [depth : Depth, native : BOOLEAN, size : Storage!Sizes, base : Nat, data : Int]
        /\ Points(store, mine, im)
    BY <1>a DEF Shape
  <2> HIDE DEF im
  <2>2. mine \subseteq 1 .. MaxBlocks /\ mine \subseteq DOMAIN store.heap
    BY <1>a DEF Owners
  <2>3. im.base \in 0 .. MaxBlocks
    BY <2>1, <1>a DEF Points, Storage!Null
  <2>4. im.data \in -MaxSize .. MaxBlocks /\ (im.data > 0 => im.data \in DOMAIN store.heap)
    BY <2>1, <2>2, <2>3, <1>a DEF Points, Storage!Null
  <2>5. im \in Storage!Image
    BY <2>1, <2>3, <2>4 DEF Storage!Image
  <2> QED
    BY <2>1, <2>4, <2>5 DEF im, Points, Storage!Room, RoomIn
<1>2. Storage!TypeOK
  <2>1. mine \subseteq 1 .. MaxBlocks /\ known \subseteq 1 .. MaxImages + 1
    BY <1>a DEF Owners
  <2>2. \A b \in DOMAIN store.heap : store.heap[b] \in Storage!Sizes
    BY <1>a DEF Shape
  <2> QED
    BY <2>1, <2>2, <1>1, <1>a DEF Storage!TypeOK
<1> DEFINE bases == {i \in DOMAIN store.images : store.images[i].base # Storage!Null}
<1>3. DOMAIN store.heap = mine \cup {store.images[i].base : i \in bases}
  <2>1. ASSUME NEW b \in DOMAIN store.heap
        PROVE  b \in mine \cup {store.images[i].base : i \in bases}
    <3>1. CASE b \notin mine
      <4>1. PICK i \in DOMAIN store.images : store.images[i].base = b
        BY <3>1, <1>a DEF Owners
      <4>2. i \in bases
        BY <4>1, <1>a DEF Storage!Null
      <4> QED
        BY <4>1, <4>2
    <3> QED
      BY <3>1
  <2>2. mine \subseteq DOMAIN store.heap
    BY <1>a DEF Owners
  <2>3. \A i \in bases : store.images[i].base \in DOMAIN store.heap
    BY <1>1
  <2> QED
    BY <2>1, <2>2, <2>3
<1>4. \A i \in bases : /\ store.images[i].base \notin mine
                       /\ \A j \in bases \ {i} : store.images[i].base # store.images[j].base
  BY <1>1, <1>a DEF Owners
<1> QED
  BY <1>1, <1>2, <1>3, <1>4, <1>a DEF Storage!StorageIsOwned

\* Every block and every image has one owner, and what an image points at is
\* there and large enough, for any sizes and numbers of blocks and images and
\* whichever allocation fails (xcb_image.c:193-441).
THEOREM StorageHasOneOwner == MemorySpec => []StorageIsOwned
<1>1. MemoryInit => StorageSafe
  BY StorageInit DEF MemoryInit
<1>2. MemoryInit => crashed \in BOOLEAN
  BY DEF MemoryInit, Storage!Init
<1>3. StorageSafe /\ [MemoryNext]_<<storage_vars, shares, shared_vars>> => StorageSafe'
  <2>1. [MemoryNext]_<<storage_vars, shares, shared_vars>> => [Storage!Next]_storage_vars
    BY DEF MemoryNext, storage_vars
  <2> QED
    BY <2>1, StorageStep
<1>4. crashed \in BOOLEAN /\ [MemoryNext]_<<storage_vars, shares, shared_vars>>
          => (crashed \in BOOLEAN)'
  BY
  DEF MemoryNext, Storage!Next, storage_vars, Storage!Malloc, Storage!Free, Storage!Create,
       Storage!CreateNative, Storage!Supply, Storage!Destroy, Storage!Get,
     Storage!GetSomePlanes, Storage!Crash, Storage!Native, Storage!Subimage, Storage!FromBitmap,
     Storage!Pixmap, Storage!Take
<1>5. StorageSafe /\ crashed \in BOOLEAN => StorageIsOwned
  BY StorageSafeOwned DEF StorageIsOwned
<1> QED
  BY <1>1, <1>2, <1>3, <1>4, <1>5, PTL DEF MemorySpec
-----------------------------------------------------------------------------
(* Shared memory.                                                           *)

Queueable == [what : {"put", "get"}, was : Nat]

\* A request that is under way is for the picture that is in the segment: the
\* client draws when there is none, and the server changes the segment for a
\* get, the last request there is until the client has its answer.
UnderWay ==
    /\ requests \in Seq(Queueable) /\ pictures \in Nat /\ segment \in Nat /\ drawable \in Nat
    /\ \A i \in DOMAIN requests :
          /\ requests[i].was = segment
          /\ requests[i].what = "get" => i = Len(requests) /\ waiting /\ reply = "none"

\* The client knows how many puts are under way, and gets one answer to a get.
Counted ==
    /\ pending \in Int
    /\ reply \in {"none", "data", "error"}
    /\ ~connected => requests = <<>> /\ pending = 0 /\ reply = "none"
    /\ connected /\ ~waiting => pending = Len(requests)
    /\ connected /\ waiting /\ reply = "none" => Len(requests) = pending + 1
    /\ reply # "none" => waiting /\ requests = <<>> /\ pending = 0

\* What is returned is about the last get.
Told ==
    /\ waiting => returned = 2
    /\ reply = "data" => filled
    /\ returned = 1 => filled \/ ~connected

Safe == UnderWay /\ Counted /\ Told

-----------------------------------------------------------------------------

LEMMA QueueAppend ==
    ASSUME NEW q \in Seq(Queueable), NEW e \in Queueable
    PROVE  /\ Append(q, e) \in Seq(Queueable)
           /\ Len(q) \in Nat /\ Len(Append(q, e)) = Len(q) + 1
           /\ DOMAIN q = 1 .. Len(q) /\ DOMAIN Append(q, e) = 1 .. Len(q) + 1
           /\ \A i \in 1 .. Len(q) : Append(q, e)[i] = q[i]
           /\ Append(q, e)[Len(q) + 1] = e
<1>1. /\ Append(q, e) \in Seq(Queueable) /\ Len(Append(q, e)) = Len(q) + 1
      /\ \A i \in 1 .. Len(q) : Append(q, e)[i] = q[i]
      /\ Append(q, e)[Len(q) + 1] = e
  BY AppendProperties
<1> QED
  BY <1>1, LenProperties

LEMMA QueueTail ==
    ASSUME NEW q \in Seq(Queueable), q # <<>>
    PROVE  /\ Head(q) = q[1] /\ 1 \in DOMAIN q /\ Head(q) \in Queueable
           /\ Tail(q) \in Seq(Queueable)
           /\ Len(q) \in Nat /\ Len(q) >= 1 /\ Len(Tail(q)) = Len(q) - 1
           /\ DOMAIN q = 1 .. Len(q) /\ DOMAIN Tail(q) = 1 .. Len(q) - 1
           /\ \A i \in 1 .. Len(q) - 1 : Tail(q)[i] = q[i + 1]
<1>1. /\ Head(q) \in Queueable /\ Tail(q) \in Seq(Queueable) /\ Len(Tail(q)) = Len(q) - 1
      /\ \A i \in 1 .. Len(Tail(q)) : Tail(q)[i] = q[i + 1]
  BY HeadTailProperties
<1>2. /\ Len(q) \in Nat /\ DOMAIN q = 1 .. Len(q) /\ DOMAIN Tail(q) = 1 .. Len(Tail(q))
  BY <1>1, LenProperties
<1>3. Len(q) >= 1
  BY <1>2
<1>4. Head(q) = q[1]
  OBVIOUS
<1> QED
  BY <1>1, <1>2, <1>3, <1>4

LEMMA SafeInit == Shared!Init => Safe
<1> SUFFICES ASSUME Shared!Init PROVE Safe
  OBVIOUS
<1>1. requests = <<>> /\ requests \in Seq(Queueable) /\ DOMAIN requests = {} /\ Len(requests) = 0
  BY DEF Shared!Init
<1>2. UnderWay
  BY <1>1 DEF Shared!Init, UnderWay
<1>3. Counted
  <2>1. ~waiting /\ connected /\ pending = 0 /\ reply = "none"
    BY DEF Shared!Init
  <2> QED
    BY <1>1, <2>1 DEF Counted
<1>4. Told
  <2>1. ~waiting /\ returned = 2 /\ reply = "none"
    BY DEF Shared!Init
  <2> QED
    BY <2>1 DEF Told
<1> QED
  BY <1>2, <1>3, <1>4 DEF Safe

\* A request goes to the end of the queue, of which the client keeps count.
LEMMA RequestStep ==
    ASSUME Safe, ~waiting, reply = "none", connected, NEW what \in {"put", "get"},
           requests' = Append(requests, [what |-> what, was |-> segment]),
           UNCHANGED <<pictures, segment, drawable, reply, connected>>,
           waiting' <=> what = "get", pending' = IF what = "put" THEN pending + 1 ELSE pending
    PROVE  UnderWay' /\ Counted'
<1> DEFINE e == [what |-> what, was |-> segment]
<1>1. e \in Queueable /\ e.was = segment /\ e.what = what
  BY DEF Safe, UnderWay, Queueable
<1> HIDE DEF e
<1>2. requests' = Append(requests, e)
  BY DEF e
<1>3. /\ requests' \in Seq(Queueable)
      /\ Len(requests) \in Nat /\ Len(requests') = Len(requests) + 1
      /\ DOMAIN requests = 1 .. Len(requests) /\ DOMAIN requests' = 1 .. Len(requests) + 1
      /\ \A i \in 1 .. Len(requests) : requests'[i] = requests[i]
      /\ requests'[Len(requests) + 1] = e
  BY <1>1, <1>2, QueueAppend DEF Safe, UnderWay
<1>4. \A i \in DOMAIN requests' : i \in DOMAIN requests \/ i = Len(requests')
  BY <1>3
<1>5. UnderWay'
  <2>1. ASSUME NEW i \in DOMAIN requests'
        PROVE  /\ requests'[i].was = segment
               /\ requests'[i].what = "get" => i = Len(requests') /\ waiting'
    <3>1. CASE i \in DOMAIN requests
      BY <3>1, <1>3 DEF Safe, UnderWay
    <3>2. CASE i = Len(requests')
      BY <3>2, <1>1, <1>3
    <3> QED
      BY <1>4, <3>1, <3>2
  <2> QED
    BY <1>3, <2>1 DEF Safe, UnderWay
<1>6. Counted'
  <2>1. /\ pending = Len(requests) /\ pending' \in Int /\ reply' = "none" /\ connected' = connected
        /\ connected
    BY <1>3 DEF Safe, Counted
  <2>2. CASE what = "put"
    <3>1. ~waiting' /\ pending' = Len(requests')
      BY <2>1, <2>2, <1>3
    <3> QED
      BY <2>1, <3>1 DEF Counted
  <2>3. CASE what = "get"
    <3>1. waiting' /\ Len(requests') = pending' + 1
      BY <2>1, <2>3, <1>3
    <3> QED
      BY <2>1, <3>1 DEF Counted
  <2> QED
    BY <2>2, <2>3
<1> QED
  BY <1>5, <1>6

\* The server takes the first request; a get was the only one.
LEMMA ServeStep ==
    ASSUME Safe, connected, requests # <<>>, requests' = Tail(requests),
           connected' = connected, waiting' = waiting
    PROVE  /\ requests' \in Seq(Queueable) /\ Len(requests') = Len(requests) - 1
           /\ Len(requests) \in Nat /\ Head(requests).was = segment
           /\ \A i \in DOMAIN requests' :
                 /\ requests'[i].was = segment
                 /\ requests'[i].what = "get" => i = Len(requests') /\ waiting /\ reply = "none"
           /\ Head(requests).what = "get" =>
                 requests' = <<>> /\ waiting /\ reply = "none" /\ pending = 0
           /\ Head(requests).what = "put" => reply = "none"
<1>1. /\ Head(requests) = requests[1] /\ 1 \in DOMAIN requests
      /\ requests' \in Seq(Queueable)
      /\ Len(requests) \in Nat /\ Len(requests) >= 1 /\ Len(requests') = Len(requests) - 1
      /\ DOMAIN requests = 1 .. Len(requests) /\ DOMAIN requests' = 1 .. Len(requests) - 1
      /\ \A i \in 1 .. Len(requests) - 1 : requests'[i] = requests[i + 1]
  BY QueueTail DEF Safe, UnderWay
<1>2. \A i \in DOMAIN requests' : i + 1 \in DOMAIN requests /\ requests'[i] = requests[i + 1]
  BY <1>1
<1>3. ASSUME NEW i \in DOMAIN requests'
      PROVE  /\ requests'[i].was = segment
             /\ requests'[i].what = "get" => i = Len(requests') /\ waiting /\ reply = "none"
  <2>1. /\ requests'[i].was = segment
        /\ requests'[i].what = "get" => i + 1 = Len(requests) /\ waiting /\ reply = "none"
    BY <1>2 DEF Safe, UnderWay
  <2>2. i + 1 = Len(requests) => i = Len(requests')
    BY <1>1
  <2> QED
    BY <2>1, <2>2
<1>4. ASSUME Head(requests).what = "get"
      PROVE  requests' = <<>> /\ waiting /\ reply = "none" /\ pending = 0
  <2>1. 1 = Len(requests) /\ waiting /\ reply = "none"
    BY <1>1, <1>4 DEF Safe, UnderWay
  <2>2. Len(requests') = 0
    BY <1>1, <2>1
  <2>3. requests' = <<>>
    BY <1>1, <2>2, EmptySeq
  <2>4. pending = 0
    BY <2>1 DEF Safe, Counted
  <2> QED
    BY <2>1, <2>3, <2>4
<1>5. reply = "none" /\ Head(requests).was = segment
  BY <1>1 DEF Safe, Counted, UnderWay
<1> QED
  BY <1>1, <1>3, <1>4, <1>5

LEMMA SafeStep == Safe /\ [Shared!Next]_shared_vars => Safe'
<1> SUFFICES ASSUME Safe, [Shared!Next]_shared_vars PROVE Safe'
  OBVIOUS
<1>a. UnderWay /\ Counted /\ Told
  BY DEF Safe
<1>b. Len(requests) \in Nat /\ (Len(requests) = 0 => requests = <<>>) /\ Len(<<>>) = 0
  BY <1>a, LenProperties, EmptySeq DEF UnderWay
<1>1. CASE Shared!Draw
  <2>1. requests = <<>>
    BY <1>1, <1>a, <1>b DEF Shared!Draw, Counted
  <2>2. UnderWay'
    BY <1>1, <2>1, <1>a DEF Shared!Draw, UnderWay
  <2>3. Counted' /\ Told'
    BY <1>1, <1>a DEF Shared!Draw, Counted, Told
  <2> QED
    BY <2>2, <2>3 DEF Safe
<1>2. CASE Shared!Return
  <2>1. requests = <<>>
    BY <1>2, <1>a DEF Shared!Return, Counted
  <2>2. UnderWay'
    BY <1>2, <2>1, <1>a DEF Shared!Return, UnderWay
  <2>3. Counted'
    <3>1. /\ ~waiting' /\ reply' = "none" /\ UNCHANGED <<requests, pending, connected>>
          /\ pending = 0 /\ Len(requests) = 0
      BY <1>2, <2>1, <1>a, <1>b DEF Shared!Return, Counted
    <3> QED
      BY <2>1, <3>1, <1>a DEF Counted
  <2>4. Told'
    <3>1. /\ ~waiting' /\ reply' = "none" /\ UNCHANGED <<filled, connected>>
          /\ returned' = (IF reply = "error" THEN 0 ELSE 1)
      BY <1>2 DEF Shared!Return
    <3>2. reply = "error" \/ filled \/ ~connected
      BY <1>2, <1>a DEF Shared!Return, Told, Counted
    <3> QED
      BY <3>1, <3>2, <1>a DEF Told
  <2> QED
    BY <2>2, <2>3, <2>4 DEF Safe
<1>3. ASSUME NEW fails \in BOOLEAN, Shared!ServePut(fails) PROVE Safe'
  <2>1. /\ connected /\ requests # <<>> /\ requests' = Tail(requests)
        /\ Head(requests).what = "put" /\ pending' = pending - 1 /\ drawable' \in {drawable, segment}
        /\ UNCHANGED <<pictures, segment, reply, waiting, returned, filled, connected>>
    BY <1>3 DEF Shared!ServePut
  <2>2. /\ requests' \in Seq(Queueable) /\ Len(requests') = Len(requests) - 1
        /\ \A i \in DOMAIN requests' :
              /\ requests'[i].was = segment
              /\ requests'[i].what = "get" => i = Len(requests') /\ waiting /\ reply = "none"
        /\ reply = "none"
    BY <2>1, ServeStep
  <2>3. UnderWay'
    BY <2>1, <2>2, <1>a DEF UnderWay
  <2>4. Counted'
    <3>a. /\ pending \in Int /\ (~waiting => pending = Len(requests))
          /\ (waiting => Len(requests) = pending + 1)
      BY <2>1, <2>2, <1>a DEF Counted
    <3>b. /\ pending' = pending - 1 /\ Len(requests') = Len(requests) - 1 /\ Len(requests) \in Nat
      BY <2>1, <2>2, <1>b
    <3>1. /\ pending' \in Int /\ (~waiting => pending' = Len(requests'))
          /\ (waiting => Len(requests') = pending' + 1)
      BY <3>a, <3>b
    <3> QED
      BY <2>1, <2>2, <3>1, <1>a DEF Counted
  <2>5. Told'
    BY <2>1, <1>a DEF Told
  <2> QED
    BY <2>3, <2>4, <2>5 DEF Safe
<1>4. ASSUME NEW fails \in BOOLEAN, Shared!ServeGet(fails) PROVE Safe'
  <2>1. /\ connected /\ requests # <<>> /\ requests' = Tail(requests)
        /\ Head(requests).what = "get" /\ segment' \in {segment, drawable}
        /\ reply' \in {"data", "error"} /\ (reply' = "data" => filled')
        /\ UNCHANGED <<pictures, drawable, pending, waiting, returned, connected>>
    BY <1>4 DEF Shared!ServeGet
  <2>2. requests' = <<>> /\ waiting /\ reply = "none" /\ pending = 0
    BY <2>1, ServeStep
  <2>3. requests' \in Seq(Queueable) /\ DOMAIN requests' = {}
    BY <2>2, EmptySeq
  <2>4. UnderWay'
    BY <2>1, <2>3, <1>a DEF UnderWay
  <2>5. Counted' /\ Told'
    BY <2>1, <2>2, <1>a DEF Counted, Told
  <2> QED
    BY <2>4, <2>5 DEF Safe
<1>5. CASE Shared!Paint
  BY <1>5, <1>a DEF Shared!Paint, Safe, UnderWay, Counted, Told
<1>6. CASE Shared!Break
  <2>1. requests' = <<>> /\ requests' \in Seq(Queueable) /\ DOMAIN requests' = {}
    BY <1>6, EmptySeq DEF Shared!Break
  <2>2. /\ ~connected' /\ pending' = 0 /\ reply' = "none"
        /\ UNCHANGED <<pictures, segment, drawable, waiting, returned, filled>>
    BY <1>6 DEF Shared!Break
  <2>3. UnderWay'
    BY <2>1, <2>2, <1>a DEF UnderWay
  <2>4. Counted'
    BY <2>1, <2>2, <1>a DEF Counted
  <2>5. Told'
    BY <2>2, <1>a DEF Told
  <2> QED
    BY <2>3, <2>4, <2>5 DEF Safe
<1>7. ASSUME NEW attached \in BOOLEAN, NEW native \in BOOLEAN,
             Shared!xcb_image_shm_put(native, attached)
      PROVE  Safe'
  <2>1. /\ ~waiting /\ reply = "none"
    BY <1>7, <1>a DEF Shared!xcb_image_shm_put, Counted
  <2>2. Told'
    BY <1>7, <1>a DEF Shared!xcb_image_shm_put, Told
  <2>3. CASE ~native \/ ~attached \/ ~connected
    BY <1>7, <2>2, <2>3, <1>a
    DEF Shared!xcb_image_shm_put, Shared!Request, Safe, UnderWay, Counted
  <2>4. CASE native /\ attached /\ connected
    <3>1. /\ requests' = Append(requests, [what |-> "put", was |-> segment])
          /\ pending' = pending + 1 /\ UNCHANGED <<pictures, segment, drawable, reply, connected>>
      BY <1>7, <2>4 DEF Shared!xcb_image_shm_put, Shared!Request
    <3>2. ~waiting'
      BY <1>7, <2>1 DEF Shared!xcb_image_shm_put
    <3>3. waiting' <=> "put" = "get"
      BY <3>2
    <3> QED
      BY <2>1, <2>2, <2>4, <3>1, <3>3, RequestStep DEF Safe
  <2> QED
    BY <2>3, <2>4
<1>8. ASSUME NEW attached \in BOOLEAN, Shared!xcb_image_shm_get(attached) PROVE Safe'
  <2>1. /\ ~waiting /\ reply = "none"
    BY <1>8, <1>a DEF Shared!xcb_image_shm_get, Counted
  <2>2. Told'
    <3>1. /\ ~filled' /\ reply' = "none"
          /\ (returned' = 0 /\ waiting' = waiting) \/ returned' = 2
      BY <1>8, <2>1 DEF Shared!xcb_image_shm_get
    <3> QED
      BY <2>1, <3>1 DEF Told
  <2>3. CASE ~attached
    BY <1>8, <2>2, <2>3, <1>a DEF Shared!xcb_image_shm_get, Safe, UnderWay, Counted
  <2>4. CASE attached /\ ~connected
    BY <1>8, <2>1, <2>2, <2>4, <1>a
    DEF Shared!xcb_image_shm_get, Shared!Request, Safe, UnderWay, Counted
  <2>5. CASE attached /\ connected
    <3>1. /\ requests' = Append(requests, [what |-> "get", was |-> segment])
          /\ pending' = pending /\ UNCHANGED <<pictures, segment, drawable, reply, connected>>
      BY <1>8, <2>5 DEF Shared!xcb_image_shm_get, Shared!Request
    <3>2. waiting' <=> "get" = "get"
      BY <1>8, <2>5 DEF Shared!xcb_image_shm_get
    <3> QED
      BY <2>1, <2>2, <2>5, <3>1, <3>2, RequestStep DEF Safe
  <2> QED
    BY <2>3, <2>4, <2>5
<1>9. CASE UNCHANGED shared_vars
  BY <1>9, <1>a DEF shared_vars, Safe, UnderWay, Counted, Told
<1> QED
  BY <1>1, <1>2, <1>3, <1>4, <1>5, <1>6, <1>7, <1>8, <1>9 DEF Shared!Next, Shared!Serve

\* What the server draws for a put is what was in the segment at the call.
LEMMA DrawsWhatWas ==
    ASSUME Safe, [Shared!Next]_shared_vars
    PROVE  [requests # <<>> /\ requests' = Tail(requests) /\ connected' /\ drawable' # drawable
            => drawable' = Head(requests).was]_(Shared!vars)
<1> SUFFICES ASSUME requests # <<>>, requests' = Tail(requests), connected', drawable' # drawable
             PROVE  drawable' = Head(requests).was
  OBVIOUS
<1>1. Len(requests) \in Nat /\ Len(Tail(requests)) = Len(requests) - 1
  BY QueueTail DEF Safe, UnderWay
<1>2. ASSUME requests' = requests PROVE FALSE
  <2>1. Len(requests) = Len(requests) - 1
    BY <1>1, <1>2
  <2> QED
    BY <1>1, <2>1
<1>3. CASE Shared!Serve
  <2>1. PICK fails \in BOOLEAN : Shared!ServePut(fails)
    BY <1>3 DEF Shared!Serve, Shared!ServeGet
  <2>2. connected /\ drawable' = segment /\ UNCHANGED <<connected, waiting>>
    BY <2>1 DEF Shared!ServePut
  <2> QED
    BY <2>2, ServeStep
<1> QED
  BY <1>2, <1>3 DEF Shared!Next, shared_vars, Shared!Draw, Shared!Return, Shared!Paint,
     Shared!Break, Shared!xcb_image_shm_put, Shared!xcb_image_shm_get

\* A put draws the picture that was in the segment when it was called, and a
\* get that returns 1 has the picture as long as the connection lasts, for any
\* number of puts and gets under way (xcb_image.c:481-526).
THEOREM SegmentsAreWhole == MemorySpec => PicturesAreWhole
<1>1. MemoryInit => Safe
  BY SafeInit DEF MemoryInit
<1>2. [MemoryNext]_<<storage_vars, shares, shared_vars>> => [Shared!Next]_shared_vars
  BY DEF MemoryNext, shared_vars
<1>3. Safe => Shared!GetHasPicture
  BY DEF Safe, Told, Shared!GetHasPicture
<1> QED
  BY <1>1, <1>2, <1>3, SafeStep, DrawsWhatWas, PTL
  DEF MemorySpec, PicturesAreWhole, Shared!PutsAreWhole
=============================================================================
