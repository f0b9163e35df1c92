---------------------------- MODULE GlyphStream ----------------------------
(***************************************************************************)
(* The text stream of renderutil/glyph.c.                                  *)
(*                                                                         *)
(* A client announces how many glyphs it will draw and how often it will   *)
(* change the glyph set, then appends runs of glyphs, and at last sends    *)
(* the stream as one CompositeGlyphs request.  The buffer is allocated     *)
(* from the announced numbers; _grow_stream doubles it once, if realloc    *)
(* lets it, and the writers do not look whether it did.                    *)
(*                                                                         *)
(* The stream is a sequence of 32-bit words: a run is its number of        *)
(* glyphs, its offset, and the glyphs, packed; Marker in the place of the  *)
(* number announces a glyph set.  All glyphs of a run have the same value. *)
(***************************************************************************)
EXTENDS Integers, Sequences

CONSTANTS
    Glyphset,       \* the glyph sets, by number
    Offset,         \* the offsets of runs
    Glyph,          \* the glyphs
    Count,          \* the numbers of glyphs clients append at once
    Total,          \* the numbers clients announce
    Limit,          \* per glyph size, the longest run; 252, 254 and 254 in C
    Marker,         \* 255 in C
    MaxCalls        \* bound: the calls that append to a stream

\* What the constants are; RenderUtil, which gives them their values, assumes it.
NumberAssumption ==
    /\ Count \subseteq Nat /\ Total \subseteq Nat /\ MaxCalls \in Nat
    /\ Glyphset \subseteq Nat /\ Offset \subseteq Nat /\ Glyph \subseteq Nat

LimitAssumption ==
    /\ Marker \in Nat
    /\ Limit \in [{1, 2, 4} -> Nat] /\ \A size \in {1, 2, 4} : Limit[size] < Marker

VARIABLES
    pc,         \* "none", "open", "sent" until more is appended, "freed", or
                \* "overrun" once written beyond the buffer
    glyph_size, \* 0 while unset
    initial_glyphset,
    current_glyphset,
    stream,     \* the words from stream->stream to stream->current
    stream_len, \* the size of the buffer in bytes
    calls,
    promised,   \* the glyphs and changes that are still to come, as announced
    kept,       \* has the client kept to them?
    chosen,     \* the glyph set the client has chosen
    drawn       \* the runs the client has drawn

vars == <<pc, glyph_size, initial_glyphset, current_glyphset, stream, stream_len, calls,
          promised, kept, chosen, drawn>>

Init ==
    /\ pc = "none"
    /\ glyph_size = 0
    /\ initial_glyphset \in Glyphset /\ current_glyphset = initial_glyphset
    /\ stream = <<>> /\ stream_len = 0
    /\ calls = 0
    /\ promised = [glyphs |-> 0, changes |-> 0] /\ kept = TRUE
    /\ chosen = initial_glyphset
    /\ drawn = <<>>

\* Mutant: the header is forgotten that a run of one glyph has.
HeaderlessBytes(glyphs, changes) ==
    IF glyphs = 0 /\ changes = 0 THEN 32 ELSE glyphs * 2 * 4 + changes * 3 * 4

\* The worst case: each glyph has its own offset.
WorstCaseBytes(glyphs, changes) ==
    IF glyphs = 0 /\ changes = 0 THEN 32 ELSE glyphs * 3 * 4 + changes * 3 * 4

xcb_render_util_composite_text_stream(glyphs, changes) ==
    /\ pc = "none"
    /\ pc' = "open"
    /\ stream_len' = WorstCaseBytes(glyphs, changes)
    /\ promised' = [glyphs |-> glyphs, changes |-> changes]
    /\ UNCHANGED <<glyph_size, initial_glyphset, current_glyphset, stream, calls, kept,
                   chosen, drawn>>

\* The buffer has room for that many more bytes, or is doubled, or is not.
_grow_stream(increase) ==
    IF 4 * Len(stream) + increase > stream_len
    THEN stream_len' \in {stream_len, 2 * stream_len}
    ELSE UNCHANGED stream_len

\* Writing the words, into the buffer or beyond its end.
Write(words) ==
    /\ stream' = stream \o words
    /\ pc' = IF 4 * Len(stream \o words) > stream_len' THEN "overrun" ELSE "open"

\* The words that n glyphs fill.
Packed(size, n) == (n * size + 3) \div 4

\* A run that is too long, or of another size than those before it, is ignored.
Accepted(size, n) == n <= Limit[size] /\ glyph_size \in {0, size}

\* xcb_render_util_glyphs_8, _16 and _32
glyphs(size, offset, n, glyph) ==
    /\ pc \in {"open", "sent"} /\ calls < MaxCalls
    /\ calls' = calls + 1
    /\ Accepted(size, n)
    /\ glyph_size' = size
    /\ _grow_stream(8 + n * size + IF size = 1 THEN 3 ELSE 1)
    /\ Write(<<n, offset>> \o [i \in 1 .. Packed(size, n) |-> glyph])
    /\ promised' = [promised EXCEPT !.glyphs = @ - n]
    /\ kept' = (kept /\ n > 0 /\ n <= promised.glyphs)
    /\ drawn' = Append(drawn, [glyphset |-> chosen, offset |-> offset, count |-> n,
                               glyph |-> IF n = 0 THEN 0 ELSE glyph])
    /\ UNCHANGED <<initial_glyphset, current_glyphset, chosen>>

\* Mutant: the stream does not remember its glyph set.
ChangeForgotten(glyphset) ==
    /\ pc \in {"open", "sent"} /\ calls < MaxCalls
    /\ calls' = calls + 1
    /\ chosen' = glyphset
    /\ glyphset # current_glyphset
    /\ _grow_stream(12)
    /\ Write(<<Marker, 0, glyphset>>)
    /\ promised' = [promised EXCEPT !.changes = @ - 1]
    /\ kept' = (kept /\ promised.changes > 0)
    /\ UNCHANGED <<glyph_size, initial_glyphset, current_glyphset, drawn>>

xcb_render_util_change_glyphset(glyphset) ==
    /\ pc \in {"open", "sent"} /\ calls < MaxCalls
    /\ calls' = calls + 1
    /\ chosen' = glyphset
    /\ glyphset # current_glyphset
    /\ _grow_stream(12)
    /\ Write(<<Marker, 0, glyphset>>)
    /\ current_glyphset' = glyphset
    /\ promised' = [promised EXCEPT !.changes = @ - 1]
    /\ kept' = (kept /\ promised.changes > 0)
    /\ UNCHANGED <<glyph_size, initial_glyphset, drawn>>

\* The stream has the glyph set already: it stays as it is.
KeepGlyphset(glyphset) ==
    /\ pc \in {"open", "sent"} /\ calls < MaxCalls
    /\ calls' = calls + 1
    /\ chosen' = glyphset
    /\ glyphset = current_glyphset
    /\ UNCHANGED <<pc, glyph_size, initial_glyphset, current_glyphset, stream, stream_len,
                   promised, kept, drawn>>

\* The request of the glyph size; as long as there is none, NoOperation is sent.
xcb_render_util_composite_text ==
    /\ pc = "open"
    /\ glyph_size # 0
    /\ pc' = "sent"
    /\ UNCHANGED <<glyph_size, initial_glyphset, current_glyphset, stream, stream_len, calls,
                   promised, kept, chosen, drawn>>

xcb_render_util_composite_text_free ==
    /\ pc \in {"open", "sent"}
    /\ pc' = "freed"
    /\ UNCHANGED <<glyph_size, initial_glyphset, current_glyphset, stream, stream_len, calls,
                   promised, kept, chosen, drawn>>

Next ==
    \/ \E n \in Total, m \in Total : xcb_render_util_composite_text_stream(n, m)
    \/ \E size \in {1, 2, 4}, offset \in Offset, n \in Count, glyph \in Glyph :
          glyphs(size, offset, n, glyph)
    \/ \E glyphset \in Glyphset :
          xcb_render_util_change_glyphset(glyphset) \/ KeepGlyphset(glyphset)
    \/ xcb_render_util_composite_text \/ xcb_render_util_composite_text_free

Spec == Init /\ [][Next]_vars

-----------------------------------------------------------------------------
(* Properties.                                                              *)

Aligned(bytes) == bytes % 4 = 0

\* The types of all variables; the buffer is a whole number of words.
TypeOK ==
    /\ pc \in {"none", "open", "sent", "freed", "overrun"}
    /\ glyph_size \in {0, 1, 2, 4}
    /\ {initial_glyphset, current_glyphset, chosen} \subseteq Glyphset
    /\ stream \in Seq(Nat)
    /\ stream_len \in Nat /\ Aligned(stream_len)
    /\ calls \in 0 .. MaxCalls
    /\ promised \in [glyphs : Int, changes : Int] /\ kept \in BOOLEAN

\* A client that draws what it announced never writes beyond the buffer,
\* however its glyphs are grouped into runs and whether or not realloc works
\* ("assume worst case: each glyph has its own dx,dy", glyph.c:62).
PromiseSuffices == kept => pc # "overrun"

\* The words of a run that begins with this number, or of a change.
Words(size, number) == IF number = Marker THEN 3 ELSE 2 + Packed(size, number)

\* What the server makes of one more word: it is at a place in a run or in a
\* change, and acts when it has read the last word.
AfterWord(size, server, word) ==
    LET place  == server.place + 1
        number == IF place = 1 THEN word ELSE server.number
        offset == IF place = 2 THEN word ELSE server.offset
        ends   == place = Words(size, number)
        run    == [glyphset |-> server.glyphset, offset |-> offset, count |-> number,
                   glyph |-> IF number = 0 THEN 0 ELSE word]
    IN  [place    |-> IF ends THEN 0 ELSE place,
         number   |-> number,
         offset   |-> offset,
         glyphset |-> IF ends /\ number = Marker THEN word ELSE server.glyphset,
         drawn    |-> IF ends /\ number # Marker THEN Append(server.drawn, run) ELSE server.drawn]

\* What the server makes of a whole stream.
Served(size, glyphset, words) ==
    LET after[i \in 0 .. Len(words)] ==
            IF i = 0
            THEN [place |-> 0, number |-> 0, offset |-> 0, glyphset |-> glyphset, drawn |-> <<>>]
            ELSE AfterWord(size, after[i - 1], words[i])
    IN  after[Len(words)]

\* What is sent makes the server draw the runs the client asked for, each with
\* the glyph set that was chosen for it, and ends with a whole run or change.
DrawsWhatWasAsked ==
    pc = "sent" =>
        LET server == Served(glyph_size, initial_glyphset, stream)
        IN  server.drawn = drawn /\ server.place = 0
=============================================================================
