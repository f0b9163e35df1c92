----------------------------- MODULE RenderUtil -----------------------------
(***************************************************************************)
(* The stateful parts of renderutil: the cache that threads share, and the *)
(* text stream of one client.  The two have nothing in common; a program   *)
(* of this instance uses one or the other.                                 *)
(***************************************************************************)
EXTENDS RenderCache

CONSTANTS Glyphset, Offset, Glyph, Count, Total, Limit, Marker,
          MaxCalls      \* bound: the calls that append to a stream

VARIABLES
    streaming,  \* does the program use text streams?
    glyph_pc,   \* the pc of GlyphStream
    glyph_size, initial_glyphset, current_glyphset, stream, stream_len, calls, promised,
    kept, chosen, drawn

stream_vars == <<glyph_pc, glyph_size, initial_glyphset, current_glyphset, stream,
                 stream_len, calls, promised, kept, chosen, drawn>>

Glyphs == INSTANCE GlyphStream WITH pc <- glyph_pc

ASSUME StreamAssumption == Glyphs!NumberAssumption /\ Glyphs!LimitAssumption

UtilInit == streaming \in BOOLEAN /\ Init /\ Glyphs!Init

\* A stream that is freed, or that was written beyond its buffer, is the end.
UtilNext ==
    /\ UNCHANGED streaming
    /\ \/ ~streaming /\ Next /\ UNCHANGED stream_vars
       \/ streaming /\ Glyphs!Next /\ UNCHANGED vars
       \/ streaming /\ glyph_pc \in {"freed", "overrun"} /\ UNCHANGED <<vars, stream_vars>>

\* The fairness of RenderCache; a client may stop drawing at any time.
UtilSpec ==
    /\ UtilInit /\ [][UtilNext]_<<streaming, vars, stream_vars>>
    /\ \A p \in Proc : WF_vars(~streaming /\ Step(p)) /\ SF_vars(~streaming /\ LockForLookup(p))

-----------------------------------------------------------------------------
(* Properties; those of the cache are in RenderCache.                       *)

\* A client that draws what it announced never writes beyond the buffer,
\* however its glyphs are grouped into runs and whether or not realloc works
\* ("assume worst case: each glyph has its own dx,dy", glyph.c:62).
PromiseSuffices == Glyphs!PromiseSuffices

\* What is sent makes the server draw the runs the client asked for, each with
\* the glyph set that was chosen for it, and ends with a whole run or change
\* (glyph.c:85-197).
DrawsWhatWasAsked == Glyphs!DrawsWhatWasAsked
=============================================================================
