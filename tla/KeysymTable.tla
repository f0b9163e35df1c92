---------------------------- MODULE KeysymTable ----------------------------
(***************************************************************************)
(* Looking up keysyms in a keyboard mapping: the pure part of              *)
(* keysyms/keysyms.c.                                                      *)
(*                                                                         *)
(* xcb_key_symbols_get_keysym finds the keysym of a key and a column,      *)
(* xcb_key_symbols_get_keycode searches all columns of all keys for the    *)
(* keys of a keysym.  The mapping is what the server sent: one row of as   *)
(* many keysyms for every keycode.                                         *)
(***************************************************************************)
EXTENDS Integers, SequencesExt, FiniteSetsExt

CONSTANTS
    MinKeycode,     \* the server's setup: its lowest
    MaxKeycode,     \* and its highest keycode
    KeycodeLimit,   \* keycodes are unsigned integers below it; 256 in C
    Tables,         \* the mappings servers may send
    Sought          \* the keysyms that are searched

ASSUME KeycodeAssumption ==
    /\ KeycodeLimit \in Nat
    /\ MinKeycode \in Nat \ {0} /\ MaxKeycode \in MinKeycode .. KeycodeLimit - 1
    /\ Tables # {}
    /\ \A t \in Tables :
          /\ DOMAIN t = MinKeycode .. MaxKeycode
          /\ \A k \in DOMAIN t :
                t[k] \in Seq(Nat) /\ Len(t[k]) = Len(t[MinKeycode]) /\ Len(t[k]) > 0

VARIABLES
    table,      \* the mapping: keycode to row of keysyms
    sought,     \* the keysym that is searched
    column,     \* get_keycode's j
    keycode,    \* get_keycode's i
    result,     \* the keycodes found
    pc          \* "scan" or "done"

vars == <<table, sought, column, keycode, result, pc>>

Keycodes == MinKeycode .. MaxKeycode
NoSymbol == 0

-----------------------------------------------------------------------------
(* Upper and lower case.                                                    *)

\* Ranges of upper case keysyms, and the distance to their lower case forms
\* (the keysyms of X11/keysymdef.h, Latin 1 to 4, Cyrillic and Greek).
UpperCase ==
    { [first |->   65, last |->   90, shift |->  32],   \* A .. Z
      [first |->  192, last |->  214, shift |->  32],   \* Agrave .. Odiaeresis
      [first |->  216, last |->  222, shift |->  32],   \* Ooblique .. Thorn
      [first |->  417, last |->  417, shift |->  16],   \* Aogonek
      [first |->  419, last |->  422, shift |->  16],   \* Lstroke .. Sacute
      [first |->  425, last |->  428, shift |->  16],   \* Scaron .. Zacute
      [first |->  430, last |->  431, shift |->  16],   \* Zcaron .. Zabovedot
      [first |->  448, last |->  478, shift |->  32],   \* Racute .. Tcedilla
      [first |->  673, last |->  678, shift |->  16],   \* Hstroke .. Hcircumflex
      [first |->  683, last |->  684, shift |->  16],   \* Gbreve .. Jcircumflex
      [first |->  709, last |->  734, shift |->  32],   \* Cabovedot .. Scircumflex
      [first |->  931, last |->  940, shift |->  16],   \* Rcedilla .. Tslash
      [first |->  957, last |->  957, shift |->   2],   \* ENG
      [first |->  960, last |->  990, shift |->  32],   \* Amacron .. Umacron
      [first |-> 1713, last |-> 1727, shift |-> -16],   \* Serbian_DJE .. _DZE
      [first |-> 1760, last |-> 1791, shift |-> -32],   \* Cyrillic_YU .. _HARDSIGN
      [first |-> 1953, last |-> 1963, shift |->  16],   \* Greek_ALPHAaccent .. _OMEGAaccent
      [first |-> 1985, last |-> 2009, shift |->  32] }  \* Greek_ALPHA .. _OMEGA

\* Greek_iotaaccentdieresis, Greek_upsilonaccentdieresis, Greek_finalsmallsigma:
\* among the lower case forms, without an upper case one.
LowerOnly == {1974, 1978, 2035}

\* In Armenian an even keysym is the upper case of the odd one after it.
Armenian == 5298 .. 5373

xcb_convert_case(sym) ==
    LET up  == {r \in UpperCase : sym \in r.first .. r.last}
        low == {r \in UpperCase : sym - r.shift \in r.first .. r.last /\ sym \notin LowerOnly}
    IN  [lower |-> IF sym \in Armenian /\ sym % 2 = 0 THEN sym + 1
                   ELSE IF up # {} THEN sym + (CHOOSE r \in up : TRUE).shift ELSE sym,
         upper |-> IF sym \in Armenian /\ sym % 2 = 1 THEN sym - 1
                   ELSE IF up = {} /\ low # {} THEN sym - (CHOOSE r \in low : TRUE).shift
                   ELSE sym]

-----------------------------------------------------------------------------
(* xcb_key_symbols_get_keysym; columns count from 0.                        *)

Even(n) == n % 2 = 0

\* Mutant: trailing NoSymbols count.
Untrimmed(row) == Len(row)

\* The keysyms that are left without trailing NoSymbols beyond the second.
Trimmed(row) ==
    IF Len(row) <= 2 THEN Len(row)
    ELSE Max({2} \cup {k \in 3 .. Len(row) : row[k] # NoSymbol})

get_keysym(row, col) ==
    LET per   == IF col \in {2, 3} THEN Trimmed(row) ELSE Len(row)
        c     == IF col \in {2, 3} /\ per < 3 THEN col - 2 ELSE col
        first == c - (c % 2)
        case  == xcb_convert_case(row[first + 1])
    IN  IF col < 0 \/ (col >= Len(row) /\ col > 3) THEN NoSymbol
        ELSE IF col < 4 /\ (per <= first + 1 \/ row[first + 2] = NoSymbol)
        THEN IF Even(c) THEN case.lower
             ELSE IF case.upper = case.lower THEN NoSymbol ELSE case.upper
        ELSE row[c + 1]

xcb_key_symbols_get_keysym(code, col) ==
    IF code \in Keycodes THEN get_keysym(table[code], col) ELSE NoSymbol

-----------------------------------------------------------------------------
(* xcb_key_symbols_get_keycode                                              *)

Init ==
    /\ table \in Tables
    /\ sought \in Sought
    /\ column = 0
    /\ keycode = MinKeycode
    /\ result = <<>>
    /\ pc = "scan"

per_keycode == Len(table[MinKeycode])

\* Mutant: the counter is not tested for having wrapped around.
InColumnUnwrapped == keycode <= MaxKeycode

\* The keycode counter has eight bits: after the highest one it is 0.
InColumn == keycode # 0 /\ keycode <= MaxKeycode

Visit ==
    /\ pc = "scan" /\ column < per_keycode /\ InColumn
    /\ result' = IF xcb_key_symbols_get_keysym(keycode, column) = sought
                 THEN Append(result, keycode) ELSE result
    /\ keycode' = (keycode + 1) % KeycodeLimit
    /\ UNCHANGED <<table, sought, column, pc>>

NextColumn ==
    /\ pc = "scan" /\ column < per_keycode /\ ~InColumn
    /\ column' = column + 1
    /\ keycode' = MinKeycode
    /\ UNCHANGED <<table, sought, result, pc>>

Finish ==
    /\ pc = "scan" /\ column >= per_keycode
    /\ pc' = "done"
    /\ UNCHANGED <<table, sought, column, keycode, result>>

Next == Visit \/ NextColumn \/ Finish

Spec == Init /\ [][Next]_vars

FairSpec == Spec /\ WF_vars(Next)

-----------------------------------------------------------------------------
(* Properties.                                                              *)

\* The types of the search's variables; the array has room for every match.
TypeOK ==
    /\ column \in 0 .. per_keycode
    /\ keycode \in 0 .. KeycodeLimit - 1
    /\ result \in Seq(Keycodes)
    /\ Len(result) <= per_keycode * Cardinality(Keycodes)
    /\ pc \in {"scan", "done"}

\* The list of a key without trailing NoSymbols, and what the protocol makes
\* of it: four keysyms in two groups (keysyms.c:112-131).
Significant(row) ==
    SubSeq(row, 1, Max({0} \cup {k \in DOMAIN row : row[k] # NoSymbol}))

FourKeysyms(list) ==
    CASE Len(list) = 0 -> <<NoSymbol, NoSymbol, NoSymbol, NoSymbol>>
      [] Len(list) = 1 -> <<list[1], NoSymbol, list[1], NoSymbol>>
      [] Len(list) = 2 -> <<list[1], list[2], list[1], list[2]>>
      [] Len(list) = 3 -> <<list[1], list[2], list[3], NoSymbol>>
      [] OTHER -> SubSeq(list, 1, 4)

Cased(sym) == xcb_convert_case(sym).lower # xcb_convert_case(sym).upper

\* A group of one keysym: its two cases, or the keysym without a second.
Group(first, second) ==
    IF second # NoSymbol THEN <<first, second>>
    ELSE IF Cased(first) THEN <<xcb_convert_case(first).lower, xcb_convert_case(first).upper>>
    ELSE <<first, NoSymbol>>

Protocol(row, col) ==
    LET four == FourKeysyms(Significant(row))
        g    == IF col < 2 THEN 1 ELSE 3
    IN  Group(four[g], four[g + 1])[1 + (col % 2)]

\* For every row, the four columns follow the protocol's rules on trailing
\* NoSymbols, pairs and triples, and the cases of a group's single keysym
\* (keysyms.c:112-131).  In one point the code keeps to something else: where
\* the comment wants the second column of a group with one caseless keysym to
\* be "the same as the first element", it is NoSymbol (keysyms.c:229-230).
GroupsFollowProtocol ==
    \A code \in Keycodes, col \in 0 .. 3 :
        xcb_key_symbols_get_keysym(code, col) = Protocol(table[code], col)

\* Case conversion is consistent: both cases of a keysym have the same cases,
\* and a key has the same keysyms whichever of the two the server lists alone.
CasesAgree ==
    \A code \in Keycodes :
        LET sym == table[code][1]
            case == xcb_convert_case(sym)
        IN  /\ Cased(sym) => /\ sym \in {case.lower, case.upper}
                             /\ xcb_convert_case(case.lower) = case
                             /\ xcb_convert_case(case.upper) = case
            /\ \A col \in 0 .. 3 : get_keysym(<<case.lower>>, col) = get_keysym(<<case.upper>>, col)

\* Where the mapping has the keysym, and those of these places that the search
\* comes to before p.
Places == {p \in (0 .. per_keycode - 1) \X Keycodes :
              xcb_key_symbols_get_keysym(p[2], p[1]) = sought}

Before(p) == {q \in Places : q[1] < p[1] \/ (q[1] = p[1] /\ q[2] < p[2])}

\* The search finds a keycode once for every column of the mapping in which
\* the key has the keysym, column by column, and nothing else (keysyms.c:238-267).
FoundExactly ==
    /\ TypeOK
    /\ pc = "done" =>
          /\ Len(result) = Cardinality(Places)
          /\ \A p \in Places : result[Cardinality(Before(p)) + 1] = p[2]

\* The search ends, also when the highest keycode is the last there is and the
\* counter wraps around (keysyms.c:253).
SearchEnds == <>(pc = "done")
=============================================================================
