-------------------------- MODULE WindowProperties --------------------------
(***************************************************************************)
(* The other properties of icccm/icccm.c: the names and WM_CLIENT_MACHINE, *)
(* WM_CLASS, WM_TRANSIENT_FOR and WM_PROTOCOLS.  Clients set them, a       *)
(* window manager asks and gets the reply itself to hold: what it is given *)
(* points into the reply, until it wipes it.                               *)
(*                                                                         *)
(* A value is a sequence of elements of 8, 16 or 32 bits.  What lies       *)
(* behind it in memory is anything.                                        *)
(***************************************************************************)
EXTENDS Integers, FiniteSetsExt, SequencesExt

CONSTANTS
    Kind,           \* the properties in question: "text", "class", "protocols", "transient"
    Element,        \* what values are made of, apart from Nul
    Nul,            \* the character that ends strings
    Beyond,         \* what is read behind the end of a value
    Nothing,        \* NULL
    MaxLength,      \* bound: the elements of a value
    ClassWords,     \* the words of WM_CLASS that are asked for, 2048 in the code
    MaxChanges,     \* bound: changes of the property
    MaxAsks         \* bound: requests

VARIABLES
    kind,       \* the property this is about
    property,   \* the server's value of it, Nothing without one
    window,     \* does the window exist?
    asked,      \* is a request on its way?
    reply,      \* the reply nobody has collected, <<>> without one
    heap,       \* the replies that are allocated, by number
    held,       \* the number of the reply in the window manager's structure, 0 without one
    value,      \* the reply's value: what the structure points into
    told,       \* what the structure says
    count       \* how many changes and requests there were

vars == <<kind, property, window, asked, reply, heap, held, value, told, count>>

Init ==
    /\ kind \in Kind
    /\ property = Nothing /\ window = TRUE /\ asked = FALSE
    /\ reply = <<>> /\ heap = {} /\ held = 0 /\ value = <<>> /\ told = Nothing
    /\ count = [changes |-> 0, asks |-> 0]

-----------------------------------------------------------------------------
(* The server and the clients.                                              *)

Property(type, width, data) == [type |-> type, format |-> width, data |-> data]

Values == SeqOf(Element, MaxLength)

\* xcb_set_wm_name and its like give names any encoding, of 8 bits.
xcb_set_wm_name == {Property(encoding, 8, d) : encoding \in {"STRING", "other"}, d \in Values}

xcb_set_wm_protocols == {Property("ATOM", 32, d) : d \in Values}

\* There are no setters for these; strings need not be terminated.
SetClass == {Property("STRING", 8, d) : d \in SeqOf(Element \cup {Nul}, MaxLength)}

SetTransientFor == {Property("WINDOW", 32, d) : d \in SeqOf(Element, 1)}

\* Clients that do not follow ICCCM.
Strange == {Property(type, width, <<x>>) :
               type \in {"STRING", "ATOM", "WINDOW", "other"}, width \in {8, 16, 32}, x \in Element}

Written ==
    CASE kind = "text"      -> xcb_set_wm_name
      [] kind = "class"     -> SetClass
      [] kind = "protocols" -> xcb_set_wm_protocols
      [] kind = "transient" -> SetTransientFor

Change ==
    /\ window /\ count.changes < MaxChanges
    /\ count' = [count EXCEPT !.changes = @ + 1]
    /\ property' \in Written \cup Strange \cup {Nothing}
    /\ UNCHANGED <<kind, window, asked, reply, heap, held, value, told>>

Destroy ==
    /\ window
    /\ window' = FALSE
    /\ UNCHANGED <<kind, property, asked, reply, heap, held, value, told, count>>

\* What the requests ask for; names of any type.
AskedType ==
    CASE kind = "text" -> "any" [] kind = "class" -> "STRING"
      [] kind = "protocols" -> "ATOM" [] kind = "transient" -> "WINDOW"

\* The elements that fit into the words a request asks for.
AskedElements(width) ==
    CASE kind = "class"     -> (32 * ClassWords) \div width
      [] kind = "transient" -> 32 \div width
      [] OTHER              -> MaxLength

\* The structure is wiped before it is used again.
Ask ==
    /\ ~asked /\ reply = <<>> /\ held = 0 /\ count.asks < MaxAsks
    /\ asked' = TRUE
    /\ count' = [count EXCEPT !.asks = @ + 1]
    /\ UNCHANGED <<kind, property, window, reply, heap, held, value, told>>

\* Without the window there is an error, without the property, or with another
\* type than the one asked for, a reply with no value.
Answer ==
    IF property = Nothing THEN Property("none", 0, <<>>)
    ELSE IF AskedType \notin {"any", property.type} THEN [property EXCEPT !.data = <<>>]
    ELSE [property EXCEPT !.data =
             SubSeq(@, 1, Min({Len(@), AskedElements(property.format)}))]

Serve ==
    /\ asked
    /\ asked' = FALSE
    /\ reply' = <<IF window THEN Answer ELSE Nothing>>
    /\ heap' = IF window THEN heap \cup {count.asks} ELSE heap
    /\ UNCHANGED <<kind, property, window, held, value, told, count>>

-----------------------------------------------------------------------------
(* Decoding.                                                                *)

\* xcb's function for the length of a value, as the callers take it: it counts
\* elements, whatever their width.
xcb_get_property_value_length(r) == Len(r.data)

\* The n elements at the start of a value.
Taken(data, n) == IF n <= Len(data) THEN SubSeq(data, 1, n) ELSE Append(data, Beyond)

\* The string at offset i of a value, and how long it is: it ends at the first
\* Nul, which may be k characters behind the end.
NulsFrom(data, i) == {j \in i + 1 .. Len(data) : data[j] = Nul}

StringLength(data, i, k) ==
    IF NulsFrom(data, i) # {} THEN Min(NulsFrom(data, i)) - 1 - i ELSE Len(data) - i + k

String(data, i) ==
    IF i >= Len(data) \/ NulsFrom(data, i) = {} THEN <<Beyond>>
    ELSE SubSeq(data, i + 1, Min(NulsFrom(data, i)) - 1)

\* Holding the reply, with what it is read as.
Hold(r, says) ==
    /\ held' = count.asks
    /\ value' = r.data
    /\ told' = says
    /\ UNCHANGED heap

\* Mutant: a reply that is not understood is not freed.
RefuseKeeping == UNCHANGED <<heap, held, value, told>>

\* A reply that is not understood is freed, and the structure is left alone.
Refuse ==
    /\ heap' = heap \ {count.asks}
    /\ UNCHANGED <<held, value, told>>

xcb_get_text_property_reply(r) ==
    IF r = Nothing THEN Refuse
    ELSE Hold(r, [format |-> r.format,
                  name_len |-> (xcb_get_property_value_length(r) * r.format) \div 8])

\* An instance name that no Nul follows in the value is taken to be one
\* shorter, if the byte behind the value happens to be Nul.
xcb_get_wm_class_reply(r) ==
    IF r = Nothing \/ r.type # "STRING" \/ r.format # 8 THEN Refuse
    ELSE \E k \in {0, 1} :
            LET n    == StringLength(r.data, 0, k)
                name == IF n = xcb_get_property_value_length(r) THEN n - 1 ELSE n
            IN  Hold(r, <<String(r.data, 0), String(r.data, name + 1)>>)

\* The window is copied; the reply is freed either way.
xcb_get_wm_transient_for_reply(r) ==
    /\ heap' = heap \ {count.asks}
    /\ told' = IF r = Nothing \/ r.type # "WINDOW" \/ r.format # 32 \/ r.data = <<>>
               THEN told ELSE r.data[1]
    /\ UNCHANGED <<held, value>>

xcb_get_wm_protocols_reply(r) ==
    IF r = Nothing \/ r.type # "ATOM" \/ r.format # 32 THEN Refuse
    ELSE Hold(r, Taken(r.data, xcb_get_property_value_length(r)))

Receive ==
    /\ reply # <<>>
    /\ reply' = <<>>
    /\ \/ kind = "text"      /\ xcb_get_text_property_reply(reply[1])
       \/ kind = "class"     /\ xcb_get_wm_class_reply(reply[1])
       \/ kind = "transient" /\ xcb_get_wm_transient_for_reply(reply[1])
       \/ kind = "protocols" /\ xcb_get_wm_protocols_reply(reply[1])
    /\ UNCHANGED <<kind, property, window, asked, count>>

\* xcb_get_text_property_reply_wipe, xcb_get_wm_class_reply_wipe,
\* xcb_get_wm_protocols_reply_wipe
Wipe ==
    /\ held # 0
    /\ heap' = heap \ {held}
    /\ held' = 0 /\ value' = <<>> /\ told' = Nothing
    /\ UNCHANGED <<kind, property, window, asked, reply, count>>

Next == Change \/ Destroy \/ Ask \/ Serve \/ Receive \/ Wipe

Spec == Init /\ [][Next]_vars

-----------------------------------------------------------------------------
(* Properties.                                                              *)

\* The types of all variables.
TypeOK ==
    /\ kind \in Kind /\ window \in BOOLEAN /\ asked \in BOOLEAN
    /\ heap \subseteq 1 .. MaxAsks /\ held \in 0 .. MaxAsks
    /\ Len(reply) <= 1 /\ Len(value) <= MaxLength
    /\ count \in [changes : 0 .. MaxChanges, asks : 0 .. MaxAsks]

\* A reply is with xcb, or in the structure until that is wiped; what is not
\* understood is not lost and a structure that was refused holds nothing to be
\* wiped (icccm.c:244-273, 303-312, 698-717, xcb_icccm.h:95-96).
RepliesAreOwned ==
    /\ TypeOK
    /\ heap = (IF held = 0 THEN {} ELSE {held})
              \cup (IF reply \in {<<>>, <<Nothing>>} THEN {} ELSE {count.asks})

\* A name is as long as its value, in bytes, whatever it is made of
\* (icccm.c:65-68).
NamesAreWhole ==
    kind = "text" /\ held # 0 => 8 * told.name_len = told.format * Len(value)

\* Two terminated strings are read as the instance and the class, and each of
\* them is the one the client wrote (icccm.c:248-254).
ClassIsRead ==
    kind = "class" /\ held # 0 /\ Cardinality(NulsFrom(value, 0)) >= 2
    => /\ Len(told) = 2 /\ Beyond \notin Range(told[1]) \cup Range(told[2])
       /\ SubSeq(value, 1, Len(told[1]) + Len(told[2]) + 2)
          = told[1] \o <<Nul>> \o told[2] \o <<Nul>>

\* The list is the one that was set (icccm.c:707-708).
ListIsWhole == kind = "protocols" /\ held # 0 => told = value
=============================================================================
