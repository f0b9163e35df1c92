------------------------------ MODULE Lookups ------------------------------
(***************************************************************************)
(* The small libraries that keep no state: keysyms of a keyboard mapping,  *)
(* visuals of the setup, picture formats, requests with parameters, and    *)
(* labels of events.  Each of them only works on what it is given, and so  *)
(* an instance is about one of them, its part; the others stay idle.       *)
(***************************************************************************)
EXTENDS KeysymTable, PictTemplates

CONSTANTS
    Visual, Class, Null,                        \* SetupLookups
    Format, NoReply,                            \* PictFormats
    Value, Junk, Other, Name,                   \* RequestHelpers
    ResponseType, ErrorCode, Major, NoLabel,    \* EventLabels
    MaxVisuals, MaxFormats, MaxAdds             \* bounds of these modules

ASSUME LookupAssumption ==
    /\ IsFiniteSet(Visual) /\ Visual \subseteq Nat \ {0} /\ Class \in [Visual -> 0 .. 5]
    /\ Null \notin Nat \X Nat /\ Null \notin Seq([depth : Nat \ {0}, visuals : Seq(Visual)])
    /\ NoReply \notin Seq(Format) /\ \A f \in Format :
          /\ f \in [Field -> Nat]
          /\ \A c \in Channel : f[MaskOf[c]] \in {2 ^ w - 1 : w \in 0 .. 16}
    /\ Junk \notin Value
    /\ \A name \in Name : name \in Seq(0 .. 15 \cup {Other})
    /\ ResponseType \subseteq 2 .. 127 \cup 130 .. 255
    /\ ErrorCode \subseteq 0 .. 255 /\ Major \subseteq 0 .. 255
    /\ MaxVisuals \in Nat /\ MaxFormats \in Nat /\ MaxAdds \in Nat

VARIABLES
    part,                                       \* what this instance is about
    formats, screens, asked, found,             \* SetupLookups and PictFormats
    kind, mask, params, adds, set, parsed,      \* RequestHelpers
    now, log                                    \* EventLabels

Setup    == INSTANCE SetupLookups
Pict     == INSTANCE PictFormats WITH MaxVisuals <- 1
Requests == INSTANCE RequestHelpers
Labels   == INSTANCE EventLabels

ASSUME LabelAssumption ==
    NoLabel \notin Range(Labels!labelEvent) \cup Range(Labels!labelError)
                  \cup Range(Labels!labelRequest)

Part == {"keysyms", "setup", "pict", "requests", "labels"}

AnyTable == CHOOSE t \in Tables : TRUE

\* What a part that is idle starts with does not matter.
LookupInit ==
    /\ part \in Part
    /\ IF part = "keysyms" THEN Init
       ELSE /\ table = AnyTable /\ sought = NoSymbol /\ column = 0 /\ keycode = MinKeycode
            /\ result = <<>> /\ pc = "scan"
    /\ IF part = "setup" THEN Setup!Init /\ formats = NoReply
       ELSE IF part = "pict" THEN Pict!Init
       ELSE formats = NoReply /\ screens = <<>> /\ asked = [call |-> "none"] /\ found = 0
    /\ Requests!Init /\ (part = "requests" \/ kind = "cw")
    /\ Labels!Init

KeysymStep  == part = "keysyms"  /\ Next
SetupStep   == part = "setup"    /\ Setup!Next /\ UNCHANGED formats
PictStep    == part = "pict"     /\ Pict!Next
RequestStep == part = "requests" /\ Requests!Next
LabelStep   == part = "labels"   /\ Labels!Next

answer_vars  == <<formats, screens, asked, found>>
request_vars == <<kind, mask, params, adds, set, parsed>>
label_vars   == <<now, log>>
lookup_vars  == <<part, vars, answer_vars, request_vars, label_vars>>

LookupNext ==
    \/ KeysymStep  /\ UNCHANGED <<part, answer_vars, request_vars, label_vars>>
    \/ SetupStep   /\ UNCHANGED <<part, vars, request_vars, label_vars>>
    \/ PictStep    /\ UNCHANGED <<part, vars, request_vars, label_vars>>
    \/ RequestStep /\ UNCHANGED <<part, vars, answer_vars, label_vars>>
    \/ LabelStep   /\ UNCHANGED <<part, vars, answer_vars, request_vars>>

\* A search of keysyms runs to its end.
LookupSpec == LookupInit /\ [][LookupNext]_lookup_vars /\ WF_vars(KeysymStep)

-----------------------------------------------------------------------------
(* Properties; FoundExactly is that of KeysymTable.                         *)

\* The columns of every key follow the protocol, and are the same whichever
\* case of a letter the server lists (keysyms.c:101-233, 312-412).
ColumnsFollowProtocol == GroupsFollowProtocol /\ CasesAgree

\* The search for a keysym's keycodes ends, also when the highest keycode is
\* the last there is and the counter wraps around (keysyms.c:253).
SearchReturns == part = "keysyms" => SearchEnds

\* What is looked up in the setup or among the picture formats is found if it
\* is there, the first or the one that was counted to, and nothing else is;
\* what xcb_aux_get_visualtype misses is known (xcb_aux.c:60-142,
\* util.c:32-101, 114-238).
LookupsFind ==
    /\ part = "setup" => Setup!IdsAreFound /\ Setup!AttrsAreFound /\ Setup!VisualtypeMissesHalf
    /\ part = "pict"  => Pict!EveryMatchOnce /\ Pict!StandardIsByBits /\ Pict!VisualsAreFound

\* Events, errors and requests have one name in the labels and in the typed
\* handlers and constants of the header (event.c:120-335).
TablesAgree == part = "labels" => Labels!NamedAfterHandler /\ Labels!FailureNamed

\* A request sets the parameters that were added, whatever their order, each
\* to the value it was given last (xcb_aux.c:153-164, xcb_aux.h:40-49).
SetsWhatWasAdded == Requests!SetsWhatWasAdded

\* The digits of a colour's name lead its components (xcb_aux.c:290-331).
DigitsLeadComponents == Requests!DigitsLeadComponents
=============================================================================
