---------------------------- MODULE EventLabels ----------------------------
(***************************************************************************)
(* The labels of event/event.c.  A client with the typed handlers of       *)
(* xcb_event.h logs the events and the errors it handles: what they are    *)
(* called, and for an error which request it answers.  Blanks in labels    *)
(* are underscores here.                                                   *)
(***************************************************************************)
EXTENDS Integers, SequencesExt

CONSTANTS
    ResponseType,   \* the response types that arrive
    ErrorCode,      \* the error codes that arrive
    Major,          \* the major opcodes of the requests that fail
    NoLabel         \* NULL

labelError == <<
    "Success", "BadRequest", "BadValue", "BadWindow", "BadPixmap", "BadAtom", "BadCursor",
    "BadFont", "BadMatch", "BadDrawable", "BadAccess", "BadAlloc", "BadColor", "BadGC",
    "BadIDChoice", "BadName", "BadLength", "BadImplementation">>

labelRequest == <<
    "no_request", "CreateWindow", "ChangeWindowAttributes", "GetWindowAttributes",
    "DestroyWindow", "DestroySubwindows", "ChangeSaveSet", "ReparentWindow", "MapWindow",
    "MapSubwindows", "UnmapWindow", "UnmapSubwindows", "ConfigureWindow", "CirculateWindow",
    "GetGeometry", "QueryTree", "InternAtom", "GetAtomName", "ChangeProperty",
    "DeleteProperty", "GetProperty", "ListProperties", "SetSelectionOwner",
    "GetSelectionOwner", "ConvertSelection", "SendEvent", "GrabPointer", "UngrabPointer",
    "GrabButton", "UngrabButton", "ChangeActivePointerGrab", "GrabKeyboard",
    "UngrabKeyboard", "GrabKey", "UngrabKey", "AllowEvents", "GrabServer", "UngrabServer",
    "QueryPointer", "GetMotionEvents", "TranslateCoords", "WarpPointer", "SetInputFocus",
    "GetInputFocus", "QueryKeymap", "OpenFont", "CloseFont", "QueryFont",
    "QueryTextExtents", "ListFonts", "ListFontsWithInfo", "SetFontPath", "GetFontPath",
    "CreatePixmap", "FreePixmap", "CreateGC", "ChangeGC", "CopyGC", "SetDashes",
    "SetClipRectangles", "FreeGC", "ClearArea", "CopyArea", "CopyPlane", "PolyPoint",
    "PolyLine", "PolySegment", "PolyRectangle", "PolyArc", "FillPoly", "PolyFillRectangle",
    "PolyFillArc", "PutImage", "GetImage", "PolyText", "PolyText", "ImageText", "ImageText",
    "CreateColormap", "FreeColormap", "CopyColormapAndFree", "InstallColormap",
    "UninstallColormap", "ListInstalledColormaps", "AllocColor", "AllocNamedColor",
    "AllocColorCells", "AllocColorPlanes", "FreeColors", "StoreColors", "StoreNamedColor",
    "QueryColors", "LookupColor", "CreateCursor", "CreateGlyphCursor", "FreeCursor",
    "RecolorCursor", "QueryBestSize", "QueryExtension", "ListExtensions",
    "ChangeKeyboardMapping", "GetKeyboardMapping", "ChangeKeyboardControl",
    "GetKeyboardControl", "Bell", "ChangePointerControl", "GetPointerControl",
    "SetScreenSaver", "GetScreenSaver", "ChangeHosts", "ListHosts", "SetAccessControl",
    "SetCloseDownMode", "KillClient", "RotateProperties", "ForceScreenSaver",
    "SetPointerMapping", "GetPointerMapping", "SetModifierMapping", "GetModifierMapping",
    "major_120", "major_121", "major_122", "major_123", "major_124", "major_125",
    "major_126", "NoOperation">>

labelEvent == <<
    "error", "reply", "KeyPress", "KeyRelease", "ButtonPress", "ButtonRelease",
    "MotionNotify", "EnterNotify", "LeaveNotify", "FocusIn", "FocusOut", "KeymapNotify",
    "Expose", "GraphicsExpose", "NoExpose", "VisibilityNotify", "CreateNotify",
    "DestroyNotify", "UnmapNotify", "MapNotify", "MapRequest", "ReparentNotify",
    "ConfigureNotify", "ConfigureRequest", "GravityNotify", "ResizeRequest",
    "CirculateNotify", "CirculateRequest", "PropertyNotify", "SelectionClear",
    "SelectionRequest", "SelectionNotify", "ColormapNotify", "ClientMessage",
    "MappingNotify">>

\* The event types behind xcb_event_set_key_press_handler and its like, by the
\* names the protocol gives them, and the error codes of xcb_event.h.
TypedHandler == [
    KeyPress |-> 2, KeyRelease |-> 3, ButtonPress |-> 4, ButtonRelease |-> 5,
    MotionNotify |-> 6, EnterNotify |-> 7, LeaveNotify |-> 8, FocusIn |-> 9,
    FocusOut |-> 10, KeymapNotify |-> 11, Expose |-> 12, GraphicsExpose |-> 13,
    NoExpose |-> 14, VisibilityNotify |-> 15, CreateNotify |-> 16, DestroyNotify |-> 17,
    UnmapNotify |-> 18, MapNotify |-> 19, MapRequest |-> 20, ReparentNotify |-> 21,
    ConfigureNotify |-> 22, ConfigureRequest |-> 23, GravityNotify |-> 24,
    ResizeRequest |-> 25, CirculateNotify |-> 26, CirculateRequest |-> 27,
    PropertyNotify |-> 28, SelectionClear |-> 29, SelectionRequest |-> 30,
    SelectionNotify |-> 31, ColormapNotify |-> 32, ClientMessage |-> 33,
    MappingNotify |-> 34]

ErrorConstant == [
    BadRequest |-> 1, BadValue |-> 2, BadWindow |-> 3, BadPixmap |-> 4, BadAtom |-> 5,
    BadCursor |-> 6, BadFont |-> 7, BadMatch |-> 8, BadDrawable |-> 9, BadAccess |-> 10,
    BadAlloc |-> 11, BadColor |-> 12, BadGC |-> 13, BadIDChoice |-> 14, BadName |-> 15,
    BadLength |-> 16, BadImplementation |-> 17]

VARIABLES
    now,        \* the event or error that is handled, <<>> between them
    log         \* what the log says of it

vars == <<now, log>>

Nothing == [event |-> NoLabel, error |-> NoLabel, request |-> NoLabel]

Init == now = <<>> /\ log = Nothing

\* The tables start with the label of 0.
Label(labels, type) == IF type < Len(labels) THEN labels[type + 1] ELSE NoLabel

xcb_event_get_label(type) == Label(labelEvent, type)

xcb_event_get_error_label(type) == Label(labelError, type)

xcb_event_get_request_label(type) == Label(labelRequest, type)

\* Mutant: the bit of events that clients send is kept.
ResponseTypeUnmasked(e) == e[1]

\* XCB_EVENT_RESPONSE_TYPE
XCB_EVENT_RESPONSE_TYPE(e) == e[1] % 128

LogEvent(t) ==
    /\ now = <<>>
    /\ now' = <<t>>
    /\ log' = [Nothing EXCEPT !.event = xcb_event_get_label(XCB_EVENT_RESPONSE_TYPE(<<t>>))]

\* The code is the second byte of an error, the opcode the eleventh
\* (XCB_EVENT_ERROR_TYPE, XCB_EVENT_REQUEST_TYPE).
LogError(code, major) ==
    /\ now = <<>>
    /\ now' = <<0, code, major>>
    /\ log' = [event |-> xcb_event_get_label(0), error |-> xcb_event_get_error_label(code),
               request |-> xcb_event_get_request_label(major)]

Done ==
    /\ now # <<>>
    /\ now' = <<>> /\ log' = Nothing

Next ==
    \/ \E t \in ResponseType : LogEvent(t)
    \/ \E code \in ErrorCode, major \in Major : LogError(code, major)
    \/ Done

Spec == Init /\ [][Next]_vars

-----------------------------------------------------------------------------
(* Properties.                                                              *)

\* An event that a typed handler gets is logged under the name of that handler,
\* sent by a client or not, and only such an event (event.c:274-319 with
\* xcb_event.h:133-171).
NamedAfterHandler ==
    Len(now) = 1 =>
        \A name \in DOMAIN TypedHandler :
            log.event = name <=> TypedHandler[name] = now[1] % 128

\* A core error is logged under the name of its constant; every core request
\* has a label, which only the variants of the text requests share; what
\* extensions add has none (event.c:120-272, 321-335).
FailureNamed ==
    Len(now) = 3 =>
        /\ \A name \in DOMAIN ErrorConstant : log.error = name <=> ErrorConstant[name] = now[2]
        /\ (log.request = NoLabel) <=> now[3] >= 128
        /\ \A major \in 0 .. 127 \ {now[3]} :
              xcb_event_get_request_label(major) = log.request
              => {major, now[3]} \in {{74, 75}, {76, 77}}
=============================================================================
