---------------------------- MODULE SharedImages ----------------------------
(***************************************************************************)
(* Images in shared memory: xcb_image_shm_put and xcb_image_shm_get of     *)
(* image/xcb_image.c.  The server reads or writes the segment when it gets *)
(* to the request.  A put does not wait for that: the client draws into    *)
(* the segment again when the event has come that send_event asks for.  A  *)
(* get waits for its reply.  A picture is a number.                        *)
(***************************************************************************)
EXTENDS Integers, SequencesExt

CONSTANTS
    MaxPictures,    \* bound: pictures the client, or another one, draws
    MaxRequests,    \* bound: puts and gets
    MayBreak        \* may the connection break?

VARIABLES
    pictures,   \* how many pictures were drawn
    segment,    \* the picture in the shared memory
    drawable,   \* the picture in the drawable
    requests,   \* what the server has not got to: what to do, and the picture
                \* that was in the segment
    count,      \* how many requests were made
    pending,    \* puts the client has seen neither an event nor an error for
    reply,      \* the answer to a get: "none", "data" or "error"
    waiting,    \* is the client in xcb_image_shm_get?
    returned,   \* what the last xcb_image_shm_get returned, 2 before
    filled,     \* has the server written the picture the last get asked for?
    connected

vars == <<pictures, segment, drawable, requests, count, pending, reply, waiting, returned,
          filled, connected>>

Init ==
    /\ pictures = 0 /\ segment = 0 /\ drawable = 0 /\ requests = <<>> /\ count = 0
    /\ pending = 0 /\ reply = "none" /\ waiting = FALSE /\ returned = 2
    /\ filled = FALSE /\ connected = TRUE

-----------------------------------------------------------------------------
(* The client.                                                              *)

\* It draws into a segment the server is done with.
Draw ==
    /\ ~waiting /\ pending = 0 /\ pictures < MaxPictures
    /\ pictures' = pictures + 1 /\ segment' = pictures + 1
    /\ returned' = 2
    /\ UNCHANGED <<drawable, requests, count, pending, reply, waiting, filled, connected>>

\* xcb takes requests on a broken connection and drops them.
Request(what) ==
    requests' = IF connected THEN Append(requests, [what |-> what, was |-> segment])
                ELSE requests

\* Mutant: the segment is looked at after the request was sent.
PutThenCheck(native, attached) ==
    /\ ~waiting /\ count < MaxRequests
    /\ count' = count + 1
    /\ IF native THEN Request("put") ELSE UNCHANGED requests
    /\ pending' = IF native /\ attached /\ connected THEN pending + 1 ELSE pending
    /\ returned' = 2
    /\ UNCHANGED <<pictures, segment, drawable, reply, waiting, filled, connected>>

\* An image that is not native, or a segment that is not attached: NULL.
xcb_image_shm_put(native, attached) ==
    /\ ~waiting /\ count < MaxRequests
    /\ count' = count + 1
    /\ IF ~native \/ ~attached THEN UNCHANGED <<requests, pending>>
       ELSE Request("put") /\ pending' = IF connected THEN pending + 1 ELSE pending
    /\ returned' = 2
    /\ UNCHANGED <<pictures, segment, drawable, reply, waiting, filled, connected>>

xcb_image_shm_get(attached) ==
    /\ ~waiting /\ count < MaxRequests
    /\ count' = count + 1
    /\ IF ~attached THEN returned' = 0 /\ UNCHANGED <<requests, waiting>>
       ELSE Request("get") /\ waiting' = TRUE /\ returned' = 2
    /\ filled' = FALSE
    /\ UNCHANGED <<pictures, segment, drawable, pending, reply, connected>>

\* Mutant: a broken connection is not noticed.
ReturnReplied ==
    /\ waiting /\ reply # "none"
    /\ waiting' = FALSE /\ reply' = "none"
    /\ returned' = IF reply = "error" THEN 0 ELSE 1
    /\ UNCHANGED <<pictures, segment, drawable, requests, count, pending, filled, connected>>

\* There is a reply, an error, or neither when the connection is broken.
Return ==
    /\ waiting /\ (reply # "none" \/ ~connected)
    /\ waiting' = FALSE /\ reply' = "none"
    /\ returned' = IF reply = "error" THEN 0 ELSE 1
    /\ UNCHANGED <<pictures, segment, drawable, requests, count, pending, filled, connected>>

-----------------------------------------------------------------------------
(* The server, another client and the connection.                           *)

ServePut(fails) ==
    /\ connected /\ requests # <<>> /\ Head(requests).what = "put"
    /\ requests' = Tail(requests)
    /\ pending' = pending - 1
    /\ drawable' = IF fails THEN drawable ELSE segment
    /\ UNCHANGED <<pictures, segment, count, reply, waiting, returned, filled, connected>>

ServeGet(fails) ==
    /\ connected /\ requests # <<>> /\ Head(requests).what = "get"
    /\ requests' = Tail(requests)
    /\ reply' = IF fails THEN "error" ELSE "data"
    /\ segment' = IF fails THEN segment ELSE drawable
    /\ filled' = ~fails
    /\ UNCHANGED <<pictures, drawable, count, pending, waiting, returned, connected>>

Paint ==
    /\ pictures < MaxPictures
    /\ pictures' = pictures + 1 /\ drawable' = pictures + 1
    /\ UNCHANGED <<segment, requests, count, pending, reply, waiting, returned, filled, connected>>

\* With the connection everything that is under way is lost.
Break ==
    /\ connected /\ MayBreak
    /\ connected' = FALSE /\ requests' = <<>> /\ pending' = 0 /\ reply' = "none"
    /\ UNCHANGED <<pictures, segment, drawable, count, waiting, returned, filled>>

Serve == \E fails \in BOOLEAN : ServePut(fails) \/ ServeGet(fails)

Next ==
    \/ Draw \/ Return \/ Serve \/ Paint \/ Break
    \/ \E attached \in BOOLEAN :
          \/ \E native \in BOOLEAN : xcb_image_shm_put(native, attached)
          \/ xcb_image_shm_get(attached)

Spec == Init /\ [][Next]_vars

\* The server answers in the end, and a client that has its answer returns.
FairSpec == Spec /\ WF_vars(Serve) /\ WF_vars(Return)

-----------------------------------------------------------------------------
(* Properties.                                                              *)

\* After xcb_image_shm_get returned 1 the picture is in the segment, or the
\* connection is broken: "If a problem occurs, the functons returns 0. It
\* returns 1 otherwise." (xcb_image.h:554) holds of errors only.
GetHasPicture == returned = 1 => filled \/ ~connected

\* A client that draws into a segment only when nothing is under way from it
\* never changes a picture it has put: the drawable gets the one that was there
\* when xcb_image_shm_put was called, and no request that it was not told of
\* reads the segment later.
PutsAreWhole ==
    [][requests # <<>> /\ requests' = Tail(requests) /\ connected' /\ drawable' # drawable
       => drawable' = Head(requests).was]_vars

\* No client waits forever: not for the end of a put that was never sent, nor
\* for the reply to a get.
Completes == (pending > 0 \/ waiting) ~> (pending = 0 /\ ~waiting)
=============================================================================
