---------------------------- MODULE ImageMemory ----------------------------
(***************************************************************************)
(* The memory of images: storage that a client's images own, or a segment  *)
(* that it shares with the server.  The two have nothing in common; a      *)
(* client of this instance uses one or the other.                          *)
(***************************************************************************)
EXTENDS Integers

CONSTANTS
    Depth, FormatDepth, MaxSize, MaxBlocks, MaxImages,      \* those of ImageStorage
    MaxPictures,    \* bound: pictures drawn into a segment or a drawable
    MaxRequests     \* bound: puts from a segment and gets into it

VARIABLES
    shares,     \* does the client use shared memory?
    store, mine, known, crashed,
    pictures, segment, drawable, requests, count, pending, reply, waiting, returned, filled,
    connected

storage_vars == <<store, mine, known, crashed>>

shared_vars == <<pictures, segment, drawable, requests, count, pending, reply, waiting,
                 returned, filled, connected>>

Storage == INSTANCE ImageStorage

Shared == INSTANCE SharedImages WITH MayBreak <- TRUE

ASSUME MemoryAssumption == Storage!DepthAssumption /\ Storage!BoundAssumption

MemoryInit == shares \in BOOLEAN /\ Storage!Init /\ Shared!Init

MemoryNext ==
    /\ UNCHANGED shares
    /\ \/ ~shares /\ Storage!Next /\ UNCHANGED shared_vars
       \/ shares /\ Shared!Next /\ UNCHANGED storage_vars

\* The server answers in the end, and a client that has its answer returns.
MemorySpec ==
    /\ MemoryInit /\ [][MemoryNext]_<<storage_vars, shares, shared_vars>>
    /\ WF_shared_vars(shares /\ Shared!Serve)
    /\ WF_shared_vars(shares /\ Shared!Return)

-----------------------------------------------------------------------------
(* Properties.                                                              *)

\* Every block is the client's or the base of one image, every image is one
\* the client was given, and what an image points at is allocated and large
\* enough for it, whichever allocation fails ("data points at sufficient
\* storage", xcb_image.c:256-258).
StorageIsOwned == Storage!StorageIsOwned

\* A picture that was put is not changed on its way to the drawable by a
\* client that waits for the completion event before it draws, and what
\* xcb_image_shm_get says of the segment is true while the connection lasts
\* (xcb_image.c:481-526).
PicturesAreWhole == Shared!PutsAreWhole /\ []Shared!GetHasPicture

\* No client waits forever for the end of a put or for a reply (xcb_image.c:
\* 481-526).
Completes == Shared!Completes
=============================================================================
