---------------------------- MODULE RenderCache ----------------------------
(***************************************************************************)
(* The per-connection cache of renderutil/cache.c.                         *)
(*                                                                         *)
(* xcb_render_util_query_version and _query_formats ask the server once    *)
(* per connection for the version and the picture formats of the Render    *)
(* extension and keep the two replies in a list entry until                *)
(* xcb_render_util_disconnect.  The list and connections.cur, the most     *)
(* recently used entry, are under connections.lock, except that a lookup   *)
(* first tries connections.cur without taking the lock (cache.c:188).      *)
(*                                                                         *)
(* Any number of threads look up and disconnect.  A pointer is read or     *)
(* written in one piece.  The entry names are blocks of the heap: free     *)
(* makes a block available to the next malloc, and what a thread reads in  *)
(* a block that is free is arbitrary.                                      *)
(***************************************************************************)
EXTENDS Integers, SequencesExt

CONSTANTS
    Proc,       \* the threads
    Conn,       \* the connections
    Entry,      \* the blocks malloc can hand out for list entries
    Null,       \* the NULL pointer; also "nobody" as holder of the mutex
    Screens,    \* per connection, its screens: the depths each advertises and
                \* the depths in which it lets a pixmap be created
    Exclusive   \* do the clients keep a disconnect apart from every lookup, or
                \* only from the lookups of the same connection?

ASSUME NullAssumption == Null \notin Proc \cup Entry \cup Conn

ASSUME ExclusiveAssumption == Exclusive \in BOOLEAN

VARIABLES
    lock,       \* holder of connections.lock
    head,       \* the entries from connections.head on
    cur,        \* connections.cur
    heap,       \* the blocks that are allocated
    conn,       \* entry->c
    answer,     \* entry->version and entry->formats
    pc,         \* where each thread is
    want,       \* the connection its operation is for, Null without one
    info,       \* its local variable info
    returned,   \* what its last lookup returned
    asked       \* how often the server was asked since the last disconnect

list  == <<head, cur>>
block == <<heap, conn, answer>>
local == <<pc, want, info>>
vars  == <<lock, list, block, local, returned, asked>>

\* The version reply and the formats reply; "plain" formats have lost their
\* sub-pixel data.
Absent  == [version |-> "none", formats |-> "none"]
Answers == {Absent} \cup [version : {"old", "new"}, formats : {"plain", "subpixel"}]
\* What a block holds that is free, or not filled in yet: anything.
Garbage == [version |-> "garbage", formats |-> "garbage"]

LookupStates == {"read", "compare", "lock", "search", "fetch", "link", "unlock", "answer"}
DisconnectStates == {"dlock", "remove", "dunlock"}

\* The states in which a thread holds connections.lock.
Holds == {"search", "fetch", "link", "unlock", "remove", "dunlock"}

Init ==
    /\ lock = Null
    /\ head = <<>>
    /\ cur = Null
    /\ heap = {}
    /\ conn = [e \in Entry |-> Null]
    /\ answer = [e \in Entry |-> Garbage]
    /\ pc = [p \in Proc |-> "idle"]
    /\ want = [p \in Proc |-> Null]
    /\ info = [p \in Proc |-> Null]
    /\ returned = [p \in Proc |-> Absent]
    /\ asked = [c \in Conn |-> 0]

-----------------------------------------------------------------------------
(* Is Render usable?                                                        *)

REQUIRED_DEPTHS == {1, 4, 8, 24, 32}

\* The depths a screen does not advertise count if a pixmap can be created.
pixmap_depths_usable(screen, missing) == missing \subseteq screen.creatable

has_required_depths(c) ==
    \A screen \in Screens[c] :
        LET missing == REQUIRED_DEPTHS \ screen.advertised
        IN  missing # {} => pixmap_depths_usable(screen, missing)

\* What the cache keeps of the two replies; "none" is a request that failed.
Kept(present, version, formats) ==
    IF ~present \/ version = "none" \/ formats = "none"
    THEN Absent
    ELSE [version |-> version, formats |-> IF version = "old" THEN "plain" ELSE formats]

-----------------------------------------------------------------------------
(* A lookup: find_display and find_or_create_display.                       *)

Goto(p, state) == pc' = [pc EXCEPT ![p] = state]

\* Thread q is at work on connection c, as far as the clients keep track.
Busy(q, c) == want[q] # Null /\ (Exclusive \/ want[q] = c)

Lookup(p, c) ==
    /\ pc[p] = "idle"
    /\ \A q \in Proc : Busy(q, c) => pc[q] \notin DisconnectStates
    /\ want' = [want EXCEPT ![p] = c]
    /\ Goto(p, "read")
    /\ UNCHANGED <<lock, list, block, info, returned, asked>>

\* (info = connections.cur), without the lock.
ReadCur(p) ==
    /\ pc[p] = "read"
    /\ info' = [info EXCEPT ![p] = cur]
    /\ Goto(p, IF cur = Null THEN "lock" ELSE "compare")
    /\ UNCHANGED <<lock, list, block, want, returned, asked>>

\* info->c == c; a freed block may hold anything.
CompareCur(p) ==
    /\ pc[p] = "compare"
    /\ \/ /\ info[p] \in heap => conn[info[p]] = want[p]
          /\ Goto(p, "answer")
       \/ /\ info[p] \in heap => conn[info[p]] # want[p]
          /\ Goto(p, "lock")
    /\ UNCHANGED <<lock, list, block, want, info, returned, asked>>

Takes(p, from, to) ==
    /\ pc[p] = from
    /\ lock = Null
    /\ lock' = p
    /\ Goto(p, to)
    /\ UNCHANGED <<list, block, want, info, returned, asked>>

Releases(p, from, to) ==
    /\ pc[p] = from
    /\ lock' = Null
    /\ Goto(p, to)
    /\ UNCHANGED <<list, block, info, returned, asked>>

LockForLookup(p) == Takes(p, "lock", "search")

\* The entries of a connection.
Of(c) == {e \in Range(head) : conn[e] = c}

Found(p) ==
    /\ pc[p] = "search"
    /\ \E i \in 1 .. Len(head) :
          /\ conn[head[i]] = want[p]
          /\ cur' = head[i]
          /\ info' = [info EXCEPT ![p] = head[i]]
    /\ Goto(p, "unlock")
    /\ UNCHANGED <<lock, head, block, want, returned, asked>>

Allocate(p) ==
    /\ pc[p] = "search"
    /\ Of(want[p]) = {}
    /\ \E e \in Entry \ heap :
          /\ heap' = heap \cup {e}
          /\ conn' = [conn EXCEPT ![e] = want[p]]
          /\ answer' = [answer EXCEPT ![e] = Garbage]
          /\ info' = [info EXCEPT ![p] = e]
    /\ Goto(p, "fetch")
    /\ UNCHANGED <<lock, list, want, returned, asked>>

AllocationFails(p) ==
    /\ pc[p] = "search"
    /\ Of(want[p]) = {}
    /\ info' = [info EXCEPT ![p] = Null]
    /\ Goto(p, "unlock")
    /\ UNCHANGED <<lock, list, block, want, returned, asked>>

\* The two requests, and the replies to them: either may fail.
Fetch(p) ==
    /\ pc[p] = "fetch"
    /\ \E version \in {"none", "old", "new"}, formats \in {"none", "subpixel"} :
          answer' = [answer EXCEPT ![info[p]] =
                        Kept(has_required_depths(want[p]), version, formats)]
    /\ asked' = [asked EXCEPT ![want[p]] = @ + 1]
    /\ Goto(p, "link")
    /\ UNCHANGED <<lock, list, heap, conn, want, info, returned>>

\* Mutant: only the most recently used entry is kept in reach.
LinkCurOnly(p) ==
    /\ pc[p] = "link"
    /\ cur' = info[p]
    /\ Goto(p, "unlock")
    /\ UNCHANGED <<lock, head, block, want, info, returned, asked>>

Link(p) ==
    /\ pc[p] = "link"
    /\ head' = <<info[p]>> \o head
    /\ cur' = info[p]
    /\ Goto(p, "unlock")
    /\ UNCHANGED <<lock, block, want, info, returned, asked>>

\* Mutant: the lock is kept.
UnlockForgotten(p) ==
    /\ pc[p] = "unlock"
    /\ Goto(p, "answer")
    /\ UNCHANGED <<lock, list, block, want, info, returned, asked>>

UnlockLookup(p) == Releases(p, "unlock", "answer") /\ UNCHANGED want

\* info->version or info->formats, without the lock; 0 if there is no entry.
Return(p) ==
    /\ pc[p] = "answer"
    /\ returned' = [returned EXCEPT ![p] = IF info[p] = Null THEN Absent
                                            ELSE IF info[p] \in heap THEN answer[info[p]]
                                            ELSE Garbage]
    /\ info' = [info EXCEPT ![p] = Null]
    /\ want' = [want EXCEPT ![p] = Null]
    /\ Goto(p, "idle")
    /\ UNCHANGED <<lock, list, block, asked>>

-----------------------------------------------------------------------------
(* xcb_render_util_disconnect                                               *)

Disconnect(p, c) ==
    /\ pc[p] = "idle"
    /\ \A q \in Proc : ~Busy(q, c)
    /\ want' = [want EXCEPT ![p] = c]
    /\ Goto(p, "dlock")
    /\ UNCHANGED <<lock, list, block, info, returned, asked>>

LockForDisconnect(p) == Takes(p, "dlock", "remove")

Freed(e) ==
    /\ heap' = heap \ {e}
    /\ conn' = [conn EXCEPT ![e] = Null]
    /\ answer' = [answer EXCEPT ![e] = Garbage]

\* Mutant: connections.cur is not flushed.
DropUnflushed(p) ==
    /\ pc[p] = "remove"
    /\ \E i \in 1 .. Len(head) :
          /\ conn[head[i]] = want[p]
          /\ head' = RemoveAt(head, i)
          /\ Freed(head[i])
    /\ asked' = [asked EXCEPT ![want[p]] = 0]
    /\ Goto(p, "dunlock")
    /\ UNCHANGED <<lock, cur, want, info, returned>>

\* The entry is unlinked, flushed from connections.cur and freed; nothing
\* outside the lock can tell these apart.
Drop(p) ==
    /\ pc[p] = "remove"
    /\ \E i \in 1 .. Len(head) :
          /\ conn[head[i]] = want[p]
          /\ head' = RemoveAt(head, i)
          /\ cur' = IF cur = head[i] THEN Null ELSE cur
          /\ Freed(head[i])
    /\ asked' = [asked EXCEPT ![want[p]] = 0]
    /\ Goto(p, "dunlock")
    /\ UNCHANGED <<lock, want, info, returned>>

DropNothing(p) ==
    /\ pc[p] = "remove"
    /\ Of(want[p]) = {}
    /\ Goto(p, "dunlock")
    /\ UNCHANGED <<lock, list, block, want, info, returned, asked>>

UnlockDisconnect(p) ==
    /\ Releases(p, "dunlock", "idle")
    /\ want' = [want EXCEPT ![p] = Null]

-----------------------------------------------------------------------------

Step(p) ==
    \/ ReadCur(p) \/ CompareCur(p)
    \/ LockForLookup(p) \/ Found(p) \/ Allocate(p) \/ AllocationFails(p)
    \/ Fetch(p) \/ Link(p) \/ UnlockLookup(p) \/ Return(p)
    \/ LockForDisconnect(p) \/ Drop(p) \/ DropNothing(p) \/ UnlockDisconnect(p)

Next ==
    \E p \in Proc :
        \/ \E c \in Conn : Lookup(p, c) \/ Disconnect(p, c)
        \/ Step(p)

Spec == Init /\ [][Next]_vars

\* A thread keeps running inside the library, and a mutex that is free again
\* and again is not denied to a waiting thread for ever.
FairSpec ==
    /\ Spec
    /\ \A p \in Proc : WF_vars(Step(p)) /\ SF_vars(LockForLookup(p))

-----------------------------------------------------------------------------
(* Properties.                                                              *)

\* The types of all variables.
TypeOK ==
    /\ lock \in Proc \cup {Null}
    /\ head \in Seq(Entry)
    /\ cur \in Entry \cup {Null}
    /\ heap \subseteq Entry
    /\ conn \in [Entry -> Conn \cup {Null}]
    /\ answer \in [Entry -> Answers \cup {Garbage}]
    /\ pc \in [Proc -> {"idle"} \cup LookupStates \cup DisconnectStates]
    /\ want \in [Proc -> Conn \cup {Null}]
    /\ info \in [Proc -> Entry \cup {Null}]
    /\ returned \in [Proc -> Answers \cup {Garbage}]
    /\ asked \in [Conn -> Nat]

\* connections.lock is held exactly in the critical sections (cache.c:191-193,
\* 218-232): no two threads search, extend or cut the list at a time.
LockDiscipline == \A p \in Proc : lock = p <=> pc[p] \in Holds

\* A connection has at most one entry, although the list is searched and
\* extended by threads that all missed the unlocked test (cache.c:138-173).
OneEntryPerConnection ==
    \A i, j \in 1 .. Len(head) : conn[head[i]] = conn[head[j]] => i = j

\* The server is asked once per connection, until the connection is dropped.
AskedOnce == \A c \in Conn : asked[c] <= 1

\* connections.cur never outlives the entry it points to (cache.c:225-226).
CurListed == cur # Null => cur \in Range(head)

\* The block a lookup goes on to read without the lock is an entry that is
\* linked: connections.cur was flushed before the entry was freed
\* ("flush cache", cache.c:226), so no lookup reads what disconnect freed.
LookupsReadListedEntries ==
    \A p \in Proc :
        pc[p] \in {"compare", "answer"} /\ info[p] # Null => info[p] \in Range(head)

\* Every lookup returns, however the threads contend for the lock.
LookupReturns == \A p \in Proc : pc[p] = "read" ~> pc[p] = "idle"

-----------------------------------------------------------------------------
(* What the cache promises: RenderAnswers.                                  *)

\* What a server may answer: nothing usable, unless every required depth is
\* advertised or can be created on every screen; old servers have no
\* sub-pixel data.
PossibleAnswers(c) ==
    {Absent} \cup
    {a \in [version : {"old", "new"}, formats : {"plain", "subpixel"}] :
        /\ \A screen \in Screens[c] : REQUIRED_DEPTHS \subseteq
                                     screen.advertised \cup screen.creatable
        /\ a.version = "old" => a.formats = "plain"}

\* The abstract state: what the linked entries hold, and who looks up what.
Known == [c \in Conn |-> {answer[e] : e \in Of(c)}]
LooksUp == [p \in Proc |-> IF pc[p] \in LookupStates THEN {want[p]} ELSE {}]

Abstract == INSTANCE RenderAnswers WITH
    Possible <- [c \in Conn |-> PossibleAnswers(c)],
    Nothing  <- Absent,
    known    <- Known,
    op       <- LooksUp

\* The lookups of a connection that is not disconnected meanwhile agree with
\* each other and with what that connection's server can have said.
ImplementsRenderAnswers == Abstract!Spec
=============================================================================
