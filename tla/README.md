# xcb-util in TLA+

This directory specifies the parts of xcb-util that keep state or compute
something that is easy to get wrong, checks them with TLC on small instances,
and proves the most important results for every value of the constants with
TLAPS. `PROJECT.json` maps every definition to the lines of C it stands for and
lists runs, mutants, hazards, findings and theorems.

## 1. The system

xcb-util is a set of small C libraries on top of libxcb. They share no state
with each other, except that `property.c` lives in a table of `event.c` and
`icccm.c` can register with `property.c`; each works on structures that its
client owns, or on a list of its own (`renderutil/cache.c`), and on the
connection.

| part | state | operations | what is hard |
|---|---|---|---|
| `reply/reply.c` | list of registered handlers, mutex, condition variable, one thread | register, start and stop the thread, wait for the next reply and call its handler | two kinds of threads; the list's head is used while the mutex is released; cancellation in three places |
| `renderutil/cache.c` | global list of connections with version and formats, `connections.cur`, mutex | query version, query formats, disconnect | an unlocked first test; list cells are freed |
| `keysyms/keysyms.c` | a cookie or a reply, in a union | alloc, lookup, refresh, free; keysym of a key, keycodes of a keysym | a reply on its way while the mapping changes; eight bit counters; tables of cases |
| `property/property.c` | list of property handlers, default handler | init, set, wipe; handle a PropertyNotify | the value is fetched later than it was announced, and may be gone |
| `event/event.c` | tables of event and error handlers | set, dispatch, the two loops; names of events, errors and requests | tables that nobody initialises; loops inside of handlers; masks and codes as indices |
| `renderutil/glyph.c` | a growing buffer of glyph runs | create, append, change glyph set, send, free | the buffer is doubled once, whatever is appended |
| `image/xcb_image.c`, `xcb_pixel.h` | images: header and storage; shared segments | create, get and put pixels, cut, convert, native format, PutImage, GetImage, shared memory, bitmap data | bit, byte and nibble orders, units, pads, planes; who frees the storage; a server that reads the segment later |
| `icccm/icccm.c` | structures of the client and of a window manager | set, change, get and decode window manager properties; watch them | lengths and formats of replies; old contents of a structure; rival flags |
| `aux/xcb_aux.c`, `aux/xcb_bitops.h` | none | searches in the setup, value lists, line attributes, colour names, bit operations | nested iterators, order of bits, shifts |
| `renderutil/util.c` | none | searches for picture formats and visuals | counting matches behind eleven conditions |
| `atom/` | none | generated tables | |

Interactions: `property.c` installs a handler in the table of `event.c` and is
called back by its loop (`PropertyWatch` composes the two); `icccm.c` registers
with `property.c` (`WindowHints` composes a watcher with the property it
watches); `image` uses `aux`; everything else only meets in libxcb, which keeps
answers and events until they are collected.

### What makes each part correct

- *Reply handlers*: a registered handler is neither lost nor freed while it is
  used; it is retired when, and only when, nothing more will come for its
  request; the mutex is released on every path, also out of a cancelled thread;
  no wakeup is missed; stop and register return.
- *Render cache*: one entry and one question per connection; lookups agree until
  the connection is dropped; nobody reads an entry that was freed.
- *Key symbols*: one mapping is owned at a time and the cookie and the reply are
  never confused; after a change the new mapping is used. *Keysym tables*: the
  columns follow the protocol, and the search terminates with all matches.
- *Property handlers*: in the end the handlers know the current value; replies
  and events are not mixed up; wiping and initialising leave no freed list behind.
- *Event loop*: each event and error is given once, in order, to the handler set
  for its kind at that time, and freed once, after its handler returned, however
  loops are nested; loops drain the queue and end with the connection. The
  labels agree with the typed handlers of the header.
- *Glyph streams*: what was announced fits; the server draws what was asked.
- *Images*: pixels keep their values in every format, natively as the protocol
  says; writes stay in the storage; storage and structures have one owner each,
  whichever allocation fails. *Shared memory*: a picture that was put is drawn as
  it was; the client is told when the segment is its own again.
- *Window properties*: a window manager learns what stood on the window as a
  whole, never a field left over from before; a watcher knows the last readable
  hints in the end; replies are owned by xcb or by one structure.
- *Searches and helpers*: what is there is found, the first or the one counted
  to, and nothing else; a request sets the parameters that were added.

## 2. Modules

| module | models | based on it |
|---|---|---|
| `ReplyHandlers` | `reply.c` | `MCReplyHandlers`, `ReplyHandlersProofs` |
| `RenderCache` | `cache.c` | `RenderUtil`, `MCRenderCache` |
| `RenderAnswers` | what the cache promises (abstract) | implemented by `RenderCache` |
| `KeySymbols` | life of the key symbols in `keysyms.c` | `KeySymbolsProofs` |
| `PropertyWatch` | `property.c` in the loop of `event.c` | `PropertyWatchProofs` |
| `EventTable` | tables and loops of `event.c` | `EventTableProofs` |
| `EventDispatch` | what the loops promise (abstract) | implemented by `EventTable` |
| `GlyphStream` | `glyph.c` | `RenderUtil` |
| `RenderUtil` | composes `RenderCache` and `GlyphStream` | `MCRenderUtil`, `RenderUtilProofs` |
| `ImagePixels` | pixels and formats in `xcb_image.c` | `FastPixels` |
| `FastPixels` | `xcb_pixel.h`, on the images of `ImagePixels` | `MCImagePixels`, `ImageProofs` |
| `ImageStorage` | ownership of structures and storage in `xcb_image.c` | `ImageMemory` |
| `SharedImages` | `xcb_image_shm_put` and `_get` | `ImageMemory` |
| `ImageMemory` | composes `ImageStorage` and `SharedImages` | `ImageProofs` |
| `WindowHints` | WM_NORMAL_HINTS and WM_HINTS in `icccm.c`, asked for or watched | `ClientWindow` |
| `HintBoard` | what hints are for (abstract) | implemented by `WindowHints` |
| `WindowProperties` | names, class, protocols, transient windows in `icccm.c` | `ClientWindow` |
| `ClientWindow` | composes `WindowHints` and `WindowProperties` | `MCClientWindow`, `ClientWindowProofs` |
| `KeysymTable` | columns, cases, search in `keysyms.c` | `Lookups` |
| `Searches` | loops that return the first thing they find | `SetupLookups`, `PictFormats` |
| `SetupLookups` | searches of `xcb_aux.c` | `Lookups` |
| `PictTemplates`, `PictFormats` | `util.c`: the standard formats, the searches | `Lookups` |
| `RequestHelpers` | value lists, parameters, line attributes, colour names of `aux` | `Lookups` |
| `EventLabels` | the labels of `event.c` beside the typed handlers of `xcb_event.h` | `Lookups` |
| `Lookups` | composes the five parts above: keysyms, visuals, formats, requests, labels | `MCLookups`, `LookupProofs` |

`ClientWindow`, `ImageMemory`, `RenderUtil` and `Lookups` put components together
that share no state: their states would only multiply. An instance therefore
begins by choosing one part (`hinting`, `shares`, `streaming`, `part`), whose steps
it takes; a property
of the composed module is the conjunction of those of its parts. Components that
do interact are composed in one state: thread and clients in `ReplyHandlers`,
event loop and property handlers in `PropertyWatch`, loops inside handlers in
`EventTable`, general and inline pixel functions in `FastPixels`, client, window
and watcher in `WindowHints`.

Definitions named "Mutant" are variants of the next definition with a plausible
bug; no specification uses them. Each shows that some property would notice.

**ReplyHandlers.** `list` is the linked list from `h->head`, `lock` the holder
of the mutex, `call[n]` the progress of the `xcb_reply_add_handler` that
allocated node `n`, `pc`, `cur`, `got` and `nested` the place and the locals of
the thread, `cancel` a pending `pthread_cancel`. Each critical section is split
where another thread can observe it: lock, insert, broadcast and unlock are
four steps, the wait, the handler, the second lock and the end of the round are
as well. `Cancelled` applies at the three cancellation points; `UnwindLock` and
`UnwindUnlock` are the two cleanup handlers. A handler may register further
handlers (`AddFromHandler`). libxcb and the server appear as `answers`: what was
sent for each request, of which `taken` have been handed out.

**RenderCache.** `head` is the list, `cur` is `connections.cur`, `heap` the
allocated blocks. The unlocked test is two steps, reading the pointer
(`ReadCur`) and reading through it (`CompareCur`). A block that was freed may be
allocated again, and reading a free block gives anything. `Fetch` is the two
round trips under the lock with every outcome of the server. The constant
`Exclusive` says whether clients keep disconnects apart from all lookups.
`RenderAnswers` knows neither list nor lock: a lookup returns what the server of
that connection can have said, always the same until the connection is dropped.

**KeySymbols.** `wire`, `stream`, `answers` and `events` are requests, what the
server sent, and what xcb holds; `tag`, `cookie` and `reply` are the fields of
the structure; `heap` are the replies that are allocated. One client thread,
which may free, allocate again, look up and handle events in any order.

**PropertyWatch.** The server's `value`s, the two queues, the list `head` with
`freed`, and `def`. `HandleEvent` runs up to the round trip, `CallHandler` from
the reply on; between the two other clients act. `told` is what the handlers
were told last. The table of event handlers is taken to be zeroed by the client.

**EventTable.** `event` and `error` are the tables, restricted to the entries of
the types and codes that xcb delivers; an entry may be `None` (zeroed) or
`Garbage` (not). `stack` are the loops that run, each with the event its handler
has: `Enter` calls a loop, from the client or from a handler, `Call` and `Return`
begin and end a handler, `Discard` is an event without one. `heap` are the events
that are allocated. `EventDispatch` has neither loops nor heap: a wanted handler
per kind, the pending kinds, and what was given.

**GlyphStream.** The words of the stream and the size of the buffer; `promised`
counts down what was announced and `kept` says whether the client keeps to it.
`Served` is the server: it reads the words one by one, `AfterWord` says what it
makes of the next one, from the Render protocol and independently of the code.

**ImagePixels.** The library moves bits and does not compute with them, so a bit
is its origin, and storage a function from places to bits. `WirePlace` is
written from the protocol's description of images, independently of the code,
and is what a server reads and writes. **FastPixels** adds the eight inline
pairs as further ways to put and get pixels of the same images; `Suits` says
which layout each of them is for.

**ImageStorage.** Blocks are numbered and numbers are used again, as addresses
are; the client's own arrays are negative numbers that must never be freed. Each
function that allocates is the set of its outcomes, so that every allocation may
fail. **SharedImages** keeps the requests the server has not got to with the
picture that was in the segment when they were made.

**WindowHints.** A structure is a set of flags and a record of fields, a property
is a type, a format, a length and such a structure; `Decode` is what the two
`_from_reply` functions do with it, including fields that the property is too
short for (`Torn` when it ends inside of one). `last` remembers the reply that
was decoded, `outside` a write past the structure. `HintBoard` says what all this
is for: wishes, a board, and a reader that learns all of it or nothing.
**WindowProperties** does the same for properties whose values stay in the reply:
the structure points into it until it is wiped; what lies behind a value in
memory is `Beyond`.

**KeysymTable.** Rows of keysyms; `Visit`, `NextColumn` and `Finish` are the
iterations of the search, with the counter modulo `KeycodeLimit`.
**SetupLookups**, **PictFormats** and **RequestHelpers** hold the searches and
helpers as operators, with an action that asks one question or builds one
request, and compare them with references written as sets and quantifiers.
**EventLabels** has a client with the typed handlers of `xcb_event.h` log what it
handles, by the labels.

## 3. Runs

`tlc -config X.cfg M` with the module given in `PROJECT.json`.

| run | instance | shows |
|---|---|---|
| `ReplyHandlers.cfg` | 3 registrations, 1 reply and an error each, 1 start, list may be empty, spurious wakeups | no freed node is used, no registration or wakeup is lost, no reply is dropped: `NoUseAfterFree`, `NoLostRegistration`, `NoMissedWakeup`, `NoReplyDropped` |
| `ReplyProgress.cfg` | 2 registrations, 2 replies, 2 starts | the thread runs until it is stopped; handlers retire; stop and register return: `RunsUntilStopped`, `EveryHandlerRetired`, `CallsReturn` |
| `RenderUtil.cfg` | 2 threads, 2 connections, 2 blocks; 4 calls, runs of 0 to 7 glyphs, announcements 0 to 5 | no freed entry is read, refinement of `RenderAnswers`, lookups return; no overrun, right drawing: `LookupsReadListedEntries`, `ImplementsRenderAnswers`, `LookupReturns`, `PromiseSuffices`, `DrawsWhatWasAsked` |
| `RenderCacheFlush.cfg` | disconnects beside lookups | **violation**: a lookup reads a freed entry |
| `KeySymbols.cfg` | 3 keyboard changes, 1 other, 2 allocations | ownership of answers, crashes, staleness: `AnswersAreOwned`, `CrashNeedsFault`, `CaughtUp` |
| `PropertyWatch.cfg` | 2 properties, 2 changes, 2 handlers, 2 initialisations, forged notifications | handlers catch up, queues drain, no freed list is read: `CaughtUp`, `OneReply`, `ListIsLive`, `Settles` |
| `EventTable.cfg` | 1 event type sent by a client, errors with 2 codes, 2 handlers, 3 events, loops 2 deep | events are owned, refinement of `EventDispatch`, loops proceed: `EventsAreOwned`, `GivesAsPromised`, `LoopsProceed` |
| `Images.cfg` | 95 formats, 3 servers, images of 9 x 2; for the inline functions of 35 x 2 | pixels, wire format, writes, agreement of both kinds of functions: `PixelsAreKept`, `PutDrawsPicture`, `StaysNearStorage`, `FastAgrees` |
| `ClientWindow.cfg` | 2 settings, 2 changes and 2 requests of hints, foreign properties of 3 lengths each; values of up to 5 elements | flags are backed by fields, refinement of `HintBoard`, watchers catch up, replies are read and owned: `FlagsAreBacked`, `HintsArrive`, `Watched`, `RepliesAreRead` |
| `ImageMemory.cfg` | 3 depths, 2 blocks, 2 images; 3 pictures and 4 requests on a segment | storage is owned, pictures are whole, waits end: `StorageIsOwned`, `PicturesAreWhole`, `Completes` |
| `Lookups.cfg` | 2 keys with rows of 1 or 2 keysyms, equal rows up to 5, each keysym alone; 2 depths of up to 3 visuals; 2 picture formats; 2 parameters; labels of 14 types, 8 codes, 13 requests | what is looked up is found, and nothing else: `ColumnsFollowProtocol`, `FoundExactly`, `SearchReturns`, `LookupsFind`, `TablesAgree`, `SetsWhatWasAdded`, `DigitsLeadComponents` |

Why the bounds suffice.

- *Reply handlers*: three registrations let one be inserted before, at and
  behind the node the thread is using; two starts cover what a stopped thread
  leaves behind; replies differ only in whether another follows.
- *Cache*: two threads, two connections and two blocks give every race of two
  lookups, of a lookup with a disconnect, and the reuse of a block.
- *Key symbols*: three changes let one precede a request, one overtake it and one
  follow.
- *Properties*: two changes of two properties give a deletion and a new value
  under way together, one of them overtaken by the request for the other.
- *Event table*: three events put one in the outer handler, one in the inner and
  one in the queue; 130 is the first type of the table with the bit of a client,
  127 and 255 would share an entry if codes were masked.
- *Glyph streams*: the marker and the longest run are scaled down together (7, 5
  and 6 for 255, 252 and 254).
- *Images* nine pixels wide leave a partial byte and partial units of 8, 16 and
  32 bits, with one, two or four bytes per row and padding; two rows and several
  planes show writes into a neighbour. Every format is a starting point, so one
  conversion before a put and a get suffices. Among the formats are those whose
  pixels may leave their storage: bitmaps of units larger than their pad, planes
  of depth 24, and depth 1 at 8 bits per pixel, which a server's format for
  depth 1 turns into such bitmaps. Rows of 35 pixels have two units of 32 bits,
  the second partial.
- *Window properties*: too short, the length before ICCCM version 1, in full and
  too long are all the cases the decoders tell apart; two changes give an old
  structure for a newer property to be decoded into. Five elements hold two
  terminated strings and one element more.
- *Image memory*: a bitmap, a depth with a native format and one without; two
  images, one made from the other; a put, a get and a put behind it. Bitmap data
  may suit the server as it is, so that there is one image to destroy, or not.
- *Lookups*: keys of one and two keysyms cover the trimming, equal rows the
  columns of both groups and beyond; the highest keycode is the last of the
  counter; two depths with three visuals each make both iterators move; labels
  include both sides of every boundary of the tables.

Deadlock is checked for the reply handlers and for renderutil, where a stream that
is freed just ends. The other clients are
free to stop, and the bounds stop them.

### Fairness

- *Reply handlers*: weak fairness of the thread, of calls under way, of joining a
  cancelled thread (the client is inside `xcb_reply_stop_thread`) and of the
  server finishing each request. Spurious wakeups and empty lists at the start
  are excluded where progress is asked, because they crash the thread.
- *Cache*: weak fairness of each thread inside the library; strong fairness of
  taking the mutex for a lookup, as a mutex that is free again and again is not
  denied to one thread for ever.
- *Event loop*: a loop that can go on does, and handlers return. *Property
  handlers*: the server answers, xcb reads, the loop keeps running.
- *Window hints*: the server answers (`Serve`), a window manager that was told of
  a change asks for it and takes the reply (`Notice`, `Receive`), as its loop
  does. Clients need not change anything.
- *Shared memory*: the server gets to every request (`Serve`); the function that
  waits returns once it has its answer (`Return`).
- *Keysym search*: the loop keeps running.

## 4. Proofs

All theorems are checked by TLAPS to the last leaf, with no assumption but the
named ones on constants and those that a theorem states.

**ReplyHandlersProofs**, for any number of registrations, replies and starts.
`InsertHandlerResult` and `RemoveHandlerResult` say what the two list operations
do to order and membership. The inductive invariant `Safe` joins types, mutex
and order with `ListInv` (no node twice, listed nodes were inserted and are not
freed), `CurInv` and `NoUseAfterFree`: that removal by request number unlinks the
node at hand needs the order and that the node is still listed, and that it is
still listed needs that only the thread removes. From it: `TypeCorrect`,
`MutualExclusion`, `ThreadUsesListedNodes`, `ListStaysSorted`; with one more step
lemma each `NoWakeupIsMissed`, `RegistrationsAreKept` (assumes distinct request
numbers), `ThreadRunsUntilStopped` (assumes that the thread is started with a
handler registered and not woken spuriously: the absence of finding 1) and
`RetiredAfterLastReply` (which needs that an error is the last answer of a
request, and that what the thread has seen stays true).

**RenderUtilProofs**, on the cache, for any number of threads, connections and
blocks, also without `Exclusive`: `Safe` adds to types and mutex that a thread about to link
an entry owns it and that it is the connection's first (`PendingNew`), and that a
question to the server is on record as an entry or such a thread
(`AskedOnRecord`). From it: `TypeCorrect`, `MutualExclusion`,
`NoDuplicateEntries`, `ServerAskedOnce`, `CurNeverDangles`. With `Exclusive`,
`LookupsNeverReadFreedEntries` and `CacheImplementsAnswers`: every step is a step
of `RenderAnswers` or leaves its variables alone. `PartsBehave`: `RenderUtil` adds
nothing to cache and streams, so what holds of their specifications holds of it.
On glyph streams, with the assumptions of `GlyphStream` (`StreamAssumption`):
`Room`, the buffer still holds three words for each glyph and change to come, is
inductive for every grouping into runs, all limits and a realloc that may fail;
hence `AnnouncementSuffices`. `KeepsUp` is inductive, too: a server that has read
the stream so far is at the end of a run, has drawn what the client has and uses
the client's glyph set; and as long as the client has not chosen a size of glyphs,
so it is for every size. A run is drawn as it was meant whatever the number of its
words (`RunIsDrawn`), as no number of glyphs in range is the marker of a change
(`LimitAssumption`, `glyph.c:105`); a change is taken (`ChangeIsTaken`). What the
server makes of a stream is defined by recursion over its words; that it is what
it makes of the last word after the rest (`ServedWord`) follows without induction:
no length is the least without such a function (`ReadsExists`) and no word the
first where two of them differ (`ReadsOnce`). Hence `StreamsAreDrawn`.

**KeySymbolsProofs**, for any number of changes of the mapping and of
allocations. `Safe` follows each request on its way: it is on the wire, or its
answer is in the stream or with xcb, in one place only (`OnePlace`), and as long
as the connection is up the answer the client counts on is in one of them
(`Underway`). Errors come from the server only (`ErrorsAreFaults`), and a mapping
that is older than the server's is followed by a notify, in the stream behind it
or among the events (`InSync`). From it: `TypeCorrect`, `OneMappingIsOwned`,
`AnswersAreCollected` and, of both, `AnswersHaveOneOwner`; `CrashesNeedFaults`;
and `MappingIsCurrent`, with the exception the code has: a notify that is
handled while the request is pending is ignored (`keysyms.c:307`).

**PropertyWatchProofs**, for any properties, handlers, changes and
initialisations. `Typed` are the types, `ListInv` gives `ListStaysLive`: between
wiping and initialising no event is handled, and the only garbage is in `def`.
`Track` counts what is on its way for the one request: it is on the wire, or one
reply is in the stream, or the answer is there; hence `RepliesAreTaken`.
`InSync` is about one property at a time: its last change is in the queues
(`Coming`), or the value that is being fetched is newer (`Fetching`), or the
handler knows (`Knows`); a deletion needs that the last notice of it is one
(`LastDeletion`). It gives `HandlersCatchUp`, assuming that no client forges
deletions, which would be believed.

**EventTableProofs**, for any types, codes, handlers, numbers of events and depth
of nesting. `Owned`: the allocated events are those in the frames of the stack
and those in the queue, which have none in common, and none is twice in either;
it is what makes "freed once, after its handler returned" inductive, and gives
`EveryEventIsOwned`. `LoopImplementsDispatch` is the refinement of
`EventDispatch`: `Known` has the elements of the queue be of kinds the tables
have entries for; `SetEvent`, `SetError` and `EntryIsWanted` say that the entry
written and the entry read for an event are the ones of its kind, that is, that
masking the type and subtracting two is injective on kinds.

**ImageProofs**, on pixels, for images of any size, all formats that
`ImageFormat` admits, which are those that `xcb_image_create` accepts, all servers
that `ProperServer` admits and any number of steps. `Kept` is inductive. It has
two sides. `PixelInv` is that of images whose pixels lie inside their storage
(`StoresInside`): the header is proper, the storage has at least its size and at
most one byte more, the picture that is read is the one that was drawn, and so is
what a server was last sent. `Overwritten` is that of the others: a conversion to
one leads there (`Overwrites`), and no step follows (`OverwrittenEnds`). The
first rests on

- the layout: a bit of a pixel lies inside the storage (`PlaceInside`), two
  different ones in different places (`PlacesDiffer`), by strides that are
  multiples of the unit and hold a row (`StrideFacts`) and by flips of indices
  that stay inside a unit and are their own inverses (`XorFacts`);
- storage in layers: a cell has what the uppermost layer puts there (`Layers`,
  `LayerFacts`), so a picture whose bits are put apart is read back
  (`ScanFacts`, `PaintingFacts`, `PutAllFacts`);
- swapping, the conversion in place: going over rows and units as the code does
  moves the place of every bit to its place in the other orders
  (`SwapFollowsLayout`, `SwapFacts`), since undoing one exclusive or and doing
  another is a third (`XorXor`); the byte behind the last row is all it adds;
- the wire: where the protocol has a bit is where an image in the server's
  orders has it (`UnitBytes`, `WireIsPlace`), and the image that
  `xcb_image_native` or `xcb_image_create` makes is one (`NativeIsWire`,
  `CreatedIsWire`);
- the inline functions of `xcb_pixel.h`: on the layout that each suits they go to
  the same places (`FastPlaces`).

Hence `PixelsStay`, `FastReadsAgree`, `ServersDrawThePicture` and
`WritesStayNear`. They assume `OneOrderOf24`, as conversion does not swap 24 bits
per pixel (finding 5), and nothing else beyond the assumptions on the constants;
`ProofsApply` in `MCImagePixels` has TLC evaluate that the instance that the run
checks is such a one. That the properties are about images inside their storage
is the part of findings 6 and 7 that no proof can mend.

On storage, for any sizes and numbers of blocks and
images. `Owned(s, own)` says that in a state of the heap every block is in `own`
or the base of one image, and that each image has its data in such a block, in
the client's memory or nowhere, and enough of it. One lemma for each function
(`OwnsCreated`, `OwnsNative`, `OwnsGot`, `OwnsPart`, `OwnsBitmap`, `OwnsPixmap`,
`OwnsDestroyed`) has it keep `Owned` for the `own` that the caller is left with,
in every outcome, that is, whichever allocation fails; they are put together as
the functions call each other. `LeastNumber` gives new blocks their number,
`Takes` and `TakesNew` hand the result over to the client. A call that follows a
null pointer ends the program (`Crash`). Hence `StorageHasOneOwner`.

On shared memory, for any number of pictures, puts and gets. `UnderWay`:
every request under way was made for the picture that is in the segment now. It
is inductive because the client draws only when nothing is under way, and a get,
for which the server changes the segment, is the last request until it returns;
`Counted` is how the client knows. With `Told`, about what a get returned, it
gives `SegmentsAreWhole`.

**ClientWindowProofs**, for any values, lengths and numbers of calls. `FieldsFit`
and `FlagsTell` are the facts of the two tables of fields that decoding relies
on, `DecodedFields` says which fields it fills. `Backed` is inductive with the
types of structures, properties and replies alone, and gives
`FlaggedFieldsWereSent`. `HintsDoArrive` is the refinement of `HintBoard`:
`SetGives` has every setter be one wish that replaces its rivals, `WholeIsRead`
has the client post all of its wishes, `ServedIsRead` has a reply that is cut off
still read as the property does, and `DecodedIsRead` has the decoder and somebody
who knows ICCCM read the same. Both assume `FormatsAreTold`: others write
WM_NORMAL_HINTS, if at all, in 32 bits, as `icccm.c:440` takes other formats, too
(finding 13); of WM_HINTS nothing is assumed. `UnreadableAssumption` keeps "no
hints" apart from hints. For the other properties, `Owned` counts the replies and
`Read` says what the held one is read as. Two strings are found where the
client wrote them (`StringsAreRead`) because, by counting, a terminator is left
behind the first. `ValueAssumption` says that what lies behind a value in memory
is told apart from its elements. Together they give `RepliesAreOwnedAndRead`.

**LookupProofs**, on keysyms, for any mapping. `Scan` is the inductive invariant
of the search: the result has one keycode for each of the `Past` places, at the
place's rank, and the counter is a keycode or what follows the highest one, 0 if
the counter ends there; that the rank of the place at hand is the length of the
result is counting (`PastRank`). Hence `SearchFindsExactly`, with the room of the
array. `RowFollows` is the agreement of `get_keysym` with the protocol for a row
of any length, by way of the last keysym that is not NoSymbol (`RowOfFour`). The
table of cases enters as two facts, that its ranges are apart from each other
(`RangesApart`) and from Armenian; `CasesConsist` then needs that a keysym is not
one of the three capitals that 1974, 1978 and 2035 would have (`LowerOnly`):
keysymdef.h assigns no keysym in their places, and `ColumnsFollow` assumes that
no key begins with one (`CapitalsAreAssigned`).
`FourColumnsFollowProtocol` does without.

On labels, `Logged` says which entries the log comes from; `EventNames`,
`ErrorNames` and `RequestNames` compare the tables entry by entry, and
`LabelAssumption` keeps NULL apart from strings: `LabelsAgree`. On requests,
`FilledIn` relates structure and mask to what was added; that packing and
unpacking meet at the same bit is that ranks of bits differ (`RankFindsBit`):
`RequestsSetWhatWasAdded`.

What a loop computes is a function defined by recursion on its rounds. That there
is such a function, and what its values are, is proved by the least
counterexample (`LeastOf`). So for the names of colours: `NumberIs` gives the value
of up to four digits, `DigitsLead` that they come back when 16 bits are taken
apart, `DigitsAreLeading` the property, by the invariant that what the client
looks at is a name as it was parsed (`Parsed`).

Visuals and picture formats are searched by nested loops that return at the first
hit (`FirstOfIs`). `FirstPlaceIs` says that two of them return the first place
that passes, in the order of the iterators; `VisualtypeFound` says where the loop
of `xcb_aux_get_visualtype` gives up. That the format found by a count is the one
that as many matching ones precede is counting again: what is left of the count
after a round is the count less the matches so far (`FormatFound`), and there is a
round at which any smaller number of them has been passed (`RoundOfCount`).
`StandardMatches` relates the templates to the bits of a pixel: a channel has the
right bits if its mask has the right width and, if it has any, its shift is
right (`ChannelFits`), because masks of different widths differ (`PowersApart`).
The invariants `SetupFinds` and `PictFinds` say besides that the setup and the
reply stay what they are, and give `LookupsAreRight`. `LookupAssumption` has what
the protocol says of them: ids are positive, a mask is 0 to 16 ones from the
lowest bit on, and NULL is neither a place nor a screen nor a reply.

Some of these results (`MutualExclusion`, `ListStaysSorted`,
`NoDuplicateEntries`, `ServerAskedOnce`, `CurNeverDangles` and the
`TypeCorrect`s) are not checked by a run of their own: they are the
strengthenings that those listed with a property rest on.

Only model-checked: liveness under fairness (`EveryHandlerRetired`,
`CallsReturn`, `LookupReturns`, `Settles`, `LoopsProceed`, `Watched`,
`Completes`, `SearchReturns`), which the prover has no backend for.

## 5. Findings

Where the code does something else than its comments say. One run shows the
violation; the others state the property in the form that holds, or leave the
case out by a constant, so that the rest can be checked. The sentence on each
says what makes the property fail.

1. `reply.c:87`: the thread reads `cur->request` of an empty list when it is
   started before a registration, or woken spuriously. `ReplyProgress.cfg` with
   `StartsEmpty` or `SpuriousWakeups` TRUE violates `RunsUntilStopped`.
2. `cache.c:188`: `connections.cur` is read and used without the lock, while a
   disconnect of another connection frees the entry (`RenderCacheFlush.cfg`).
3. `property.c:98`: `memset(prophs, 0, sizeof(prophs))` clears a pointer's worth
   of the structure; the default handler keeps what the memory held
   (`PropertyWatch.cfg` reaches the crash that `ListIsLive` names).
4. `event.c:38`: `xcb_event_handlers_init` leaves the tables as they are; an entry
   nobody set is called (`EventTable.cfg` reaches the crash at which
   `GivesAsPromised` stops).
5. `xcb_image.c:872`: conversion at 24 bits per pixel never swaps bytes.
   `PixelsAreKept` fails with both byte orders of 24 bits in `MCFormats`.
6. `xcb_image.c:402`: converting planes of depth 24 to native format makes an
   image whose storage is too small; fetching planes from a server and asking for
   the native format of the same server is enough. `StaysNearStorage` fails
   without its condition `StoresInside`, as for the next one.
7. `xcb_image.c:215`: converting a Z image of depth 1 to native format asks for
   the default unit, 32, and the server's pad. With a pad of 8 or 16 and
   the least significant byte first, pixels land behind the row and the storage.
   (With other pads the image is well-formed, but not the native one of a server
   with another unit or bit order: `xcb_image_native` would convert it again.)
8. `xcb_image.c:270`: `base` without `bytes` is refused, although the comment says
   that the bytes are defaulted.
9. `xcb_image.c:332`: `xcb_image_get` of some planes reads through NULL;
   `StorageIsOwned` stops there.
10. `xcb_image.c:1005`: `xcb_image_subimage` passes its last arguments on to
    `xcb_image_create`, "unaltered" (`xcb_image.h:462`); with neither `base` nor
    `data` and `~0` bytes that makes an image without storage, and the pixels are
    put through NULL. `StorageIsOwned` stops there, too.
11. `xcb_image.c:521`: `xcb_image_shm_get` returns 1 on a broken connection.
    `PicturesAreWhole` fails without its exception for that.
12. `xcb_pixel.h:61`: `xcb_image_put_pixel_XY32M` and its get reverse bytes and
    bits, which suits bitmaps with the least significant byte and the most
    significant bit first, not the layout that the name states. `FastAgrees` is
    about the layout each function suits.
13. `icccm.c:440`: properties of 8 and 16 bit elements are accepted, and their
    lengths compared with numbers of words. `FlagsAreBacked` fails with 16 in
    `ForeignFormat`.
14. `keysyms.c:229`: a group of one caseless keysym has no second keysym, unlike
    the comment at `keysyms.c:112-131`.

One that depends on libxcb, which is not part of this repository, and is therefore
not shown by a run: `icccm.c` takes `xcb_get_property_value_length` for a number
of elements (it multiplies it with the format in lines 67, 447 and 637, compares it with
15, 18, 8 and 9, and takes it for a number of atoms in line 707). In the libxcb
that was released it counts bytes. With such a libxcb the `memcpy` at
`icccm.c:446` copies four times what the property has, from beyond the reply to
beyond the structure, the tests for short properties let properties of a quarter
of the length pass, and `name_len` and `atoms_len` are four times too large
(for 32 bit elements). Everything said here about window properties, the three
theorems of `ClientWindowProofs` included, is about the counting that `icccm.c`
relies on.

Smaller ones that properties state as they are: `xcb_image.c:848`, where
`d > dst_stride` lets the last row of a conversion write one byte behind the
storage; `xcb_image.c:570`, where the test of the coordinates lets `x == width`
and `y == height` pass; `xcb_image.c:368`, which asserts that a reply has exactly
as many bytes as the image, although replies are padded to four bytes, so that the
program ends on servers with smaller pads; `keysyms.c:307`, the ignored notify (`skipped` in `CaughtUp`);
`glyph.c:86`, where one doubling may be too small without an announcement; and
`xcb_aux.c:103`, where an index is compared with the iterator's shrinking rest:
`xcb_aux_get_visualtype` misses the later half of the first depth's visuals, and
never looks at the other depths (`VisualtypeMissesHalf`).

## 6. Not modelled

- `reply.c`: 32 bit wrapping of request numbers, and two handlers for one
  request; the theorem on registrations assumes them away. Non-blocking
  `process_replies`: nothing in the library calls it, and
  `xcb_reply_poll_for_reply` (`xcb_reply.h:90`) is declared but not defined.
- Failing malloc, except in the cache, in `_grow_stream` and for images.
- Sizes that overflow (`glyph.c:64`, `xcb_image.c:129`, `xcb_image.c:990`).
- `image`: pixels put at `x == width` or `y == height`, which
  `xcb_image_put_pixel` lets through; what a program does after a write beyond
  the storage, which is undefined; whether `assert(bytes == image->size)`
  (`xcb_image.c:368`) holds (the specifications let a client stop at any time, so
  the properties hold whether it ends the program or not); the contents of images
  got with some of their planes (the code crashes), parts of drawables and
  clipping, 4 bits per pixel on the wire. Most of `xcb_bitops.h` is arithmetic
  that C's operators define; the functions that the images use are modelled with
  them.
- `icccm`: a watcher that asks for more words than the structure has and is given
  them. `xcb_get_property_value_length` is taken to count elements, as
  `icccm.c:67` (which multiplies it with the format) and `icccm.c:707` (which
  takes it for the number of atoms) use it; a libxcb in which it counts bytes, as
  the released ones do, is outside of the model (end of section 5). WM_ICON_NAME and
  WM_CLIENT_MACHINE are WM_NAME with another atom.
- `keysyms`: the tests for classes of keysyms (`keysyms.c:313-358`) are
  comparisons with constants; `xcb_key_press_lookup_keysym` and its like pass
  their arguments on.
- `aux`: `xcb_aux_get_depth`, `xcb_aux_sync` and `xcb_aux_clear_window` are a
  single request or expression each.
- `atom/`: tables that m4 and gperf generate. Build and packaging.
- Cancelling a thread inside a handler leaks the reply; the model has the repeated
  call of the handler, not the memory. The pointers that lookups of the cache
  return are used outside of the library.

## 7. Plan

Done, in this order: `ReplyHandlers` and its proofs; `RenderCache` with
`RenderAnswers`, its proofs and the refinement; `KeySymbols` and its proofs;
`KeysymTable`; `PropertyWatch` and its proofs; `GlyphStream` and its proofs;
`ImagePixels`, `FastPixels`; `EventTable` with `EventDispatch`, its proofs and
the refinement; `WindowHints` with `HintBoard`, `WindowProperties`;
`ImageStorage`, `SharedImages` and their proofs; the lookups, helpers and labels;
the proofs about hints and properties with the refinement of `HintBoard`; the
proofs about keysyms, parameters and labels; the layout of images and the proofs
about pixels; the proofs about colours, visuals and picture formats.

Next:

1. Request numbers modulo a width in `ReplyHandlers`.
