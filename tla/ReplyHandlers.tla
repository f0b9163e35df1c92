--------------------------- MODULE ReplyHandlers ---------------------------
(***************************************************************************)
(* The asynchronous reply dispatcher of reply/reply.c.                     *)
(*                                                                         *)
(* Clients register a handler for the reply of a request they have sent    *)
(* (xcb_reply_add_handler); one background thread, started and stopped by  *)
(* the client, waits for the replies and calls the handlers.  The          *)
(* registrations form a linked list, ordered by request number, under the  *)
(* mutex h->lock; h->cond wakes a thread that found the list empty.  The   *)
(* thread drops the mutex while it waits for a reply and while it runs a   *)
(* handler, and may be cancelled at each of the three points where POSIX   *)
(* lets pthread_cancel take effect: in xcb_wait_for_reply, inside the      *)
(* handler and in pthread_cond_wait.                                       *)
(*                                                                         *)
(* One call of xcb_reply_add_handler is named by the node it allocates.    *)
(* libxcb and the X server are external: they answer the requests in the   *)
(* order of their numbers, each with some replies, then possibly an error; *)
(* a request is known to be complete once a later response is read.        *)
(*                                                                         *)
(* block is 1 throughout: no function of the library passes 0.             *)
(***************************************************************************)
EXTENDS Integers, SequencesExt

CONSTANTS
    Node,             \* the list nodes malloc can hand out: one per registration
    RequestNumber,    \* the request each of them is registered for
    Thread,           \* the reply thread, as holder of the mutex
    Null,             \* the NULL pointer; also "nobody" as holder of the mutex
    MaxReplies,       \* bound on the replies to one request
    MaxStarts,        \* bound on the calls of xcb_reply_start_thread
    StartsEmpty,      \* may the client start the thread before it registers?
    SpuriousWakeups   \* may pthread_cond_wait return without a broadcast?

ASSUME NodeAssumption ==
    /\ Null \notin Node
    /\ Thread \notin Node
    /\ Thread # Null

ASSUME RequestAssumption == RequestNumber \in [Node -> Nat]

ASSUME BoundAssumption ==
    /\ MaxReplies \in Nat
    /\ MaxStarts \in Nat
    /\ StartsEmpty \in BOOLEAN
    /\ SpuriousWakeups \in BOOLEAN

VARIABLES
    lock,     \* holder of h->lock: a registering call, Thread or Null
    list,     \* the nodes from h->head on
    freed,    \* the nodes given back to free()
    call,     \* how far the registration of each node has come
    pc,       \* where the reply thread is
    cur,      \* its local variable cur
    got,      \* what its last xcb_wait_for_reply returned
    nested,   \* the registration its running handler is making, or Null
    cancel,   \* is a pthread_cancel pending?
    starts,   \* how often the thread was started
    answers,  \* per request: the responses the server has sent
    taken,    \* per request: how many of them libxcb has handed out
    closed,   \* per request: will no further response come?
    broken    \* has the connection failed?

client  == <<call, nested>>
thread  == <<pc, cur, got>>
control == <<cancel, starts>>
server  == <<answers, taken, closed, broken>>
vars    == <<lock, list, freed, client, thread, control, server>>

Requests == {RequestNumber[n] : n \in Node}

CallStates   == {"idle", "locking", "inserting", "broadcasting", "unlocking", "returned"}
ThreadStates == {"none", "lock", "pick", "wait", "handler", "relock", "loop", "condwait",
                 "unwindLock", "unwindUnlock", "exited", "crashed"}

\* A registration holds h->lock in these states, and the thread in those.
CallHolds   == {"inserting", "broadcasting", "unlocking"}
ThreadHolds == {"pick", "loop", "unwindUnlock"}

Init ==
    /\ lock = Null
    /\ list = <<>>
    /\ freed = {}
    /\ call = [n \in Node |-> "idle"]
    /\ pc = "none"
    /\ cur = Null
    /\ got = "nothing"
    /\ nested = Null
    /\ cancel = FALSE
    /\ starts = 0
    /\ answers = [r \in Requests |-> <<>>]
    /\ taken = [r \in Requests |-> 0]
    /\ closed = [r \in Requests |-> FALSE]
    /\ broken = FALSE

\* Reading through NULL ends the process, and every thread with it.
Running == pc # "crashed"

-----------------------------------------------------------------------------
(* The list. *)

\* Where the walk "while(*prev && (*prev)->request < request)" ends on list l.
WalkEnds(l, request, p) ==
    /\ p \in 1 .. Len(l) + 1
    /\ \A i \in 1 .. p - 1 : RequestNumber[l[i]] < request
    /\ p <= Len(l) => RequestNumber[l[p]] >= request

\* insert_handler
InsertHandler(n) ==
    \E p \in 1 .. Len(list) + 1 :
        /\ WalkEnds(list, RequestNumber[n], p)
        /\ list' = InsertAt(list, p, n)

\* Mutant: the node is freed and stays linked.
FreeOnly(n) ==
    /\ freed' = freed \cup {n}
    /\ UNCHANGED list

\* Mutant: the head is unlinked, whichever node is freed.
UnlinkHead(n) ==
    /\ list' = Tail(list)
    /\ freed' = freed \cup {n}

\* remove_handler: "*prev = cur->next" unlinks n and whatever of the same
\* request number is listed before it; only n itself is freed.
RemoveHandler(n) ==
    \E p \in 1 .. Len(list) + 1 :
        /\ WalkEnds(list, RequestNumber[n], p)
        /\ \/ /\ p <= Len(list)
              /\ RequestNumber[list[p]] = RequestNumber[n]
              /\ \E q \in 1 .. Len(list) :
                    /\ list[q] = n
                    /\ list' = SubSeq(list, 1, p - 1) \o SubSeq(list, q + 1, Len(list))
              /\ freed' = freed \cup {n}
           \/ /\ p <= Len(list) => RequestNumber[list[p]] # RequestNumber[n]
              /\ UNCHANGED <<list, freed>>

-----------------------------------------------------------------------------
(* xcb_reply_add_handler, called by a client thread or by a running handler. *)

\* The node is allocated; the call goes on to pthread_mutex_lock.
AddHandler(n) ==
    /\ Running
    /\ call[n] = "idle"
    /\ call' = [call EXCEPT ![n] = "locking"]
    /\ UNCHANGED <<lock, list, freed, nested, thread, control, server>>

AddFromHandler(n) ==
    /\ pc = "handler" /\ nested = Null
    /\ call[n] = "idle"
    /\ call' = [call EXCEPT ![n] = "locking"]
    /\ nested' = n
    /\ UNCHANGED <<lock, list, freed, thread, control, server>>

CallLock(n) ==
    /\ Running
    /\ call[n] = "locking"
    /\ lock = Null
    /\ lock' = n
    /\ call' = [call EXCEPT ![n] = "inserting"]
    /\ UNCHANGED <<list, freed, nested, thread, control, server>>

\* Mutant: no broadcast follows the insertion.
CallInsertQuietly(n) ==
    /\ call[n] = "inserting"
    /\ InsertHandler(n)
    /\ call' = [call EXCEPT ![n] = "unlocking"]
    /\ UNCHANGED <<lock, freed, nested, thread, control, server>>

CallInsert(n) ==
    /\ Running
    /\ call[n] = "inserting"
    /\ InsertHandler(n)
    /\ call' = [call EXCEPT ![n] = "broadcasting"]
    /\ UNCHANGED <<lock, freed, nested, thread, control, server>>

CallBroadcast(n) ==
    /\ Running
    /\ call[n] = "broadcasting"
    /\ call' = [call EXCEPT ![n] = "unlocking"]
    /\ pc' = IF pc = "condwait" THEN "lock" ELSE pc
    /\ UNCHANGED <<lock, list, freed, nested, cur, got, control, server>>

CallUnlock(n) ==
    /\ Running
    /\ call[n] = "unlocking"
    /\ lock' = Null
    /\ call' = [call EXCEPT ![n] = "returned"]
    /\ UNCHANGED <<list, freed, nested, thread, control, server>>

CallStep(n) == CallLock(n) \/ CallInsert(n) \/ CallBroadcast(n) \/ CallUnlock(n)

-----------------------------------------------------------------------------
(* The client's control of the thread.  It runs one thread at a time.       *)

StartThread ==
    /\ pc = "none"
    /\ starts < MaxStarts
    /\ StartsEmpty \/ list # <<>>
    /\ pc' = "lock"
    /\ starts' = starts + 1
    /\ UNCHANGED <<lock, list, freed, client, cur, got, cancel, server>>

\* xcb_reply_stop_thread: pthread_cancel, then pthread_join.
CancelThread ==
    /\ pc \notin {"none", "crashed"}
    /\ ~cancel
    /\ cancel' = TRUE
    /\ UNCHANGED <<lock, list, freed, client, thread, starts, server>>

JoinThread ==
    /\ pc = "exited"
    /\ pc' = "none"
    /\ cur' = Null
    /\ got' = "nothing"
    /\ cancel' = FALSE
    /\ UNCHANGED <<lock, list, freed, client, starts, server>>

-----------------------------------------------------------------------------
(* process_replies *)

\* The thread moves on once it has taken the mutex.
TakesLock(from, to) ==
    /\ pc = from
    /\ pc' = to
    /\ lock = Null
    /\ lock' = Thread
    /\ UNCHANGED <<list, freed, client, cur, got, control, server>>

\* pthread_mutex_lock on entry, and inside pthread_cond_wait once it is woken.
ThreadLock == TakesLock("lock", "pick")

\* cur = h->head, then the mutex is dropped for the wait.
PickHead ==
    /\ pc = "pick"
    /\ cur' = IF list = <<>> THEN Null ELSE Head(list)
    /\ lock' = Null
    /\ pc' = "wait"
    /\ UNCHANGED <<list, freed, client, got, control, server>>

\* cur->request with cur == NULL ends the process.
ReadThroughNull ==
    /\ pc = "wait"
    /\ cur = Null
    /\ pc' = "crashed"
    /\ UNCHANGED <<lock, list, freed, client, cur, got, control, server>>

curRequest == RequestNumber[cur]

\* libxcb holds a response of request r that it has not handed out.
Available(r) == ~broken /\ taken[r] < Len(answers[r])

\* libxcb knows that nothing more will come for request r.
Exhausted(r) == broken \/ (closed[r] /\ taken[r] = Len(answers[r]))

\* xcb_wait_for_reply returns a reply or an error, and the handler is called.
WaitAnswered ==
    /\ pc = "wait" /\ cur # Null
    /\ Available(curRequest)
    /\ taken' = [taken EXCEPT ![curRequest] = @ + 1]
    /\ got' = answers[curRequest][taken[curRequest] + 1]
    /\ pc' = "handler"
    /\ UNCHANGED <<lock, list, freed, client, cur, control, answers, closed, broken>>

\* It returns neither: no handler is called.
WaitEmpty ==
    /\ pc = "wait" /\ cur # Null
    /\ Exhausted(curRequest)
    /\ got' = "nothing"
    /\ pc' = "relock"
    /\ UNCHANGED <<lock, list, freed, client, cur, control, server>>

\* The handler returns, having completed the registration it made, if any.
HandlerReturns ==
    /\ pc = "handler"
    /\ nested # Null => call[nested] = "returned"
    /\ nested' = Null
    /\ pc' = "relock"
    /\ UNCHANGED <<lock, list, freed, call, cur, got, control, server>>

\* pthread_cleanup_pop(1) runs the cleanup that takes the mutex back.
ThreadRelock == TakesLock("relock", "loop")

\* The end of a round: the node may be retired, and an empty list is waited
\* out on h->cond.
EndsRound(retire, sleep) ==
    /\ pc = "loop"
    /\ IF retire THEN RemoveHandler(cur) ELSE UNCHANGED <<list, freed>>
    /\ IF list' = <<>> /\ sleep
       THEN pc' = "condwait" /\ lock' = Null
       ELSE pc' = "pick" /\ UNCHANGED lock
    /\ UNCHANGED <<client, cur, got, control, server>>

\* Mutants: a handler that was called is removed; only an error removes it;
\* h->head is not tested.
LoopEndCalled == EndsRound(got # "nothing", TRUE)
LoopEndError  == EndsRound(got = "error", TRUE)
LoopEndAwake  == EndsRound(got # "reply", FALSE)

\* The node is removed unless the wait returned a reply.
LoopEnd == EndsRound(got # "reply", TRUE)

SpuriousWakeup ==
    /\ SpuriousWakeups
    /\ pc = "condwait"
    /\ pc' = "lock"
    /\ UNCHANGED <<lock, list, freed, client, cur, got, control, server>>

-----------------------------------------------------------------------------
(* Cancellation, wherever it can take effect: while xcb_wait_for_reply       *)
(* blocks, in a handler (outside the registration it may be making), and in  *)
(* pthread_cond_wait.  The cleanup handlers leave the mutex free.            *)

Cancelled ==
    /\ cancel
    /\ \/ /\ pc = "wait" /\ cur # Null
          /\ ~Available(curRequest) /\ ~Exhausted(curRequest)
       \/ /\ pc = "handler"
          /\ nested # Null => call[nested] = "returned"
       \/ pc = "condwait"
    /\ nested' = Null
    /\ pc' = "unwindLock"
    /\ UNCHANGED <<lock, list, freed, call, cur, got, control, server>>

\* The inner cleanup, or pthread_cond_wait itself, takes the mutex.
UnwindLock == TakesLock("unwindLock", "unwindUnlock")

\* Mutant: the outer cleanup is missing.
UnwindLocked ==
    /\ pc = "unwindUnlock"
    /\ pc' = "exited"
    /\ UNCHANGED <<lock, list, freed, client, cur, got, control, server>>

UnwindUnlock ==
    /\ pc = "unwindUnlock"
    /\ lock' = Null
    /\ pc' = "exited"
    /\ UNCHANGED <<list, freed, client, cur, got, control, server>>

ThreadStep ==
    \/ ThreadLock \/ PickHead \/ WaitAnswered \/ WaitEmpty \/ HandlerReturns
    \/ ThreadRelock \/ LoopEnd
    \/ Cancelled \/ UnwindLock \/ UnwindUnlock

-----------------------------------------------------------------------------
(* The server, and libxcb reading from it.                                   *)

\* Responses come in the order of the requests: r is the first still open.
Current(r) == ~closed[r] /\ \A s \in Requests : s < r => closed[s]

Replied(r) == Len(answers[r])

SendReply(r) ==
    /\ Running /\ ~broken /\ Current(r)
    /\ Replied(r) < MaxReplies
    /\ answers' = [answers EXCEPT ![r] = Append(@, "reply")]
    /\ UNCHANGED <<lock, list, freed, client, thread, control, taken, closed, broken>>

SendError(r) ==
    /\ Running /\ ~broken /\ Current(r)
    /\ answers' = [answers EXCEPT ![r] = Append(@, "error")]
    /\ closed' = [closed EXCEPT ![r] = TRUE]
    /\ UNCHANGED <<lock, list, freed, client, thread, control, taken, broken>>

\* A later response tells libxcb that request r has been dealt with.
CompleteRequest(r) ==
    /\ Running /\ ~broken /\ Current(r)
    /\ closed' = [closed EXCEPT ![r] = TRUE]
    /\ UNCHANGED <<lock, list, freed, client, thread, control, answers, taken, broken>>

BreakConnection ==
    /\ Running /\ ~broken
    /\ broken' = TRUE
    /\ UNCHANGED <<lock, list, freed, client, thread, control, answers, taken, closed>>

\* Everything is registered and answered and no thread has work left, or the
\* process is gone: the program may stop here.
Finished ==
    /\ \/ ~Running
       \/ /\ \A n \in Node : call[n] = "returned"
          /\ broken \/ \A r \in Requests : closed[r]
          /\ pc \in {"none", "condwait"}
    /\ UNCHANGED vars


-----------------------------------------------------------------------------

Next ==
    \/ \E n \in Node : AddHandler(n) \/ AddFromHandler(n) \/ CallStep(n)
    \/ StartThread \/ CancelThread \/ JoinThread
    \/ ThreadStep \/ ReadThroughNull \/ SpuriousWakeup
    \/ \E r \in Requests : SendReply(r) \/ SendError(r) \/ CompleteRequest(r)
    \/ BreakConnection
    \/ Finished

Spec == Init /\ [][Next]_vars

-----------------------------------------------------------------------------
(* Fairness: the threads and the handlers get to run, a client that cancels  *)
(* the thread joins it, and the server goes on until every request is over.  *)

FairSpec ==
    /\ Spec
    /\ WF_vars(ThreadStep)
    /\ WF_vars(JoinThread)
    /\ \A n \in Node : WF_vars(CallStep(n))
    /\ \A r \in Requests : WF_vars(CompleteRequest(r))

-----------------------------------------------------------------------------
(* Properties. *)

Listed == Range(list)

\* Linked into the list and not freed yet.
Registered == {n \in Node : call[n] \in {"broadcasting", "unlocking", "returned"}} \ freed

\* The types of all variables; libxcb hands out no more than it was sent.
TypeOK ==
    /\ lock \in Node \cup {Thread, Null}
    /\ list \in Seq(Node)
    /\ freed \subseteq Node
    /\ call \in [Node -> CallStates]
    /\ pc \in ThreadStates
    /\ cur \in Node \cup {Null}
    /\ got \in {"reply", "error", "nothing"}
    /\ nested \in Node \cup {Null}
    /\ cancel \in BOOLEAN
    /\ starts \in 0 .. MaxStarts
    /\ answers \in [Requests -> Seq({"reply", "error"})]
    /\ taken \in [Requests -> Nat]
    /\ \A r \in Requests : taken[r] <= Len(answers[r])
    /\ closed \in [Requests -> BOOLEAN]
    /\ broken \in BOOLEAN

\* The mutex is held by whoever is in a critical section, by nobody else, and
\* is free again once a cancelled thread has exited (reply.c:77-78, 85, 98, 109,
\* 142-145): a handler may register further handlers, and a stopped thread
\* blocks nobody.
LockDiscipline ==
    /\ lock = Thread <=> pc \in ThreadHolds
    /\ \A n \in Node : lock = n <=> call[n] \in CallHolds

\* The thread never goes through a pointer to a node that was freed or is no
\* longer listed, although it dropped the mutex since it read h->head
\* (reply.c:81-100): cur is in the list wherever it is used.
NoUseAfterFree ==
    /\ pc \in {"wait", "handler", "relock", "loop"} /\ cur # Null => cur \in Listed
    /\ Listed \cap freed = {}

\* The list is in the order of the request numbers (reply.c:51-59), so that the
\* thread always waits for the response the server sends first.
Sorted ==
    \A i, j \in 1 .. Len(list) :
        i < j => RequestNumber[list[i]] <= RequestNumber[list[j]]

\* A registered handler stays in the list until its node is freed, whatever is
\* inserted and removed meanwhile and however often the thread is stopped.
NoLostRegistration == Registered \subseteq Listed

\* The thread sleeps on h->cond only while the list is empty, or while the call
\* that filled it is about to broadcast (reply.c:101-107, 142-145).
NoMissedWakeup ==
    pc = "condwait" /\ list # <<>> => \E n \in Node : call[n] = "broadcasting"

\* A handler is retired only when nothing further will come for its request:
\* every reply and error sent for it was passed to it (reply.c:90-100), or the
\* connection broke.
NoReplyDropped ==
    \A n \in freed : Exhausted(RequestNumber[n])

\* The thread, once started, runs until it is stopped (xcb_reply.h:93-95).
RunsUntilStopped == pc # "crashed"

\* While the thread runs, every registered handler is retired in the end: no
\* wakeup, response or registration is lost between the threads.
EveryHandlerRetired ==
    \A n \in Node :
        n \in Registered ~> (n \in freed \/ cancel \/ pc = "none")

\* xcb_reply_stop_thread returns, wherever the thread was when it was cancelled,
\* and xcb_reply_add_handler does, even when it is called from a handler or
\* while the thread is being cancelled (reply.c:77-85, 125-145).
CallsReturn ==
    /\ cancel ~> pc = "none"
    /\ \A n \in Node : call[n] = "locking" ~> call[n] = "returned"
=============================================================================
