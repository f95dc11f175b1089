---------------------------- MODULE EpollEvents ----------------------------
(***************************************************************************)
(* The event queues of mTCP (eventpoll.c, FlushEpollEvents() of core.c).   *)
(* The stack thread queues events on mtcp_queue and moves them to          *)
(* usr_queue; the application queues the ones its own calls leave over on  *)
(* usr_shadow_queue and fetches from both.  socket->events holds a bit for *)
(* every queued event.  Both threads change that word, and no lock is held *)
(* by both: a change is a read and a write, and the other thread may come  *)
(* between them.  Memory is sequentially consistent.                       *)
(***************************************************************************)
EXTENDS Integers, Sequences, FiniteSets

CONSTANTS
  Streams,       \* sockets of type MTCP_SOCK_STREAM, level-triggered
  Listeners,     \* listening sockets, registered for MTCP_EPOLLIN
  Size,          \* the size given to mtcp_epoll_create()
  MaxEvents,     \* the maxevents given to mtcp_epoll_wait()
  Timeouts       \* the timeouts given to it: "never" (-1), "now" (0), "later"

ASSUME EpollAssumption ==
  /\ Streams \cap Listeners = {} /\ Size \in Nat \ {0}
  /\ MaxEvents \in Nat \ {0} /\ Timeouts \subseteq {"never", "now", "later"}

Socks == Streams \cup Listeners
Kinds == {"IN", "OUT"}
Events == Socks \X Kinds

VARIABLES
  epoll, events,                    \* of each socket: registered, queued
  mtcp_queue, usr_queue, usr_shadow_queue,
  waiting,                          \* ep->waiting
  ready,     \* of each socket: IN, there is something to read or to accept;
             \* OUT, snd_wnd > 0
  stack,     \* where the stack thread is, its event and the word it read
  app,       \* the same of the application
  timeout,   \* of the call of mtcp_epoll_wait()
  got,       \* what it has returned and the application has not served
  calls,     \* the AddEpollEvent() calls the application has still to make
  raced, dropped   \* history: a change of a word was lost, a queue was full

queues == <<mtcp_queue, usr_queue, usr_shadow_queue>>
appVars == <<timeout, got, calls, waiting>>
vars == <<epoll, events, queues, waiting, ready, stack, app, timeout, got, calls,
          raced, dropped>>

None == <<>>
At(pc) == [pc |-> pc, ev |-> None, word |-> {}]
In(q, e) == \E i \in 1..Len(q) : q[i] = e
With(f, s, k) == [f EXCEPT ![s] = @ \cup {k}]
Without(f, s, k) == [f EXCEPT ![s] = @ \ {k}]

\* A connected socket can be written to.
Init ==
  /\ epoll = [s \in Socks |-> IF s \in Listeners THEN {"IN"} ELSE {}]
  /\ events = [s \in Socks |-> {}]
  /\ mtcp_queue = <<>> /\ usr_queue = <<>> /\ usr_shadow_queue = <<>>
  /\ waiting = FALSE /\ raced = FALSE /\ dropped = FALSE
  /\ ready = [s \in Socks |-> IF s \in Streams THEN {"OUT"} ELSE {}]
  /\ stack = At("idle") /\ app = At("run")
  /\ timeout = "now" /\ got = {} /\ calls = <<>>

-----------------------------------------------------------------------------
(* AddEpollEvent() in two steps: the tests and the read of socket->events, *)
(* then the write of it and the queue entry.                               *)

Queued(e) == e[2] \in events[e[1]]
Full(q) == Len(q) >= Size

\* Mutant: an event that is queued already is queued again.
AddAlways(e, q, pc, done, thread) ==
  IF Full(q) THEN thread = At(done) /\ dropped' = TRUE
  ELSE /\ thread = [pc |-> pc, ev |-> e, word |-> events[e[1]]]
       /\ UNCHANGED dropped

AddTests(e, q, pc, done, thread) ==
  IF Queued(e) THEN thread = At(done) /\ UNCHANGED dropped
  ELSE IF Full(q) THEN thread = At(done) /\ dropped' = TRUE
  ELSE /\ thread = [pc |-> pc, ev |-> e, word |-> events[e[1]]]
       /\ UNCHANGED dropped

\* The write of a word that has changed since it was read loses the change.
Store(s, read, word) ==
  /\ events' = [events EXCEPT ![s] = word]
  /\ raced' = (raced \/ events[s] # read)

AddStores(t) == Store(t.ev[1], t.word, t.word \cup {t.ev[2]})

-----------------------------------------------------------------------------
(* The stack thread.                                                       *)

\* Payload is merged or a connection is put on the accept queue (IN), or an ACK
\* makes room in the send buffer (OUT).  An event is raised for all of the
\* first, and of the second when there was no room.
Arrive(s, k) ==
  /\ stack.pc = "idle"
  /\ k = "OUT" => s \in Streams /\ "OUT" \notin ready[s]
  /\ ready' = With(ready, s, k)
  /\ stack' = [pc |-> "raise", ev |-> <<s, k>>, word |-> {}]
  /\ UNCHANGED <<epoll, events, queues, appVars, app, raced, dropped>>

\* RaiseReadEvent() and RaiseWriteEvent().
Raise ==
  /\ stack.pc = "raise"
  /\ IF stack.ev[2] \in epoll[stack.ev[1]]
     THEN AddTests(stack.ev, mtcp_queue, "add", "idle", stack')
     ELSE stack' = At("idle") /\ UNCHANGED dropped
  /\ UNCHANGED <<epoll, events, queues, appVars, ready, app, raced>>

AddToMtcp ==
  /\ stack.pc = "add"
  /\ AddStores(stack)
  /\ mtcp_queue' = Append(mtcp_queue, stack.ev)
  /\ stack' = At("idle")
  /\ UNCHANGED <<epoll, usr_queue, usr_shadow_queue, appVars, ready, app, dropped>>

HoldsLock == app.pc \in {"fetch", "clear"}

Least(a, b) == IF a < b THEN a ELSE b
\* Mutant: the room in usr_queue is not looked at.
MovingAll == Len(mtcp_queue)
Moving == Least(Len(mtcp_queue), Size - Len(usr_queue))

Wakes(usrq) == app.pc = "wait" /\ waiting /\ (usrq # <<>> \/ usr_shadow_queue # <<>>)

\* The packets of a round of the main loop are done; what is left of it is to
\* wait for the lock and flush.
RoundDone ==
  /\ stack.pc = "idle"
  /\ stack' = At("flush")
  /\ UNCHANGED <<epoll, events, queues, appVars, ready, app, raced, dropped>>

FlushEpollEvents ==
  /\ stack.pc = "flush" /\ ~HoldsLock
  /\ usr_queue' = usr_queue \o SubSeq(mtcp_queue, 1, Moving)
  /\ mtcp_queue' = SubSeq(mtcp_queue, Moving + 1, Len(mtcp_queue))
  /\ app' = IF Wakes(usr_queue') THEN At("woken") ELSE app
  /\ stack' = At("idle")
  /\ UNCHANGED <<epoll, events, usr_shadow_queue, appVars, ready, raced, dropped>>

-----------------------------------------------------------------------------
(* mtcp_epoll_wait(): the application holds epoll_lock in "fetch" and      *)
(* "clear" and gives it up in "wait".                                      *)

Empty == usr_queue = <<>> /\ usr_shadow_queue = <<>>

\* Mutant: the application sleeps over its own shadow queue.
WaitsUsr(t) ==
  IF usr_queue = <<>> /\ t # "now" THEN app' = At("wait") /\ waiting' = TRUE
                              ELSE app' = At("fetch") /\ waiting' = FALSE

\* The wait loop: taken with the lock held.
Waits(t) ==
  IF Empty /\ t # "now" THEN app' = At("wait") /\ waiting' = TRUE
                    ELSE app' = At("fetch") /\ waiting' = FALSE

mtcp_epoll_wait(t) ==
  /\ app.pc = "run" /\ calls = <<>> /\ got = {}
  /\ timeout' = t
  /\ Waits(t)
  /\ UNCHANGED <<epoll, events, queues, ready, stack, got, calls, raced, dropped>>

\* pthread_cond_wait() or pthread_cond_timedwait() returns; a time-out clears
\* the variable, and so does a signal before it.
Woken ==
  /\ \/ app.pc = "woken"
     \/ app.pc = "wait" /\ timeout = "later"
  /\ timeout' = IF timeout = "later" THEN "now" ELSE timeout
  /\ Waits(timeout')
  /\ UNCHANGED <<epoll, events, queues, ready, stack, got, calls, raced, dropped>>

Fetching == app.pc = "fetch" /\ ~Empty /\ Cardinality(got) < MaxEvents
Next1 == IF usr_queue # <<>> THEN Head(usr_queue) ELSE Head(usr_shadow_queue)

\* An event at the head of usr_queue, or of the other when that is empty: is it
\* valid?  Then its bit is to be cleared, and the word is read.
Fetch ==
  /\ Fetching
  /\ app' = [pc |-> "clear", ev |-> Next1, word |-> events[Next1[1]]]
  /\ got' = IF Next1[2] \in epoll[Next1[1]] /\ Queued(Next1) THEN got \cup {Next1} ELSE got
  /\ UNCHANGED <<epoll, events, queues, waiting, ready, stack, timeout, calls, raced, dropped>>

\* Mutant: the bit of an event that is not valid is kept.
ClearValid ==
  /\ app.pc = "clear"
  /\ IF app.ev \in got THEN Store(app.ev[1], app.word, app.word \ {app.ev[2]})
                       ELSE UNCHANGED <<events, raced>>
  /\ IF usr_queue # <<>>
     THEN usr_queue' = Tail(usr_queue) /\ UNCHANGED usr_shadow_queue
     ELSE usr_shadow_queue' = Tail(usr_shadow_queue) /\ UNCHANGED usr_queue
  /\ app' = At("fetch")
  /\ UNCHANGED <<epoll, mtcp_queue, appVars, ready, stack, dropped>>

Clear ==
  /\ app.pc = "clear"
  /\ Store(app.ev[1], app.word, app.word \ {app.ev[2]})
  /\ IF usr_queue # <<>>
     THEN usr_queue' = Tail(usr_queue) /\ UNCHANGED usr_shadow_queue
     ELSE usr_shadow_queue' = Tail(usr_shadow_queue) /\ UNCHANGED usr_queue
  /\ app' = At("fetch")
  /\ UNCHANGED <<epoll, mtcp_queue, appVars, ready, stack, dropped>>

\* The loops are done: go back to wait when there was no valid event.
Return ==
  /\ app.pc = "fetch" /\ ~Fetching
  /\ IF got = {} /\ timeout # "now" THEN Waits(timeout)
                                ELSE app' = At("run") /\ UNCHANGED waiting
  /\ UNCHANGED <<epoll, events, queues, ready, stack, timeout, got, calls, raced, dropped>>

-----------------------------------------------------------------------------
(* The rest of the application: it serves every event it is given, and may *)
(* write to a stream at any time.                                          *)

Running == app.pc = "run" /\ calls = <<>>

\* mtcp_recv(), mtcp_accept() or mtcp_write() takes what there is or leaves
\* some; what is left, and registered, is queued again.
Serve(e, leaves) ==
  /\ Running /\ (e \in got \/ e \in Streams \X {"OUT"})
  /\ got' = got \ {e}
  /\ leaves => e[2] \in ready[e[1]]
  /\ ready' = IF leaves THEN ready ELSE Without(ready, e[1], e[2])
  /\ calls' = IF leaves /\ e[2] \in epoll[e[1]] THEN <<e>> ELSE <<>>
  /\ UNCHANGED <<epoll, events, queues, waiting, stack, app, timeout, raced, dropped>>

\* Mutant: what is pending when the socket is registered is not looked at.
CtlLate(s, ks) ==
  /\ Running
  /\ epoll' = [epoll EXCEPT ![s] = ks]
  /\ UNCHANGED <<events, queues, appVars, ready, stack, app, raced, dropped>>

\* mtcp_epoll_ctl() of a stream: ADD, MOD or, for the empty set, DEL; then
\* RaisePendingStreamEvents().
mtcp_epoll_ctl(s, ks) ==
  /\ Running
  /\ epoll' = [epoll EXCEPT ![s] = ks]
  /\ app' = [pc |-> "pending", ev |-> <<s, "IN">>, word |-> {}]
  /\ UNCHANGED <<events, queues, appVars, ready, stack, raced, dropped>>

PendingIn(s) ==
  IF "IN" \in epoll[s] /\ "IN" \in ready[s] THEN <<<<s, "IN">>>> ELSE <<>>
PendingOut(s) ==
  IF "OUT" \in epoll[s] /\ "OUT" \in ready[s] /\ "OUT" \notin events[s]
  THEN <<<<s, "OUT">>>> ELSE <<>>

RaisePendingStreamEvents ==
  /\ app.pc = "pending"
  /\ calls' = PendingIn(app.ev[1]) \o PendingOut(app.ev[1])
  /\ app' = At("run")
  /\ UNCHANGED <<epoll, events, queues, waiting, ready, stack, timeout, got, raced, dropped>>

AddToShadow ==
  /\ \/ /\ app.pc = "run" /\ calls # <<>>
        /\ AddTests(Head(calls), usr_shadow_queue, "add", "run", app')
        /\ calls' = Tail(calls)
        /\ UNCHANGED <<events, raced, usr_shadow_queue>>
     \/ /\ app.pc = "add"
        /\ AddStores(app)
        /\ usr_shadow_queue' = Append(usr_shadow_queue, app.ev)
        /\ app' = At("run")
        /\ UNCHANGED <<calls, dropped>>
  /\ UNCHANGED <<epoll, mtcp_queue, usr_queue, waiting, ready, stack, timeout, got>>

InCall == Woken \/ Fetch \/ Clear \/ Return \/ RaisePendingStreamEvents \/ AddToShadow
Wait == \E t \in Timeouts : mtcp_epoll_wait(t)

Next ==
  \/ \E s \in Socks, k \in Kinds : Arrive(s, k)
  \/ Raise \/ AddToMtcp \/ RoundDone \/ FlushEpollEvents
  \/ InCall \/ Wait
  \/ \E e \in Events, leaves \in BOOLEAN : Serve(e, leaves)
  \/ \E s \in Streams, ks \in SUBSET Kinds : mtcp_epoll_ctl(s, ks)

Spec == Init /\ [][Next]_vars

\* Both threads go on: a round has finitely many packets, the stack gets a lock
\* that is free again and again, and the application serves what it got and
\* comes back to mtcp_epoll_wait().
FairSpec ==
  /\ Spec /\ WF_vars(Raise) /\ WF_vars(AddToMtcp) /\ SF_vars(RoundDone)
  /\ SF_vars(FlushEpollEvents)
  /\ WF_vars(InCall) /\ SF_vars(Wait)
  /\ \A e \in Events : SF_vars(e \in got /\ \E leaves \in BOOLEAN : Serve(e, leaves))

\* A run about what holds before the first race follows no behaviour beyond it.
BeforeRace == ~raced

-----------------------------------------------------------------------------
Thread(pcs) == [pc : pcs, ev : Events \cup {None}, word : SUBSET Kinds]

\* Type invariant: no queue holds more than its size, and each thread is at a step
\* of its call with a socket's event at hand.
TypeOK ==
  /\ epoll \in [Socks -> SUBSET Kinds] /\ events \in [Socks -> SUBSET Kinds]
  /\ ready \in [Socks -> SUBSET Kinds]
  /\ \A q \in {mtcp_queue, usr_queue, usr_shadow_queue} : q \in Seq(Events) /\ Len(q) <= Size
  /\ stack \in Thread({"idle", "raise", "add", "flush"})
  /\ app \in Thread({"run", "pending", "add", "wait", "woken", "fetch", "clear"})
  /\ waiting \in BOOLEAN /\ timeout \in {"never", "now", "later"} /\ got \subseteq Events
  /\ calls \in Seq(Events)
  /\ raced \in BOOLEAN /\ dropped \in BOOLEAN

InQueue(e) == In(mtcp_queue, e) \/ In(usr_queue, e) \/ In(usr_shadow_queue, e)
UnderWay(e) ==
  \/ e \in got \/ In(calls, e)
  \/ stack.ev = e
  \/ IF app.pc = "pending" THEN app.ev[1] = e[1] ELSE app.ev = e

\* What a socket is registered for and ready for is queued, with its bit set so
\* that mtcp_epoll_wait() takes it to be valid, or is about to be queued or served.
Noticed ==
  \A e \in Events :
    (e[2] \in epoll[e[1]] /\ e[2] \in ready[e[1]]) =>
      (InQueue(e) /\ Queued(e)) \/ UnderWay(e)

\* The same holds until an event is dropped by a full queue or two changes of
\* one socket's word overlap: nothing else in the two threads' steps, in whatever
\* order, loses an event.
LostOnlyInRace == raced \/ dropped \/ Noticed

\* A bit that is set without an event in a queue would keep AddEpollEvent() from
\* ever queueing that event again.
BitHasEvent ==
  raced \/ \A e \in Events : Queued(e) => InQueue(e)

\* An event is in the queues once, so that three queues of as many places as
\* there are events never fill up.
QueuedOnce ==
  raced \/ \A e \in Events :
    /\ Cardinality({i \in 1..Len(mtcp_queue) : mtcp_queue[i] = e})
       + Cardinality({i \in 1..Len(usr_queue) : usr_queue[i] = e})
       + Cardinality({i \in 1..Len(usr_shadow_queue) : usr_shadow_queue[i] = e}) <= 1

\* An application that sleeps in mtcp_epoll_wait() is woken when an event it is
\* registered for happens, and what it serves late it is told of again.
Delivered ==
  \A e \in Events :
    (e[2] \in epoll[e[1]] /\ e[2] \in ready[e[1]]) ~>
      (e \in got \/ e[2] \notin ready[e[1]] \/ e[2] \notin epoll[e[1]] \/ raced \/ dropped)

\* "A readable event is delivered when a new connection arrives on the listening
\* socket."
ListenerNoticed ==
  \A s \in Listeners : "IN" \in ready[s] =>
    InQueue(<<s, "IN">>) \/ UnderWay(<<s, "IN">>)

\* AddEpollEvent(), FlushEpollEvents() and mtcp_epoll_wait() together: until a queue is
\* full or two changes of one word overlap no event is lost, and until the latter every
\* bit that is set has its event, which is queued once.
EventsKept == LostOnlyInRace /\ BitHasEvent /\ QueuedOnce
=============================================================================
