----------------------------- MODULE PipeProofs -----------------------------
(***************************************************************************)
(* Proofs about a pipe and the socket table, for any number of socket ids, *)
(* size of the buffer and lengths of the calls.  The two threads are in    *)
(* places that go with the state of the pipe, each end has its socket to   *)
(* itself until it gives it back, and every cell of the buffer has the     *)
(* byte that its distance from the oldest says.                            *)
(***************************************************************************)
EXTENDS Pipe, FiniteSetTheorems, TLAPS

-----------------------------------------------------------------------------
(* The types, and where the two threads can be. *)

PipeEvents == {"EPOLLIN", "EPOLLOUT"}
PipeAt == {"none", "idle", "lock", "wait", "raise", "hangup", "after", "told", "closing",
           "freeing", "closed"}
PipeStates == {"none", "ACTIVE", "CLOSE_WAIT", "freed"}
Id == 1..Ids
Cell == 0..(PIPE_BUF_SIZE - 1)

SocketRecord ==
  [socktype : {"UNUSED", "PIPE", "STREAM"}, ptr : {"NULL", "pipe", "stream"},
   opts : {"", "NONBLOCK"}, epoll : SUBSET PipeEvents, events : SUBSET PipeEvents]
PipeRecord ==
  [state : PipeStates, socket : (0..Ids) \X (0..Ids), buf : [Cell -> Nat],
   buf_off : Cell, buf_tail : Cell, buf_len : 0..PIPE_BUF_SIZE]

PipeTypes ==
  /\ smap \in [Id -> SocketRecord] /\ free_smap \in Seq(Id) /\ pp \in PipeRecord
  /\ pat \in [End -> PipeAt] /\ pwant \in [End -> Nat] /\ psent \in 0..MaxBytes
  /\ pgot \in Seq(Nat)

IdOf(e) == pp.socket[Index[e]]

\* Where the ends are in each state of the pipe, and that a call asks for something.
Before == {"idle", "lock", "wait", "raise", "after", "closing"}
Behind == {"hangup", "freeing", "closed"}
EndsInv ==
  /\ pp.state = "none" => \A e \in End : pat[e] = "none"
  /\ pp.state = "ACTIVE" => \A e \in End : pat[e] \in Before
  /\ pp.state = "CLOSE_WAIT" =>
       \E e \in End : pat[e] \in Behind /\ pat[Other(e)] \in Before \cup {"told"}
  /\ pp.state = "freed" => \A e \in End : pat[e] \in {"freeing", "closed"}
  /\ \A e \in End : pat[e] \in {"lock", "wait"} => pwant[e] > 0

\* The sockets of the ends that are not closed are theirs, and only a blocking end
\* sleeps.
Theirs(e) ==
  /\ smap[IdOf(e)].socktype = "PIPE" /\ smap[IdOf(e)].epoll \subseteq {Ready(e)}
  /\ smap[IdOf(e)].epoll # {} => smap[IdOf(e)].opts = "NONBLOCK"
  /\ pat[e] = "wait" => smap[IdOf(e)].opts # "NONBLOCK"
SocketsInv ==
  /\ pp.state # "none" => IdOf("r") \in Id /\ IdOf("w") \in Id /\ IdOf("r") # IdOf("w")
  /\ \A e \in End : pat[e] \notin {"none", "closed"} => Theirs(e)

\* BytesInOrder, byte by byte, and where the next one goes.
BytesAre(read, sent, buf, off, tail, len) ==
  /\ Len(read) + len = sent
  /\ tail = Wrap(off, len)
  /\ \A k \in 1..Len(read) : read[k] = k
  /\ \A k \in 0..(len - 1) : buf[Wrap(off, k)] = Len(read) + k + 1
BytesInv == BytesAre(pgot, psent, pp.buf, pp.buf_off, pp.buf_tail, pp.buf_len)

PipeInv == PipeTypes /\ EndsInv /\ SocketsInv /\ IdsKept /\ BytesInv /\ PipeNoticed

-----------------------------------------------------------------------------
\* The sizes and the lengths of the calls are positive numbers.
LEMMA PipeNums ==
  /\ Ids \in Nat /\ Ids > 0 /\ PIPE_BUF_SIZE \in Nat /\ PIPE_BUF_SIZE > 0
  /\ MaxBytes \in Nat /\ \A n \in Lens : n \in Nat /\ n > 0
BY PipeAssumption

\* The two ends of a pipe: each is the other's pair and waits for its own event.
LEMMA TheEnds ==
  /\ End = {"r", "w"} /\ Other("r") = "w" /\ Other("w") = "r"
  /\ Index["r"] = 1 /\ Index["w"] = 2 /\ Ready("r") = "EPOLLIN" /\ Ready("w") = "EPOLLOUT"
  /\ \A e \in End : Ready(e) \in PipeEvents /\ Other(e) \in End /\ Other(e) # e
  /\ \A e, d \in End : d = e \/ d = Other(e)
BY DEF End, Other, Index, Ready, PipeEvents

\* The fields of struct pipe, each of its type.
LEMMA PipeFields ==
  ASSUME NEW r \in PipeRecord
  PROVE  /\ r.state \in PipeStates /\ r.socket \in (0..Ids) \X (0..Ids) /\ r.buf \in [Cell -> Nat]
         /\ r.buf_off \in Cell /\ r.buf_tail \in Cell /\ r.buf_len \in 0..PIPE_BUF_SIZE
BY DEF PipeRecord

\* The fields of struct socket_map, each of its type.
LEMMA SocketFields ==
  ASSUME NEW r \in SocketRecord
  PROVE  /\ r.socktype \in {"UNUSED", "PIPE", "STREAM"} /\ r.ptr \in {"NULL", "pipe", "stream"}
         /\ r.opts \in {"", "NONBLOCK"} /\ r.epoll \in SUBSET PipeEvents
         /\ r.events \in SUBSET PipeEvents
BY Zenon DEF SocketRecord

\* Two socket tables that differ in pointers and events at most.
Alike(m, n) ==
  \A i \in Id : /\ n[i].socktype = m[i].socktype /\ n[i].opts = m[i].opts
                /\ n[i].epoll = m[i].epoll

SetEvents(m, x, v) == [m EXCEPT ![x].events = v]

\* Storing a socket's event word changes nothing but that word.
LEMMA EventsSet ==
  ASSUME NEW m \in [Id -> SocketRecord], NEW x \in Id, NEW v \in SUBSET PipeEvents
  PROVE  /\ SetEvents(m, x, v) \in [Id -> SocketRecord] /\ Alike(m, SetEvents(m, x, v))
         /\ SetEvents(m, x, v)[x].events = v
         /\ \A i \in Id : i # x => SetEvents(m, x, v)[i] = m[i]
BY Zenon DEF SocketRecord, Alike, SetEvents

\* The same for a step of a thread.
LEMMA EventsStep ==
  ASSUME smap \in [Id -> SocketRecord], NEW x \in Id, NEW v \in SUBSET PipeEvents,
         smap' = SetEvents(smap, x, v)
  PROVE  /\ smap' \in [Id -> SocketRecord] /\ Alike(smap, smap') /\ smap'[x].events = v
         /\ \A i \in Id : i # x => smap'[i] = smap[i]
<1>1. /\ SetEvents(smap, x, v) \in [Id -> SocketRecord] /\ Alike(smap, SetEvents(smap, x, v))
      /\ SetEvents(smap, x, v)[x].events = v
      /\ \A i \in Id : i # x => SetEvents(smap, x, v)[i] = smap[i]
  BY EventsSet
<1> QED BY <1>1, Zenon

\* A table that did not change is alike.
LEMMA SameAlike == \A m : Alike(m, m)
BY Zenon DEF Alike

\* A thread that goes on leaves the other thread where it is.
LEMMA PipeGoesTo ==
  ASSUME pat \in [End -> PipeAt], NEW e \in End, NEW to \in PipeAt, PipeGoes(e, to)
  PROVE  /\ pat' \in [End -> PipeAt] /\ pat'[e] = to
         /\ \A d \in End : d # e => pat'[d] = pat[d]
BY DEF PipeGoes

-----------------------------------------------------------------------------
(* What a step that leaves a part alone keeps. *)

\* A step that keeps each thread on its side of the close keeps EndsInv.
LEMMA EndsMove ==
  ASSUME EndsInv, pp'.state = pp.state,
         \A e \in End :
           /\ pat[e] \in Before \cup {"told"} => pat'[e] \in Before \cup {"told"}
           /\ pat[e] \in Behind => pat'[e] \in Behind
           /\ pat[e] \in {"freeing", "closed"} => pat'[e] \in {"freeing", "closed"}
           /\ pat[e] = "none" => pat'[e] = "none"
           /\ pat'[e] = "told" => pp.state = "CLOSE_WAIT"
           /\ pat'[e] \in {"lock", "wait"} => pwant'[e] > 0
  PROVE  EndsInv'
<1>1. pp.state = "ACTIVE" => \A e \in End : pat'[e] \in Before
  BY DEF EndsInv
<1>2. pp.state = "CLOSE_WAIT" =>
        \E e \in End : pat'[e] \in Behind /\ pat'[Other(e)] \in Before \cup {"told"}
  BY TheEnds, Zenon DEF EndsInv
<1> QED BY <1>1, <1>2, Zenon DEF EndsInv

\* A step that changes only event words keeps the sockets of the ends.
LEMMA SocketsMove ==
  ASSUME SocketsInv, Alike(smap, smap'), pp'.socket = pp.socket,
         pp'.state # "none" => pp.state # "none",
         \A e \in End :
           /\ pat'[e] \notin {"none", "closed"} => pat[e] \notin {"none", "closed"}
           /\ pat[e] \notin {"none", "closed"} => pp.state # "none"
           /\ pat'[e] = "wait" => pat[e] = "wait" \/ smap[IdOf(e)].opts # "NONBLOCK"
  PROVE  SocketsInv'
<1>1. \A e \in End : IdOf(e)' = IdOf(e)
  BY DEF IdOf
<1>2. ASSUME NEW e \in End, pat'[e] \notin {"none", "closed"} PROVE Theirs(e)'
  <2>1. Theirs(e) /\ IdOf(e) \in Id
    BY <1>2, TheEnds, Zenon DEF SocketsInv
  <2>2. /\ smap'[IdOf(e)].socktype = smap[IdOf(e)].socktype
        /\ smap'[IdOf(e)].opts = smap[IdOf(e)].opts
        /\ smap'[IdOf(e)].epoll = smap[IdOf(e)].epoll
    BY <2>1, Zenon DEF Alike
  <2>3. pat'[e] = "wait" => pat[e] = "wait" \/ smap[IdOf(e)].opts # "NONBLOCK"
    OBVIOUS
  <2> QED BY <1>1, <2>1, <2>2, <2>3, Zenon DEF Theirs
<1>3. IdOf("r")' = IdOf("r") /\ IdOf("w")' = IdOf("w")
  BY <1>1, TheEnds, Zenon
<1>4. pp'.state # "none" =>
        IdOf("r")' \in Id /\ IdOf("w")' \in Id /\ IdOf("r")' # IdOf("w")'
  BY <1>3, Zenon DEF SocketsInv
<1> QED BY <1>2, <1>4, Zenon DEF SocketsInv

\* A step that changes only event words keeps the free list right.
LEMMA IdsAlike ==
  ASSUME IdsKept, Alike(smap, smap'), free_smap' = free_smap
  PROVE  IdsKept'
BY Zenon DEF IdsKept, Alike, Id

\* A step that leaves the buffer alone keeps its bytes.
LEMMA BytesSame ==
  ASSUME BytesInv, UNCHANGED <<psent, pgot>>, pp'.buf = pp.buf, pp'.buf_off = pp.buf_off,
         pp'.buf_tail = pp.buf_tail, pp'.buf_len = pp.buf_len
  PROVE  BytesInv'
BY Zenon DEF BytesInv

\* The two parts of PipeNoticed.
Sleeps ==
  /\ pat["r"] = "wait" => pp.buf_len = 0
  /\ pat["w"] = "wait" => pp.buf_len = PIPE_BUF_SIZE
Told ==
  /\ pat["w"] \notin {"raise", "hangup"} /\ pat["r"] = "idle"
  /\ smap[IdOf("r")].epoll # {} /\ (pp.buf_len > 0 \/ pp.state = "CLOSE_WAIT")
  => "EPOLLIN" \in smap[IdOf("r")].events

\* No notice is lost: of those that sleep, and of a reader that polls.
LEMMA NoticedIs == PipeNoticed <=> Sleeps /\ Told
BY TheEnds, Zenon DEF PipeNoticed, Sleeps, Told, Sock, IdOf, Pending

\* The same in the next state.
LEMMA NoticedIsNext == PipeNoticed' <=> Sleeps' /\ Told'
BY TheEnds, Zenon DEF PipeNoticed, Sleeps, Told, Sock, IdOf, Pending

\* Whoever slept with good reason still does when the buffer has not changed.
LEMMA SleepsMove ==
  ASSUME Sleeps, pp'.buf_len = pp.buf_len,
         \A e \in End : pat'[e] = "wait" => pat[e] = "wait"
  PROVE  Sleeps'
BY TheEnds, Zenon DEF Sleeps

\* A reader that was told of its bytes, or is about to be, still is.
LEMMA ToldMove ==
  ASSUME Told, IdOf("r")' = IdOf("r"), smap'[IdOf("r")].epoll = smap[IdOf("r")].epoll,
         pp'.buf_len = pp.buf_len, pp'.state = pp.state,
         pat'["r"] = "idle" => pat["r"] = "idle",
         pat'["r"] = "idle" /\ "EPOLLIN" \in smap[IdOf("r")].events /\ smap[IdOf("r")].epoll # {} =>
           "EPOLLIN" \in smap'[IdOf("r")].events,
         pat["w"] \in {"raise", "hangup"} =>
           pat'["w"] \in {"raise", "hangup"} \/ "EPOLLIN" \in smap'[IdOf("r")].events
  PROVE  Told'
BY Zenon DEF Told

\* What the invariant says of an end that is not closed.
LEMMA Alive ==
  ASSUME PipeInv, NEW e \in End, pat[e] \notin {"none", "closed"}
  PROVE  /\ pp.state # "none" /\ IdOf(e) \in Id /\ IdOf(Other(e)) \in Id
         /\ IdOf(e) # IdOf(Other(e)) /\ Theirs(e) /\ smap[IdOf(e)] \in SocketRecord
<1>1. pp.state # "none"
  BY Zenon DEF PipeInv, EndsInv
<1>2. IdOf("r") \in Id /\ IdOf("w") \in Id /\ IdOf("r") # IdOf("w") /\ Theirs(e)
  BY <1>1, Zenon DEF PipeInv, SocketsInv
<1>3. IdOf(e) \in Id /\ IdOf(Other(e)) \in Id /\ IdOf(e) # IdOf(Other(e))
  BY <1>2, TheEnds, Zenon
<1>4. smap[IdOf(e)] \in SocketRecord
  BY <1>3, Zenon DEF PipeInv, PipeTypes
<1> QED BY <1>1, <1>2, <1>3, <1>4, Zenon

\* An end exists only once mtcp_pipe() has made the pipe.
LEMMA NotNone ==
  ASSUME PipeInv
  PROVE  \A e \in End : pat[e] \notin {"none", "closed"} => pp.state # "none"
BY Zenon DEF PipeInv, EndsInv

\* The reader's socket is the first of the two ids of the pipe.
LEMMA ReaderIs == IdOf("r")' = IdOf("r") <=> pp'.socket[1] = pp.socket[1]
BY TheEnds, Zenon DEF IdOf

-----------------------------------------------------------------------------
(* The steps. *)

\* mtcp_epoll_wait() drops an event of a socket that is not the pipe's any more.
LEMMA StaleStep ==
  ASSUME PipeInv, NEW id \in Id, Stale(id)
  PROVE  PipeInv'
<1>1. smap \in [Id -> SocketRecord] /\ smap[id] \in SocketRecord
  BY Zenon DEF PipeInv, PipeTypes
<1>2. UNCHANGED <<free_smap, pp, pat, pwant, psent, pgot>>
  BY Zenon DEF Stale
<1> DEFINE v == smap[id].events \cap smap[id].epoll
<1>3. v \in SUBSET PipeEvents
  BY <1>1, SocketFields, Zenon
<1>4. smap' = SetEvents(smap, id, v)
  BY DEF Stale, SetEvents
<1> HIDE DEF v
<1>5. /\ smap' \in [Id -> SocketRecord] /\ Alike(smap, smap') /\ smap'[id].events = v
      /\ \A i \in Id : i # id => smap'[i] = smap[i]
  BY <1>1, <1>3, <1>4, EventsStep, Zenon
<1>6. PipeTypes'
  BY <1>2, <1>5, Zenon DEF PipeInv, PipeTypes
<1>7. EndsInv'
  BY <1>2, Zenon DEF PipeInv, EndsInv
<1>8. SocketsInv'
  BY <1>2, <1>5, NotNone, SocketsMove, Zenon DEF PipeInv
<1>9. IdsKept'
  BY <1>2, <1>5, IdsAlike, Zenon DEF PipeInv
<1>10. BytesInv'
  BY <1>2, BytesSame, Zenon DEF PipeInv
<1>11. Sleeps'
  BY <1>2, SleepsMove, NoticedIs, Zenon DEF PipeInv
<1>12. Told'
  <2>1. CASE pat["r"] = "idle"
    <3>1. IdOf("r") \in Id /\ Theirs("r") /\ IdOf("r")' = IdOf("r")
      BY <1>2, <2>1, Alive, TheEnds, Zenon DEF IdOf
    <3>2. smap'[IdOf("r")].epoll = smap[IdOf("r")].epoll
      BY <1>5, <3>1, Zenon DEF Alike
    <3>3. "EPOLLIN" \in smap[IdOf("r")].events /\ smap[IdOf("r")].epoll # {} =>
            "EPOLLIN" \in smap'[IdOf("r")].events
      <4>1. CASE IdOf("r") = id
        BY <1>5, <3>1, <4>1, TheEnds DEF Theirs, v
      <4>2. CASE IdOf("r") # id
        BY <1>5, <3>1, <4>2, Zenon
      <4> QED BY <4>1, <4>2
    <3> QED BY <1>2, <3>1, <3>2, <3>3, ToldMove, NoticedIs, Zenon DEF PipeInv
  <2>2. CASE pat["r"] # "idle"
    BY <1>2, <2>2, Zenon DEF Told
  <2> QED BY <2>1, <2>2
<1> QED BY <1>6, <1>7, <1>8, <1>9, <1>10, <1>11, <1>12, NoticedIsNext, Zenon DEF PipeInv

\* A call returns 0 or an error of the pair's close only after that close.
LEMMA ToldMeans ==
  ASSUME PipeInv, NEW e \in End, pat[e] = "told"
  PROVE  pp.state = "CLOSE_WAIT"
<1>1. pp.state \in PipeStates
  BY PipeFields, Zenon DEF PipeInv, PipeTypes
<1>2. pp.state # "none" /\ pp.state # "ACTIVE" /\ pp.state # "freed"
  BY Zenon DEF PipeInv, EndsInv, Before
<1> QED BY <1>1, <1>2 DEF PipeStates

\* A step of one end that leaves the pipe as it is.
LEMMA MoveStep ==
  ASSUME PipeInv, NEW e \in End, NEW to \in PipeAt, PipeGoes(e, to),
         pat[e] \notin {"none", "closed"},
         smap' \in [Id -> SocketRecord], Alike(smap, smap'),
         UNCHANGED <<free_smap, pp, psent, pgot>>,
         pwant' \in [End -> Nat], \A d \in End : d # e => pwant'[d] = pwant[d],
         pat[e] \in Before \cup {"told"} => to \in Before \cup {"told"},
         pat[e] \in Behind => to \in Behind,
         pat[e] \in {"freeing", "closed"} => to \in {"freeing", "closed"},
         to = "told" => pp.state = "CLOSE_WAIT",
         to \in {"lock", "wait"} => pwant'[e] > 0,
         to = "wait" => smap[IdOf(e)].opts # "NONBLOCK",
         to = "wait" => pp.buf_len = (IF e = "r" THEN 0 ELSE PIPE_BUF_SIZE),
         Told'
  PROVE  PipeInv'
<1>0. pat \in [End -> PipeAt] /\ EndsInv /\ SocketsInv /\ IdsKept /\ BytesInv
  BY Zenon DEF PipeInv, PipeTypes
<1>1. pat' \in [End -> PipeAt] /\ pat'[e] = to /\ \A d \in End : d # e => pat'[d] = pat[d]
  BY <1>0, PipeGoesTo, Zenon
<1>2. PipeTypes'
  BY <1>1, Zenon DEF PipeInv, PipeTypes
<1>3. EndsInv'
  <2>1. \A d \in End : pat[d] \in {"lock", "wait"} => pwant[d] > 0
    BY <1>0, Zenon DEF EndsInv
  <2>2. ASSUME NEW d \in End
        PROVE  /\ pat[d] \in Before \cup {"told"} => pat'[d] \in Before \cup {"told"}
               /\ pat[d] \in Behind => pat'[d] \in Behind
               /\ pat[d] \in {"freeing", "closed"} => pat'[d] \in {"freeing", "closed"}
               /\ pat[d] = "none" => pat'[d] = "none"
               /\ pat'[d] = "told" => pp.state = "CLOSE_WAIT"
               /\ pat'[d] \in {"lock", "wait"} => pwant'[d] > 0
    <3>1. CASE d = e
      BY <1>1, <3>1, Zenon
    <3>2. CASE d # e
      BY <1>1, <2>1, <3>2, ToldMeans, Zenon
    <3> QED BY <3>1, <3>2
  <2> QED BY <1>0, <2>2, EndsMove, Zenon
<1>4. SocketsInv'
  <2>1. ASSUME NEW d \in End
        PROVE  /\ pat'[d] \notin {"none", "closed"} => pat[d] \notin {"none", "closed"}
               /\ pat[d] \notin {"none", "closed"} => pp.state # "none"
               /\ pat'[d] = "wait" => pat[d] = "wait" \/ smap[IdOf(d)].opts # "NONBLOCK"
    <3>1. CASE d = e
      BY <1>1, <3>1, NotNone, Zenon
    <3>2. CASE d # e
      BY <1>1, <3>2, NotNone, Zenon
    <3> QED BY <3>1, <3>2
  <2> QED BY <1>0, <2>1, SocketsMove, Zenon
<1>5. IdsKept'
  BY <1>0, IdsAlike, Zenon
<1>6. BytesInv'
  BY <1>0, BytesSame, Zenon
<1>7. Sleeps'
  BY <1>1, NoticedIs, TheEnds, Zenon DEF PipeInv, Sleeps
<1> QED BY <1>2, <1>3, <1>4, <1>5, <1>6, <1>7, NoticedIsNext, Zenon DEF PipeInv

\* The same, when the reader has its event if it had it.
LEMMA QuietStep ==
  ASSUME PipeInv, NEW e \in End, NEW to \in PipeAt, PipeGoes(e, to),
         pat[e] \notin {"none", "closed", "raise", "hangup"}, to # "idle" \/ e = "w",
         UNCHANGED <<smap, pp>>
  PROVE  Told'
<1>0. pat \in [End -> PipeAt] /\ Told
  BY NoticedIs, Zenon DEF PipeInv, PipeTypes
<1>1. pat' \in [End -> PipeAt] /\ pat'[e] = to /\ \A d \in End : d # e => pat'[d] = pat[d]
  BY <1>0, PipeGoesTo, Zenon
<1>2. CASE e = "r"
  BY <1>1, <1>2, TheEnds, Zenon DEF Told
<1>3. CASE e = "w"
  BY <1>0, <1>1, <1>3, TheEnds, Zenon DEF Told, IdOf
<1> QED BY <1>2, <1>3, TheEnds, Zenon

\* mtcp_close() of an end, before it takes the lock of the pipe.
LEMMA CloseBeginsStep ==
  ASSUME PipeInv, NEW e \in End, CloseBegins(e)
  PROVE  PipeInv'
<1>1. /\ PipeGoes(e, "closing") /\ pat[e] \in {"idle", "told"}
      /\ UNCHANGED <<smap, free_smap, pp, pwant, psent, pgot>>
  BY Zenon DEF CloseBegins
<1>2. smap' \in [Id -> SocketRecord] /\ Alike(smap, smap') /\ pwant' \in [End -> Nat]
  BY <1>1, SameAlike, Zenon DEF PipeInv, PipeTypes
<1>3. "closing" \in PipeAt
  BY DEF PipeAt
<1>4. Told'
  BY <1>1, <1>3, QuietStep, Zenon
<1> QED BY <1>1, <1>2, <1>3, <1>4, MoveStep, Zenon DEF Before, Behind

\* A step of the writer that leaves the socket of the reader as it is.
LEMMA WriterQuiet ==
  ASSUME PipeInv, UNCHANGED pp, pat["w"] \notin {"none", "closed", "raise", "hangup"},
         pat'["r"] = pat["r"], \A i \in Id : i # IdOf("w") => smap'[i] = smap[i]
  PROVE  Told'
<1>1. IdOf("r") \in Id /\ IdOf("r") # IdOf("w")
  BY Alive, TheEnds, Zenon
<1>2. IdOf("r")' = IdOf("r") /\ smap'[IdOf("r")] = smap[IdOf("r")]
  BY <1>1, Zenon DEF IdOf
<1> QED BY <1>2, ToldMove, NoticedIs, Zenon DEF PipeInv

\* RaiseEventToPair() with the lock held: the pair gets its bit.
LEMMA RaiseToPairStep ==
  ASSUME PipeInv, NEW e \in End, RaiseToPair(e)
  PROVE  PipeInv'
<1> DEFINE to == IF pat[e] = "raise" THEN "after" ELSE "freeing"
           x == IdOf(Other(e))
           event == IF e = "r" /\ pat[e] = "raise" THEN "EPOLLOUT" ELSE "EPOLLIN"
           v == smap[x].events \cup {event}
<1>0. smap \in [Id -> SocketRecord] /\ pat \in [End -> PipeAt] /\ pwant \in [End -> Nat]
  BY Zenon DEF PipeInv, PipeTypes
<1>1. /\ PipeGoes(e, to) /\ pat[e] \in {"raise", "hangup"}
      /\ UNCHANGED <<free_smap, pp, pwant, psent, pgot>>
      /\ smap' = SetEvents(smap, x, v)
  BY DEF RaiseToPair, IdOf, SetEvents
<1>2. to \in PipeAt /\ to \in {"after", "freeing"} /\ event \in PipeEvents
  BY DEF PipeAt, PipeEvents
<1>3. e = "w" => event = "EPOLLIN"
  OBVIOUS
<1>4. x \in Id
  BY <1>1, Alive, Zenon
<1>5. v \in SUBSET PipeEvents
  <2>1. smap[x].events \in SUBSET PipeEvents
    BY <1>0, <1>4, SocketFields, Zenon
  <2> QED BY <1>2, <2>1, Zenon
<1> HIDE DEF x, v, event
<1>6. smap' \in [Id -> SocketRecord] /\ Alike(smap, smap') /\ smap'[x].events = v
  BY <1>0, <1>1, <1>4, <1>5, EventsStep, Zenon
<1>7. pat'[e] = to /\ \A d \in End : d # e => pat'[d] = pat[d]
  BY <1>0, <1>1, <1>2, PipeGoesTo, Zenon
<1>8. Told'
  <2>1. CASE e = "r"
    BY <1>2, <1>7, <2>1, Zenon DEF Told
  <2>2. CASE e = "w"
    <3>1. x = IdOf("r") /\ IdOf("r")' = IdOf("r") /\ "EPOLLIN" \in v
      BY <1>1, <1>3, <2>2, TheEnds, Zenon DEF IdOf, x, v
    <3> QED BY <1>6, <3>1, Zenon DEF Told
  <2> QED BY <2>1, <2>2, TheEnds, Zenon
<1>9. /\ pat[e] \in Before \cup {"told"} => to \in Before \cup {"told"}
      /\ pat[e] \in Behind => to \in Behind
  BY <1>1 DEF Before, Behind
<1>10. pwant' \in [End -> Nat] /\ \A d \in End : d # e => pwant'[d] = pwant[d]
  BY <1>0, <1>1, Zenon
<1> HIDE DEF to
<1> QED BY <1>1, <1>2, <1>6, <1>8, <1>9, <1>10, MoveStep, Zenon

\* After PipeRead() or PipeWrite(), RaisePendingPipeEvents() of the caller's own end.
LEMMA AfterStep ==
  ASSUME PipeInv, NEW e \in End, After(e)
  PROVE  PipeInv'
<1> DEFINE x == IdOf(e)
           v == smap[x].events \cup {Ready(e)}
           more == IF e = "r" THEN pp.buf_len > 0 ELSE pp.buf_len < PIPE_BUF_SIZE
           raise == \/ Ready(e) \in smap[x].epoll /\ more
                    \/ e = "r" /\ pp.state = "CLOSE_WAIT" /\ pp.buf_len = 0
<1>0. /\ smap \in [Id -> SocketRecord] /\ pat \in [End -> PipeAt] /\ pwant \in [End -> Nat]
      /\ pp.buf_len \in Nat
  BY PipeFields, PipeNums DEF PipeInv, PipeTypes
<1>1. /\ PipeGoes(e, "idle") /\ pat[e] = "after"
      /\ UNCHANGED <<free_smap, pp, pwant, psent, pgot>>
      /\ smap' = IF raise THEN SetEvents(smap, x, v) ELSE smap
  BY DEF After, IdOf, Sock, SetEvents
<1>2. "idle" \in PipeAt /\ "idle" \in Before /\ "after" \in Before /\ "after" \notin Behind
  BY DEF PipeAt, Before, Behind
<1>3. x \in Id /\ Theirs(e) /\ IdOf(Other(e)) # x
  BY <1>1, Alive, Zenon
<1>4. v \in SUBSET PipeEvents
  <2>1. smap[x].events \in SUBSET PipeEvents
    BY <1>0, <1>3, SocketFields, Zenon
  <2>2. Ready(e) \in PipeEvents
    BY TheEnds, Zenon
  <2> QED BY <2>1, <2>2, Zenon
<1>5. e = "r" /\ smap[x].epoll # {} /\ (pp.buf_len > 0 \/ pp.state = "CLOSE_WAIT") => raise
  <2>1. e = "r" /\ smap[x].epoll # {} => Ready(e) \in smap[x].epoll
    BY <1>3 DEF Theirs
  <2> QED BY <1>0, <2>1
<1> HIDE DEF x, v, raise
<1>6. /\ smap' \in [Id -> SocketRecord] /\ Alike(smap, smap')
      /\ \A i \in Id : i # x => smap'[i] = smap[i]
      /\ raise => smap'[x].events = v
  <2>1. CASE raise
    BY <1>0, <1>1, <1>3, <1>4, <2>1, EventsStep, Zenon
  <2>2. CASE ~raise
    BY <1>0, <1>1, <2>2, SameAlike, Zenon
  <2> QED BY <2>1, <2>2
<1>7. pat'[e] = "idle" /\ \A d \in End : d # e => pat'[d] = pat[d]
  BY <1>0, <1>1, <1>2, PipeGoesTo, Zenon
<1>8. Told'
  <2>1. CASE e = "r"
    <3>1. x = IdOf("r") /\ IdOf("r")' = IdOf("r") /\ "EPOLLIN" \in v
      BY <1>1, <2>1, TheEnds, Zenon DEF IdOf, x, v
    <3>2. smap'[x].epoll = smap[x].epoll
      BY <1>3, <1>6, Zenon DEF Alike
    <3> QED BY <1>1, <1>5, <1>6, <2>1, <3>1, <3>2, Zenon DEF Told
  <2>2. CASE e = "w"
    BY <1>1, <1>6, <1>7, <2>2, WriterQuiet, TheEnds, Zenon DEF x
  <2> QED BY <2>1, <2>2, TheEnds, Zenon
<1>9. pwant' \in [End -> Nat] /\ \A d \in End : d # e => pwant'[d] = pwant[d]
  BY <1>0, <1>1, Zenon
<1> QED BY <1>1, <1>2, <1>6, <1>8, <1>9, MoveStep, Zenon

\* mtcp_read() or mtcp_write() of an end; a polling end uses up its event.
LEMMA CallStep ==
  ASSUME PipeInv, NEW e \in End, Call(e)
  PROVE  PipeInv'
<1> DEFINE x == IdOf(e)
           v == smap[x].events \ {Ready(e)}
           to == IF pp.state = "CLOSE_WAIT" /\ (e = "w" \/ pp.buf_len = 0) THEN "told" ELSE "lock"
<1>0. smap \in [Id -> SocketRecord] /\ pat \in [End -> PipeAt] /\ pwant \in [End -> Nat]
  BY Zenon DEF PipeInv, PipeTypes
<1>1. /\ PipeGoes(e, to) /\ pat[e] = "idle" /\ UNCHANGED <<free_smap, pp, psent, pgot>>
      /\ smap' = SetEvents(smap, x, v) \/ smap' = smap
  BY Zenon DEF Call, IdOf, SetEvents
<1>2. PICK n \in Lens : pwant' = [pwant EXCEPT ![e] = n]
  BY Zenon DEF Call
<1>3. /\ pwant' \in [End -> Nat] /\ pwant'[e] > 0
      /\ \A d \in End : d # e => pwant'[d] = pwant[d]
  BY <1>0, <1>2, PipeNums
<1>4. /\ to \in PipeAt /\ "idle" \in Before /\ "idle" \notin Behind /\ to \in Before \cup {"told"}
      /\ to \notin {"idle", "wait"}
      /\ to = "told" => pp.state = "CLOSE_WAIT"
  BY DEF PipeAt, Before, Behind
<1>5. x \in Id
  BY <1>1, Alive, Zenon
<1>6. v \in SUBSET PipeEvents
  BY <1>0, <1>5, SocketFields, Zenon
<1> HIDE DEF x, v, to
<1>7. /\ smap' \in [Id -> SocketRecord] /\ Alike(smap, smap')
      /\ \A i \in Id : i # x => smap'[i] = smap[i]
  <2>1. CASE smap' = SetEvents(smap, x, v)
    BY <1>0, <1>5, <1>6, <2>1, EventsStep, Zenon
  <2>2. CASE smap' = smap
    BY <1>0, <2>2, SameAlike, Zenon
  <2> QED BY <1>1, <2>1, <2>2, Zenon
<1>8. pat'[e] = to /\ \A d \in End : d # e => pat'[d] = pat[d]
  BY <1>0, <1>1, <1>4, PipeGoesTo, Zenon
<1>9. Told'
  <2>1. CASE e = "r"
    BY <1>4, <1>8, <2>1, Zenon DEF Told
  <2>2. CASE e = "w"
    BY <1>1, <1>7, <1>8, <2>2, WriterQuiet, TheEnds, Zenon DEF x
  <2> QED BY <2>1, <2>2, TheEnds, Zenon
<1> QED BY <1>1, <1>3, <1>4, <1>7, <1>9, MoveStep, Zenon

Registered(m, x, r, v) == [m EXCEPT ![x].epoll = {r}, ![x].events = v]

\* mtcp_epoll_ctl() sets the epoll word and what is pending in the event word.
LEMMA RegisteredIs ==
  ASSUME NEW m \in [Id -> SocketRecord], NEW x \in Id, NEW r \in PipeEvents,
         NEW v \in SUBSET PipeEvents
  PROVE  /\ Registered(m, x, r, v) \in [Id -> SocketRecord]
         /\ Registered(m, x, r, v)[x].epoll = {r} /\ Registered(m, x, r, v)[x].events = v
         /\ Registered(m, x, r, v)[x].opts = m[x].opts
         /\ Registered(m, x, r, v)[x].socktype = m[x].socktype
         /\ \A i \in Id : i # x => Registered(m, x, r, v)[i] = m[i]
BY Zenon DEF SocketRecord, Registered

\* mtcp_epoll_ctl(ADD) raises what is pending at once, so nothing is missed.
LEMMA RegisterStep ==
  ASSUME PipeInv, NEW e \in End, Register(e)
  PROVE  PipeInv'
<1> DEFINE x == IdOf(e)
           v == IF Pending(e) THEN {Ready(e)} ELSE {}
           m == Registered(smap, x, Ready(e), v)
<1>0. smap \in [Id -> SocketRecord] /\ SocketsInv /\ IdsKept /\ BytesInv
  BY Zenon DEF PipeInv, PipeTypes
<1>1. /\ pat[e] = "idle" /\ smap[x].opts = "NONBLOCK" /\ smap' = m
      /\ UNCHANGED <<free_smap, pp, pat, pwant, psent, pgot>>
  BY DEF Register, IdOf, Sock, Registered
<1>2. x \in Id /\ Theirs(e) /\ IdOf(Other(e)) \in Id /\ IdOf(Other(e)) # x
  BY <1>1, Alive, Zenon
<1>3. Ready(e) \in PipeEvents
  BY TheEnds, Zenon
<1>4. v \in SUBSET PipeEvents
  BY <1>3, Zenon
<1>5. Pending(e) => v = {Ready(e)}
  OBVIOUS
<1> HIDE DEF x, v
<1>6. /\ m \in [Id -> SocketRecord] /\ m[x].epoll = {Ready(e)} /\ m[x].events = v
      /\ m[x].opts = smap[x].opts /\ m[x].socktype = smap[x].socktype
      /\ \A i \in Id : i # x => m[i] = smap[i]
  BY <1>0, <1>2, <1>3, <1>4, RegisteredIs
<1> HIDE DEF m
<1>7. PipeTypes'
  BY <1>1, <1>6, Zenon DEF PipeInv, PipeTypes
<1>8. EndsInv'
  BY <1>1, Zenon DEF PipeInv, EndsInv
<1>9. \A d \in End : IdOf(d)' = IdOf(d)
  BY <1>1, Zenon DEF IdOf
<1>10. SocketsInv'
  <2>1. ASSUME NEW d \in End, pat'[d] \notin {"none", "closed"} PROVE Theirs(d)'
    <3>1. CASE d = e
      <4>1. IdOf(e)' = x /\ smap'[x] = m[x] /\ smap[x].socktype = "PIPE" /\ pat'[e] = "idle"
        BY <1>1, <1>2, <1>9, Zenon DEF x, Theirs
      <4>2. \A y : (IdOf(e)' = y /\ smap'[y].socktype = "PIPE" /\ smap'[y].epoll = {Ready(e)}
                    /\ smap'[y].opts = "NONBLOCK") => Theirs(e)'
        BY <4>1, Zenon DEF Theirs
      <4> QED BY <1>1, <1>6, <3>1, <4>1, <4>2, Zenon
    <3>2. CASE d # e
      <4>1. Theirs(d) /\ IdOf(d) \in Id /\ IdOf(d) # x
        BY <1>1, <1>2, <2>1, <3>2, TheEnds, Zenon DEF SocketsInv, PipeInv
      <4>2. smap'[IdOf(d)] = smap[IdOf(d)] /\ pat'[d] = pat[d] /\ IdOf(d)' = IdOf(d)
        BY <1>1, <1>6, <1>9, <4>1, Zenon
      <4> QED BY <4>1, <4>2, Zenon DEF Theirs
    <3> QED BY <3>1, <3>2
  <2>2. IdOf("r")' = IdOf("r") /\ IdOf("w")' = IdOf("w")
    BY <1>9, TheEnds, Zenon
  <2> QED BY <1>0, <1>1, <2>1, <2>2, Zenon DEF SocketsInv
<1>11. IdsKept'
  <2>1. \A i \in Id : smap'[i].socktype = smap[i].socktype
    BY <1>1, <1>6, Zenon
  <2> QED BY <1>0, <1>1, <2>1, Zenon DEF IdsKept, Id
<1>12. BytesInv'
  BY <1>0, <1>1, BytesSame, Zenon
<1>13. Sleeps'
  BY <1>1, NoticedIs, Zenon DEF PipeInv, Sleeps
<1>14. Told'
  <2>1. CASE e = "r"
    <3>1. x = IdOf("r") /\ IdOf("r")' = IdOf("r")
      BY <1>9, <2>1, TheEnds, Zenon DEF x
    <3>2. pp.buf_len > 0 \/ pp.state = "CLOSE_WAIT" => "EPOLLIN" \in v
      BY <1>5, <2>1, TheEnds, Zenon DEF Pending
    <3> QED BY <1>1, <1>6, <3>1, <3>2, Zenon DEF Told
  <2>2. CASE e = "w"
    BY <1>1, <1>6, <2>2, WriterQuiet, TheEnds, Zenon DEF x
  <2> QED BY <2>1, <2>2, TheEnds, Zenon
<1> QED BY <1>7, <1>8, <1>10, <1>11, <1>12, <1>13, <1>14, NoticedIsNext, Zenon DEF PipeInv

-----------------------------------------------------------------------------
(* Indices go around the end of the buffer. *)

\* An index that wraps stays in the buffer.
LEMMA WrapIn ==
  ASSUME NEW p \in Cell, NEW n \in 0..PIPE_BUF_SIZE
  PROVE  Wrap(p, n) \in Cell
BY PipeNums DEF Wrap, Cell

\* To go on by n and then by k is to go on by n + k.
LEMMA WrapWrap ==
  ASSUME NEW p \in Cell, NEW n \in Nat, NEW k \in Nat, n + k <= PIPE_BUF_SIZE
  PROVE  Wrap(Wrap(p, n), k) = Wrap(p, n + k)
BY PipeNums DEF Wrap, Cell

\* Less than a whole buffer apart is apart.
LEMMA WrapApart ==
  ASSUME NEW p \in Cell, NEW i \in Nat, NEW j \in Nat, i < PIPE_BUF_SIZE, j < PIPE_BUF_SIZE,
         i # j
  PROVE  Wrap(p, i) # Wrap(p, j)
BY PipeNums DEF Wrap, Cell

\* What a reader of n bytes gets, and a writer of n bytes leaves.
Taken(buf, off, n) == [k \in 1..n |-> buf[Wrap(off, k - 1)]]
Put(buf, tail, s, n) ==
  [i \in DOMAIN buf |-> IF \E k \in 1..n : i = Wrap(tail, k - 1)
                        THEN s + (CHOOSE k \in 1..n : i = Wrap(tail, k - 1))
                        ELSE buf[i]]

\* The bytes of a write are where its copy put them, also around the end.
LEMMA PutAt ==
  ASSUME NEW buf \in [Cell -> Nat], NEW tail \in Cell, NEW s \in Nat, NEW n \in 0..PIPE_BUF_SIZE,
         NEW j \in 1..n
  PROVE  Put(buf, tail, s, n)[Wrap(tail, j - 1)] = s + j
<1> DEFINE c == Wrap(tail, j - 1)
           h == CHOOSE k \in 1..n : c = Wrap(tail, k - 1)
<1>1. j - 1 \in 0..PIPE_BUF_SIZE
  BY PipeNums
<1>2. c \in Cell
  BY <1>1, WrapIn, Zenon
<1>3. h \in 1..n /\ c = Wrap(tail, h - 1)
  BY Zenon
<1> HIDE DEF h, c
<1>4. h - 1 \in Nat /\ j - 1 \in Nat /\ h - 1 < PIPE_BUF_SIZE /\ j - 1 < PIPE_BUF_SIZE
  BY <1>3, PipeNums
<1>5. h - 1 = j - 1
  BY <1>3, <1>4, WrapApart, Zenon DEF c
<1>6. h = j
  BY <1>3, <1>5
<1>7. Put(buf, tail, s, n)[c] = s + h
  BY <1>2, Zenon DEF Put, h, c
<1> QED BY <1>6, <1>7, Zenon DEF c

\* A write keeps the buffer a buffer.
LEMMA PutType ==
  ASSUME NEW buf \in [Cell -> Nat], NEW tail, NEW s \in Nat, NEW n \in Nat
  PROVE  Put(buf, tail, s, n) \in [Cell -> Nat]
<1>1. ASSUME NEW i \in Cell, \E k \in 1..n : i = Wrap(tail, k - 1)
      PROVE  s + (CHOOSE k \in 1..n : i = Wrap(tail, k - 1)) \in Nat
  <2> DEFINE h == CHOOSE k \in 1..n : i = Wrap(tail, k - 1)
  <2>1. h \in 1..n
    BY <1>1, Zenon
  <2> HIDE DEF h
  <2>2. s + h \in Nat
    BY <2>1
  <2> QED BY <2>2 DEF h
<1> QED BY <1>1, Zenon DEF Put

\* What a read copies out are the oldest bytes, in order.
LEMMA TakenIs ==
  ASSUME NEW g \in Seq(Nat), NEW buf \in [Cell -> Nat], NEW off \in Cell,
         NEW len \in 0..PIPE_BUF_SIZE, NEW n \in Nat, n <= len,
         \A k \in 0..(len - 1) : buf[Wrap(off, k)] = Len(g) + k + 1
  PROVE  /\ Taken(buf, off, n) \in Seq(Nat) /\ Len(Taken(buf, off, n)) = n
         /\ \A k \in 1..n : Taken(buf, off, n)[k] = Len(g) + k
<1> DEFINE t == Taken(buf, off, n)
<1>1. ASSUME NEW k \in 1..n PROVE t[k] = Len(g) + k /\ t[k] \in Nat
  <2>1. t[k] = buf[Wrap(off, k - 1)]
    BY Zenon DEF Taken
  <2>2. k - 1 \in 0..(len - 1)
    BY PipeNums
  <2>3. t[k] = Len(g) + (k - 1) + 1
    BY <2>1, <2>2, Zenon
  <2> HIDE DEF t
  <2> QED BY <2>3
<1>2. t \in [1..n -> Nat]
  BY <1>1, Zenon DEF Taken
<1> HIDE DEF t
<1>3. t \in Seq(Nat) /\ Len(t) = n
  BY <1>2
<1> QED BY <1>1, <1>3, Zenon DEF t

\* Sequences put together, index by index.
LEMMA JoinedIs ==
  ASSUME NEW g \in Seq(Nat), NEW t \in Seq(Nat)
  PROVE  /\ g \o t \in Seq(Nat) /\ Len(g \o t) = Len(g) + Len(t)
         /\ \A k \in 1..Len(g) : (g \o t)[k] = g[k]
         /\ \A k \in 1..Len(t) : (g \o t)[Len(g) + k] = t[k]
OBVIOUS

\* PipeRead() takes bytes from the front and keeps the rest where it is.
LEMMA ReadBytes ==
  ASSUME NEW g \in Seq(Nat), NEW s \in Nat, NEW buf \in [Cell -> Nat], NEW off \in Cell,
         NEW tail \in Cell, NEW len \in 0..PIPE_BUF_SIZE, NEW n \in Nat, n <= len,
         BytesAre(g, s, buf, off, tail, len)
  PROVE  /\ g \o Taken(buf, off, n) \in Seq(Nat)
         /\ BytesAre(g \o Taken(buf, off, n), s, buf, Wrap(off, n), tail, len - n)
<1> DEFINE t == Taken(buf, off, n)
           h == g \o t
<1>1. Len(g) + len = s
  BY Zenon DEF BytesAre
<1>2. tail = Wrap(off, len) /\ \A k \in 1..Len(g) : g[k] = k
  BY Zenon DEF BytesAre
<1>0. \A k \in 0..(len - 1) : buf[Wrap(off, k)] = Len(g) + k + 1
  BY Zenon DEF BytesAre
<1>3. t \in Seq(Nat) /\ Len(t) = n /\ \A k \in 1..n : t[k] = Len(g) + k
  <2>1. /\ Taken(buf, off, n) \in Seq(Nat) /\ Len(Taken(buf, off, n)) = n
        /\ \A k \in 1..n : Taken(buf, off, n)[k] = Len(g) + k
    BY <1>0, TakenIs, Zenon
  <2> QED BY <2>1, Zenon
<1> HIDE DEF t
<1>4. /\ h \in Seq(Nat) /\ Len(h) = Len(g) + n
      /\ \A k \in 1..Len(g) : h[k] = g[k]
      /\ \A k \in 1..n : h[Len(g) + k] = t[k]
  BY <1>3, JoinedIs, Zenon
<1> HIDE DEF h
<1>7. ASSUME NEW k \in 1..Len(h) PROVE h[k] = k
  <2>2. CASE k <= Len(g)
    <3>1. k \in 1..Len(g)
      BY <2>2
    <3> QED BY <1>2, <1>4, <3>1, Zenon
  <2>3. CASE ~(k <= Len(g))
    <3>1. k - Len(g) \in 1..n /\ Len(g) + (k - Len(g)) = k
      BY <1>4, <2>3
    <3> QED BY <1>3, <1>4, <3>1, Zenon
  <2> QED BY <2>2, <2>3, Zenon
<1>8. ASSUME NEW k \in 0..(len - n - 1) PROVE buf[Wrap(Wrap(off, n), k)] = Len(h) + k + 1
  <2>2. n + k \in 0..(len - 1) /\ k \in Nat /\ n + k <= PIPE_BUF_SIZE
    BY PipeNums
  <2>3. Wrap(Wrap(off, n), k) = Wrap(off, n + k)
    BY <2>2, WrapWrap, Zenon
  <2>4. buf[Wrap(off, n + k)] = Len(g) + (n + k) + 1
    BY <1>0, <2>2, Zenon
  <2>5. Len(g) + (n + k) + 1 = Len(h) + k + 1
    BY <1>4
  <2> QED BY <2>3, <2>4, <2>5, Zenon
<1>9. tail = Wrap(Wrap(off, n), len - n)
  <2>1. len - n \in Nat /\ n + (len - n) = len /\ n + (len - n) <= PIPE_BUF_SIZE
    BY PipeNums
  <2>2. Wrap(Wrap(off, n), len - n) = Wrap(off, n + (len - n))
    BY <2>1, WrapWrap, Zenon
  <2> QED BY <1>2, <2>1, <2>2, Zenon
<1>10. Len(h) + (len - n) = s
  <2>1. Len(h) = Len(g) + n
    BY <1>4, Zenon
  <2>2. Len(g) \in Nat /\ len \in Nat
    BY PipeNums
  <2> QED BY <1>1, <2>1, <2>2, SMTT(30)
<1>11. BytesAre(h, s, buf, Wrap(off, n), tail, len - n)
  BY <1>7, <1>8, <1>9, <1>10, Zenon DEF BytesAre
<1> QED BY <1>4, <1>11, Zenon DEF h, t

\* PipeWrite() puts bytes behind the last and overwrites none.
LEMMA WriteBytes ==
  ASSUME NEW g \in Seq(Nat), NEW s \in Nat, NEW buf \in [Cell -> Nat], NEW off \in Cell,
         NEW tail \in Cell, NEW len \in 0..PIPE_BUF_SIZE, NEW n \in Nat,
         n <= PIPE_BUF_SIZE - len, BytesAre(g, s, buf, off, tail, len)
  PROVE  BytesAre(g, s + n, Put(buf, tail, s, n), off, Wrap(tail, n), len + n)
<1> DEFINE b == Put(buf, tail, s, n)
<1>1. Len(g) + len = s
  BY Zenon DEF BytesAre
<1>2. tail = Wrap(off, len) /\ \A k \in 1..Len(g) : g[k] = k
  BY Zenon DEF BytesAre
<1>0. \A k \in 0..(len - 1) : buf[Wrap(off, k)] = Len(g) + k + 1
  BY Zenon DEF BytesAre
<1> HIDE DEF b
<1>3. len \in Nat /\ len + n <= PIPE_BUF_SIZE /\ n \in 0..PIPE_BUF_SIZE
  BY PipeNums
<1>4. ASSUME NEW j \in Nat, len + j <= PIPE_BUF_SIZE PROVE Wrap(tail, j) = Wrap(off, len + j)
  BY <1>2, <1>3, <1>4, WrapWrap, Zenon
<1>5. ASSUME NEW k \in 0..((len + n) - 1) PROVE b[Wrap(off, k)] = Len(g) + k + 1
  <2>1. CASE k < len
    <3>1. k \in Nat /\ k \in 0..(len - 1) /\ k < PIPE_BUF_SIZE /\ k \in 0..PIPE_BUF_SIZE
      BY <1>3, <2>1, PipeNums
    <3>2. ASSUME NEW j \in 1..n PROVE Wrap(off, k) # Wrap(tail, j - 1)
      <4>1. /\ j - 1 \in Nat /\ len + (j - 1) <= PIPE_BUF_SIZE
            /\ len + (j - 1) \in Nat /\ len + (j - 1) < PIPE_BUF_SIZE /\ k # len + (j - 1)
        BY <1>3, <2>1, PipeNums
      <4>2. Wrap(off, k) # Wrap(off, len + (j - 1))
        BY <3>1, <4>1, WrapApart, Zenon
      <4> QED BY <1>4, <4>1, <4>2, Zenon
    <3>3. Wrap(off, k) \in Cell
      BY <3>1, WrapIn, Zenon
    <3>4. b[Wrap(off, k)] = buf[Wrap(off, k)]
      BY <3>2, <3>3, Zenon DEF b, Put
    <3> QED BY <1>0, <3>1, <3>4, Zenon
  <2>2. CASE ~(k < len)
    <3> DEFINE j == k - len + 1
    <3>1. j \in 1..n /\ j - 1 \in Nat /\ len + (j - 1) = k /\ len + (j - 1) <= PIPE_BUF_SIZE
      BY <1>3, <2>2, PipeNums
    <3> HIDE DEF j
    <3>2. Wrap(tail, j - 1) = Wrap(off, k)
      BY <1>4, <3>1, Zenon
    <3>3. b[Wrap(tail, j - 1)] = s + j
      BY <1>3, <3>1, PutAt, Zenon DEF b
    <3>5. Len(g) \in Nat /\ j \in Nat /\ k \in Nat
      BY <1>3, <3>1
    <3>4. s + j = Len(g) + k + 1
      BY <1>1, <1>3, <3>1, <3>5, SMTT(30)
    <3> QED BY <3>2, <3>3, <3>4, Zenon
  <2> QED BY <2>1, <2>2, Zenon
<1>6. Wrap(tail, n) = Wrap(off, len + n)
  BY <1>3, <1>4, Zenon
<1>7. Len(g) + (len + n) = s + n
  BY <1>1, <1>3
<1>8. \A k \in 0..((len + n) - 1) : b[Wrap(off, k)] = Len(g) + k + 1
  BY <1>5, Zenon
<1>9. BytesAre(g, s + n, b, off, Wrap(tail, n), len + n)
  BY <1>2, <1>6, <1>7, <1>8 DEF BytesAre
<1> QED BY <1>9, Zenon DEF b

-----------------------------------------------------------------------------
(* A step of one end under the lock. *)

\* The end e is where it should be, and the other one is where it was, or awake.
Passed(e, where) ==
  /\ pat' \in [End -> PipeAt] /\ pat'[e] \in where
  /\ \/ pat'[Other(e)] = pat[Other(e)]
     \/ pat[Other(e)] = "wait" /\ pat'[Other(e)] = "lock"

\* Who has to know does.
Knows(e, raise) ==
  /\ smap[IdOf(Other(e))].opts # "NONBLOCK" => pat'[Other(e)] # "wait"
  /\ smap[IdOf(Other(e))].opts = "NONBLOCK" /\ smap[IdOf(Other(e))].epoll # {} =>
       pat'[e] = raise

\* NotifyToPair() wakes the pair if it sleeps, or raises the event it polls for.
LEMMA ToPairIs ==
  ASSUME pat \in [End -> PipeAt], NEW e \in End, NEW raise \in PipeAt, NEW on \in PipeAt,
         ToPair(e, raise, on)
  PROVE  Passed(e, {raise, on}) /\ Knows(e, raise)
<1> DEFINE o == Other(e)
           to == IF smap[IdOf(o)].epoll # {} THEN raise ELSE on
<1>1. o \in End /\ o # e /\ "lock" \in PipeAt
  BY TheEnds, Zenon DEF PipeAt
<1>2. CASE smap[IdOf(o)].opts = "NONBLOCK"
  <2>1. PipeGoes(e, to)
    BY <1>2, Zenon DEF ToPair, Sock, IdOf
  <2>2. to \in PipeAt /\ to \in {raise, on}
    BY Zenon
  <2>3. pat' \in [End -> PipeAt] /\ pat'[e] = to /\ pat'[o] = pat[o]
    BY <1>1, <2>1, <2>2, PipeGoesTo, Zenon
  <2> QED BY <1>2, <2>2, <2>3, Zenon DEF Passed, Knows
<1>3. CASE smap[IdOf(o)].opts # "NONBLOCK"
  <2>1. pat' = [pat EXCEPT ![e] = on, ![o] = IF pat[o] = "wait" THEN "lock" ELSE pat[o]]
    BY <1>3, Zenon DEF ToPair, Sock, IdOf
  <2>2. /\ pat' \in [End -> PipeAt] /\ pat'[e] = on
        /\ pat'[o] = IF pat[o] = "wait" THEN "lock" ELSE pat[o]
    BY <1>1, <2>1, Zenon
  <2> QED BY <1>3, <2>2, Zenon DEF Passed, Knows
<1> QED BY <1>2, <1>3

\* A thread that tells nobody leaves its pair asleep.
LEMMA GoesPasses ==
  ASSUME pat \in [End -> PipeAt], NEW e \in End, NEW to \in PipeAt, PipeGoes(e, to)
  PROVE  Passed(e, {to})
<1>1. Other(e) \in End /\ Other(e) # e
  BY TheEnds, Zenon
<1>2. pat' \in [End -> PipeAt] /\ pat'[e] = to /\ pat'[Other(e)] = pat[Other(e)]
  BY <1>1, PipeGoesTo, Zenon
<1> QED BY <1>2, Zenon DEF Passed

\* What a step keeps that moves bytes.
LEMMA PassStep ==
  ASSUME PipeInv, NEW e \in End, pat[e] = "lock", Passed(e, {"raise", "after"}),
         UNCHANGED <<smap, free_smap, pwant>>, pp' \in PipeRecord, pp'.state = pp.state,
         pp'.socket = pp.socket, psent' \in 0..MaxBytes, pgot' \in Seq(Nat),
         BytesInv', Sleeps', Told'
  PROVE  PipeInv'
<1>1. /\ EndsInv /\ SocketsInv /\ IdsKept /\ Other(e) # e /\ \A d \in End : d = e \/ d = Other(e)
      /\ "lock" \in Before /\ "lock" \notin Behind /\ "raise" \in Before /\ "after" \in Before
      /\ "wait" \in Before /\ "wait" \notin Behind
  BY TheEnds, Zenon DEF PipeInv, Before, Behind
<1>2. PipeTypes'
  BY Zenon DEF PipeInv, PipeTypes, Passed
<1>3. EndsInv'
  <2>1. \A d \in End : pat[d] \in {"lock", "wait"} => pwant[d] > 0
    BY <1>1, Zenon DEF EndsInv
  <2>2. ASSUME NEW d \in End
        PROVE  /\ pat[d] \in Before \cup {"told"} => pat'[d] \in Before \cup {"told"}
               /\ pat[d] \in Behind => pat'[d] \in Behind
               /\ pat[d] \in {"freeing", "closed"} => pat'[d] \in {"freeing", "closed"}
               /\ pat[d] = "none" => pat'[d] = "none"
               /\ pat'[d] = "told" => pp.state = "CLOSE_WAIT"
               /\ pat'[d] \in {"lock", "wait"} => pwant'[d] > 0
    <3>1. CASE d = e
      BY <1>1, <3>1, Zenon DEF Passed
    <3>2. CASE d # e
      <4>0. d = Other(e)
        BY <1>1, <3>2, Zenon
      <4>1. pat'[d] = pat[d] \/ (pat[d] = "wait" /\ pat'[d] = "lock")
        BY <4>0, Zenon DEF Passed
      <4>2. CASE pat'[d] = pat[d]
        BY <2>1, <4>2, ToldMeans, Zenon
      <4>3. CASE pat[d] = "wait" /\ pat'[d] = "lock"
        BY <1>1, <2>1, <4>3, Zenon
      <4> QED BY <4>1, <4>2, <4>3, Zenon
    <3> QED BY <3>1, <3>2
  <2> QED BY <1>1, <2>2, EndsMove, Zenon
<1>4. Alike(smap, smap')
  BY SameAlike, Zenon
<1>5. SocketsInv'
  <2>1. ASSUME NEW d \in End
        PROVE  /\ pat'[d] \notin {"none", "closed"} => pat[d] \notin {"none", "closed"}
               /\ pat[d] \notin {"none", "closed"} => pp.state # "none"
               /\ pat'[d] = "wait" => pat[d] = "wait" \/ smap[IdOf(d)].opts # "NONBLOCK"
    <3>1. CASE d = e
      BY <3>1, NotNone, Zenon DEF Passed
    <3>2. CASE d # e
      BY <1>1, <3>2, NotNone, Zenon DEF Passed
    <3> QED BY <3>1, <3>2
  <2> QED BY <1>1, <1>4, <2>1, SocketsMove, Zenon
<1>6. IdsKept'
  BY <1>1, <1>4, IdsAlike, Zenon
<1> QED BY <1>2, <1>3, <1>5, <1>6, NoticedIsNext, Zenon DEF PipeInv

\* Only a blocking end sleeps.
LEMMA Sleeper ==
  ASSUME PipeInv, NEW d \in End, pat[d] = "wait"
  PROVE  smap[IdOf(d)].opts # "NONBLOCK"
BY Alive, Zenon DEF Theirs

\* PipeRead() of n bytes, under the lock.
LEMMA ReadStep ==
  ASSUME PipeInv, pat["r"] = "lock", NEW n \in Nat, n > 0, n <= pp.buf_len, PipeRead(n),
         UNCHANGED <<smap, free_smap, pwant>>
  PROVE  PipeInv'
<1>0. /\ pat \in [End -> PipeAt] /\ pp \in PipeRecord /\ psent \in 0..MaxBytes /\ psent \in Nat
      /\ pgot \in Seq(Nat) /\ BytesInv /\ "raise" \in PipeAt /\ "after" \in PipeAt
  BY PipeNums DEF PipeInv, PipeTypes, PipeAt
<1>1. /\ pp.buf \in [Cell -> Nat] /\ pp.buf_off \in Cell /\ pp.buf_tail \in Cell
      /\ pp.buf_len \in 0..PIPE_BUF_SIZE
  BY <1>0, PipeFields, Zenon
<1>2. /\ pgot' = pgot \o Taken(pp.buf, pp.buf_off, n) /\ psent' = psent
      /\ pp' = [pp EXCEPT !.buf_off = Wrap(pp.buf_off, n), !.buf_len = pp.buf_len - n]
  BY DEF PipeRead, Taken
<1>3. n \in 0..PIPE_BUF_SIZE /\ pp.buf_len - n \in 0..PIPE_BUF_SIZE
  BY <1>1, PipeNums
<1>4. Wrap(pp.buf_off, n) \in Cell
  BY <1>1, <1>3, WrapIn, Zenon
<1>5. /\ pp' \in PipeRecord /\ pp'.state = pp.state /\ pp'.socket = pp.socket
      /\ pp'.buf = pp.buf /\ pp'.buf_tail = pp.buf_tail
      /\ pp'.buf_off = Wrap(pp.buf_off, n) /\ pp'.buf_len = pp.buf_len - n
  BY <1>0, <1>2, <1>3, <1>4, Zenon DEF PipeRecord
<1>6. pgot' \in Seq(Nat) /\ BytesInv'
  <2>1. BytesAre(pgot, psent, pp.buf, pp.buf_off, pp.buf_tail, pp.buf_len)
    BY <1>0, Zenon DEF BytesInv
  <2>2. /\ pgot' \in Seq(Nat)
        /\ BytesAre(pgot', psent, pp.buf, Wrap(pp.buf_off, n), pp.buf_tail, pp.buf_len - n)
    BY <1>0, <1>1, <1>2, <2>1, ReadBytes, Zenon
  <2> QED BY <1>2, <1>5, <2>2, Zenon DEF BytesInv
<1>7. /\ Passed("r", {"raise", "after"})
      /\ pp.buf_len = PIPE_BUF_SIZE => Knows("r", "raise")
  <2>1. CASE pp.buf_len = PIPE_BUF_SIZE
    <3>1. ToPair("r", "raise", "after")
      BY <2>1, Zenon DEF PipeRead
    <3> QED BY <1>0, <3>1, ToPairIs, TheEnds, Zenon
  <2>2. CASE pp.buf_len # PIPE_BUF_SIZE
    <3>1. PipeGoes("r", "after")
      BY <2>2, Zenon DEF PipeRead
    <3>2. Passed("r", {"after"})
      BY <1>0, <3>1, GoesPasses, TheEnds, Zenon
    <3> QED BY <2>2, <3>2, Zenon DEF Passed
  <2> QED BY <2>1, <2>2
<1>8. Sleeps'
  <2>1. pat'["r"] # "wait"
    BY <1>7, Zenon DEF Passed
  <2>2. pat'["w"] # "wait"
    <3>1. SUFFICES ASSUME pat'["w"] = "wait" PROVE FALSE
      OBVIOUS
    <3>2. pat["w"] = "wait"
      BY <1>7, <3>1, TheEnds, Zenon DEF Passed
    <3>3. pp.buf_len = PIPE_BUF_SIZE
      BY <3>2, NoticedIs, Zenon DEF PipeInv, Sleeps
    <3>4. smap[IdOf("w")].opts # "NONBLOCK"
      BY <3>2, Sleeper, TheEnds, Zenon
    <3> QED BY <1>7, <3>1, <3>3, <3>4, TheEnds, Zenon DEF Knows
  <2> QED BY <2>1, <2>2, Zenon DEF Sleeps
<1>9. Told'
  BY <1>7, Zenon DEF Told, Passed
<1> QED BY <1>0, <1>2, <1>5, <1>6, <1>7, <1>8, <1>9, PassStep, TheEnds, Zenon

\* PipeWrite() of n bytes, under the lock.
LEMMA WriteStep ==
  ASSUME PipeInv, pat["w"] = "lock", NEW n \in Nat, n > 0, n <= PIPE_BUF_SIZE - pp.buf_len,
         PipeWrite(n), UNCHANGED <<smap, free_smap, pwant>>
  PROVE  PipeInv'
<1>0. /\ pat \in [End -> PipeAt] /\ pp \in PipeRecord /\ psent \in 0..MaxBytes /\ psent \in Nat
      /\ pgot \in Seq(Nat) /\ BytesInv /\ "raise" \in PipeAt /\ "after" \in PipeAt
  BY PipeNums DEF PipeInv, PipeTypes, PipeAt
<1>1. /\ pp.buf \in [Cell -> Nat] /\ pp.buf_off \in Cell /\ pp.buf_tail \in Cell
      /\ pp.buf_len \in 0..PIPE_BUF_SIZE
  BY <1>0, PipeFields, Zenon
<1> DEFINE b == Put(pp.buf, pp.buf_tail, psent, n)
<1>2. /\ pgot' = pgot /\ psent' = psent + n /\ psent + n <= MaxBytes
      /\ pp' = [pp EXCEPT !.buf_tail = Wrap(pp.buf_tail, n), !.buf_len = pp.buf_len + n,
                          !.buf = b]
  BY DEF PipeWrite, Put
<1> HIDE DEF b
<1>3. /\ n \in 0..PIPE_BUF_SIZE /\ pp.buf_len + n \in 0..PIPE_BUF_SIZE
      /\ psent + n \in 0..MaxBytes
  BY <1>0, <1>1, <1>2, PipeNums, SMTT(30)
<1>4. Wrap(pp.buf_tail, n) \in Cell /\ b \in [Cell -> Nat]
  BY <1>0, <1>1, <1>3, WrapIn, PutType, Zenon DEF b
<1>5. /\ pp' \in PipeRecord /\ pp'.state = pp.state /\ pp'.socket = pp.socket
      /\ pp'.buf = b /\ pp'.buf_off = pp.buf_off
      /\ pp'.buf_tail = Wrap(pp.buf_tail, n) /\ pp'.buf_len = pp.buf_len + n
  BY <1>0, <1>2, <1>3, <1>4, Zenon DEF PipeRecord
<1>6. BytesInv'
  <2>1. BytesAre(pgot, psent, pp.buf, pp.buf_off, pp.buf_tail, pp.buf_len)
    BY <1>0, Zenon DEF BytesInv
  <2>2. BytesAre(pgot, psent + n, b, pp.buf_off, Wrap(pp.buf_tail, n), pp.buf_len + n)
    BY <1>0, <1>1, <2>1, WriteBytes, Zenon DEF b
  <2> QED BY <1>2, <1>5, <2>2, Zenon DEF BytesInv
<1>7. Passed("w", {"raise", "after"}) /\ (pp.buf_len = 0 => Knows("w", "raise"))
  <2>1. CASE pp.buf_len = 0
    <3>1. ToPair("w", "raise", "after")
      BY <2>1, Zenon DEF PipeWrite, TellsReader
    <3> QED BY <1>0, <3>1, ToPairIs, TheEnds, Zenon
  <2>2. CASE pp.buf_len # 0
    <3>1. PipeGoes("w", "after")
      BY <2>2, Zenon DEF PipeWrite, TellsReader
    <3>2. Passed("w", {"after"})
      BY <1>0, <3>1, GoesPasses, TheEnds, Zenon
    <3> QED BY <2>2, <3>2, Zenon DEF Passed
  <2> QED BY <2>1, <2>2
<1>8. Sleeps'
  <2>1. pat'["w"] # "wait"
    BY <1>7, Zenon DEF Passed
  <2>2. pat'["r"] # "wait"
    <3>1. SUFFICES ASSUME pat'["r"] = "wait" PROVE FALSE
      OBVIOUS
    <3>2. pat["r"] = "wait"
      BY <1>7, <3>1, TheEnds, Zenon DEF Passed
    <3>3. pp.buf_len = 0
      BY <3>2, NoticedIs, Zenon DEF PipeInv, Sleeps
    <3>4. smap[IdOf("r")].opts # "NONBLOCK"
      BY <3>2, Sleeper, TheEnds, Zenon
    <3> QED BY <1>7, <3>1, <3>3, <3>4, TheEnds, Zenon DEF Knows
  <2> QED BY <2>1, <2>2, Zenon DEF Sleeps
<1>9. Told'
  <2>1. SUFFICES ASSUME pat'["w"] \notin {"raise", "hangup"}, pat'["r"] = "idle",
                        smap[IdOf("r")].epoll # {}
                 PROVE  "EPOLLIN" \in smap[IdOf("r")].events
    BY <1>5, Zenon DEF Told, IdOf
  <2>2. pat["r"] = "idle"
    BY <1>7, <2>1, TheEnds, Zenon DEF Passed
  <2>3. smap[IdOf("r")].opts = "NONBLOCK"
    BY <2>1, <2>2, Alive, TheEnds, Zenon DEF Theirs
  <2>4. pp.buf_len # 0
    BY <1>7, <2>1, <2>3, TheEnds, Zenon DEF Knows
  <2>5. pp.buf_len > 0
    BY <1>1, <2>4, PipeNums
  <2> QED BY <2>1, <2>2, <2>5, NoticedIs, Zenon DEF PipeInv, Told
<1> QED BY <1>0, <1>2, <1>3, <1>5, <1>6, <1>7, <1>8, <1>9, PassStep, TheEnds, Zenon

\* A call takes at least one byte if it takes any, and no more than there are.
LEMMA FitsIs ==
  ASSUME PipeInv, NEW e \in End, pat[e] = "lock"
  PROVE  /\ Fits(e) \in Nat
         /\ e = "r" => Fits(e) <= pp.buf_len /\ (Fits(e) = 0 => pp.buf_len = 0)
         /\ e = "w" => /\ Fits(e) <= PIPE_BUF_SIZE - pp.buf_len
                       /\ Fits(e) = 0 => pp.buf_len = PIPE_BUF_SIZE
<1>1. pwant[e] \in Nat /\ pwant[e] > 0
  BY Zenon DEF PipeInv, PipeTypes, EndsInv
<1>2. pp.buf_len \in 0..PIPE_BUF_SIZE
  BY PipeFields, Zenon DEF PipeInv, PipeTypes
<1>3. CASE e = "r"
  BY <1>1, <1>2, <1>3, PipeNums DEF Fits, Smallest
<1>4. CASE e = "w"
  BY <1>1, <1>2, <1>4, PipeNums DEF Fits, Smallest
<1> QED BY <1>3, <1>4, TheEnds, Zenon

\* One round of PipeRead() or PipeWrite() under the lock, sleep and error included.
LEMMA BodyStep ==
  ASSUME PipeInv, NEW e \in End, Body(e)
  PROVE  PipeInv'
<1>0. /\ smap \in [Id -> SocketRecord] /\ pat \in [End -> PipeAt] /\ pwant \in [End -> Nat]
      /\ \A d \in End : pat[d] \in {"lock", "wait"} => pwant[d] > 0
  BY Zenon DEF PipeInv, PipeTypes, EndsInv
<1>1. pat[e] = "lock" /\ UNCHANGED <<smap, free_smap, pwant>>
  BY Zenon DEF Body
<1>2. /\ Fits(e) \in Nat
      /\ e = "r" => Fits(e) <= pp.buf_len /\ (Fits(e) = 0 => pp.buf_len = 0)
      /\ e = "w" => /\ Fits(e) <= PIPE_BUF_SIZE - pp.buf_len
                    /\ Fits(e) = 0 => pp.buf_len = PIPE_BUF_SIZE
  BY <1>1, FitsIs, Zenon
<1>3. /\ smap' \in [Id -> SocketRecord] /\ Alike(smap, smap') /\ pwant' \in [End -> Nat]
      /\ \A d \in End : d # e => pwant'[d] = pwant[d]
      /\ "lock" \in Before /\ "lock" \notin Behind /\ "idle" \in Before /\ "wait" \in Before
      /\ "idle" \in PipeAt /\ "wait" \in PipeAt /\ "told" \in PipeAt
  BY <1>0, <1>1, SameAlike, Zenon DEF Before, Behind, PipeAt
<1>4. CASE Fits(e) = 0 /\ smap[IdOf(e)].opts = "NONBLOCK"
  <2> DEFINE to == IF e = "r" /\ pp.state = "CLOSE_WAIT" THEN "told" ELSE "idle"
  <2>1. PipeGoes(e, to) /\ UNCHANGED <<pp, psent, pgot>>
    BY <1>4, Zenon DEF Body, Nothing, Sock, IdOf
  <2>2. /\ to \in PipeAt /\ to \in Before \cup {"told"} /\ to \notin {"lock", "wait"}
        /\ to = "told" => pp.state = "CLOSE_WAIT"
    BY <1>3, Zenon
  <2>3. Told'
    <3>1. pat'[e] = to /\ \A d \in End : d # e => pat'[d] = pat[d]
      BY <1>0, <2>1, <2>2, PipeGoesTo, Zenon
    <3>2. CASE e = "r"
      <4>1. ~(pp.buf_len > 0)
        BY <1>2, <1>4, <3>2
      <4>2. pp.state = "CLOSE_WAIT" => pat'["r"] # "idle"
        BY <3>1, <3>2, Zenon
      <4> QED BY <2>1, <4>1, <4>2, Zenon DEF Told
    <3>3. CASE e = "w"
      BY <1>1, <2>1, <2>2, <3>3, QuietStep, Zenon
    <3> QED BY <3>2, <3>3, TheEnds, Zenon
  <2> HIDE DEF to
  <2> QED BY <1>1, <1>3, <2>1, <2>2, <2>3, MoveStep, Zenon
<1>5. CASE Fits(e) = 0 /\ smap[IdOf(e)].opts # "NONBLOCK"
  <2>1. PipeGoes(e, "wait") /\ UNCHANGED <<pp, psent, pgot>>
    BY <1>5, Zenon DEF Body, Sock, IdOf
  <2>2. pp.buf_len = (IF e = "r" THEN 0 ELSE PIPE_BUF_SIZE)
    BY <1>2, <1>5, TheEnds, Zenon
  <2>3. Told'
    BY <1>1, <1>3, <2>1, QuietStep, Zenon
  <2>4. pwant'[e] > 0
    BY <1>0, <1>1, Zenon
  <2> QED BY <1>1, <1>3, <1>5, <2>1, <2>2, <2>3, <2>4, MoveStep, Zenon
<1>6. CASE Fits(e) # 0
  <2>1. Fits(e) > 0
    BY <1>2, <1>6
  <2>2. CASE e = "r"
    <3>1. PipeRead(Fits(e))
      BY <1>6, <2>2, Zenon DEF Body
    <3> QED BY <1>1, <1>2, <2>1, <2>2, <3>1, ReadStep, Zenon
  <2>3. CASE e = "w"
    <3>1. PipeWrite(Fits(e))
      BY <1>6, <2>3, Zenon DEF Body
    <3> QED BY <1>1, <1>2, <2>1, <2>3, <3>1, WriteStep, Zenon
  <2> QED BY <2>2, <2>3, TheEnds, Zenon
<1> QED BY <1>4, <1>5, <1>6, Zenon

-----------------------------------------------------------------------------
(* mtcp_close() *)

\* Exactly one end is behind the first close, when the other one closes.
LEMMA SecondClose ==
  ASSUME PipeInv, NEW e \in End, pat[e] = "closing", Unlocked, pp.state # "ACTIVE"
  PROVE  pp.state = "CLOSE_WAIT" /\ pat[Other(e)] \in {"freeing", "closed"}
<1>1. pp.state \in PipeStates
  BY PipeFields, Zenon DEF PipeInv, PipeTypes
<1>2. pp.state = "CLOSE_WAIT"
  <2>1. pp.state # "none" /\ pp.state # "freed"
    BY Zenon DEF PipeInv, EndsInv
  <2> QED BY <1>1, <2>1 DEF PipeStates
<1>3. PICK d \in End : pat[d] \in Behind
  BY <1>2, Zenon DEF PipeInv, EndsInv
<1>4. d # e
  BY <1>3, Zenon DEF Behind
<1>5. d = Other(e) /\ pat[d] # "hangup"
  BY <1>4, TheEnds, Zenon DEF Unlocked
<1> QED BY <1>2, <1>3, <1>5, Zenon DEF Behind

\* PipeClose() of the first end leaves the pipe to the other one.
LEMMA FirstCloseStep ==
  ASSUME PipeInv, NEW e \in End, PipeClose(e), pp.state = "ACTIVE"
  PROVE  PipeInv'
<1>0. /\ pat \in [End -> PipeAt] /\ pp \in PipeRecord /\ "hangup" \in PipeAt /\ "freeing" \in PipeAt
      /\ "CLOSE_WAIT" \in PipeStates /\ EndsInv /\ SocketsInv /\ IdsKept /\ BytesInv
      /\ Other(e) \in End /\ Other(e) # e /\ \A d \in End : d = e \/ d = Other(e)
  BY TheEnds, Zenon DEF PipeInv, PipeTypes, PipeAt, PipeStates
<1>1. /\ pat[e] = "closing" /\ pp' = [pp EXCEPT !.state = "CLOSE_WAIT"]
      /\ ToPair(e, "hangup", "freeing") /\ UNCHANGED <<smap, free_smap, pwant, psent, pgot>>
  BY Zenon DEF PipeClose
<1>2. /\ pp' \in PipeRecord /\ pp'.state = "CLOSE_WAIT" /\ pp'.socket = pp.socket
      /\ pp'.buf = pp.buf /\ pp'.buf_tail = pp.buf_tail
      /\ pp'.buf_off = pp.buf_off /\ pp'.buf_len = pp.buf_len
  BY <1>0, <1>1, Zenon DEF PipeRecord
<1>3. Passed(e, {"hangup", "freeing"}) /\ Knows(e, "hangup")
  BY <1>0, <1>1, ToPairIs, Zenon
<1>4. pat'[e] \in {"hangup", "freeing"} /\ pat'[e] \in Behind
  BY <1>3, Zenon DEF Passed, Behind
<1>5. pat[Other(e)] \in Before /\ pat'[Other(e)] \in Before
  BY <1>0, <1>3, Zenon DEF EndsInv, Passed, Before
<1>6. PipeTypes'
  BY <1>1, <1>2, <1>3, Zenon DEF PipeInv, PipeTypes, Passed
<1>7. EndsInv'
  <2>1. \E d \in End : pat'[d] \in Behind /\ pat'[Other(d)] \in Before \cup {"told"}
    BY <1>4, <1>5, Zenon
  <2>2. ASSUME NEW d \in End, pat'[d] \in {"lock", "wait"} PROVE pwant[d] > 0
    <3>1. d = Other(e)
      BY <1>0, <1>4, <2>2, Zenon
    <3>2. pat[d] \in {"lock", "wait"}
      BY <1>3, <2>2, <3>1, Zenon DEF Passed
    <3> QED BY <1>0, <3>2, Zenon DEF EndsInv
  <2> QED BY <1>1, <1>2, <2>1, <2>2, Zenon DEF EndsInv
<1>8. Alike(smap, smap')
  BY <1>1, SameAlike, Zenon
<1>9. SocketsInv'
  <2>1. ASSUME NEW d \in End
        PROVE  /\ pat'[d] \notin {"none", "closed"} => pat[d] \notin {"none", "closed"}
               /\ pat[d] \notin {"none", "closed"} => pp.state # "none"
               /\ pat'[d] = "wait" => pat[d] = "wait" \/ smap[IdOf(d)].opts # "NONBLOCK"
    <3>1. CASE d = e
      BY <1>1, <1>4, <3>1, Zenon
    <3>2. CASE d = Other(e)
      BY <1>3, <3>2, Zenon DEF Passed
    <3> QED BY <1>0, <3>1, <3>2, Zenon
  <2> QED BY <1>0, <1>2, <1>8, <2>1, SocketsMove, Zenon
<1>10. IdsKept'
  BY <1>0, <1>1, <1>8, IdsAlike, Zenon
<1>11. BytesInv'
  BY <1>0, <1>1, <1>2, BytesSame, Zenon
<1>12. Sleeps'
  <2>1. ASSUME NEW d \in End, pat'[d] = "wait" PROVE pat[d] = "wait"
    <3>1. d = Other(e)
      BY <1>0, <1>4, <2>1, Zenon
    <3> QED BY <1>3, <2>1, <3>1, Zenon DEF Passed
  <2> QED BY <1>2, <2>1, SleepsMove, NoticedIs, Zenon DEF PipeInv
<1>13. Told'
  <2>1. CASE e = "r"
    BY <1>4, <2>1, Zenon DEF Told
  <2>2. CASE e = "w"
    <3>1. SUFFICES ASSUME pat'["w"] \notin {"raise", "hangup"}, pat'["r"] = "idle",
                          smap[IdOf("r")].epoll # {}
                   PROVE  FALSE
      BY <1>1, <1>2, Zenon DEF Told, IdOf
    <3>2. pat["r"] = "idle"
      BY <1>3, <2>2, <3>1, TheEnds, Zenon DEF Passed
    <3>3. smap[IdOf("r")].opts = "NONBLOCK"
      BY <3>1, <3>2, Alive, TheEnds, Zenon DEF Theirs
    <3> QED BY <1>3, <2>2, <3>1, <3>3, TheEnds, Zenon DEF Knows
  <2> QED BY <2>1, <2>2, TheEnds, Zenon
<1> QED BY <1>6, <1>7, <1>9, <1>10, <1>11, <1>12, <1>13, NoticedIsNext, Zenon DEF PipeInv

\* PipeClose() of the second end frees it, when nobody is in a call.
LEMMA SecondCloseStep ==
  ASSUME PipeInv, NEW e \in End, PipeClose(e), pp.state # "ACTIVE"
  PROVE  PipeInv'
<1>0. /\ pat \in [End -> PipeAt] /\ pp \in PipeRecord /\ smap \in [Id -> SocketRecord]
      /\ "freeing" \in PipeAt /\ "freed" \in PipeStates
      /\ SocketsInv /\ IdsKept /\ BytesInv
      /\ Other(e) \in End /\ Other(e) # e /\ \A d \in End : d = e \/ d = Other(e)
  BY TheEnds, Zenon DEF PipeInv, PipeTypes, PipeAt, PipeStates
<1>1. /\ pat[e] = "closing" /\ Unlocked /\ pp' = [pp EXCEPT !.state = "freed"]
      /\ PipeGoes(e, "freeing") /\ UNCHANGED <<free_smap, pwant, psent, pgot>>
      /\ smap' = [i \in 1..Ids |-> IF i \in {pp.socket[1], pp.socket[2]}
                                   THEN [smap[i] EXCEPT !.ptr = "NULL"] ELSE smap[i]]
  BY Zenon DEF PipeClose
<1>2. /\ pp' \in PipeRecord /\ pp'.state = "freed" /\ pp'.socket = pp.socket
      /\ pp'.buf = pp.buf /\ pp'.buf_tail = pp.buf_tail
      /\ pp'.buf_off = pp.buf_off /\ pp'.buf_len = pp.buf_len
  BY <1>0, <1>1, Zenon DEF PipeRecord
<1>3. pp.state = "CLOSE_WAIT" /\ pat[Other(e)] \in {"freeing", "closed"}
  BY <1>1, SecondClose, Zenon
<1>4. /\ pat' \in [End -> PipeAt] /\ pat'[e] = "freeing"
      /\ \A d \in End : d # e => pat'[d] = pat[d]
  BY <1>0, <1>1, PipeGoesTo, Zenon
<1>5. \A d \in End : pat'[d] \in {"freeing", "closed"}
  BY <1>0, <1>3, <1>4, Zenon
<1>6. smap' \in [Id -> SocketRecord] /\ Alike(smap, smap')
  <2>1. ASSUME NEW i \in Id
        PROVE  /\ smap'[i] \in SocketRecord /\ smap'[i].socktype = smap[i].socktype
               /\ smap'[i].opts = smap[i].opts /\ smap'[i].epoll = smap[i].epoll
    <3>1. smap[i] \in SocketRecord
      BY <1>0, Zenon
    <3>2. CASE smap'[i] = smap[i]
      BY <3>1, <3>2, Zenon
    <3>3. CASE smap'[i] = [smap[i] EXCEPT !.ptr = "NULL"]
      BY <3>1, <3>3, Zenon DEF SocketRecord
    <3>4. smap'[i] = smap[i] \/ smap'[i] = [smap[i] EXCEPT !.ptr = "NULL"]
      BY <1>1, Zenon DEF Id
    <3> QED BY <3>2, <3>3, <3>4, Zenon
  <2>2. smap' = [i \in Id |-> smap'[i]]
    BY <1>1, Zenon DEF Id
  <2>3. smap' \in [Id -> SocketRecord]
    BY <2>1, <2>2, Zenon
  <2> QED BY <2>1, <2>3, Zenon DEF Alike
<1>7. PipeTypes'
  BY <1>1, <1>2, <1>4, <1>6, Zenon DEF PipeInv, PipeTypes
<1>8. EndsInv'
  BY <1>2, <1>5, Zenon DEF EndsInv
<1>9. SocketsInv'
  <2>1. ASSUME NEW d \in End
        PROVE  /\ pat'[d] \notin {"none", "closed"} => pat[d] \notin {"none", "closed"}
               /\ pat[d] \notin {"none", "closed"} => pp.state # "none"
               /\ pat'[d] = "wait" => pat[d] = "wait" \/ smap[IdOf(d)].opts # "NONBLOCK"
    BY <1>1, <1>3, <1>4, <1>5, Zenon
  <2> QED BY <1>0, <1>2, <1>3, <1>6, <2>1, SocketsMove, Zenon
<1>10. IdsKept'
  BY <1>0, <1>1, <1>6, IdsAlike, Zenon
<1>11. BytesInv'
  BY <1>0, <1>1, <1>2, BytesSame, Zenon
<1>12. Sleeps' /\ Told'
  BY <1>5, TheEnds, Zenon DEF Sleeps, Told
<1> QED BY <1>7, <1>8, <1>9, <1>10, <1>11, <1>12, NoticedIsNext, Zenon DEF PipeInv

-----------------------------------------------------------------------------
(* The list of free sockets. *)

\* x is on the list f.
On(f, x) == \E i \in 1..Len(f) : f[i] = x
Once(f) == \A i, j \in 1..Len(f) : f[i] = f[j] => i = j

\* The free list, index by index.
LEMMA ListIs ==
  ASSUME NEW f \in Seq(Id)
  PROVE  /\ IsInjective(f) <=> Once(f)
         /\ \A x : x \in Range(f) <=> On(f, x)
<1>1. DOMAIN f = 1..Len(f)
  OBVIOUS
<1> QED BY <1>1, Zenon DEF IsInjective, Range, On, Once

IdsAre(m, f) == Once(f) /\ \A i \in Id : m[i].socktype = "UNUSED" <=> On(f, i)

\* IdsKept, index by index.
LEMMA IdsKeptIs == free_smap \in Seq(Id) => (IdsKept <=> IdsAre(smap, free_smap))
BY ListIs, Zenon DEF IdsKept, IdsAre, Id

\* The same in the next state.
LEMMA IdsKeptIsNext == free_smap' \in Seq(Id) => (IdsKept' <=> IdsAre(smap', free_smap'))
BY ListIs, Zenon DEF IdsKept, IdsAre, Id

\* An id that was not on the list is on it once.
LEMMA AppendIs ==
  ASSUME NEW f \in Seq(Id), NEW x \in Id, Once(f), ~On(f, x)
  PROVE  /\ Append(f, x) \in Seq(Id) /\ Once(Append(f, x))
         /\ \A y : On(Append(f, x), y) <=> On(f, y) \/ y = x
<1> DEFINE g == Append(f, x)
<1>1. g \in Seq(Id) /\ Len(g) = Len(f) + 1 /\ Len(f) \in Nat
  OBVIOUS
<1>2. (\A i \in 1..Len(f) : g[i] = f[i]) /\ g[Len(f) + 1] = x
  OBVIOUS
<1> HIDE DEF g
<1>3. \A i \in 1..Len(g) : i \in 1..Len(f) \/ i = Len(f) + 1
  BY <1>1
<1>4. (\A i \in 1..Len(f) : i \in 1..Len(g)) /\ Len(f) + 1 \in 1..Len(g)
  BY <1>1
<1>5. \A i \in 1..Len(f) : f[i] # x
  BY Zenon DEF On
<1>6. Once(g)
  BY <1>2, <1>3, <1>5, Zenon DEF Once
<1>7. ASSUME NEW y PROVE On(g, y) <=> On(f, y) \/ y = x
  BY <1>2, <1>3, <1>4, Zenon DEF On
<1> QED BY <1>1, <1>6, <1>7, Zenon DEF g

\* Taking the first id off the list takes it off for good.
LEMMA TailIs ==
  ASSUME NEW f \in Seq(Id), f # <<>>, Once(f)
  PROVE  /\ Tail(f) \in Seq(Id) /\ Once(Tail(f)) /\ f[1] \in Id /\ On(f, f[1])
         /\ \A y : On(Tail(f), y) <=> On(f, y) /\ y # f[1]
<1> DEFINE g == Tail(f)
<1>1. g \in Seq(Id) /\ Len(g) = Len(f) - 1 /\ Len(f) \in Nat /\ Len(f) > 0 /\ f[1] \in Id
  OBVIOUS
<1>2. \A i \in 1..Len(g) : g[i] = f[i + 1]
  OBVIOUS
<1> HIDE DEF g
<1>3. 1 \in 1..Len(f) /\ \A i \in 1..Len(g) : i + 1 \in 1..Len(f) /\ i + 1 # 1
  BY <1>1
<1>4. \A i \in 1..Len(f) : i = 1 \/ (i - 1 \in 1..Len(g) /\ (i - 1) + 1 = i)
  BY <1>1
<1>5. \A i, j \in 1..Len(g) : i + 1 = j + 1 => i = j
  BY <1>1
<1>6. Once(g)
  BY <1>2, <1>3, <1>5, Zenon DEF Once
<1>7. ASSUME NEW y PROVE On(g, y) <=> On(f, y) /\ y # f[1]
  <2>1. ASSUME On(g, y) PROVE On(f, y) /\ y # f[1]
    <3>1. PICK i \in 1..Len(g) : g[i] = y
      BY <2>1, Zenon DEF On
    <3>2. f[i + 1] = y /\ i + 1 \in 1..Len(f) /\ i + 1 # 1
      BY <1>2, <1>3, <3>1, Zenon
    <3> QED BY <1>3, <3>2, Zenon DEF On, Once
  <2>2. ASSUME On(f, y), y # f[1] PROVE On(g, y)
    <3>1. PICK i \in 1..Len(f) : f[i] = y
      BY <2>2, Zenon DEF On
    <3>2. i - 1 \in 1..Len(g) /\ (i - 1) + 1 = i
      BY <1>4, <2>2, <3>1, Zenon
    <3>3. g[i - 1] = y
      BY <1>2, <3>1, <3>2, Zenon
    <3> QED BY <3>2, <3>3, Zenon DEF On
  <2> QED BY <2>1, <2>2, Zenon
<1>8. On(f, f[1])
  BY <1>3, Zenon DEF On
<1> QED BY <1>1, <1>6, <1>7, <1>8, Zenon DEF g

\* Lists of ids put together, index by index.
LEMMA JoinedIds ==
  ASSUME NEW a \in Seq(Id), NEW b \in Seq(Id)
  PROVE  /\ a \o b \in Seq(Id) /\ Len(a \o b) = Len(a) + Len(b)
         /\ \A k \in 1..Len(a) : (a \o b)[k] = a[k]
         /\ \A k \in 1..Len(b) : (a \o b)[Len(a) + k] = b[k]
OBVIOUS

\* The two parts of a list of ids.
LEMMA Parts ==
  ASSUME NEW f \in Seq(Id), NEW n \in Nat, n < Len(f)
  PROVE  /\ SubSeq(f, n + 1, Len(f)) \in Seq(Id) /\ Len(SubSeq(f, n + 1, Len(f))) = Len(f) - n
         /\ \A i \in 1..(Len(f) - n) : SubSeq(f, n + 1, Len(f))[i] = f[i + n]
         /\ SubSeq(f, 1, n) \in Seq(Id) /\ Len(SubSeq(f, 1, n)) = n
         /\ \A i \in 1..n : SubSeq(f, 1, n)[i] = f[i]
OBVIOUS

Turned(f, n) == SubSeq(f, n + 1, Len(f)) \o SubSeq(f, 1, n)

\* A list turned by n places, index by index.
LEMMA TurnedAt ==
  ASSUME NEW f \in Seq(Id), NEW n \in Nat, NEW m \in Nat, m + n = Len(f), m > 0
  PROVE  /\ Turned(f, n) \in Seq(Id) /\ Len(Turned(f, n)) = Len(f)
         /\ \A i \in 1..m : Turned(f, n)[i] = f[i + n]
         /\ \A i \in 1..n : Turned(f, n)[m + i] = f[i]
<1> DEFINE a == SubSeq(f, n + 1, Len(f))
           b == SubSeq(f, 1, n)
<1>0. n < Len(f) /\ Len(f) - n = m
  OBVIOUS
<1>1. a \in Seq(Id) /\ Len(a) = m /\ \A i \in 1..m : a[i] = f[i + n]
  BY <1>0, Parts, Zenon
<1>2. b \in Seq(Id) /\ Len(b) = n /\ \A i \in 1..n : b[i] = f[i]
  BY <1>0, Parts, Zenon
<1>3. Turned(f, n) = a \o b
  BY Zenon DEF Turned
<1> HIDE DEF a, b
<1> DEFINE g == a \o b
<1>4. /\ g \in Seq(Id) /\ Len(g) = Len(a) + Len(b)
      /\ \A k \in 1..Len(a) : g[k] = a[k]
      /\ \A k \in 1..Len(b) : g[Len(a) + k] = b[k]
  BY <1>1, <1>2, JoinedIds, Zenon
<1> HIDE DEF g
<1>5. Len(g) = Len(f)
  BY <1>1, <1>2, <1>4, Zenon
<1>6. \A i \in 1..m : g[i] = f[i + n]
  BY <1>1, <1>4, Zenon
<1>7. \A i \in 1..n : g[m + i] = f[i]
  BY <1>1, <1>2, <1>4, Zenon
<1> QED BY <1>3, <1>4, <1>5, <1>6, <1>7, Zenon DEF g

\* AllocateSocket() turns the list over stale ids: the same ids, each still once.
LEMMA TurnedIs ==
  ASSUME NEW f \in Seq(Id), Once(f), NEW n \in Nat, n < Len(f)
  PROVE  /\ Turned(f, n) \in Seq(Id) /\ Turned(f, n) # <<>> /\ Once(Turned(f, n))
         /\ \A y : On(Turned(f, n), y) <=> On(f, y)
<1> DEFINE m == Len(f) - n
           g == Turned(f, n)
<1>1. m \in Nat /\ Len(f) \in Nat /\ m > 0 /\ m + n = Len(f)
  OBVIOUS
<1> HIDE DEF m
<1>3. /\ g \in Seq(Id) /\ Len(g) = Len(f)
      /\ \A i \in 1..m : g[i] = f[i + n]
      /\ \A i \in 1..n : g[m + i] = f[i]
  BY <1>1, TurnedAt, Zenon
<1> HIDE DEF g
<1> DEFINE T(i) == IF i <= m THEN i + n ELSE i - m
<1>4. ASSUME NEW i \in 1..Len(f) PROVE T(i) \in 1..Len(f) /\ g[i] = f[T(i)]
  <2>1. CASE i <= m
    <3>1. i \in 1..m /\ i + n \in 1..Len(f)
      BY <1>1, <2>1
    <3>2. g[i] = f[i + n]
      BY <1>3, <3>1, Zenon
    <3> QED BY <2>1, <3>1, <3>2, Zenon
  <2>2. CASE ~(i <= m)
    <3>1. i - m \in 1..n /\ m + (i - m) = i /\ i - m \in 1..Len(f)
      BY <1>1, <2>2
    <3>2. g[i] = f[i - m]
      BY <1>3, <3>1, Zenon
    <3> QED BY <2>2, <3>1, <3>2, Zenon
  <2> QED BY <2>1, <2>2, Zenon
<1>5. \A i, j \in 1..Len(f) : T(i) = T(j) => i = j
  BY <1>1
<1>6. \A i \in 1..Len(f) : \E j \in 1..Len(f) : T(j) = i
  <2>1. SUFFICES ASSUME NEW i \in 1..Len(f) PROVE \E j \in 1..Len(f) : T(j) = i
    BY Zenon
  <2>2. CASE i <= n
    <3>1. m + i \in 1..Len(f) /\ T(m + i) = i
      BY <1>1, <2>2
    <3> QED BY <3>1, Zenon
  <2>3. CASE ~(i <= n)
    <3>1. i - n \in 1..Len(f) /\ T(i - n) = i
      BY <1>1, <2>3
    <3> QED BY <3>1, Zenon
  <2> QED BY <2>2, <2>3, Zenon
<1> HIDE DEF T
<1>7. Once(g)
  <2>1. SUFFICES ASSUME NEW i \in 1..Len(f), NEW j \in 1..Len(f), g[i] = g[j] PROVE i = j
    BY <1>3, Zenon DEF Once
  <2>2. f[T(i)] = f[T(j)] /\ T(i) \in 1..Len(f) /\ T(j) \in 1..Len(f)
    BY <1>4, <2>1, Zenon
  <2>3. T(i) = T(j)
    BY <2>2, Zenon DEF Once
  <2> QED BY <1>5, <2>3, Zenon
<1>8. ASSUME NEW y PROVE On(g, y) <=> On(f, y)
  <2>1. ASSUME On(g, y) PROVE On(f, y)
    <3>1. PICK i \in 1..Len(f) : g[i] = y
      BY <1>3, <2>1, Zenon DEF On
    <3>2. T(i) \in 1..Len(f) /\ f[T(i)] = y
      BY <1>4, <3>1, Zenon
    <3> QED BY <3>2, Zenon DEF On
  <2>2. ASSUME On(f, y) PROVE On(g, y)
    <3>1. PICK i \in 1..Len(f) : f[i] = y
      BY <2>2, Zenon DEF On
    <3>2. PICK j \in 1..Len(f) : T(j) = i
      BY <1>6, Zenon
    <3>3. j \in 1..Len(g) /\ g[j] = y
      BY <1>3, <1>4, <3>1, <3>2, Zenon
    <3> QED BY <3>3, Zenon DEF On
  <2> QED BY <2>1, <2>2, Zenon
<1>9. g # <<>>
  <2>1. Len(g) = Len(f)
    BY <1>3, Zenon
  <2>2. Len(g) # 0
    BY <1>1, <2>1
  <2>3. Len(<<>>) = 0
    OBVIOUS
  <2> QED BY <2>2, <2>3, Zenon
<1> QED BY <1>3, <1>7, <1>8, <1>9, Zenon DEF g

-----------------------------------------------------------------------------
(* The steps that change the table. *)

\* A step that keeps the sockets of the ends that stay open.
LEMMA TableStep ==
  ASSUME PipeInv, UNCHANGED <<pp, pwant, psent, pgot>>, pat' \in [End -> PipeAt],
         smap' \in [Id -> SocketRecord], free_smap' \in Seq(Id), IdsAre(smap', free_smap'),
         EndsInv', \A d \in End : pat[d] # "freeing" => pat'[d] = pat[d],
         \A d \in End : pat[d] = "freeing" => pat'[d] \in {"freeing", "closed"},
         \A d \in End : pat'[d] \notin {"none", "closed"} =>
           smap'[IdOf(d)] = smap[IdOf(d)]
  PROVE  PipeInv'
<1>0. SocketsInv /\ BytesInv /\ Sleeps /\ Told
  BY NoticedIs, Zenon DEF PipeInv
<1>1. PipeTypes'
  BY Zenon DEF PipeInv, PipeTypes
<1>2. IdsKept'
  BY IdsKeptIsNext, Zenon
<1>3. \A d \in End : IdOf(d)' = IdOf(d)
  BY Zenon DEF IdOf
<1>4. IdOf("r")' = IdOf("r") /\ IdOf("w")' = IdOf("w")
  BY <1>3, TheEnds, Zenon
<1>5. SocketsInv'
  <2>1. ASSUME NEW d \in End, pat'[d] \notin {"none", "closed"} PROVE Theirs(d)'
    <3>1. pat[d] \notin {"none", "closed"} /\ (pat'[d] = "wait" => pat[d] = "wait")
      BY <2>1, Zenon
    <3>2. Theirs(d) /\ smap'[IdOf(d)] = smap[IdOf(d)] /\ IdOf(d)' = IdOf(d)
      BY <1>0, <1>3, <2>1, <3>1, Zenon DEF SocketsInv
    <3> QED BY <3>1, <3>2, Zenon DEF Theirs
  <2> QED BY <1>0, <1>4, <2>1, Zenon DEF SocketsInv
<1>6. BytesInv'
  BY <1>0, BytesSame, Zenon
<1>7. Sleeps'
  <2>1. ASSUME NEW d \in End, pat'[d] = "wait" PROVE pat[d] = "wait"
    BY <2>1, Zenon
  <2> QED BY <1>0, <2>1, SleepsMove, Zenon
<1>8. Told'
  <2>1. SUFFICES ASSUME pat'["r"] = "idle" PROVE Told'
    BY Zenon DEF Told
  <2>2. smap'[IdOf("r")] = smap[IdOf("r")] /\ pat["r"] = "idle"
    BY <2>1, TheEnds, Zenon
  <2>3. pat["w"] \in {"raise", "hangup"} => pat'["w"] \in {"raise", "hangup"}
    BY TheEnds, Zenon
  <2> QED BY <1>0, <1>4, <2>2, <2>3, ToldMove, Zenon
<1> QED BY <1>1, <1>2, <1>5, <1>6, <1>7, <1>8, NoticedIsNext, Zenon DEF PipeInv

\* The contents of a socket that is free and of one that a stream gets.
LEMMA UnusedIs ==
  /\ UNUSED \in SocketRecord /\ UNUSED.socktype = "UNUSED"
  /\ \A o \in {"", "NONBLOCK"} : /\ [UNUSED EXCEPT !.opts = o] \in SocketRecord
                                 /\ [UNUSED EXCEPT !.opts = o].socktype = "UNUSED"
  /\ Allocated("STREAM", "stream") \in SocketRecord
  /\ Allocated("STREAM", "stream").socktype = "STREAM"
BY Zenon DEF UNUSED, SocketRecord, Allocated

\* A change of one socket leaves the others alone.
LEMMA SocketSet ==
  ASSUME NEW m \in [Id -> SocketRecord], NEW x \in Id, NEW r \in SocketRecord
  PROVE  /\ [m EXCEPT ![x] = r] \in [Id -> SocketRecord] /\ [m EXCEPT ![x] = r][x] = r
         /\ \A i \in Id : i # x => [m EXCEPT ![x] = r][i] = m[i]
BY Zenon

\* FreeSocket() of a socket in use puts its id on the list, where it was not.
LEMMA FreeIs ==
  ASSUME PipeInv, NEW x \in Id, smap[x].socktype # "UNUSED", FreeSocket(x)
  PROVE  /\ smap' \in [Id -> SocketRecord] /\ free_smap' \in Seq(Id) /\ IdsAre(smap', free_smap')
         /\ \A i \in Id : i # x => smap'[i] = smap[i]
<1>0. smap \in [Id -> SocketRecord] /\ free_smap \in Seq(Id) /\ smap[x] \in SocketRecord
  BY Zenon DEF PipeInv, PipeTypes
<1>1. IdsAre(smap, free_smap)
  BY <1>0, IdsKeptIs, Zenon DEF PipeInv
<1> DEFINE r == [UNUSED EXCEPT !.opts = smap[x].opts]
<1>2. r \in SocketRecord /\ r.socktype = "UNUSED"
  BY <1>0, SocketFields, UnusedIs, Zenon
<1>3. smap' = [smap EXCEPT ![x] = r] /\ free_smap' = Append(free_smap, x)
  BY Zenon DEF FreeSocket
<1> HIDE DEF r
<1>4. /\ smap' \in [Id -> SocketRecord] /\ smap'[x] = r
      /\ \A i \in Id : i # x => smap'[i] = smap[i]
  BY <1>0, <1>2, <1>3, SocketSet, Zenon
<1>5. Once(free_smap) /\ ~On(free_smap, x)
  BY <1>1, Zenon DEF IdsAre
<1>6. /\ free_smap' \in Seq(Id) /\ Once(free_smap')
      /\ \A y : On(free_smap', y) <=> On(free_smap, y) \/ y = x
  BY <1>0, <1>3, <1>5, AppendIs, Zenon
<1>7. ASSUME NEW i \in Id PROVE smap'[i].socktype = "UNUSED" <=> On(free_smap', i)
  <2>1. CASE i = x
    BY <1>2, <1>4, <1>6, <2>1, Zenon
  <2>2. CASE i # x
    BY <1>1, <1>4, <1>6, <2>2, Zenon DEF IdsAre
  <2> QED BY <2>1, <2>2
<1> QED BY <1>4, <1>6, <1>7, Zenon DEF IdsAre

\* An id that is not a pipe's is of no end that is open.
LEMMA NotTheirs ==
  ASSUME PipeInv, NEW x \in Id, smap[x].socktype # "PIPE", NEW d \in End,
         pat[d] \notin {"none", "closed"}
  PROVE  IdOf(d) # x /\ IdOf(d) \in Id
BY Alive, Zenon DEF Theirs

\* A step in which neither thread moves keeps EndsInv.
LEMMA SameEnds == PipeInv /\ UNCHANGED <<pp, pat, pwant>> => EndsInv'
BY Zenon DEF PipeInv, EndsInv

\* Closing an accepted stream gives back an id that is no end's.
LEMMA CloseStreamStep ==
  ASSUME PipeInv, CloseStream
  PROVE  PipeInv'
<1>1. PICK x \in Id : smap[x].socktype = "STREAM" /\ FreeSocket(x)
  BY Zenon DEF CloseStream, Id
<1>2. UNCHANGED <<pp, pat, pwant, psent, pgot>>
  BY Zenon DEF CloseStream
<1>3. /\ smap' \in [Id -> SocketRecord] /\ free_smap' \in Seq(Id) /\ IdsAre(smap', free_smap')
      /\ \A i \in Id : i # x => smap'[i] = smap[i]
  BY <1>1, FreeIs, Zenon
<1>4. ASSUME NEW d \in End, pat'[d] \notin {"none", "closed"}
      PROVE  smap'[IdOf(d)] = smap[IdOf(d)]
  BY <1>1, <1>2, <1>3, <1>4, NotTheirs, Zenon
<1>5. EndsInv' /\ pat' \in [End -> PipeAt]
  BY <1>2, SameEnds, Zenon DEF PipeInv, PipeTypes
<1> QED BY <1>2, <1>3, <1>4, <1>5, TableStep, Zenon

\* mtcp_close() of an end gives back the id of that end.
LEMMA CloseEndsStep ==
  ASSUME PipeInv, NEW e \in End, CloseEnds(e)
  PROVE  PipeInv'
<1>0. /\ pat \in [End -> PipeAt] /\ EndsInv /\ "closed" \in PipeAt /\ "closed" \in Behind
      /\ "freeing" \notin Before /\ Other(e) \in End /\ \A d \in End : d # e => d = Other(e)
  BY TheEnds, Zenon DEF PipeInv, PipeTypes, PipeAt, Behind, Before
<1>1. /\ pat[e] = "freeing" /\ FreeSocket(IdOf(e)) /\ PipeGoes(e, "closed")
      /\ UNCHANGED <<pp, pwant, psent, pgot>>
  BY Zenon DEF CloseEnds, IdOf
<1>2. /\ pat' \in [End -> PipeAt] /\ pat'[e] = "closed"
      /\ \A d \in End : d # e => pat'[d] = pat[d]
  BY <1>0, <1>1, PipeGoesTo, Zenon
<1>3. /\ IdOf(e) \in Id /\ smap[IdOf(e)].socktype # "UNUSED"
      /\ IdOf(Other(e)) \in Id /\ IdOf(Other(e)) # IdOf(e)
  BY <1>1, Alive, Zenon DEF Theirs
<1>4. /\ smap' \in [Id -> SocketRecord] /\ free_smap' \in Seq(Id) /\ IdsAre(smap', free_smap')
      /\ \A i \in Id : i # IdOf(e) => smap'[i] = smap[i]
  BY <1>1, <1>3, FreeIs, Zenon
<1>5. ASSUME NEW d \in End, pat'[d] \notin {"none", "closed"}
      PROVE  smap'[IdOf(d)] = smap[IdOf(d)]
  <2>1. d = Other(e)
    BY <1>0, <1>2, <1>5, Zenon
  <2> QED BY <1>3, <1>4, <2>1, Zenon
<1>6. EndsInv'
  <2>1. \A d \in End : pat[d] \in {"lock", "wait"} => pwant[d] > 0
    BY <1>0, Zenon DEF EndsInv
  <2>2. ASSUME NEW d \in End
        PROVE  /\ pat[d] \in Before \cup {"told"} => pat'[d] \in Before \cup {"told"}
               /\ pat[d] \in Behind => pat'[d] \in Behind
               /\ pat[d] \in {"freeing", "closed"} => pat'[d] \in {"freeing", "closed"}
               /\ pat[d] = "none" => pat'[d] = "none"
               /\ pat'[d] = "told" => pp.state = "CLOSE_WAIT"
               /\ pat'[d] \in {"lock", "wait"} => pwant'[d] > 0
    <3>1. CASE d = e
      BY <1>0, <1>1, <1>2, <3>1, Zenon
    <3>2. CASE d # e
      BY <1>1, <1>2, <2>1, <3>2, ToldMeans, Zenon
    <3> QED BY <3>1, <3>2
  <2> QED BY <1>0, <1>1, <2>2, EndsMove, Zenon
<1>7. /\ \A d \in End : pat[d] # "freeing" => pat'[d] = pat[d]
      /\ \A d \in End : pat[d] = "freeing" => pat'[d] \in {"freeing", "closed"}
  BY <1>1, <1>2, Zenon
<1> QED BY <1>1, <1>2, <1>4, <1>5, <1>6, <1>7, TableStep, Zenon

\* mtcp_accept() takes an id that is no end's.
LEMMA AcceptStep ==
  ASSUME PipeInv, Accept
  PROVE  PipeInv'
<1> DEFINE n == Cardinality(Skipped(free_smap))
           f == Turned(free_smap, n)
           x == f[1]
           r == Allocated("STREAM", "stream")
<1>0. smap \in [Id -> SocketRecord] /\ free_smap \in Seq(Id) /\ r \in SocketRecord
  BY UnusedIs, Zenon DEF PipeInv, PipeTypes
<1>1. IdsAre(smap, free_smap)
  BY <1>0, IdsKeptIs, Zenon DEF PipeInv
<1>2. n < Len(free_smap) /\ UNCHANGED <<pp, pat, pwant, psent, pgot>>
  BY Zenon DEF Accept
<1>3. smap' = [smap EXCEPT ![x] = r] /\ free_smap' = Tail(f)
  BY Zenon DEF Accept, Rotated, Turned
<1>4. n \in Nat
  <2>1. IsFiniteSet(1..Len(free_smap)) /\ DOMAIN free_smap = 1..Len(free_smap)
    BY <1>0, FS_Interval
  <2>2. Skipped(free_smap) \in SUBSET (1..Len(free_smap))
    BY <2>1, Zenon DEF Skipped
  <2>3. IsFiniteSet(Skipped(free_smap))
    BY <2>1, <2>2, FS_Subset, Zenon
  <2> QED BY <2>3, FS_CardinalityType, Zenon
<1> HIDE DEF n, r
<1>5. f \in Seq(Id) /\ f # <<>> /\ Once(f) /\ \A y : On(f, y) <=> On(free_smap, y)
  BY <1>0, <1>1, <1>2, <1>4, TurnedIs, Zenon DEF IdsAre
<1> HIDE DEF f
<1>6. /\ free_smap' \in Seq(Id) /\ Once(free_smap') /\ x \in Id /\ On(f, x)
      /\ \A y : On(free_smap', y) <=> On(f, y) /\ y # x
  BY <1>3, <1>5, TailIs, Zenon
<1> HIDE DEF x
<1>7. /\ smap' \in [Id -> SocketRecord] /\ smap'[x] = r
      /\ \A i \in Id : i # x => smap'[i] = smap[i]
  BY <1>0, <1>3, <1>6, SocketSet, Zenon
<1>8. smap[x].socktype = "UNUSED" /\ r.socktype # "UNUSED"
  BY <1>1, <1>5, <1>6, UnusedIs, Zenon DEF IdsAre, r
<1>9. IdsAre(smap', free_smap')
  <2>1. ASSUME NEW i \in Id PROVE smap'[i].socktype = "UNUSED" <=> On(free_smap', i)
    <3>1. CASE i = x
      BY <1>6, <1>7, <1>8, <3>1, Zenon
    <3>2. CASE i # x
      BY <1>1, <1>5, <1>6, <1>7, <3>2, Zenon DEF IdsAre
    <3> QED BY <3>1, <3>2
  <2> QED BY <1>6, <2>1, Zenon DEF IdsAre
<1>10. ASSUME NEW d \in End, pat'[d] \notin {"none", "closed"}
       PROVE  smap'[IdOf(d)] = smap[IdOf(d)]
  <2>1. smap[x].socktype # "PIPE" /\ pat[d] \notin {"none", "closed"}
    BY <1>2, <1>8, <1>10, Zenon
  <2>2. IdOf(d) # x /\ IdOf(d) \in Id
    BY <1>6, <2>1, NotTheirs, Zenon
  <2> QED BY <1>7, <2>2, Zenon
<1>11. EndsInv' /\ pat' \in [End -> PipeAt]
  BY <1>2, SameEnds, Zenon DEF PipeInv, PipeTypes
<1> QED BY <1>2, <1>6, <1>7, <1>9, <1>10, <1>11, TableStep, Zenon

-----------------------------------------------------------------------------
(* mtcp_pipe() *)

\* mtcp_pipe() without two free ids puts the one it took back.
LEMMA PipeFailsStep ==
  ASSUME PipeInv, mtcp_pipe, Len(free_smap) < 2
  PROVE  PipeInv'
<1>0. /\ free_smap \in Seq(Id) /\ pat \in [End -> PipeAt] /\ smap \in [Id -> SocketRecord]
  BY Zenon DEF PipeInv, PipeTypes
<1>1. /\ free_smap' = IF free_smap = <<>> THEN <<>> ELSE Append(Tail(free_smap), free_smap[1])
      /\ UNCHANGED <<smap, pp, pat, pwant, psent, pgot>>
  BY Zenon DEF mtcp_pipe
<1>2. free_smap' = free_smap
  BY <1>0, <1>1
<1>3. IdsAre(smap', free_smap')
  BY <1>0, <1>1, <1>2, IdsKeptIs, Zenon DEF PipeInv
<1>4. EndsInv'
  BY <1>1, SameEnds, Zenon
<1> QED BY <1>0, <1>1, <1>2, <1>3, <1>4, TableStep, Zenon

Rest(f) == SubSeq(f, 3, Len(f))

\* The list behind its first two ids, index by index.
LEMMA RestAt ==
  ASSUME NEW f \in Seq(Id), ~(Len(f) < 2)
  PROVE  /\ Rest(f) \in Seq(Id) /\ Len(Rest(f)) = Len(f) - 2
         /\ \A i \in 1..(Len(f) - 2) : Rest(f)[i] = f[i + 2]
<1>1. CASE 2 < Len(f)
  <2>1. 2 + 1 = 3 /\ 2 \in Nat
    OBVIOUS
  <2>2. /\ SubSeq(f, 2 + 1, Len(f)) \in Seq(Id) /\ Len(SubSeq(f, 2 + 1, Len(f))) = Len(f) - 2
        /\ \A i \in 1..(Len(f) - 2) : SubSeq(f, 2 + 1, Len(f))[i] = f[i + 2]
    BY <1>1, <2>1, Parts, Zenon
  <2>3. Rest(f) = SubSeq(f, 2 + 1, Len(f))
    BY <2>1, Zenon DEF Rest
  <2> QED BY <2>2, <2>3, Zenon
<1>2. CASE ~(2 < Len(f))
  <2>1. Len(f) = 2
    BY <1>2, SMTT(30)
  <2>2. SubSeq(f, 3, 2) = <<>>
    OBVIOUS
  <2>3. Rest(f) = <<>>
    BY <2>1, <2>2, Zenon DEF Rest
  <2>4. <<>> \in Seq(Id) /\ Len(<<>>) = 0 /\ 2 - 2 = 0 /\ 1..0 = {}
    OBVIOUS
  <2> QED BY <2>1, <2>3, <2>4, Zenon
<1> QED BY <1>1, <1>2, Zenon

\* The two ids that mtcp_pipe() takes are different and no longer free.
LEMMA OffTwice ==
  ASSUME NEW f \in Seq(Id), Once(f), ~(Len(f) < 2)
  PROVE  /\ Rest(f) \in Seq(Id) /\ Once(Rest(f)) /\ f[1] \in Id /\ f[2] \in Id /\ f[1] # f[2]
         /\ \A y : On(Rest(f), y) <=> (On(f, y) /\ y # f[1] /\ y # f[2])
<1> DEFINE g == Rest(f)
           n == Len(f) - 2
<1>1. g \in Seq(Id) /\ Len(g) = n /\ \A i \in 1..n : g[i] = f[i + 2]
  BY RestAt, Zenon
<1>2. Len(f) \in Nat /\ n \in Nat /\ n + 2 = Len(f) /\ 1 \in 1..Len(f) /\ 2 \in 1..Len(f)
  OBVIOUS
<1> HIDE DEF g, n
<1>3. f[1] \in Id /\ f[2] \in Id /\ f[1] # f[2]
  BY <1>2 DEF Once
<1>4. \A i \in 1..n : i + 2 \in 1..Len(f) /\ i + 2 # 1 /\ i + 2 # 2
  BY <1>2
<1>5. \A i \in 1..Len(f) : i = 1 \/ i = 2 \/ (i - 2 \in 1..n /\ (i - 2) + 2 = i)
  BY <1>2
<1>6. \A i, j \in 1..n : i + 2 = j + 2 => i = j
  BY <1>2
<1>7. Once(g)
  <2>1. SUFFICES ASSUME NEW i \in 1..n, NEW j \in 1..n, g[i] = g[j] PROVE i = j
    BY <1>1, Zenon DEF Once
  <2>2. f[i + 2] = f[j + 2] /\ i + 2 \in 1..Len(f) /\ j + 2 \in 1..Len(f)
    BY <1>1, <1>4, <2>1, Zenon
  <2>3. i + 2 = j + 2
    BY <2>2, Zenon DEF Once
  <2> QED BY <1>6, <2>3, Zenon
<1>8. ASSUME NEW y PROVE On(g, y) <=> (On(f, y) /\ y # f[1] /\ y # f[2])
  <2>1. ASSUME On(g, y) PROVE On(f, y) /\ y # f[1] /\ y # f[2]
    <3>1. PICK i \in 1..n : g[i] = y
      BY <1>1, <2>1, Zenon DEF On
    <3>2. f[i + 2] = y /\ i + 2 \in 1..Len(f) /\ i + 2 # 1 /\ i + 2 # 2
      BY <1>1, <1>4, <3>1, Zenon
    <3> QED BY <1>2, <3>2, Zenon DEF On, Once
  <2>2. ASSUME On(f, y), y # f[1], y # f[2] PROVE On(g, y)
    <3>1. PICK i \in 1..Len(f) : f[i] = y
      BY <2>2, Zenon DEF On
    <3>2. i - 2 \in 1..n /\ (i - 2) + 2 = i
      BY <1>5, <2>2, <3>1, Zenon
    <3>3. g[i - 2] = y
      BY <1>1, <3>1, <3>2, Zenon
    <3> QED BY <1>1, <3>2, <3>3, Zenon DEF On
  <2> QED BY <2>1, <2>2, Zenon
<1> QED BY <1>1, <1>3, <1>7, <1>8, Zenon DEF g

\* The contents of a socket that an end of a pipe gets.
LEMMA EndOfPipe ==
  ASSUME NEW o \in {"", "NONBLOCK"}
  PROVE  /\ [Allocated("PIPE", "pipe") EXCEPT !.opts = o] \in SocketRecord
         /\ [Allocated("PIPE", "pipe") EXCEPT !.opts = o].socktype = "PIPE"
         /\ [Allocated("PIPE", "pipe") EXCEPT !.opts = o].epoll = {}
BY Zenon DEF UNUSED, SocketRecord, Allocated

\* mtcp_pipe() with two free ids.
LEMMA PipeMadeStep ==
  ASSUME PipeInv, mtcp_pipe, ~(Len(free_smap) < 2)
  PROVE  PipeInv'
<1> DEFINE a == free_smap[1]
           b == free_smap[2]
<1>0. /\ free_smap \in Seq(Id) /\ smap \in [Id -> SocketRecord] /\ pp \in PipeRecord
      /\ BytesInv /\ "idle" \in PipeAt /\ "idle" \in Before /\ "ACTIVE" \in PipeStates
  BY Zenon DEF PipeInv, PipeTypes, PipeAt, Before, PipeStates
<1>1. IdsAre(smap, free_smap)
  BY <1>0, IdsKeptIs, Zenon DEF PipeInv
<1>2. /\ pp' = [pp EXCEPT !.state = "ACTIVE", !.socket = <<a, b>>]
      /\ free_smap' = Rest(free_smap)
      /\ pat' = [e \in End |-> "idle"] /\ UNCHANGED <<pwant, psent, pgot>>
  BY Zenon DEF mtcp_pipe, Rest
<1>3. PICK nonblock \in SUBSET End :
        smap' = [i \in 1..Ids |->
                 IF i \in {a, b}
                 THEN [Allocated("PIPE", "pipe") EXCEPT !.opts =
                        IF \E e \in nonblock : i = free_smap[Index[e]] THEN "NONBLOCK" ELSE ""]
                 ELSE smap[i]]
  BY Zenon DEF mtcp_pipe
<1>4. /\ free_smap' \in Seq(Id) /\ Once(free_smap') /\ a \in Id /\ b \in Id /\ a # b
      /\ \A y : On(free_smap', y) <=> (On(free_smap, y) /\ y # a /\ y # b)
  BY <1>0, <1>1, <1>2, OffTwice, Zenon DEF IdsAre
<1>5. ASSUME NEW i \in Id
      PROVE  /\ i \in {a, b} => /\ smap'[i] \in SocketRecord /\ smap'[i].socktype = "PIPE"
                                /\ smap'[i].epoll = {}
             /\ i \notin {a, b} => smap'[i] = smap[i]
  <2> DEFINE o == IF \E e \in nonblock : i = free_smap[Index[e]] THEN "NONBLOCK" ELSE ""
  <2>1. o \in {"", "NONBLOCK"}
    BY Zenon
  <2>2. smap'[i] = IF i \in {a, b} THEN [Allocated("PIPE", "pipe") EXCEPT !.opts = o]
                                   ELSE smap[i]
    BY <1>3, Zenon DEF Id
  <2> HIDE DEF o, a, b
  <2> QED BY <2>1, <2>2, EndOfPipe, Zenon
<1>6. smap' \in [Id -> SocketRecord]
  <2>1. smap' = [i \in Id |-> smap'[i]]
    BY <1>3, Zenon DEF Id
  <2>2. \A i \in Id : smap'[i] \in SocketRecord
    BY <1>0, <1>5, Zenon
  <2> QED BY <2>1, <2>2, Zenon
<1> HIDE DEF a, b
<1>7. /\ a \in 0..Ids /\ b \in 0..Ids
  BY <1>4, PipeNums DEF Id
<1>8. /\ pp' \in PipeRecord /\ pp'.state = "ACTIVE" /\ pp'.socket = <<a, b>>
      /\ pp'.buf = pp.buf /\ pp'.buf_tail = pp.buf_tail
      /\ pp'.buf_off = pp.buf_off /\ pp'.buf_len = pp.buf_len
  <2>1. <<a, b>> \in (0..Ids) \X (0..Ids)
    BY <1>7, Zenon
  <2> QED BY <1>0, <1>2, <2>1, Zenon DEF PipeRecord
<1>9. \A e \in End : pat'[e] = "idle"
  BY <1>2, Zenon
<1>10. PipeTypes'
  BY <1>0, <1>2, <1>4, <1>6, <1>8, Zenon DEF PipeInv, PipeTypes
<1>11. EndsInv'
  BY <1>0, <1>8, <1>9, Zenon DEF EndsInv
<1>12. IdOf("r")' = a /\ IdOf("w")' = b
  BY <1>8, TheEnds DEF IdOf
<1>13. /\ smap'[a].socktype = "PIPE" /\ smap'[a].epoll = {}
       /\ smap'[b].socktype = "PIPE" /\ smap'[b].epoll = {}
  BY <1>4, <1>5, Zenon
<1>14. SocketsInv'
  <2>1. ASSUME NEW d \in End PROVE Theirs(d)'
    <3>1. smap'[IdOf(d)'].socktype = "PIPE" /\ smap'[IdOf(d)'].epoll = {} /\ pat'[d] = "idle"
      BY <1>9, <1>12, <1>13, TheEnds, Zenon
    <3> QED BY <3>1, Zenon DEF Theirs
  <2> QED BY <1>4, <1>12, <2>1, Zenon DEF SocketsInv
<1>15. IdsAre(smap', free_smap')
  <2>1. ASSUME NEW i \in Id PROVE smap'[i].socktype = "UNUSED" <=> On(free_smap', i)
    <3>1. CASE i \in {a, b}
      BY <1>4, <1>5, <3>1, Zenon
    <3>2. CASE i \notin {a, b}
      BY <1>1, <1>4, <1>5, <3>2, Zenon DEF IdsAre
    <3> QED BY <3>1, <3>2
  <2> QED BY <1>4, <2>1, Zenon DEF IdsAre
<1>16. IdsKept'
  BY <1>4, <1>15, IdsKeptIsNext, Zenon
<1>17. BytesInv'
  BY <1>0, <1>2, <1>8, BytesSame, Zenon
<1>18. Sleeps' /\ Told'
  BY <1>9, <1>12, <1>13, TheEnds, Zenon DEF Sleeps, Told
<1> QED BY <1>10, <1>11, <1>14, <1>16, <1>17, <1>18, NoticedIsNext, Zenon DEF PipeInv

-----------------------------------------------------------------------------
(* The theorem. *)

\* The table is free at first, and there is no pipe.
LEMMA PipeStarts ==
  ASSUME PipeInit
  PROVE  PipeInv
<1>1. /\ smap = [i \in Id |-> UNUSED] /\ free_smap = [i \in Id |-> i]
      /\ pat = [e \in End |-> "none"] /\ pwant = [e \in End |-> 0] /\ psent = 0 /\ pgot = <<>>
      /\ pp = [state |-> "none", socket |-> <<0, 0>>, buf |-> [i \in Cell |-> 0],
               buf_off |-> 0, buf_tail |-> 0, buf_len |-> 0]
  BY Zenon DEF PipeInit, Id, Cell
<1>2. /\ 0 \in Cell /\ 0 \in 0..PIPE_BUF_SIZE /\ <<0, 0>> \in (0..Ids) \X (0..Ids)
      /\ 0 \in 0..MaxBytes /\ 0 \in Nat
  BY PipeNums DEF Cell
<1>3. "none" \in PipeAt /\ "none" \in PipeStates
  BY DEF PipeAt, PipeStates
<1>4. [i \in Cell |-> 0] \in [Cell -> Nat]
  BY <1>2, Zenon
<1>5. pp \in PipeRecord
  BY <1>1, <1>2, <1>3, <1>4, Zenon DEF PipeRecord
<1>6. /\ free_smap \in Seq(Id) /\ Len(free_smap) = Ids /\ pgot \in Seq(Nat) /\ Len(pgot) = 0
  BY <1>1, PipeNums DEF Id
<1>7. PipeTypes
  BY <1>1, <1>2, <1>3, <1>5, <1>6, UnusedIs, Zenon DEF PipeTypes
<1>8. /\ pp.state = "none" /\ pp.buf_off = 0 /\ pp.buf_tail = 0 /\ pp.buf_len = 0
      /\ \A e \in End : pat[e] = "none"
  BY <1>1, Zenon
<1>9. EndsInv /\ SocketsInv
  BY <1>8, Zenon DEF EndsInv, SocketsInv
<1>10. IdsKept
  <2>1. IdsAre(smap, free_smap)
    BY <1>1, <1>6, UnusedIs, Zenon DEF IdsAre, Once, On, Id
  <2> QED BY <1>6, <2>1, IdsKeptIs, Zenon
<1>11. BytesInv
  <2>1. BytesAre(pgot, 0, pp.buf, 0, 0, 0)
    BY <1>6, PipeNums DEF BytesAre, Wrap
  <2> QED BY <1>1, <1>8, <2>1, Zenon DEF BytesInv
<1>12. Sleeps /\ Told
  BY <1>8, TheEnds, Zenon DEF Sleeps, Told
<1> QED BY <1>7, <1>9, <1>10, <1>11, <1>12, NoticedIs, Zenon DEF PipeInv

\* Every step of the two threads, and of those that accept and close streams.
LEMMA PipeStep ==
  ASSUME PipeInv, PipeNext
  PROVE  PipeInv'
<1>1. CASE Accept
  BY <1>1, AcceptStep, Zenon
<1>2. CASE CloseStream
  BY <1>2, CloseStreamStep, Zenon
<1>3. CASE mtcp_pipe
  BY <1>3, PipeFailsStep, PipeMadeStep, Zenon
<1>4. CASE \E id \in 1..Ids : Stale(id)
  BY <1>4, StaleStep, Zenon DEF Id
<1>5. ASSUME NEW e \in End, Does(e) PROVE PipeInv'
  BY <1>5, CallStep, BodyStep, RaiseToPairStep, AfterStep, RegisterStep, Zenon DEF Does
<1>6. ASSUME NEW e \in End, Closes(e) PROVE PipeInv'
  BY <1>6, CloseBeginsStep, FirstCloseStep, SecondCloseStep, CloseEndsStep, Zenon DEF Closes
<1> QED BY <1>1, <1>2, <1>3, <1>4, <1>5, <1>6, Zenon DEF PipeNext

\* (a + b) % m for an index and a distance below m: what Wrap() computes.
LEMMA ModOnce ==
  ASSUME NEW m \in Nat, m > 0, NEW a \in Nat, a < m + m
  PROVE  a % m = IF a < m THEN a ELSE a - m
<1> DEFINE q == a \div m
           r == a % m
<1>1. a = m * q + r /\ q \in Int /\ r \in 0..(m - 1)
  OBVIOUS
<1> HIDE DEF q, r
<1>2. q >= 2 => m * q >= m + m
  BY <1>1
<1>3. q <= -1 => m * q <= -m
  BY <1>1
<1>4. m * q \in Int
  BY <1>1
<1>5. q = 0 \/ q = 1
  BY <1>1, <1>2, <1>3, <1>4
<1>6. q = 0 => m * q = 0
  OBVIOUS
<1>7. q = 1 => m * q = m
  OBVIOUS
<1> QED BY <1>1, <1>4, <1>5, <1>6, <1>7, SMTT(30) DEF r

\* The wrap of the code is the remainder.
LEMMA WrapIs ==
  ASSUME NEW p \in Cell, NEW n \in Nat, n < PIPE_BUF_SIZE
  PROVE  (p + n) % PIPE_BUF_SIZE = Wrap(p, n)
<1>1. p + n \in Nat /\ p + n < PIPE_BUF_SIZE + PIPE_BUF_SIZE
  BY PipeNums DEF Cell
<1>2. (p + n) % PIPE_BUF_SIZE = IF p + n < PIPE_BUF_SIZE THEN p + n ELSE (p + n) - PIPE_BUF_SIZE
  BY <1>1, PipeNums, ModOnce, Zenon
<1>3. (p + n) - PIPE_BUF_SIZE = n - (PIPE_BUF_SIZE - p)
  BY PipeNums DEF Cell
<1> QED BY <1>2, <1>3, Zenon DEF Wrap

\* Byte by byte, and as sequences.
InOrder(g, s, buf, off, len) ==
  g \o [k \in 1..len |-> buf[(off + k - 1) % PIPE_BUF_SIZE]] = [k \in 1..s |-> k]

\* Byte by byte and as a sequence it is the same stream.
LEMMA InOrderIs ==
  ASSUME NEW g \in Seq(Nat), NEW s \in Nat, NEW buf \in [Cell -> Nat], NEW off \in Cell,
         NEW tail \in Cell, NEW len \in 0..PIPE_BUF_SIZE, BytesAre(g, s, buf, off, tail, len)
  PROVE  InOrder(g, s, buf, off, len)
<1> DEFINE t == Taken(buf, off, len)
           h == g \o t
<1>1. len \in Nat /\ len <= len /\ len - len = 0 /\ Len(g) \in Nat
  BY PipeNums
<1>2. [k \in 1..len |-> buf[(off + k - 1) % PIPE_BUF_SIZE]] = t
  <2>1. ASSUME NEW k \in 1..len
        PROVE  (off + k - 1) % PIPE_BUF_SIZE = Wrap(off, k - 1)
    <3>1. k - 1 \in Nat /\ k - 1 < PIPE_BUF_SIZE /\ off + k - 1 = off + (k - 1)
      BY PipeNums DEF Cell
    <3> QED BY <3>1, WrapIs, Zenon
  <2> QED BY <2>1, Zenon DEF Taken
<1>3. /\ h \in Seq(Nat) /\ BytesAre(h, s, buf, Wrap(off, len), tail, len - len)
  BY <1>1, ReadBytes, Zenon
<1> HIDE DEF h, t
<1>4. Len(h) + (len - len) = s
  BY <1>3, Zenon DEF BytesAre
<1>5. \A k \in 1..Len(h) : h[k] = k
  BY <1>3, Zenon DEF BytesAre
<1>6. Len(h) = s
  BY <1>1, <1>3, <1>4
<1>7. h = [k \in 1..s |-> k]
  <2>1. h = [k \in 1..s |-> h[k]]
    BY <1>3, <1>6
  <2> QED BY <1>5, <1>6, <2>1, Zenon
<1> QED BY <1>2, <1>7, Zenon DEF h, InOrder

\* The invariant gives what is promised.
LEMMA PipeInvKeeps ==
  ASSUME PipeInv
  PROVE  PipeKept
<1>0. /\ pp \in PipeRecord /\ smap \in [Id -> SocketRecord] /\ pat \in [End -> PipeAt]
      /\ psent \in 0..MaxBytes /\ pgot \in Seq(Nat) /\ BytesInv /\ EndsInv
  BY Zenon DEF PipeInv, PipeTypes
<1>1. /\ pp.state \in PipeStates /\ pp.buf \in [Cell -> Nat] /\ pp.buf_off \in Cell
      /\ pp.buf_tail \in Cell /\ pp.buf_len \in 0..PIPE_BUF_SIZE
  BY <1>0, PipeFields, Zenon
<1>2. \A i \in 1..Ids : smap[i].socktype \in {"UNUSED", "PIPE", "STREAM"}
  BY <1>0, SocketFields, Zenon DEF Id
<1>3. PipeTypeOK
  BY <1>0, <1>1, <1>2, Zenon DEF PipeTypeOK, PipeStates, PipeAt, Cell
<1>4. BytesInOrder
  <2>1. psent \in Nat
    BY <1>0, PipeNums
  <2>2. BytesAre(pgot, psent, pp.buf, pp.buf_off, pp.buf_tail, pp.buf_len)
    BY <1>0, Zenon DEF BytesInv
  <2>3. InOrder(pgot, psent, pp.buf, pp.buf_off, pp.buf_len)
    BY <1>0, <1>1, <2>1, <2>2, InOrderIs, Zenon
  <2> QED BY <2>3, Zenon DEF BytesInOrder, InOrder
<1>5. FreedLast
  BY <1>0, Zenon DEF FreedLast, EndsInv
<1> QED BY <1>3, <1>4, <1>5, Zenon DEF PipeKept, PipeInv

\* For any number of socket ids, size of the buffer, lengths of the calls and bytes, for
\* blocking and for non-blocking ends, and for every order of the calls of the two
\* threads, of closes and of accepted streams: the bytes of a pipe are read in the order
\* in which PipeWrite() got them; no thread sleeps in pthread_cond_wait() while it could
\* go on, and a registered reader has its event or is about to get it; the pipe is freed
\* by the last of the two closes, and every socket id is free once or in use.
THEOREM PipeIsKept == PipeSpec => []PipeKept
<1>1. PipeInit => PipeInv
  BY PipeStarts, Zenon
<1>2. PipeInv /\ [PipeNext]_pipevars => PipeInv'
  <2>1. SUFFICES ASSUME PipeInv, [PipeNext]_pipevars PROVE PipeInv'
    BY Zenon
  <2>2. CASE PipeNext
    BY <2>1, <2>2, PipeStep, Zenon
  <2>3. CASE UNCHANGED pipevars
    BY <2>1, <2>3, Zenon
      DEF pipevars, PipeInv, PipeTypes, EndsInv, SocketsInv, Theirs, IdOf, IdsKept, BytesInv,
          PipeNoticed, Sock, Pending
  <2> QED BY <2>1, <2>2, <2>3, Zenon
<1>3. PipeInv => PipeKept
  BY PipeInvKeeps, Zenon
<1> QED BY <1>1, <1>2, <1>3, PTL DEF PipeSpec

=============================================================================
