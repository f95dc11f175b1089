-------------------------------- MODULE Pipe --------------------------------
(***************************************************************************)
(* A pipe of mTCP and the socket table its two ends live in: mtcp_pipe(),  *)
(* PipeRead(), PipeWrite(), PipeClose() and AllocateSocket()/FreeSocket(), *)
(* used by a thread that reads and a thread that writes.  An end blocks on *)
(* the condition variable of the pipe, or is non-blocking and waits for an *)
(* epoll event (EpollEvents has the queues behind them; here an event is a *)
(* bit of its socket).  Accepted streams take socket ids from the same     *)
(* table.                                                                  *)
(*                                                                         *)
(* A step is what a thread does under pipe_lock up to AddEpollEvent(); the *)
(* tests before the lock, that call, and what follows the unlock are steps *)
(* of their own.  The calls that change the table are serialised by the    *)
(* application.                                                            *)
(***************************************************************************)
EXTENDS Integers, Sequences, FiniteSets, Functions

CONSTANTS
  Ids,              \* max_concurrency: the socket ids are 1..Ids
  PIPE_BUF_SIZE,    \* the size of the buffer
  Lens,             \* lengths the application reads and writes with
  MaxBytes          \* bound: bytes written

ASSUME PipeAssumption ==
  {Ids, PIPE_BUF_SIZE, MaxBytes} \cup Lens \subseteq Nat \ {0}

VARIABLES
  smap,          \* socket table: socktype, the pointer of the union, opts, epoll, events
  free_smap,     \* the ids of the free sockets
  pp,            \* the pipe: state, socket[], buf, buf_off, buf_tail, buf_len
  pat,           \* where the thread of each end is
  pwant,         \* len of the call that each end is in
  psent, pgot    \* bytes written so far, and the bytes read

pipevars == <<smap, free_smap, pp, pat, pwant, psent, pgot>>

End == {"r", "w"}
Other(e) == IF e = "r" THEN "w" ELSE "r"
Index == [r |-> 1, w |-> 2]
Ready(e) == IF e = "r" THEN "EPOLLIN" ELSE "EPOLLOUT"
UNUSED == [socktype |-> "UNUSED", ptr |-> "NULL", opts |-> "", epoll |-> {}, events |-> {}]

PipeInit ==
  /\ smap = [i \in 1..Ids |-> UNUSED]
  /\ free_smap = [i \in 1..Ids |-> i]
  /\ pp = [state |-> "none", socket |-> <<0, 0>>, buf |-> [i \in 0..(PIPE_BUF_SIZE - 1) |-> 0],
           buf_off |-> 0, buf_tail |-> 0, buf_len |-> 0]
  /\ pat = [e \in End |-> "none"] /\ pwant = [e \in End |-> 0]
  /\ psent = 0 /\ pgot = <<>>

PipeGoes(e, to) == pat' = [pat EXCEPT ![e] = to]
Sock(e) == smap[pp.socket[Index[e]]]
Smallest(a, b) == IF a <= b THEN a ELSE b

-----------------------------------------------------------------------------
(* socket.c *)

\* AllocateSocket() takes the first free socket without events; the ones it
\* passes go to the end of the list.
Skipped(f) == {i \in DOMAIN f : \A j \in 1..i : smap[f[j]].events # {}}
Rotated(f) == LET n == Cardinality(Skipped(f)) IN SubSeq(f, n + 1, Len(f)) \o SubSeq(f, 1, n)
Allocated(type, ptr) == [UNUSED EXCEPT !.socktype = type, !.ptr = ptr]

FreeSocket(id) ==
  /\ smap' = [smap EXCEPT ![id] = [UNUSED EXCEPT !.opts = smap[id].opts]]
  /\ free_smap' = Append(free_smap, id)

\* MUTANT of Accept: the socket stays in the list.
AcceptPeeks ==
  /\ free_smap # <<>> /\ Cardinality(Skipped(free_smap)) < Len(free_smap)
  /\ LET f == Rotated(free_smap)
     IN smap' = [smap EXCEPT ![f[1]] = Allocated("STREAM", "stream")] /\ free_smap' = f
  /\ UNCHANGED <<pp, pat, pwant, psent, pgot>>

\* mtcp_accept(): a stream gets a socket.  If every free one has events, the call
\* does not return.
Accept ==
  /\ free_smap # <<>> /\ Cardinality(Skipped(free_smap)) < Len(free_smap)
  /\ LET f == Rotated(free_smap)
     IN /\ smap' = [smap EXCEPT ![f[1]] = Allocated("STREAM", "stream")]
        /\ free_smap' = Tail(f)
  /\ UNCHANGED <<pp, pat, pwant, psent, pgot>>

CloseStream ==
  /\ \E id \in 1..Ids : smap[id].socktype = "STREAM" /\ FreeSocket(id)
  /\ UNCHANGED <<pp, pat, pwant, psent, pgot>>

-----------------------------------------------------------------------------
(* mtcp_pipe(), mtcp_setsock_nonblock() and mtcp_epoll_ctl() *)

\* Without a second socket the first one is given back.
mtcp_pipe ==
  /\ pp.state = "none"
  /\ IF Len(free_smap) < 2
     THEN /\ free_smap' = IF free_smap = <<>> THEN <<>> ELSE Append(Tail(free_smap), free_smap[1])
          /\ UNCHANGED <<smap, pp, pat>>
     ELSE \E nonblock \in SUBSET End :
          /\ smap' = [i \in 1..Ids |->
                      IF i \in {free_smap[1], free_smap[2]}
                      THEN [Allocated("PIPE", "pipe") EXCEPT !.opts =
                             IF \E e \in nonblock : i = free_smap[Index[e]] THEN "NONBLOCK" ELSE ""]
                      ELSE smap[i]]
          /\ pp' = [pp EXCEPT !.state = "ACTIVE", !.socket = <<free_smap[1], free_smap[2]>>]
          /\ free_smap' = SubSeq(free_smap, 3, Len(free_smap))
          /\ pat' = [e \in End |-> "idle"]
  /\ UNCHANGED <<pwant, psent, pgot>>

\* The events that are pending when an end is registered: RaisePendingPipeEvents().
Pending(e) ==
  IF e = "r" THEN pp.buf_len > 0 \/ pp.state = "CLOSE_WAIT" ELSE pp.buf_len < PIPE_BUF_SIZE

Register(e) ==
  /\ pat[e] = "idle" /\ Sock(e).opts = "NONBLOCK" /\ Sock(e).epoll = {}
  /\ smap' = [smap EXCEPT ![pp.socket[Index[e]]].epoll = {Ready(e)},
                          ![pp.socket[Index[e]]].events = IF Pending(e) THEN {Ready(e)} ELSE {}]
  /\ UNCHANGED <<free_smap, pp, pat, pwant, psent, pgot>>

\* mtcp_epoll_wait() drops an event that its socket is not registered for.
Stale(id) ==
  /\ ~ (smap[id].events \subseteq smap[id].epoll)
  /\ smap' = [smap EXCEPT ![id].events = @ \cap smap[id].epoll]
  /\ UNCHANGED <<free_smap, pp, pat, pwant, psent, pgot>>

-----------------------------------------------------------------------------
(* PipeRead() and PipeWrite() *)

Unlocked == \A e \in End : pat[e] \notin {"raise", "hangup"}

\* RaiseEventToPair() up to AddEpollEvent(): a blocking pair is signalled, one that
\* is registered is to get an event, and then the caller goes on.
ToPair(e, raise, on) ==
  LET o == Other(e)
  IN IF Sock(o).opts = "NONBLOCK"
     THEN PipeGoes(e, IF Sock(o).epoll # {} THEN raise ELSE on)
     ELSE pat' = [pat EXCEPT ![e] = on, ![o] = IF @ = "wait" THEN "lock" ELSE @]

\* AddEpollEvent() for the pair's socket, and the unlock.
RaiseToPair(e) ==
  /\ pat[e] \in {"raise", "hangup"} /\ PipeGoes(e, IF pat[e] = "raise" THEN "after" ELSE "freeing")
  /\ LET event == IF e = "r" /\ pat[e] = "raise" THEN "EPOLLOUT" ELSE "EPOLLIN"
     IN smap' = [smap EXCEPT ![pp.socket[Index[Other(e)]]].events = @ \cup {event}]
  /\ UNCHANGED <<free_smap, pp, pwant, psent, pgot>>

\* An application with a non-blocking end calls when epoll_wait() says so.
Call(e) ==
  /\ pat[e] = "idle"
  /\ \E n \in Lens : pwant' = [pwant EXCEPT ![e] = n]
  /\ IF Sock(e).opts = "NONBLOCK"
     THEN /\ Ready(e) \in Sock(e).events
          /\ smap' = [smap EXCEPT ![pp.socket[Index[e]]].events = @ \ {Ready(e)}]
     ELSE UNCHANGED smap
  \* The tests before the lock: end of file, or EPIPE.
  /\ PipeGoes(e, IF pp.state = "CLOSE_WAIT" /\ (e = "w" \/ pp.buf_len = 0) THEN "told" ELSE "lock")
  /\ UNCHANGED <<free_smap, pp, psent, pgot>>

\* MUTANT of Fits: as much as the caller asks for.
FitsAny(e) == pwant[e]

Fits(e) == Smallest(pwant[e], IF e = "r" THEN pp.buf_len ELSE PIPE_BUF_SIZE - pp.buf_len)

\* MUTANT of Wrap: the end of the buffer is not seen.
WrapLate(p, n) == IF p + n <= PIPE_BUF_SIZE THEN p + n ELSE n - (PIPE_BUF_SIZE - p)

Wrap(p, n) == IF p + n < PIPE_BUF_SIZE THEN p + n ELSE n - (PIPE_BUF_SIZE - p)

\* EAGAIN, or the end of file that came after the first test.
Nothing(e) ==
  /\ PipeGoes(e, IF e = "r" /\ pp.state = "CLOSE_WAIT" THEN "told" ELSE "idle")
  /\ UNCHANGED <<pp, psent, pgot>>

PipeRead(n) ==
  /\ pgot' = pgot \o [k \in 1..n |-> pp.buf[Wrap(pp.buf_off, k - 1)]]
  /\ pp' = [pp EXCEPT !.buf_off = Wrap(@, n), !.buf_len = @ - n]
  /\ IF pp.buf_len = PIPE_BUF_SIZE THEN ToPair("r", "raise", "after") ELSE PipeGoes("r", "after")
  /\ UNCHANGED psent

\* MUTANT of TellsReader: the reader is told when the buffer becomes full.
TellsReaderFull(n) == pp.buf_len + n = PIPE_BUF_SIZE

TellsReader(n) == pp.buf_len = 0

PipeWrite(n) ==
  /\ psent' = psent + n /\ psent + n <= MaxBytes
  /\ pp' = [pp EXCEPT !.buf_tail = Wrap(@, n), !.buf_len = @ + n,
                      !.buf = [i \in DOMAIN @ |-> IF \E k \in 1..n : i = Wrap(pp.buf_tail, k - 1)
                               THEN psent + (CHOOSE k \in 1..n : i = Wrap(pp.buf_tail, k - 1))
                               ELSE @[i]]]
  /\ IF TellsReader(n) THEN ToPair("w", "raise", "after") ELSE PipeGoes("w", "after")
  /\ UNCHANGED pgot

\* Under the lock: a blocking end waits while there is nothing to do.
Body(e) ==
  /\ pat[e] = "lock" /\ Unlocked
  /\ LET n == Fits(e)
     IN IF n = 0
        THEN IF Sock(e).opts = "NONBLOCK" THEN Nothing(e)
             ELSE PipeGoes(e, "wait") /\ UNCHANGED <<pp, psent, pgot>>
        ELSE IF e = "r" THEN PipeRead(n) ELSE PipeWrite(n)
  /\ UNCHANGED <<smap, free_smap, pwant>>

\* After the unlock: a registered end is told that it can go on, and a reader that
\* it met the end of the file.
After(e) ==
  /\ pat[e] = "after" /\ PipeGoes(e, "idle")
  /\ LET more == IF e = "r" THEN pp.buf_len > 0 ELSE pp.buf_len < PIPE_BUF_SIZE
         raise == \/ Ready(e) \in Sock(e).epoll /\ more
                  \/ e = "r" /\ pp.state = "CLOSE_WAIT" /\ pp.buf_len = 0
     IN smap' = IF raise THEN [smap EXCEPT ![pp.socket[Index[e]]].events = @ \cup {Ready(e)}]
                ELSE smap
  /\ UNCHANGED <<free_smap, pp, pwant, psent, pgot>>

-----------------------------------------------------------------------------
(* mtcp_close() of an end: PipeClose(), then FreeSocket() *)

CloseBegins(e) ==
  /\ pat[e] \in {"idle", "told"} /\ PipeGoes(e, "closing")
  /\ UNCHANGED <<smap, free_smap, pp, pwant, psent, pgot>>

\* MUTANT of PipeClose: the first close frees the pipe.
CloseFrees(e) ==
  /\ pat[e] = "closing" /\ Unlocked /\ PipeGoes(e, "freeing") /\ pp' = [pp EXCEPT !.state = "freed"]
  /\ UNCHANGED <<smap, free_smap, pwant, psent, pgot>>

PipeClose(e) ==
  /\ pat[e] = "closing" /\ Unlocked
  /\ IF pp.state = "ACTIVE"
     THEN /\ pp' = [pp EXCEPT !.state = "CLOSE_WAIT"]
          /\ ToPair(e, "hangup", "freeing") /\ UNCHANGED smap
     ELSE /\ pp' = [pp EXCEPT !.state = "freed"] /\ PipeGoes(e, "freeing")
          /\ smap' = [i \in 1..Ids |-> IF i \in {pp.socket[1], pp.socket[2]}
                                        THEN [smap[i] EXCEPT !.ptr = "NULL"] ELSE smap[i]]
  /\ UNCHANGED <<free_smap, pwant, psent, pgot>>

CloseEnds(e) ==
  /\ pat[e] = "freeing" /\ FreeSocket(pp.socket[Index[e]]) /\ PipeGoes(e, "closed")
  /\ UNCHANGED <<pp, pwant, psent, pgot>>

Does(e) == Call(e) \/ Body(e) \/ RaiseToPair(e) \/ After(e) \/ Register(e)
Closes(e) == CloseBegins(e) \/ PipeClose(e) \/ CloseEnds(e)

PipeNext ==
  \/ Accept \/ CloseStream \/ mtcp_pipe
  \/ \E id \in 1..Ids : Stale(id)
  \/ \E e \in End : Does(e) \/ Closes(e)

PipeSpec == PipeInit /\ [][PipeNext]_pipevars

\* The reader's thread reads whenever the pipe or epoll lets it, and a call that was
\* begun goes on.
PipeFairSpec ==
  /\ PipeSpec /\ WF_pipevars(Does("r"))
  /\ WF_pipevars(Body("w") \/ RaiseToPair("w") \/ After("w"))
  /\ \A e \in End : WF_pipevars(PipeClose(e) \/ CloseEnds(e))

-----------------------------------------------------------------------------
\* Types and bounds; both indices stay inside the buffer.
PipeTypeOK ==
  /\ pp.state \in {"none", "ACTIVE", "CLOSE_WAIT", "freed"}
  /\ pp.buf_off \in 0..(PIPE_BUF_SIZE - 1) /\ pp.buf_tail \in 0..(PIPE_BUF_SIZE - 1)
  /\ pp.buf_len \in 0..PIPE_BUF_SIZE
  /\ pat \in [End -> {"none", "idle", "lock", "wait", "raise", "hangup", "after", "told",
                      "closing", "freeing", "closed"}]
  /\ \A i \in 1..Ids : smap[i].socktype \in {"UNUSED", "PIPE", "STREAM"}
  /\ psent \in 0..MaxBytes

\* The bytes that were read and the ones in the buffer, from buf_off around its end,
\* are the bytes that were written, in order.
BytesInOrder ==
  pgot \o [k \in 1..pp.buf_len |-> pp.buf[(pp.buf_off + k - 1) % PIPE_BUF_SIZE]]
    = [k \in 1..psent |-> k]

\* No notice is lost.  A thread sleeps in pthread_cond_wait() only while it has
\* nothing to do, although it is signalled only at the change from empty or from
\* full; a registered reader with bytes or the end of the file to read has an event,
\* or the writer is about to raise it.
PipeNoticed ==
  /\ pat["r"] = "wait" => pp.buf_len = 0
  /\ pat["w"] = "wait" => pp.buf_len = PIPE_BUF_SIZE
  /\ pat["r"] = "idle" /\ Sock("r").epoll # {} /\ Pending("r") =>
       "EPOLLIN" \in Sock("r").events \/ pat["w"] \in {"raise", "hangup"}

\* "control reaches here only when PIPE_CLOSE_WAIT": the memory of the pipe is freed
\* only by the second of the two closes, with no other call on the pipe under way.
FreedLast ==
  pp.state = "freed" => \A e \in End : pat[e] \in {"freeing", "closed"}

\* Every socket id is in the free list once or in use.
IdsKept ==
  /\ IsInjective(free_smap)
  /\ \A i \in 1..Ids : smap[i].socktype = "UNUSED" <=> i \in Range(free_smap)

\* LIVENESS: every byte that was written is read, unless the reader closes its end.
Delivers ==
  \A n \in 1..MaxBytes :
    psent >= n ~> \/ Len(pgot) >= n
                  \/ pat["r"] \in {"closing", "hangup", "freeing", "closed"}

\* "In both cases, the socket ID is made available for re-use for a future incoming
\* connection request": a socket that was given to a stream has that stream until it
\* is closed.
StreamKept == \A i \in 1..Ids : smap[i].socktype = "STREAM" => smap[i].ptr = "stream"

\* The pipe as a whole: bytes in order, no notice lost, its memory freed by the last
\* close, and every socket id free or in use.
PipeKept == PipeTypeOK /\ BytesInOrder /\ PipeNoticed /\ FreedLast /\ IdsKept
=============================================================================
