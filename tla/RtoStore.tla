------------------------------ MODULE RtoStore ------------------------------
(***************************************************************************)
(* The retransmission timers of mTCP (timer.c): a wheel of RTO_HASH lists, *)
(* one for each tick, and one more list for timers that lie too far ahead. *)
(* All of it is done by the stack thread; the clock goes on between its    *)
(* rounds.  Times are 32-bit in the code and modulo Wrap here; Wrap is no  *)
(* multiple of RTO_HASH, as 2^32 is none of 3000.                          *)
(***************************************************************************)
EXTENDS Integers, Sequences, FiniteSets

CONSTANTS
  Streams,
  RTO_HASH,      \* slots of the wheel (3000)
  Every,         \* slots between two calls of RearrangeRTOStore() (1000)
  Wrap,          \* 2^32
  Rtos,          \* the values sndvar->rto takes, in ticks
  Timewait,      \* CONFIG.tcp_timewait
  MaxStep        \* bound on the ticks between two rounds of the stack

\* What the constants must satisfy; the modules that instantiate this one assume it.
RtoAssumption ==
  /\ RTO_HASH \in Nat \ {0} /\ Every \in Nat \ {0} /\ RTO_HASH % Every = 0 /\ Every < RTO_HASH
  /\ Wrap \in Nat /\ Rtos \subseteq 1..((Wrap \div 2) - 1) /\ Timewait \in Nat
  /\ MaxStep \in Nat \ {0}

VARIABLES
  cur_ts,                       \* the clock
  now_idx, now_ts,              \* rto_store->rto_now_idx, rto_now_ts
  rto_list, rto_list_cnt,       \* the lists 0..RTO_HASH and their counter
  on_rto_idx, ts_rto,           \* of each stream
  timewait_list, ts_tw_expire,  \* the list, and the expiry of each stream
  pc,                           \* inside CheckRtmTimeout()?
  timer, fired                  \* history: the rto a stream was added with and
                                \* its age; the same of the last ones to fire

store == <<now_idx, now_ts, rto_list, rto_list_cnt, on_rto_idx>>
tw == <<timewait_list, ts_tw_expire>>
vars == <<cur_ts, store, ts_rto, tw, pc, timer, fired>>

Add(a, b) == ((a + b) % Wrap)
Signed(x) == IF (x % Wrap) >= Wrap \div 2 THEN (x % Wrap) - Wrap ELSE (x % Wrap)
Remove(s, x) == SelectSeq(s, LAMBDA y : y # x)
In(q, x) == \E i \in 1..Len(q) : q[i] = x

Init ==
  /\ cur_ts = 0 /\ now_idx = 0 /\ now_ts = 0 /\ rto_list_cnt = 0
  /\ rto_list = [i \in 0..RTO_HASH |-> <<>>]
  /\ on_rto_idx = [s \in Streams |-> -1] /\ ts_rto = [s \in Streams |-> 0]
  /\ timewait_list = <<>> /\ ts_tw_expire = [s \in Streams |-> 0]
  /\ pc = "idle" /\ fired = {} /\ timer = [s \in Streams |-> [rto |-> 0, age |-> 0]]

\* What is kept of f for the streams that leave a list: nothing reads it again.
Drop(f, gone) == [s \in Streams |-> IF s \in gone THEN 0 ELSE f[s]]
Off == [rto |-> 0, age |-> 0]
DropTimers(gone) == [s \in Streams |-> IF s \in gone THEN Off ELSE timer[s]]
Elements(q) == {q[i] : i \in 1..Len(q)}

\* The slot for a distance of diff ticks: (diff + rto_now_idx) % RTO_HASH, where
\* the sum is unsigned.
Slot(diff, idx) == (Add(diff, idx) % RTO_HASH)

\* AddtoRTOList(), with the expiry t, when the store holds lists and count.
AddtoRTOList(s, t, lists, count) ==
  LET idx  == IF count = 0 THEN 0 ELSE now_idx
      now  == IF count = 0 THEN t ELSE now_ts
      diff == Signed(t - now)
      slot == IF diff < RTO_HASH THEN Slot(diff, idx) ELSE RTO_HASH
  IN  /\ now_idx' = idx /\ now_ts' = now
      /\ on_rto_idx' = [on_rto_idx EXCEPT ![s] = slot]
      /\ rto_list' = [lists EXCEPT ![slot] = Append(@, s)]
      /\ rto_list_cnt' = count + 1

Started(s, r) == timer' = [timer EXCEPT ![s] = [rto |-> r, age |-> 0]]

\* SendTCPPacket() with a payload: a stream that is already on a list stays
\* where it is.
Send(s, r) ==
  /\ pc = "idle" /\ ~In(timewait_list, s)
  /\ ts_rto' = [ts_rto EXCEPT ![s] = Add(cur_ts, r)]
  /\ IF on_rto_idx[s] < 0
     THEN AddtoRTOList(s, Add(cur_ts, r), rto_list, rto_list_cnt) /\ Started(s, r)
     ELSE UNCHANGED <<store, timer>>
  /\ UNCHANGED <<cur_ts, tw, pc, fired>>

\* RemoveFromRTOList(): the lists and the counter after it.
Without(s) ==
  IF on_rto_idx[s] < 0 THEN <<rto_list, rto_list_cnt>>
  ELSE <<[rto_list EXCEPT ![on_rto_idx[s]] = Remove(@, s)], rto_list_cnt - 1>>

\* UpdateRetransmissionTimer() after an acknowledgement: something is still
\* unacknowledged, or nothing is.
Restart(s, r) ==
  /\ pc = "idle" /\ ~In(timewait_list, s)
  /\ ts_rto' = [ts_rto EXCEPT ![s] = Add(cur_ts, r)]
  /\ AddtoRTOList(s, Add(cur_ts, r), Without(s)[1], Without(s)[2]) /\ Started(s, r)
  /\ UNCHANGED <<cur_ts, tw, pc, fired>>
Stop(s) ==
  /\ pc = "idle" /\ on_rto_idx[s] >= 0
  /\ rto_list' = Without(s)[1] /\ rto_list_cnt' = Without(s)[2]
  /\ on_rto_idx' = [on_rto_idx EXCEPT ![s] = -1]
  /\ ts_rto' = Drop(ts_rto, {s}) /\ timer' = DropTimers({s})
  /\ UNCHANGED <<cur_ts, now_idx, now_ts, tw, pc, fired>>

\* AddtoTimewaitList(): both kinds of list link a stream through timer_link.
TimewaitStays(s) ==
  /\ pc = "idle"
  /\ ts_tw_expire' = [ts_tw_expire EXCEPT ![s] = Add(cur_ts, Timewait)]
  /\ timewait_list' = Append(Remove(timewait_list, s), s)
  /\ UNCHANGED <<store, cur_ts, ts_rto, pc, timer, fired>>
AddtoTimewaitList(s) ==
  /\ pc = "idle"
  /\ ts_tw_expire' = [ts_tw_expire EXCEPT ![s] = Add(cur_ts, Timewait)]
  /\ timewait_list' = Append(Remove(timewait_list, s), s)
  /\ rto_list' = Without(s)[1] /\ rto_list_cnt' = Without(s)[2]
  /\ on_rto_idx' = [on_rto_idx EXCEPT ![s] = -1]
  /\ ts_rto' = Drop(ts_rto, {s}) /\ timer' = DropTimers({s})
  /\ UNCHANGED <<cur_ts, now_idx, now_ts, pc, fired>>

\* One more round of the stack thread, some ticks later.
Tick(d) ==
  /\ pc = "idle"
  /\ cur_ts' = Add(cur_ts, d)
  /\ timer' = [s \in Streams |-> [timer[s] EXCEPT !.age =
                 IF on_rto_idx[s] < 0 THEN 0 ELSE @ + d]]
  /\ pc' = IF rto_list_cnt = 0 THEN "timewait" ELSE "rto"
  /\ UNCHANGED <<store, ts_rto, tw, fired>>

\* RearrangeRTOStore(), when the wheel stands at idx and now: the streams of
\* the far list that go to slot i.
Moved(i, idx, now) ==
  SelectSeq(rto_list[RTO_HASH], LAMBDA s :
    LET diff == Signed(now - ts_rto[s]) IN diff < RTO_HASH /\ Slot(diff, idx) = i)
RearrangedNever(lists, idx, now) == lists
Rearranged(lists, idx, now) ==
  IF (idx % Every) # 0 THEN lists
  ELSE [i \in 0..RTO_HASH |->
         IF i < RTO_HASH THEN lists[i] \o Moved(i, idx, now)
         ELSE SelectSeq(lists[i], LAMBDA s : Signed(now - ts_rto[s]) >= RTO_HASH)]

\* One turn of the loop in CheckRtmTimeout(): every stream of the slot times
\* out, and the wheel goes on by one slot.
TurnUnwrapped == now_idx' = now_idx + 1 /\ now_ts' = Add(now_ts, 1)
TurnKeepsTime == now_idx' = ((now_idx + 1) % RTO_HASH) /\ now_ts' = now_ts
Turn == now_idx' = ((now_idx + 1) % RTO_HASH) /\ now_ts' = Add(now_ts, 1)

CheckRtmTimeout ==
  /\ pc = "rto" /\ Signed(cur_ts - now_ts) >= 0
  /\ Turn
  /\ LET slot == rto_list[now_idx]
     IN  /\ rto_list' = Rearranged([rto_list EXCEPT ![now_idx] = <<>>], now_idx', now_ts')
         /\ rto_list_cnt' = rto_list_cnt - Len(slot)
         /\ on_rto_idx' = [s \in Streams |->
              IF In(slot, s) THEN -1
              ELSE IF on_rto_idx[s] = RTO_HASH
                   THEN CHOOSE i \in 0..RTO_HASH : In(rto_list'[i], s)
                   ELSE on_rto_idx[s]]
         /\ fired' = fired \cup {timer[x] : x \in Elements(slot)}
         /\ ts_rto' = Drop(ts_rto, Elements(slot)) /\ timer' = DropTimers(Elements(slot))
  /\ UNCHANGED <<cur_ts, tw, pc>>
LeaveRtm ==
  /\ pc = "rto" /\ Signed(cur_ts - now_ts) < 0 /\ pc' = "timewait"
  /\ UNCHANGED <<cur_ts, store, ts_rto, tw, timer, fired>>

\* CheckTimewaitExpire(): the list is in the order of expiry, so it stops at
\* the first stream that has to wait (or is still on the control list, cl).
CheckTimewaitExpire(cl) ==
  /\ pc = "timewait" /\ pc' = "idle"
  /\ LET waits(i) == Signed(cur_ts - ts_tw_expire[timewait_list[i]]) < 0
         n == CHOOSE k \in 0..Len(timewait_list) :
                /\ \A i \in 1..k : ~waits(i)
                /\ k < Len(timewait_list) => waits(k + 1)
     IN  timewait_list' = SelectSeq(SubSeq(timewait_list, 1, n), LAMBDA s : s \in cl)
                          \o SubSeq(timewait_list, n + 1, Len(timewait_list))
  /\ ts_tw_expire' = Drop(ts_tw_expire, Streams \ Elements(timewait_list'))
  /\ fired' = {}
  /\ UNCHANGED <<cur_ts, store, ts_rto, timer>>

Next ==
  \/ \E s \in Streams, r \in Rtos : Send(s, r) \/ Restart(s, r)
  \/ \E s \in Streams : Stop(s) \/ AddtoTimewaitList(s)
  \/ \E d \in 0..MaxStep : Tick(d)
  \/ CheckRtmTimeout \/ LeaveRtm
  \/ \E cl \in SUBSET Streams : CheckTimewaitExpire(cl)

Spec == Init /\ [][Next]_vars

-----------------------------------------------------------------------------

MaxRto == CHOOSE r \in Rtos : \A q \in Rtos : q <= r

\* Type invariant.
TypeOK ==
  /\ cur_ts \in 0..(Wrap - 1) /\ now_ts \in 0..(Wrap - 1) /\ now_idx \in 0..(RTO_HASH - 1)
  /\ rto_list \in [0..RTO_HASH -> Seq(Streams)] /\ rto_list_cnt \in 0..Cardinality(Streams)
  /\ on_rto_idx \in [Streams -> -1..RTO_HASH] /\ ts_rto \in [Streams -> 0..(Wrap - 1)]
  /\ timewait_list \in Seq(Streams) /\ ts_tw_expire \in [Streams -> 0..(Wrap - 1)]
  /\ pc \in {"idle", "rto", "timewait"}

\* A stream is on the list its on_rto_idx names and on no other (one timer_link
\* serves them all, the TIME_WAIT list too), and rto_list_cnt counts them: the
\* wheel is only reset when it is empty.
OneList ==
  /\ \A s \in Streams, i \in 0..RTO_HASH :
       /\ In(rto_list[i], s) <=> on_rto_idx[s] = i
       /\ In(rto_list[i], s) => ~In(timewait_list, s)
       /\ Len(SelectSeq(rto_list[i], LAMBDA x : x = s)) <= 1
  /\ rto_list_cnt = Cardinality({s \in Streams : on_rto_idx[s] >= 0})

\* No timer is forgotten: whatever slot the arithmetic chooses, a stream times
\* out within one turn of the wheel after the wheel has started to move.
WaitBounded ==
  \A s \in Streams : on_rto_idx[s] >= 0 =>
    timer[s].age <= MaxRto + RTO_HASH + Every + MaxStep

\* A timer set less than RTO_HASH ticks ahead never fires early: no segment is
\* sent again before its ts_rto.
NotEarly == \A t \in fired : t.age >= t.rto

\* "update rto timestamp": a timer set for ts_rto fires in the first round of
\* the stack at or after it.
NotLate == \A t \in fired : t.age < t.rto + MaxStep
=============================================================================
