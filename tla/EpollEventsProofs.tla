------------------------- MODULE EpollEventsProofs -------------------------
(***************************************************************************)
(* Proofs about the event queues, for any sockets, sizes of the queues,    *)
(* maxevents and timeouts.  As long as no change of a socket's word is     *)
(* lost, a bit is set exactly for what is in a queue, and there once; a    *)
(* flush only moves the border between usr_queue and mtcp_queue, so those  *)
(* two are looked at as one sequence.                                      *)
(***************************************************************************)
EXTENDS EpollEvents, SequenceTheorems, FiniteSetTheorems, TLAPS

Distinct(q) == \A i, j \in 1..Len(q) : q[i] = q[j] => i = j
Both == usr_queue \o mtcp_queue

\* What the threads have at hand at each step, and the room they have seen.
PlaceInv ==
  /\ stack.pc \in {"raise", "add"} => stack.ev \in Events
  /\ stack.pc \in {"idle", "flush"} => stack = At(stack.pc)
  /\ stack.pc = "add" => Len(mtcp_queue) < Size /\ stack.ev[2] \notin stack.word
  /\ app.pc \in {"pending", "add", "clear"} => app.ev \in Events
  /\ app.pc \in {"run", "wait", "woken", "fetch"} => app = At(app.pc)
  /\ app.pc = "add" => Len(usr_shadow_queue) < Size /\ app.ev[2] \notin app.word
  /\ app.pc = "clear" => ~Empty /\ app.ev = Next1
  /\ app.pc = "pending" => calls = <<>>
TypeInv == TypeOK /\ PlaceInv

\* A bit is set for what is queued, and only for that, and it is queued once.
BitInv ==
  /\ \A e \in Events : Queued(e) <=> In(Both, e) \/ In(usr_shadow_queue, e)
  /\ Distinct(Both) /\ Distinct(usr_shadow_queue)
  /\ \A e \in Events : ~(In(Both, e) /\ In(usr_shadow_queue, e))
  /\ app.pc = "clear" => app.ev \in got \/ app.ev[2] \notin epoll[app.ev[1]]
QueueInv == TypeInv /\ (raced \/ BitInv)

-----------------------------------------------------------------------------
(* Sequences. *)

LEMMA InAppend ==
  ASSUME NEW S, NEW s \in Seq(S), NEW e \in S
  PROVE  \A f : In(Append(s, e), f) <=> In(s, f) \/ f = e
<1>1. /\ Len(Append(s, e)) = Len(s) + 1 /\ Len(s) \in Nat /\ Append(s, e)[Len(s) + 1] = e
      /\ \A i \in 1..Len(s) : Append(s, e)[i] = s[i]
  BY AppendProperties
<1> TAKE f
<1>2. In(s, f) \/ f = e => In(Append(s, e), f)
  BY <1>1 DEF In
<1>3. ASSUME In(Append(s, e), f) PROVE In(s, f) \/ f = e
  <2>1. PICK i \in 1..Len(Append(s, e)) : Append(s, e)[i] = f
    BY <1>3 DEF In
  <2>2. CASE i = Len(s) + 1
    BY <1>1, <2>1, <2>2
  <2>3. CASE i # Len(s) + 1
    BY <1>1, <2>1, <2>3 DEF In
  <2> QED
    BY <2>2, <2>3
<1> QED
  BY <1>2, <1>3

LEMMA DistinctAppend ==
  ASSUME NEW S, NEW s \in Seq(S), NEW e \in S, Distinct(s), ~In(s, e)
  PROVE  Distinct(Append(s, e))
<1> DEFINE t == Append(s, e)
<1>1. /\ Len(t) = Len(s) + 1 /\ Len(s) \in Nat /\ t[Len(s) + 1] = e
      /\ \A i \in 1..Len(s) : t[i] = s[i]
  BY AppendProperties
<1> HIDE DEF t
<1>2. \A i \in 1..Len(s) : t[i] # e
  BY <1>1 DEF In
<1>3. ASSUME NEW i \in 1..Len(t), NEW j \in 1..Len(t), t[i] = t[j] PROVE i = j
  <2>1. CASE i = Len(s) + 1 \/ j = Len(s) + 1
    BY <1>1, <1>2, <1>3, <2>1
  <2>2. CASE i # Len(s) + 1 /\ j # Len(s) + 1
    BY <1>1, <1>3, <2>2 DEF Distinct
  <2> QED
    BY <2>1, <2>2
<1> QED
  BY <1>3 DEF Distinct, t

LEMMA InTail ==
  ASSUME NEW S, NEW s \in Seq(S), s # <<>>, Distinct(s)
  PROVE  /\ Distinct(Tail(s)) /\ In(s, Head(s))
         /\ \A f : In(Tail(s), f) <=> In(s, f) /\ f # Head(s)
<1> DEFINE t == Tail(s)
<1>1. /\ Len(t) = Len(s) - 1 /\ Len(s) \in Nat /\ Len(s) > 0 /\ Head(s) = s[1]
      /\ \A i \in 1..Len(t) : t[i] = s[i + 1]
  BY HeadTailProperties, EmptySeq
<1> HIDE DEF t
<1>2. Distinct(t)
  BY <1>1 DEF Distinct
<1>3. In(s, Head(s))
  BY <1>1 DEF In
<1>4. ASSUME NEW f PROVE In(t, f) <=> In(s, f) /\ f # Head(s)
  <2>1. ASSUME In(t, f) PROVE In(s, f) /\ f # Head(s)
    <3>1. PICK i \in 1..Len(t) : t[i] = f
      BY <2>1 DEF In
    <3>2. i + 1 \in 1..Len(s) /\ s[i + 1] = f /\ i + 1 # 1 /\ 1 \in 1..Len(s)
      BY <1>1, <3>1
    <3> QED
      BY <1>1, <3>2 DEF In, Distinct
  <2>2. ASSUME In(s, f), f # Head(s) PROVE In(t, f)
    <3>1. PICK i \in 1..Len(s) : s[i] = f
      BY <2>2 DEF In
    <3>2. i # 1 /\ i - 1 \in 1..Len(t) /\ t[i - 1] = s[(i - 1) + 1]
      BY <1>1, <2>2, <3>1
    <3>3. t[i - 1] = f
      BY <3>1, <3>2
    <3> QED
      BY <3>2, <3>3 DEF In
  <2> QED
    BY <2>1, <2>2
<1> QED
  BY <1>2, <1>3, <1>4 DEF t

\* usr_queue and mtcp_queue as one sequence: at both ends, and at the border.
LEMMA CatAppend ==
  ASSUME NEW S, NEW u \in Seq(S), NEW m \in Seq(S), NEW e \in S
  PROVE  u \o Append(m, e) = Append(u \o m, e)
<1>1. Append(m, e) = m \o <<e>> /\ Append(u \o m, e) = (u \o m) \o <<e>>
  BY ConcatProperties, AppendIsConcat
<1> QED
  BY <1>1, ConcatAssociative

LEMMA CatTail ==
  ASSUME NEW S, NEW u \in Seq(S), NEW m \in Seq(S), u # <<>>
  PROVE  /\ Tail(u) \o m = Tail(u \o m) /\ Head(u \o m) = Head(u) /\ u \o m # <<>>
         /\ Tail(u) \in Seq(S)
<1> DEFINE c == u \o m
           t == Tail(u)
           l == Tail(u) \o m
           r == Tail(c)
<1>1. /\ c \in Seq(S) /\ Len(c) = Len(u) + Len(m) /\ Len(u) \in Nat /\ Len(m) \in Nat
      /\ \A i \in 1..(Len(u) + Len(m)) : c[i] = IF i <= Len(u) THEN u[i] ELSE m[i - Len(u)]
  BY ConcatProperties
<1>2. /\ t \in Seq(S) /\ Len(t) = Len(u) - 1 /\ Len(u) > 0 /\ Head(u) = u[1]
      /\ \A i \in 1..Len(t) : t[i] = u[i + 1]
  BY HeadTailProperties, EmptySeq
<1>3. /\ l \in Seq(S) /\ Len(l) = Len(t) + Len(m)
      /\ \A i \in 1..(Len(t) + Len(m)) : l[i] = IF i <= Len(t) THEN t[i] ELSE m[i - Len(t)]
  BY <1>2, ConcatProperties
<1> HIDE DEF c, t, l
<1>4. c # <<>> /\ Head(c) = c[1]
  BY <1>1, <1>2
<1>5. /\ r \in Seq(S) /\ Len(r) = Len(c) - 1 /\ \A i \in 1..Len(r) : r[i] = c[i + 1]
  BY <1>1, <1>4, HeadTailProperties
<1> HIDE DEF r
<1>6. Len(l) = Len(r)
  BY <1>1, <1>2, <1>3, <1>5
<1>7. ASSUME NEW i \in 1..Len(l) PROVE l[i] = r[i]
  <2>1. r[i] = c[i + 1] /\ i + 1 \in 1..(Len(u) + Len(m))
    BY <1>1, <1>2, <1>3, <1>5, <1>6
  <2>2. CASE i <= Len(t)
    BY <1>1, <1>2, <1>3, <2>1, <2>2, SMTT(30)
  <2>3. CASE i > Len(t)
    <3>1. l[i] = m[i - Len(t)] /\ c[i + 1] = m[i + 1 - Len(u)] /\ i - Len(t) = i + 1 - Len(u)
      BY <1>1, <1>2, <1>3, <2>1, <2>3
    <3> QED
      BY <2>1, <3>1
  <2> QED
    BY <1>1, <1>2, <2>2, <2>3
<1>8. l = r
  BY <1>3, <1>5, <1>6, <1>7, SeqEqual
<1>9. Head(c) = Head(u)
  BY <1>1, <1>2, <1>4
<1> QED
  BY <1>2, <1>4, <1>8, <1>9 DEF c, t, l, r

\* What a flush of n events makes of the two.
Joined(u, m) == u \o m
Moved(u, m, n) == (u \o SubSeq(m, 1, n)) \o SubSeq(m, n + 1, Len(m))

LEMMA CatMove ==
  ASSUME NEW S, NEW u \in Seq(S), NEW m \in Seq(S), NEW n \in 0..Len(m)
  PROVE  /\ SubSeq(m, 1, n) \in Seq(S) /\ Len(SubSeq(m, 1, n)) = n
         /\ SubSeq(m, n + 1, Len(m)) \in Seq(S) /\ Len(SubSeq(m, n + 1, Len(m))) = Len(m) - n
         /\ Moved(u, m, n) = Joined(u, m)
<1> DEFINE a == SubSeq(m, 1, n)
           b == SubSeq(m, n + 1, Len(m))
<1>1. \A i \in 1..Len(m) : m[i] \in S
  BY ElementOfSeq
<1>2. /\ a \in Seq(S) /\ Len(a) = n /\ \A i \in 1..n : a[i] = m[i]
  BY <1>1
<1>3. /\ b \in Seq(S) /\ Len(b) = Len(m) - n /\ \A i \in 1..(Len(m) - n) : b[i] = m[n + i]
  BY <1>1
<1> HIDE DEF a, b
<1>4. a \o b = m
  <2> DEFINE c == a \o b
  <2>1. /\ c \in Seq(S) /\ Len(c) = Len(a) + Len(b)
        /\ \A i \in 1..(Len(a) + Len(b)) : c[i] = IF i <= Len(a) THEN a[i] ELSE b[i - Len(a)]
    BY <1>2, <1>3, ConcatProperties
  <2> HIDE DEF c
  <2>2. Len(c) = Len(m) /\ Len(m) \in Nat
    BY <1>2, <1>3, <2>1
  <2>3. ASSUME NEW i \in 1..Len(c) PROVE c[i] = m[i]
    <3>1. CASE i <= n
      BY <1>2, <1>3, <2>1, <2>2, <3>1
    <3>2. CASE i > n
      <4>1. i - n \in 1..(Len(m) - n) /\ c[i] = b[i - n]
        BY <1>2, <1>3, <2>1, <2>2, <3>2, SMTT(30)
      <4>2. b[i - n] = m[n + (i - n)] /\ n + (i - n) = i
        BY <1>3, <4>1, <2>2
      <4> QED
        BY <4>1, <4>2
    <3> QED
      BY <2>2, <3>1, <3>2
  <2> QED
    BY <2>1, <2>2, <2>3, SeqEqual, Zenon DEF c
<1>5. (u \o a) \o b = u \o (a \o b)
  BY <1>2, <1>3, ConcatAssociative, SMTT(30)
<1> QED
  BY <1>2, <1>3, <1>4, <1>5, Zenon DEF a, b, Moved, Joined

LEMMA InCat ==
  ASSUME NEW S, NEW u \in Seq(S), NEW m \in Seq(S)
  PROVE  \A e : In(u \o m, e) <=> In(u, e) \/ In(m, e)
<1> DEFINE c == u \o m
<1>1. /\ Len(c) = Len(u) + Len(m) /\ Len(u) \in Nat /\ Len(m) \in Nat
      /\ \A i \in 1..(Len(u) + Len(m)) : c[i] = IF i <= Len(u) THEN u[i] ELSE m[i - Len(u)]
  BY ConcatProperties
<1> HIDE DEF c
<1> SUFFICES ASSUME NEW e PROVE In(c, e) <=> In(u, e) \/ In(m, e)
  BY DEF c
<1>2. In(u, e) => In(c, e)
  BY <1>1 DEF In
<1>3. ASSUME In(m, e) PROVE In(c, e)
  <2>1. PICK i \in 1..Len(m) : m[i] = e
    BY <1>3 DEF In
  <2>2. Len(u) + i \in 1..Len(c) /\ c[Len(u) + i] = m[(Len(u) + i) - Len(u)]
    BY <1>1, <2>1
  <2>3. (Len(u) + i) - Len(u) = i
    BY <1>1
  <2> QED
    BY <2>1, <2>2, <2>3 DEF In
<1>4. ASSUME In(c, e) PROVE In(u, e) \/ In(m, e)
  <2>1. PICK i \in 1..Len(c) : c[i] = e
    BY <1>4 DEF In
  <2>2. CASE i <= Len(u)
    BY <1>1, <2>1, <2>2 DEF In
  <2>3. CASE i > Len(u)
    <3>1. i - Len(u) \in 1..Len(m) /\ m[i - Len(u)] = e
      BY <1>1, <2>1, <2>3
    <3> QED
      BY <3>1 DEF In
  <2> QED
    BY <1>1, <2>2, <2>3
<1> QED
  BY <1>2, <1>3, <1>4
-----------------------------------------------------------------------------
(* Types, and what the threads have at hand. *)

StackPcs == {"idle", "raise", "add", "flush"}
AppPcs == {"run", "pending", "add", "wait", "woken", "fetch", "clear"}

\* TypeOK in the form the steps below use it in.
LEMMA TypeFacts ==
  TypeOK <=>
    /\ epoll \in [Socks -> SUBSET Kinds] /\ events \in [Socks -> SUBSET Kinds]
    /\ ready \in [Socks -> SUBSET Kinds]
    /\ mtcp_queue \in Seq(Events) /\ usr_queue \in Seq(Events)
    /\ usr_shadow_queue \in Seq(Events)
    /\ Len(mtcp_queue) <= Size /\ Len(usr_queue) <= Size /\ Len(usr_shadow_queue) <= Size
    /\ stack \in Thread(StackPcs) /\ app \in Thread(AppPcs)
    /\ waiting \in BOOLEAN /\ timeout \in {"never", "now", "later"} /\ got \subseteq Events
    /\ calls \in Seq(Events) /\ raced \in BOOLEAN /\ dropped \in BOOLEAN
BY DEF TypeOK, StackPcs, AppPcs

LEMMA AtFacts ==
  ASSUME NEW pcs, NEW pc \in pcs
  PROVE  /\ At(pc) \in Thread(pcs)
         /\ At(pc).pc = pc /\ At(pc).ev = None /\ At(pc).word = {}
BY DEF At, Thread

LEMMA ThreadFacts ==
  ASSUME NEW pcs, NEW pc \in pcs, NEW e \in Events, NEW w \in SUBSET Kinds
  PROVE  [pc |-> pc, ev |-> e, word |-> w] \in Thread(pcs)
BY DEF Thread

LEMMA EventFacts ==
  ASSUME NEW e \in Events
  PROVE  e[1] \in Socks /\ e[2] \in Kinds /\ e = <<e[1], e[2]>> /\ e # None
BY DEF Events, None

LEMMA PairEvent ==
  ASSUME NEW s \in Socks, NEW k \in Kinds
  PROVE  /\ <<s, k>> \in Events /\ <<s, k>>[1] = s /\ <<s, k>>[2] = k
BY DEF Events

LEMMA TypeInit == Init => TypeInv
<1> SUFFICES ASSUME Init PROVE TypeInv
  OBVIOUS
<1> USE EpollAssumption DEF Init
<1>1. <<>> \in Seq(Events) /\ Len(<<>>) = 0
  OBVIOUS
<1>2. /\ epoll \in [Socks -> SUBSET Kinds] /\ events \in [Socks -> SUBSET Kinds]
      /\ ready \in [Socks -> SUBSET Kinds]
  BY DEF Kinds
<1>3. stack \in Thread(StackPcs) /\ app \in Thread(AppPcs) /\ stack.pc = "idle" /\ app.pc = "run"
  BY AtFacts DEF StackPcs, AppPcs
<1>5. \A q \in {mtcp_queue, usr_queue, usr_shadow_queue} : q \in Seq(Events) /\ Len(q) <= Size
  <2>1. \A q \in {mtcp_queue, usr_queue, usr_shadow_queue} : q = <<>>
    OBVIOUS
  <2>2. 0 <= Size
    OBVIOUS
  <2> HIDE DEF Init
  <2> QED
    BY <1>1, <2>1, <2>2, Zenon
<1>6. /\ waiting \in BOOLEAN /\ timeout \in {"never", "now", "later"} /\ got \subseteq Events
      /\ calls \in Seq(Events) /\ raced \in BOOLEAN /\ dropped \in BOOLEAN
  BY <1>1, Zenon
<1>4. TypeOK
  <2> HIDE DEF Init
  <2> QED
    BY <1>2, <1>3, <1>5, <1>6 DEF TypeOK, StackPcs, AppPcs
<1> QED
  BY <1>3, <1>4 DEF TypeInv, PlaceInv

\* AddEpollEvent()'s tests: the thread goes on, with the event and the word it
\* read, or is done.
LEMMA AddTestsFacts ==
  ASSUME TypeInv, NEW e \in Events, NEW q, NEW pc, NEW done, NEW t, AddTests(e, q, pc, done, t)
  PROVE  /\ dropped' \in BOOLEAN
         /\ \/ /\ t = At(done)
               /\ (Queued(e) /\ dropped' = dropped) \/ dropped' = TRUE
            \/ /\ t = [pc |-> pc, ev |-> e, word |-> events[e[1]]]
               /\ ~Queued(e) /\ ~Full(q) /\ dropped' = dropped
BY Zenon DEF AddTests, TypeInv, TypeOK

LEMMA WaitsFacts ==
  ASSUME NEW t, Waits(t)
  PROVE  /\ app' \in Thread(AppPcs) /\ waiting' \in BOOLEAN
         /\ app' = At(app'.pc) /\ app'.pc \in {"wait", "fetch"}
<1>1. (app' = At("wait") \/ app' = At("fetch")) /\ waiting' \in BOOLEAN
  BY Zenon DEF Waits
<1>2. /\ At("wait") \in Thread(AppPcs) /\ At("wait").pc = "wait"
      /\ At("fetch") \in Thread(AppPcs) /\ At("fetch").pc = "fetch"
  BY AtFacts DEF AppPcs
<1> QED
  BY <1>1, <1>2

LEMMA StoreFacts ==
  ASSUME TypeInv, NEW s \in Socks, NEW read \in SUBSET Kinds, NEW word \in SUBSET Kinds,
         Store(s, read, word)
  PROVE  /\ events' \in [Socks -> SUBSET Kinds] /\ raced' \in BOOLEAN
         /\ raced => raced'
         /\ ~raced' => events[s] = read
         /\ events'[s] = word /\ \A x \in Socks \ {s} : events'[x] = events[x]
<1>1. /\ events \in [Socks -> SUBSET Kinds] /\ raced \in BOOLEAN
      /\ events' = [events EXCEPT ![s] = word] /\ raced' = (raced \/ events[s] # read)
  BY DEF Store, TypeInv, TypeOK
<1>2. events' \in [Socks -> SUBSET Kinds] /\ events'[s] = word
      /\ \A x \in Socks \ {s} : events'[x] = events[x]
  BY <1>1
<1>3. raced' \in BOOLEAN /\ (raced => raced') /\ (~raced' => events[s] = read)
  BY <1>1, Zenon
<1> QED
  BY <1>2, <1>3

LEMMA TypeNext == ASSUME TypeInv, [Next]_vars PROVE TypeInv'
<1> USE EpollAssumption
<1>0. /\ epoll \in [Socks -> SUBSET Kinds] /\ events \in [Socks -> SUBSET Kinds]
      /\ ready \in [Socks -> SUBSET Kinds]
      /\ mtcp_queue \in Seq(Events) /\ usr_queue \in Seq(Events)
      /\ usr_shadow_queue \in Seq(Events)
      /\ Len(mtcp_queue) <= Size /\ Len(usr_queue) <= Size /\ Len(usr_shadow_queue) <= Size
      /\ stack \in Thread(StackPcs) /\ app \in Thread(AppPcs)
      /\ waiting \in BOOLEAN /\ timeout \in {"never", "now", "later"} /\ got \subseteq Events
      /\ calls \in Seq(Events) /\ raced \in BOOLEAN /\ dropped \in BOOLEAN
  BY TypeFacts DEF TypeInv
<1>p. PlaceInv
  BY DEF TypeInv
<1>w. stack.word \in SUBSET Kinds /\ app.word \in SUBSET Kinds /\ stack.pc \in StackPcs /\ app.pc \in AppPcs
  BY <1>0 DEF Thread
<1>l. Len(mtcp_queue) \in Nat /\ Len(usr_queue) \in Nat /\ Len(usr_shadow_queue) \in Nat /\ Size \in Nat
  BY <1>0
<1>a. \A pc \in StackPcs : At(pc) \in Thread(StackPcs) /\ At(pc).pc = pc
  BY AtFacts
<1>b. \A pc \in AppPcs : At(pc) \in Thread(AppPcs) /\ At(pc).pc = pc
  BY AtFacts
<1>1. ASSUME NEW s \in Socks, NEW k \in Kinds, Arrive(s, k) PROVE TypeInv'
  <2>1. /\ stack' = [pc |-> "raise", ev |-> <<s, k>>, word |-> {}] /\ ready' = With(ready, s, k)
        /\ UNCHANGED <<epoll, events, queues, appVars, app, raced, dropped>>
    BY <1>1 DEF Arrive
  <2>2. stack' \in Thread(StackPcs) /\ stack'.pc = "raise" /\ stack'.ev \in Events
    BY <2>1, PairEvent, ThreadFacts DEF StackPcs
  <2>3. ready' \in [Socks -> SUBSET Kinds]
    BY <1>0, <2>1 DEF With
  <2>4. TypeOK'
    BY <1>0, <2>1, <2>2, <2>3, TypeFacts DEF queues, appVars, TypeOK, StackPcs, AppPcs
  <2>5. PlaceInv'
    BY <1>p, <2>1, <2>2 DEF PlaceInv, queues, appVars, Empty, Next1
  <2> QED
    BY <2>4, <2>5 DEF TypeInv
<1>2. ASSUME Raise PROVE TypeInv'
  <2>1. /\ stack.ev \in Events /\ events[stack.ev[1]] \in SUBSET Kinds
        /\ UNCHANGED <<epoll, events, queues, appVars, ready, app, raced>>
    BY <1>0, <1>p, <1>2, EventFacts DEF Raise, PlaceInv
  <2>2. /\ stack' \in Thread(StackPcs) /\ dropped' \in BOOLEAN
        /\ stack' = At("idle")
           \/ /\ stack' = [pc |-> "add", ev |-> stack.ev, word |-> events[stack.ev[1]]]
              /\ ~Queued(stack.ev) /\ ~Full(mtcp_queue)
    <3>1. CASE stack.ev[2] \in epoll[stack.ev[1]]
      <4>1. AddTests(stack.ev, mtcp_queue, "add", "idle", stack')
        BY <1>2, <3>1 DEF Raise
      <4>2. /\ dropped' \in BOOLEAN
            /\ stack' = At("idle")
               \/ /\ stack' = [pc |-> "add", ev |-> stack.ev, word |-> events[stack.ev[1]]]
                  /\ ~Queued(stack.ev) /\ ~Full(mtcp_queue)
        BY <2>1, <4>1, AddTestsFacts, Zenon
      <4>3. [pc |-> "add", ev |-> stack.ev, word |-> events[stack.ev[1]]] \in Thread(StackPcs)
        BY <2>1, ThreadFacts DEF StackPcs
      <4>4. At("idle") \in Thread(StackPcs)
        BY <1>a DEF StackPcs
      <4> QED
        BY <4>2, <4>3, <4>4
    <3>2. CASE stack.ev[2] \notin epoll[stack.ev[1]]
      BY <1>0, <1>a, <1>2, <3>2 DEF Raise, StackPcs
    <3> QED
      BY <3>1, <3>2
  <2>3. TypeOK'
    BY <1>0, <2>1, <2>2 DEF queues, appVars, TypeOK, StackPcs, AppPcs
  <2>4. PlaceInv'
    BY <1>a, <1>l, <1>p, <2>1, <2>2, SMTT(30) DEF PlaceInv, queues, appVars, Empty, Next1, Full, Queued, StackPcs
  <2> QED
    BY <2>3, <2>4 DEF TypeInv
<1>3. ASSUME AddToMtcp PROVE TypeInv'
  <2>1. /\ stack.ev \in Events /\ stack.ev[1] \in Socks /\ stack.ev[2] \in Kinds
        /\ Len(mtcp_queue) < Size
        /\ Store(stack.ev[1], stack.word, stack.word \cup {stack.ev[2]})
        /\ mtcp_queue' = Append(mtcp_queue, stack.ev) /\ stack' = At("idle")
        /\ UNCHANGED <<epoll, usr_queue, usr_shadow_queue, appVars, ready, app, dropped>>
    BY <1>p, <1>3, EventFacts DEF AddToMtcp, AddStores, PlaceInv
  <2>2. events' \in [Socks -> SUBSET Kinds] /\ raced' \in BOOLEAN
    <3>1. stack.word \cup {stack.ev[2]} \in SUBSET Kinds
      BY <1>w, <2>1
    <3> QED
      BY <1>w, <2>1, <3>1, StoreFacts, Zenon
  <2>3. mtcp_queue' \in Seq(Events) /\ Len(mtcp_queue') <= Size
    BY <1>0, <1>l, <2>1, AppendProperties, SMTT(30)
  <2>4. stack' \in Thread(StackPcs) /\ stack'.pc = "idle"
    BY <1>a, <2>1 DEF StackPcs
  <2>5. TypeOK'
    BY <1>0, <2>1, <2>2, <2>3, <2>4 DEF appVars, TypeOK, StackPcs, AppPcs
  <2>6. PlaceInv'
    BY <1>p, <2>1, <2>4 DEF PlaceInv, appVars, Empty, Next1
  <2> QED
    BY <2>5, <2>6 DEF TypeInv
<1>4. ASSUME RoundDone PROVE TypeInv'
  <2>1. /\ stack' = At("flush") /\ stack' \in Thread(StackPcs) /\ stack'.pc = "flush"
        /\ UNCHANGED <<epoll, events, queues, appVars, ready, app, raced, dropped>>
    BY <1>a, <1>4 DEF RoundDone, StackPcs
  <2>2. TypeOK'
    BY <1>0, <2>1 DEF queues, appVars, TypeOK, StackPcs, AppPcs
  <2>3. PlaceInv'
    BY <1>p, <2>1 DEF PlaceInv, queues, appVars, Empty, Next1
  <2> QED
    BY <2>2, <2>3 DEF TypeInv
<1>5. ASSUME FlushEpollEvents PROVE TypeInv'
  <2>1. Moving \in 0..Len(mtcp_queue) /\ Len(usr_queue) + Moving <= Size
    BY <1>0, <1>l DEF Moving, Least
  <2>2. /\ usr_queue' = usr_queue \o SubSeq(mtcp_queue, 1, Moving)
        /\ mtcp_queue' = SubSeq(mtcp_queue, Moving + 1, Len(mtcp_queue))
        /\ app' = At("woken") \/ app' = app
        /\ app.pc # "clear" /\ stack' = At("idle")
        /\ UNCHANGED <<epoll, events, usr_shadow_queue, appVars, ready, raced, dropped>>
    BY <1>5 DEF FlushEpollEvents, HoldsLock
  <2>3. /\ SubSeq(mtcp_queue, 1, Moving) \in Seq(Events) /\ Len(SubSeq(mtcp_queue, 1, Moving)) = Moving
        /\ mtcp_queue' \in Seq(Events) /\ Len(mtcp_queue') <= Len(mtcp_queue)
    <3> HIDE DEF Moving
    <3> QED
      BY <1>0, <1>l, <2>1, <2>2, CatMove
  <2>9. Len(mtcp_queue') <= Size
    BY <1>0, <1>l, <2>3
  <2>4. usr_queue' \in Seq(Events) /\ Len(usr_queue') <= Size
    <3> HIDE DEF Moving
    <3> QED
      BY <1>0, <2>1, <2>2, <2>3, ConcatProperties
  <2>5. stack' \in Thread(StackPcs) /\ stack'.pc = "idle"
    BY <1>a, <2>2 DEF StackPcs
  <2>6. app' \in Thread(AppPcs) /\ ((app' = At("woken") /\ app'.pc = "woken") \/ app' = app)
    BY <1>0, <1>b, <2>2 DEF AppPcs
  <2>7. TypeOK'
    BY <1>0, <2>2, <2>3, <2>9, <2>4, <2>5, <2>6, Zenon DEF appVars, TypeOK, StackPcs, AppPcs
  <2>8. PlaceInv'
    BY <1>p, <2>2, <2>5, <2>6, Zenon DEF PlaceInv, appVars
  <2> QED
    BY <2>7, <2>8 DEF TypeInv
<1>6. ASSUME NEW t, Waits(t), timeout' \in {"never", "now", "later"}, app.pc # "add",
             UNCHANGED <<epoll, events, queues, ready, stack, got, calls, raced, dropped>>
      PROVE  TypeInv'
  <2>1. /\ app' \in Thread(AppPcs) /\ waiting' \in BOOLEAN
        /\ app' = At(app'.pc) /\ app'.pc \in {"wait", "fetch"}
    BY <1>6, WaitsFacts
  <2>2. TypeOK'
    BY <1>0, <1>6, <2>1, Zenon DEF queues, TypeOK, StackPcs, AppPcs
  <2>3. PlaceInv'
    BY <1>p, <1>6, <2>1 DEF PlaceInv, queues
  <2> QED
    BY <2>2, <2>3 DEF TypeInv
<1>7. ASSUME NEW t \in Timeouts, mtcp_epoll_wait(t) PROVE TypeInv'
  BY <1>6, <1>7 DEF mtcp_epoll_wait
<1>8. ASSUME Woken PROVE TypeInv'
  <2>1. timeout' \in {"never", "now", "later"} /\ app.pc # "add"
    BY <1>0, <1>8, Zenon DEF Woken
  <2> QED
    BY <1>6, <1>8, <2>1 DEF Woken
<1>9. ASSUME Fetch PROVE TypeInv'
  <2>1. /\ app.pc = "fetch" /\ ~Empty
        /\ app' = [pc |-> "clear", ev |-> Next1, word |-> events[Next1[1]]]
        /\ UNCHANGED <<epoll, events, queues, waiting, ready, stack, timeout, calls, raced, dropped>>
        /\ got' = got \cup {Next1} \/ got' = got
    BY <1>9 DEF Fetch, Fetching
  <2>2. Next1 \in Events /\ events[Next1[1]] \in SUBSET Kinds
    <3>1. Next1 \in Events
      BY <1>0, <2>1, HeadTailProperties, Zenon DEF Next1, Empty
    <3> QED
      BY <1>0, <3>1, EventFacts, Zenon
  <2>3. app' \in Thread(AppPcs) /\ app'.pc = "clear" /\ app'.ev = Next1
    BY <2>1, <2>2, ThreadFacts, Zenon DEF AppPcs
  <2>4. TypeOK'
    BY <1>0, <2>1, <2>2, <2>3, Zenon DEF queues, TypeOK, StackPcs, AppPcs
  <2>5. PlaceInv'
    BY <1>p, <2>1, <2>2, <2>3, Zenon DEF PlaceInv, queues, Empty, Next1
  <2> QED
    BY <2>4, <2>5 DEF TypeInv
<1>10. ASSUME Clear PROVE TypeInv'
  <2>1. /\ app.ev \in Events /\ app.ev[1] \in Socks /\ ~Empty
        /\ Store(app.ev[1], app.word, app.word \ {app.ev[2]})
        /\ IF usr_queue # <<>>
           THEN usr_queue' = Tail(usr_queue) /\ UNCHANGED usr_shadow_queue
           ELSE usr_shadow_queue' = Tail(usr_shadow_queue) /\ UNCHANGED usr_queue
        /\ app' = At("fetch")
        /\ UNCHANGED <<epoll, mtcp_queue, appVars, ready, stack, dropped>>
    BY <1>p, <1>10, EventFacts DEF Clear, PlaceInv
  <2>2. events' \in [Socks -> SUBSET Kinds] /\ raced' \in BOOLEAN
    <3>1. app.word \ {app.ev[2]} \in SUBSET Kinds
      BY <1>w
    <3> QED
      BY <1>w, <2>1, <3>1, StoreFacts, Zenon
  <2>3. /\ usr_queue' \in Seq(Events) /\ usr_shadow_queue' \in Seq(Events)
        /\ Len(usr_queue') <= Size /\ Len(usr_shadow_queue') <= Size
    <3>1. \A q \in Seq(Events) : q # <<>> => Tail(q) \in Seq(Events) /\ Len(Tail(q)) = Len(q) - 1
      BY HeadTailProperties
    <3>2. CASE usr_queue # <<>>
      <4>1. usr_queue' = Tail(usr_queue) /\ usr_shadow_queue' = usr_shadow_queue
        BY <2>1, <3>2
      <4>2. usr_queue' \in Seq(Events) /\ Len(usr_queue') = Len(usr_queue) - 1
        BY <1>0, <3>1, <3>2, <4>1
      <4> QED
        BY <1>0, <1>l, <4>1, <4>2
    <3>3. CASE usr_queue = <<>>
      <4>1. usr_shadow_queue # <<>> /\ usr_shadow_queue' = Tail(usr_shadow_queue) /\ usr_queue' = usr_queue
        BY <2>1, <3>3 DEF Empty
      <4> QED
        BY <1>0, <1>l, <3>1, <4>1
    <3> QED
      BY <3>2, <3>3
  <2>4. app' \in Thread(AppPcs) /\ app'.pc = "fetch"
    BY <1>b, <2>1 DEF AppPcs
  <2>5. TypeOK'
    BY <1>0, <2>1, <2>2, <2>3, <2>4, Zenon DEF appVars, TypeOK, StackPcs, AppPcs
  <2>6. PlaceInv'
    BY <1>p, <2>1, <2>4 DEF PlaceInv, appVars
  <2> QED
    BY <2>5, <2>6 DEF TypeInv
<1>11. ASSUME Return PROVE TypeInv'
  <2>1. CASE Waits(timeout)
    BY <1>0, <1>6, <1>11, <2>1, Zenon DEF Return
  <2>2. CASE app' = At("run") /\ UNCHANGED waiting
    <3>1. app' \in Thread(AppPcs) /\ app'.pc = "run"
          /\ UNCHANGED <<epoll, events, queues, ready, stack, timeout, got, calls, raced, dropped>>
      BY <1>b, <1>11, <2>2 DEF AppPcs, Return
    <3>2. TypeOK'
      BY <1>0, <2>2, <3>1, Zenon DEF queues, TypeOK, StackPcs, AppPcs
    <3>3. PlaceInv'
      BY <1>p, <2>2, <3>1, Zenon DEF PlaceInv, queues
    <3> QED
      BY <3>2, <3>3 DEF TypeInv
  <2> QED
    BY <1>11, <2>1, <2>2 DEF Return
<1>12. ASSUME NEW e \in Events, NEW leaves \in BOOLEAN, Serve(e, leaves) PROVE TypeInv'
  <2>1. /\ app.pc = "run" /\ got' = got \ {e}
        /\ ready' = ready \/ ready' = Without(ready, e[1], e[2])
        /\ calls' = <<e>> \/ calls' = <<>>
        /\ UNCHANGED <<epoll, events, queues, waiting, stack, app, timeout, raced, dropped>>
    BY <1>12 DEF Serve, Running
  <2>2. ready' \in [Socks -> SUBSET Kinds] /\ calls' \in Seq(Events)
    <3>1. e[1] \in Socks /\ <<e>> \in Seq(Events) /\ <<>> \in Seq(Events)
      BY EventFacts
    <3>2. Without(ready, e[1], e[2]) \in [Socks -> SUBSET Kinds]
      BY <1>0, <3>1, Zenon DEF Without
    <3> QED
      BY <1>0, <2>1, <3>1, <3>2, Zenon
  <2>3. TypeOK'
    BY <1>0, <2>1, <2>2, Zenon DEF queues, TypeOK, StackPcs, AppPcs
  <2>4. PlaceInv'
    BY <1>p, <2>1 DEF PlaceInv, queues
  <2> QED
    BY <2>3, <2>4 DEF TypeInv
<1>13. ASSUME NEW s \in Streams, NEW ks \in SUBSET Kinds, mtcp_epoll_ctl(s, ks) PROVE TypeInv'
  <2>1. /\ calls = <<>> /\ epoll' = [epoll EXCEPT ![s] = ks] /\ s \in Socks
        /\ app' = [pc |-> "pending", ev |-> <<s, "IN">>, word |-> {}]
        /\ UNCHANGED <<events, queues, appVars, ready, stack, raced, dropped>>
    BY <1>13 DEF mtcp_epoll_ctl, Running, Socks
  <2>2. app' \in Thread(AppPcs) /\ app'.pc = "pending" /\ app'.ev \in Events
    BY <2>1, PairEvent, ThreadFacts, Zenon DEF AppPcs, Kinds
  <2>3. epoll' \in [Socks -> SUBSET Kinds]
    BY <1>0, <2>1, Zenon
  <2>4. TypeOK'
    BY <1>0, <2>1, <2>2, <2>3, Zenon DEF queues, appVars, TypeOK, StackPcs, AppPcs
  <2>5. PlaceInv'
    BY <1>p, <2>1, <2>2 DEF PlaceInv, queues, appVars
  <2> QED
    BY <2>4, <2>5, Zenon DEF TypeInv
<1>14. ASSUME RaisePendingStreamEvents PROVE TypeInv'
  <2>1. /\ app.ev[1] \in Socks /\ app' = At("run")
        /\ calls' = PendingIn(app.ev[1]) \o PendingOut(app.ev[1])
        /\ UNCHANGED <<epoll, events, queues, waiting, ready, stack, timeout, got, raced, dropped>>
    BY <1>p, <1>14, EventFacts, Zenon DEF RaisePendingStreamEvents, PlaceInv
  <2>2. PendingIn(app.ev[1]) \in Seq(Events) /\ PendingOut(app.ev[1]) \in Seq(Events)
    BY <2>1, PairEvent, SMTT(30) DEF PendingIn, PendingOut, Kinds
  <2>3. calls' \in Seq(Events)
    BY <2>1, <2>2, ConcatProperties, Zenon
  <2>4. app' \in Thread(AppPcs) /\ app'.pc = "run"
    BY <1>b, <2>1, Zenon DEF AppPcs
  <2>5. TypeOK'
    BY <1>0, <2>1, <2>3, <2>4, Zenon DEF queues, TypeOK, StackPcs, AppPcs
  <2>6. PlaceInv'
    BY <1>p, <2>1, <2>4, Zenon DEF PlaceInv, queues
  <2> QED
    BY <2>5, <2>6 DEF TypeInv
<1>15. ASSUME AddToShadow PROVE TypeInv'
  <2>1. CASE /\ app.pc = "run" /\ calls # <<>>
             /\ AddTests(Head(calls), usr_shadow_queue, "add", "run", app')
             /\ calls' = Tail(calls)
             /\ UNCHANGED <<events, raced, usr_shadow_queue>>
    <3>1. Head(calls) \in Events /\ calls' \in Seq(Events)
      BY <1>0, <2>1, HeadTailProperties
    <3> DEFINE e == Head(calls)
    <3>2. events[e[1]] \in SUBSET Kinds
      BY <1>0, <3>1, EventFacts, Zenon
    <3>3. UNCHANGED <<epoll, mtcp_queue, usr_queue, waiting, ready, stack, timeout, got>>
      BY <1>15, Zenon DEF AddToShadow
    <3>4. /\ app' \in Thread(AppPcs) /\ dropped' \in BOOLEAN
          /\ \/ app' = At("run") /\ app'.pc = "run"
             \/ /\ app' = [pc |-> "add", ev |-> e, word |-> events[e[1]]]
                /\ ~Queued(e) /\ ~Full(usr_shadow_queue)
      <4>1. /\ dropped' \in BOOLEAN
            /\ \/ app' = At("run")
               \/ /\ app' = [pc |-> "add", ev |-> e, word |-> events[e[1]]]
                  /\ ~Queued(e) /\ ~Full(usr_shadow_queue)
        BY <2>1, <3>1, AddTestsFacts, Zenon
      <4>2. [pc |-> "add", ev |-> e, word |-> events[e[1]]] \in Thread(AppPcs)
        BY <3>1, <3>2, ThreadFacts, Zenon DEF AppPcs
      <4>3. At("run") \in Thread(AppPcs) /\ At("run").pc = "run"
        BY <1>b DEF AppPcs
      <4> QED
        BY <4>1, <4>2, <4>3
    <3>5. TypeOK'
      BY <1>0, <2>1, <3>1, <3>3, <3>4, Zenon DEF TypeOK, StackPcs, AppPcs
    <3>6. PlaceInv'
      BY <1>l, <1>p, <2>1, <3>1, <3>3, <3>4, SMTT(30) DEF PlaceInv, Full, Queued
    <3> QED
      BY <3>5, <3>6 DEF TypeInv
  <2>2. CASE /\ app.pc = "add"
             /\ AddStores(app)
             /\ usr_shadow_queue' = Append(usr_shadow_queue, app.ev)
             /\ app' = At("run")
             /\ UNCHANGED <<calls, dropped>>
    <3>1. /\ app.ev \in Events /\ app.ev[1] \in Socks /\ app.ev[2] \in Kinds
          /\ Len(usr_shadow_queue) < Size
          /\ Store(app.ev[1], app.word, app.word \cup {app.ev[2]})
          /\ UNCHANGED <<epoll, mtcp_queue, usr_queue, waiting, ready, stack, timeout, got>>
      BY <1>p, <1>15, <2>2, EventFacts, Zenon DEF AddToShadow, AddStores, PlaceInv
    <3>2. events' \in [Socks -> SUBSET Kinds] /\ raced' \in BOOLEAN
      <4>1. app.word \cup {app.ev[2]} \in SUBSET Kinds
        BY <1>w, <3>1, Zenon
      <4> QED
        BY <1>w, <3>1, <4>1, StoreFacts
    <3>3. usr_shadow_queue' \in Seq(Events) /\ Len(usr_shadow_queue') <= Size
      BY <1>0, <1>l, <2>2, <3>1, AppendProperties, SMTT(30)
    <3>4. app' \in Thread(AppPcs) /\ app'.pc = "run"
      BY <1>b, <2>2 DEF AppPcs
    <3>5. TypeOK'
      BY <1>0, <2>2, <3>1, <3>2, <3>3, <3>4, Zenon DEF TypeOK, StackPcs, AppPcs
    <3>6. PlaceInv'
      BY <1>p, <2>2, <3>1, <3>4, Zenon DEF PlaceInv
    <3> QED
      BY <3>5, <3>6 DEF TypeInv
  <2> QED
    BY <1>15, <2>1, <2>2, Zenon DEF AddToShadow
<1>16. ASSUME UNCHANGED vars PROVE TypeInv'
  BY <1>16, ZenonT(30) DEF TypeInv, TypeOK, PlaceInv, Empty, Next1, vars, queues
<1> QED
  BY <1>1, <1>2, <1>3, <1>4, <1>5, <1>7, <1>8, <1>9, <1>10, <1>11, <1>12, <1>13, <1>14, <1>15, <1>16, ZenonT(30)
     DEF Next, InCall, Wait

-----------------------------------------------------------------------------
(* A bit is set for what is queued, until a change of a word is lost. *)

\* A write that finds the word as it was read changes the one bit.
LEMMA AddBit ==
  ASSUME TypeInv, NEW e \in Events, NEW word \in SUBSET Kinds, e[2] \notin word,
         Store(e[1], word, word \cup {e[2]}), ~raced'
  PROVE  /\ ~raced /\ ~Queued(e)
         /\ \A f \in Events : Queued(f)' <=> Queued(f) \/ f = e
<1>1. e[1] \in Socks /\ e[2] \in Kinds /\ word \cup {e[2]} \in SUBSET Kinds
  BY EventFacts
<1>2. /\ ~raced /\ events[e[1]] = word /\ events'[e[1]] = word \cup {e[2]}
      /\ \A x \in Socks \ {e[1]} : events'[x] = events[x]
  BY <1>1, StoreFacts, SMTT(30)
<1>3. ASSUME NEW f \in Events PROVE Queued(f)' <=> Queued(f) \/ f = e
  <2>1. f[1] \in Socks /\ f = <<f[1], f[2]>> /\ e = <<e[1], e[2]>>
    BY EventFacts
  <2>2. CASE f[1] = e[1]
    BY <1>2, <2>1, <2>2 DEF Queued
  <2>3. CASE f[1] # e[1]
    BY <1>2, <2>1, <2>3, Zenon DEF Queued
  <2> QED
    BY <2>2, <2>3
<1> QED
  BY <1>2, <1>3 DEF Queued

LEMMA ClearBit ==
  ASSUME TypeInv, NEW e \in Events, NEW word \in SUBSET Kinds,
         Store(e[1], word, word \ {e[2]}), ~raced'
  PROVE  /\ ~raced
         /\ \A f \in Events : Queued(f)' <=> Queued(f) /\ f # e
<1>1. e[1] \in Socks /\ e[2] \in Kinds /\ word \ {e[2]} \in SUBSET Kinds
  BY EventFacts
<1>2. /\ ~raced /\ events[e[1]] = word /\ events'[e[1]] = word \ {e[2]}
      /\ \A x \in Socks \ {e[1]} : events'[x] = events[x]
  <2> DEFINE w == word \ {e[2]}
  <2>1. Store(e[1], word, w) /\ w \in SUBSET Kinds
    BY <1>1
  <2> HIDE DEF w
  <2>2. /\ ~raced /\ events[e[1]] = word /\ events'[e[1]] = w
        /\ \A x \in Socks \ {e[1]} : events'[x] = events[x]
    BY <1>1, <2>1, StoreFacts
  <2> QED
    BY <2>2 DEF w
<1>3. ASSUME NEW f \in Events PROVE Queued(f)' <=> Queued(f) /\ f # e
  <2>1. f[1] \in Socks /\ f = <<f[1], f[2]>> /\ e = <<e[1], e[2]>>
    BY EventFacts
  <2>2. CASE f[1] = e[1]
    BY <1>2, <2>1, <2>2 DEF Queued
  <2>3. CASE f[1] # e[1]
    BY <1>2, <2>1, <2>3 DEF Queued
  <2> QED
    BY <2>2, <2>3
<1> QED
  BY <1>2, <1>3

LEMMA QueueTypes ==
  ASSUME TypeInv
  PROVE  /\ mtcp_queue \in Seq(Events) /\ usr_queue \in Seq(Events)
         /\ usr_shadow_queue \in Seq(Events) /\ Both \in Seq(Events)
         /\ stack.word \in SUBSET Kinds /\ app.word \in SUBSET Kinds
         /\ events \in [Socks -> SUBSET Kinds] /\ raced \in BOOLEAN /\ dropped \in BOOLEAN
         /\ calls \in Seq(Events) /\ got \subseteq Events
<1>1. mtcp_queue \in Seq(Events) /\ usr_queue \in Seq(Events) /\ usr_shadow_queue \in Seq(Events)
  BY DEF TypeInv, TypeOK
<1>2. Both \in Seq(Events)
  BY <1>1, ConcatProperties DEF Both
<1> QED
  BY <1>1, <1>2 DEF TypeInv, TypeOK, Thread

\* What the two threads' steps do to the queues.
LEMMA FlushBoth ==
  ASSUME TypeInv, FlushEpollEvents
  PROVE  Both' = Both
<1> USE EpollAssumption
<1>1. Moving \in 0..Len(mtcp_queue)
  BY DEF Moving, Least, TypeInv, TypeOK
<1>2. /\ usr_queue' = usr_queue \o SubSeq(mtcp_queue, 1, Moving)
      /\ mtcp_queue' = SubSeq(mtcp_queue, Moving + 1, Len(mtcp_queue))
  BY DEF FlushEpollEvents
<1>3. mtcp_queue \in Seq(Events) /\ usr_queue \in Seq(Events)
  BY QueueTypes
<1> HIDE DEF Moving
<1>4. Moved(usr_queue, mtcp_queue, Moving) = Joined(usr_queue, mtcp_queue)
  BY <1>1, <1>3, CatMove, Zenon
<1> QED
  BY <1>2, <1>4, Zenon DEF Both, Moved, Joined

LEMMA BitInit == Init => BitInv
<1> SUFFICES ASSUME Init PROVE BitInv
  OBVIOUS
<1>1. /\ usr_queue = <<>> /\ mtcp_queue = <<>> /\ usr_shadow_queue = <<>> /\ app.pc = "run"
      /\ \A s \in Socks : events[s] = {}
  BY DEF Init, At
<1>2. Both = <<>>
  BY <1>1, ConcatProperties, EmptySeq DEF Both
<1>3. Distinct(<<>>) /\ \A e : ~In(<<>>, e)
  BY DEF Distinct, In
<1>4. \A e \in Events : ~Queued(e)
  BY <1>1, EventFacts DEF Queued
<1> QED
  BY <1>1, <1>2, <1>3, <1>4, Zenon DEF BitInv

LEMMA BitNext ==
  ASSUME QueueInv, TypeInv', [Next]_vars
  PROVE  (raced => raced') /\ (raced' \/ BitInv')
<1>0. TypeInv /\ (raced \/ BitInv)
  BY DEF QueueInv
<1>q. /\ mtcp_queue \in Seq(Events) /\ usr_queue \in Seq(Events)
      /\ usr_shadow_queue \in Seq(Events) /\ Both \in Seq(Events)
      /\ stack.word \in SUBSET Kinds /\ app.word \in SUBSET Kinds
  BY <1>0, QueueTypes, Zenon
<1>s. ASSUME Both' = Both, UNCHANGED <<usr_shadow_queue, events, raced>>,
             app'.pc = "clear" => \/ ~BitInv
                                  \/ app'.ev \in got' \/ app'.ev[2] \notin epoll'[app'.ev[1]]
      PROVE  (raced => raced') /\ (raced' \/ BitInv')
  BY <1>0, <1>s, Zenon DEF BitInv, Queued
<1>t. ASSUME app' = app, UNCHANGED <<got, epoll, queues, events, raced>>
      PROVE  (raced => raced') /\ (raced' \/ BitInv')
  BY <1>s, <1>t, Zenon DEF Both, queues, BitInv
<1>1. ASSUME NEW s \in Socks, NEW k \in Kinds, Arrive(s, k) PROVE (raced => raced') /\ (raced' \/ BitInv')
  BY <1>t, <1>1, Zenon DEF Arrive, appVars
<1>2. ASSUME Raise PROVE (raced => raced') /\ (raced' \/ BitInv')
  BY <1>t, <1>2, Zenon DEF Raise, appVars
<1>3. ASSUME AddToMtcp PROVE (raced => raced') /\ (raced' \/ BitInv')
  <2> DEFINE e == stack.ev
  <2>1. /\ e \in Events /\ e[2] \notin stack.word
        /\ Store(e[1], stack.word, stack.word \cup {e[2]})
        /\ mtcp_queue' = Append(mtcp_queue, e)
        /\ UNCHANGED <<epoll, usr_queue, usr_shadow_queue, got, app>>
    BY <1>0, <1>3 DEF AddToMtcp, AddStores, TypeInv, PlaceInv, appVars
  <2> HIDE DEF e
  <2>2. raced => raced'
    BY <1>0, <2>1, QueueTypes, Zenon DEF Store
  <2>3. ASSUME ~raced' PROVE BitInv'
    <3>1. ~raced /\ ~Queued(e) /\ \A f \in Events : Queued(f)' <=> Queued(f) \/ f = e
      BY <1>0, <1>q, <2>1, <2>3, AddBit, Zenon
    <3>2. Both' = Append(Both, e)
      BY <1>q, <2>1, CatAppend DEF Both
    <3>3. BitInv
      BY <1>0, <3>1, Zenon
    <3>4. ~In(Both, e) /\ ~In(usr_shadow_queue, e)
      BY <2>1, <3>1, <3>3, ZenonT(30) DEF BitInv
    <3>5. Distinct(Both') /\ \A f : In(Both', f) <=> In(Both, f) \/ f = e
      BY <1>q, <2>1, <3>2, <3>3, <3>4, InAppend, DistinctAppend, Zenon DEF BitInv
    <3> QED
      BY <2>1, <3>1, <3>3, <3>4, <3>5 DEF BitInv
  <2> QED
    BY <2>2, <2>3, ZenonT(30)
<1>4. ASSUME RoundDone PROVE (raced => raced') /\ (raced' \/ BitInv')
  BY <1>t, <1>4, Zenon DEF RoundDone, appVars
<1>5. ASSUME FlushEpollEvents PROVE (raced => raced') /\ (raced' \/ BitInv')
  <2>1. app'.pc # "clear"
    BY <1>5, AtFacts, Zenon DEF FlushEpollEvents, HoldsLock, At
  <2> QED
    BY <1>0, <1>5, <1>s, <2>1, FlushBoth, Zenon DEF FlushEpollEvents
<1>6. ASSUME NEW t, Waits(t), UNCHANGED <<events, queues, raced>>
      PROVE  (raced => raced') /\ (raced' \/ BitInv')
  <2>1. app'.pc # "clear"
    BY <1>6, WaitsFacts
  <2> QED
    BY <1>s, <1>6, <2>1 DEF Both, queues
<1>7. ASSUME NEW t \in Timeouts, mtcp_epoll_wait(t) PROVE (raced => raced') /\ (raced' \/ BitInv')
  BY <1>6, <1>7 DEF mtcp_epoll_wait
<1>8. ASSUME Woken PROVE (raced => raced') /\ (raced' \/ BitInv')
  BY <1>6, <1>8 DEF Woken
<1>9. ASSUME Fetch PROVE (raced => raced') /\ (raced' \/ BitInv')
  <2>1. /\ ~Empty /\ app'.ev = Next1 /\ UNCHANGED <<epoll, events, queues, raced>>
        /\ got' = IF Next1[2] \in epoll[Next1[1]] /\ Queued(Next1) THEN got \cup {Next1} ELSE got
    BY <1>9, Zenon DEF Fetch, Fetching
  <2>2. Next1 \in Events /\ (In(usr_queue, Next1) \/ In(usr_shadow_queue, Next1))
    <3>1. \A q \in Seq(Events) : q # <<>> => Head(q) \in Events /\ In(q, Head(q))
      <4> SUFFICES ASSUME NEW q \in Seq(Events), q # <<>> PROVE Head(q) \in Events /\ In(q, Head(q))
        OBVIOUS
      <4>1. Head(q) \in Events /\ Head(q) = q[1] /\ Len(q) \in Nat /\ Len(q) > 0
        BY HeadTailProperties, EmptySeq, SMTT(30)
      <4> QED
        BY <4>1 DEF In
    <3> QED
      BY <1>q, <2>1, <3>1 DEF Next1, Empty
  <2>3. BitInv => Queued(Next1)
    BY <1>q, <2>2, InCat, Zenon DEF BitInv, Both
  <2> HIDE DEF Next1
  <2>4. app'.pc = "clear" => \/ ~BitInv
                             \/ app'.ev \in got' \/ app'.ev[2] \notin epoll'[app'.ev[1]]
    BY <2>1, <2>3, Zenon
  <2> QED
    BY <1>s, <2>1, <2>4, ZenonT(30) DEF Both, queues
<1>10. ASSUME Clear PROVE (raced => raced') /\ (raced' \/ BitInv')
  <2> DEFINE e == app.ev
  <2>1. /\ e \in Events /\ ~Empty /\ e = Next1
        /\ Store(e[1], app.word, app.word \ {e[2]})
        /\ IF usr_queue # <<>>
           THEN usr_queue' = Tail(usr_queue) /\ UNCHANGED usr_shadow_queue
           ELSE usr_shadow_queue' = Tail(usr_shadow_queue) /\ UNCHANGED usr_queue
        /\ mtcp_queue' = mtcp_queue /\ app'.pc # "clear"
    BY <1>0, <1>10 DEF Clear, TypeInv, PlaceInv, At
  <2> HIDE DEF e
  <2>2. raced => raced'
    BY <1>0, <2>1, QueueTypes, Zenon DEF Store
  <2>3. ASSUME ~raced' PROVE BitInv'
    <3>1. ~raced /\ \A f \in Events : Queued(f)' <=> Queued(f) /\ f # e
      BY <1>0, <1>q, <2>1, <2>3, ClearBit, Zenon
    <3>2. BitInv
      BY <1>0, <3>1, Zenon
    <3>3. CASE usr_queue # <<>>
      <4>1. Both' = Tail(Both) /\ e = Head(Both) /\ Both # <<>> /\ usr_shadow_queue' = usr_shadow_queue
        BY <1>q, <2>1, <3>3, CatTail, ZenonT(30) DEF Both, Next1
      <4>2. /\ Distinct(Both') /\ In(Both, e)
            /\ \A f : In(Both', f) <=> In(Both, f) /\ f # e
        BY <1>q, <3>2, <4>1, InTail, Zenon DEF BitInv
      <4> QED
        BY <2>1, <3>1, <3>2, <4>1, <4>2 DEF BitInv
    <3>4. CASE usr_queue = <<>>
      <4>1. /\ usr_shadow_queue' = Tail(usr_shadow_queue) /\ e = Head(usr_shadow_queue)
            /\ usr_shadow_queue # <<>> /\ Both' = Both
        BY <2>1, <3>4, Zenon DEF Both, Next1, Empty
      <4>2. /\ Distinct(usr_shadow_queue') /\ In(usr_shadow_queue, e)
            /\ \A f : In(usr_shadow_queue', f) <=> In(usr_shadow_queue, f) /\ f # e
        BY <1>q, <3>2, <4>1, InTail, Zenon DEF BitInv
      <4> QED
        BY <2>1, <3>1, <3>2, <4>1, <4>2, Zenon DEF BitInv
    <3> QED
      BY <3>3, <3>4
  <2> QED
    BY <2>2, <2>3
<1>11. ASSUME Return PROVE (raced => raced') /\ (raced' \/ BitInv')
  <2>1. CASE Waits(timeout)
    BY <1>6, <1>11, <2>1, Zenon DEF Return
  <2>2. CASE app' = At("run")
    BY <1>s, <1>11, <2>2, ZenonT(30) DEF Return, At, Both, queues
  <2> QED
    BY <1>11, <2>1, <2>2 DEF Return
<1>12. ASSUME NEW e \in Events, NEW leaves \in BOOLEAN, Serve(e, leaves)
       PROVE  (raced => raced') /\ (raced' \/ BitInv')
  BY <1>s, <1>12, Zenon DEF Serve, Running, Both, queues
<1>13. ASSUME NEW s \in Streams, NEW ks \in SUBSET Kinds, mtcp_epoll_ctl(s, ks)
       PROVE  (raced => raced') /\ (raced' \/ BitInv')
  BY <1>s, <1>13, Zenon DEF mtcp_epoll_ctl, Both, queues
<1>14. ASSUME RaisePendingStreamEvents PROVE (raced => raced') /\ (raced' \/ BitInv')
  BY <1>s, <1>14 DEF RaisePendingStreamEvents, At, Both, queues
<1>15. ASSUME AddToShadow PROVE (raced => raced') /\ (raced' \/ BitInv')
  <2> DEFINE e == app.ev
  <2>1. CASE app.pc = "run" /\ UNCHANGED <<events, raced, usr_shadow_queue>>
             /\ AddTests(Head(calls), usr_shadow_queue, "add", "run", app')
    <3>1. app'.pc # "clear"
      BY <2>1, SMTT(30) DEF AddTests, At
    <3> QED
      BY <1>s, <1>15, <2>1, <3>1, Zenon DEF AddToShadow, Both
  <2>2. CASE /\ app.pc = "add" /\ AddStores(app)
             /\ usr_shadow_queue' = Append(usr_shadow_queue, app.ev) /\ app' = At("run")
    <3>1. /\ e \in Events /\ e[2] \notin app.word
          /\ Store(e[1], app.word, app.word \cup {e[2]})
          /\ usr_shadow_queue' = Append(usr_shadow_queue, e) /\ Both' = Both
          /\ app'.pc # "clear"
      BY <1>0, <1>15, <2>2, Zenon DEF AddToShadow, AddStores, TypeInv, PlaceInv, Both, At
    <3> HIDE DEF e
    <3>2. raced => raced'
      BY <1>0, <3>1, QueueTypes, Zenon DEF Store
    <3>3. ASSUME ~raced' PROVE BitInv'
      <4>1. ~raced /\ ~Queued(e) /\ \A f \in Events : Queued(f)' <=> Queued(f) \/ f = e
        BY <1>0, <1>q, <3>1, <3>3, AddBit, Zenon
      <4>2. BitInv
        BY <1>0, <4>1
      <4>3. ~In(Both, e) /\ ~In(usr_shadow_queue, e)
        BY <3>1, <4>1, <4>2, Zenon DEF BitInv
      <4>4. /\ Distinct(usr_shadow_queue')
            /\ \A f : In(usr_shadow_queue', f) <=> In(usr_shadow_queue, f) \/ f = e
        BY <1>q, <3>1, <4>2, <4>3, InAppend, DistinctAppend, Zenon DEF BitInv
      <4> QED
        BY <3>1, <4>1, <4>2, <4>3, <4>4, Zenon DEF BitInv
    <3> QED
      BY <3>2, <3>3
  <2> QED
    BY <1>15, <2>1, <2>2, Zenon DEF AddToShadow
<1>16. ASSUME UNCHANGED vars PROVE (raced => raced') /\ (raced' \/ BitInv')
  BY <1>t, <1>16, Zenon DEF vars
<1> QED
  BY <1>1, <1>2, <1>3, <1>4, <1>5, <1>7, <1>8, <1>9, <1>10, <1>11, <1>12, <1>13, <1>14, <1>15, <1>16, ZenonT(30)
     DEF Next, InCall, Wait

-----------------------------------------------------------------------------
(* No event is lost, until a queue is full or a change of a word is lost. *)

LEMMA QueuedHasBit ==
  ASSUME TypeInv, BitInv
  PROVE  \A e \in Events : InQueue(e) <=> Queued(e)
<1>1. \A e : In(Both, e) <=> In(usr_queue, e) \/ In(mtcp_queue, e)
  BY QueueTypes, InCat DEF Both
<1> QED
  BY <1>1 DEF BitInv, InQueue

LEMMA InTailOf ==
  ASSUME NEW q \in Seq(Events), q # <<>>, NEW e, In(q, e), e # Head(q)
  PROVE  In(Tail(q), e)
<1>1. PICK i \in 1..Len(q) : q[i] = e
  BY DEF In
<1>2. /\ Len(Tail(q)) = Len(q) - 1 /\ Len(q) \in Nat /\ Head(q) = q[1]
      /\ \A j \in 1..Len(Tail(q)) : Tail(q)[j] = q[j + 1]
  BY HeadTailProperties
<1>3. i # 1 /\ i - 1 \in 1..Len(Tail(q))
  BY <1>1, <1>2
<1>4. Tail(q)[i - 1] = q[(i - 1) + 1] /\ (i - 1) + 1 = i
  BY <1>2, <1>3
<1> QED
  BY <1>1, <1>3, <1>4 DEF In

LEMMA InOne == \A e : In(<<e>>, e) /\ ~In(<<>>, e)
BY DEF In

\* Noticed, while every bit has its event: the bit is enough.
Told(e) == Queued(e) \/ UnderWay(e)
Wanted(e) == e[2] \in epoll[e[1]] /\ e[2] \in ready[e[1]]

LEMMA ToldNext ==
  ASSUME TypeInv, BitInv, \A e \in Events : Wanted(e) => Told(e), [Next]_vars,
         ~raced', ~dropped', NEW e \in Events, Wanted(e)'
  PROVE  Told(e)'
<1>q. /\ stack.word \in SUBSET Kinds /\ app.word \in SUBSET Kinds
      /\ calls \in Seq(Events) /\ got \subseteq Events /\ dropped \in BOOLEAN
      /\ epoll \in [Socks -> SUBSET Kinds] /\ ready \in [Socks -> SUBSET Kinds]
  BY QueueTypes DEF TypeInv, TypeOK
<1>e. e[1] \in Socks /\ e[2] \in Kinds /\ e = <<e[1], e[2]>> /\ e # None
  BY EventFacts
<1>p. PlaceInv
  BY DEF TypeInv
<1>i. stack.pc \in {"idle", "flush"} => stack.ev # e
  BY <1>p, <1>e DEF PlaceInv, At
<1>r. app.pc \in {"run", "wait", "woken", "fetch"} => app.ev # e /\ app.pc # "pending"
  BY <1>p, <1>e DEF PlaceInv, At
<1>w. Wanted(e) => Told(e)
  OBVIOUS
<1>1. ASSUME NEW s \in Socks, NEW k \in Kinds, Arrive(s, k) PROVE Told(e)'
  <2>1. /\ stack.pc = "idle" /\ ready' = With(ready, s, k) /\ stack'.ev = <<s, k>>
        /\ UNCHANGED <<epoll, events, appVars, app>>
    BY <1>1 DEF Arrive
  <2>2. CASE e = <<s, k>>
    BY <2>1, <2>2, Zenon DEF Told, UnderWay
  <2>3. CASE e # <<s, k>>
    <3>1. e[2] \in ready[e[1]]
      <4>1. CASE e[1] = s
        BY <1>q, <1>e, <2>1, <2>3, <4>1, Zenon DEF With, Wanted
      <4>2. CASE e[1] # s
        BY <1>q, <1>e, <2>1, <4>2, ZenonT(30) DEF With, Wanted
      <4> QED
        BY <4>1, <4>2, Zenon
    <3>2. Told(e)
      BY <1>w, <2>1, <3>1 DEF Wanted
    <3> QED
      BY <1>i, <2>1, <3>2, Zenon DEF Told, UnderWay, Queued, appVars
  <2> QED
    BY <2>2, <2>3, ZenonT(30)
<1>2. ASSUME Raise PROVE Told(e)'
  <2>1. /\ stack.pc = "raise" /\ stack.ev \in Events
        /\ UNCHANGED <<epoll, events, appVars, ready, app>>
    BY <1>p, <1>2, Zenon DEF Raise, PlaceInv
  <2>2. Told(e) /\ e[2] \in epoll[e[1]]
    BY <1>w, <2>1, Zenon DEF Wanted
  <2>3. CASE stack.ev = e
    <3>1. AddTests(e, mtcp_queue, "add", "idle", stack')
      BY <1>2, <2>2, <2>3, ZenonT(30) DEF Raise
    <3>2. Queued(e) \/ stack'.ev = e
      BY <3>1 DEF AddTests
    <3> QED
      BY <2>1, <3>2, Zenon DEF Told, UnderWay, Queued
  <2>4. CASE stack.ev # e
    BY <2>1, <2>2, <2>4, Zenon DEF Told, UnderWay, Queued, appVars
  <2> QED
    BY <2>3, <2>4, Zenon
<1>3. ASSUME AddToMtcp PROVE Told(e)'
  <2>1. /\ stack.ev \in Events /\ stack.ev[2] \notin stack.word
        /\ Store(stack.ev[1], stack.word, stack.word \cup {stack.ev[2]})
        /\ UNCHANGED <<epoll, appVars, ready, app>>
    BY <1>p, <1>3 DEF AddToMtcp, AddStores, PlaceInv
  <2>2. Queued(e)' <=> Queued(e) \/ e = stack.ev
    BY <1>q, <2>1, AddBit, Zenon
  <2>3. Told(e)
    BY <1>w, <2>1 DEF Wanted
  <2> QED
    BY <2>1, <2>2, <2>3, ZenonT(30) DEF Told, UnderWay, appVars
<1>4. ASSUME RoundDone PROVE Told(e)'
  <2>1. stack.pc = "idle" /\ UNCHANGED <<epoll, events, appVars, ready, app>>
    BY <1>4, Zenon DEF RoundDone
  <2>2. Told(e)
    BY <1>w, <2>1, ZenonT(30) DEF Wanted
  <2> QED
    BY <1>i, <2>1, <2>2, Zenon DEF Told, UnderWay, Queued, appVars
<1>5. ASSUME FlushEpollEvents PROVE Told(e)'
  <2>1. /\ stack.pc = "flush" /\ UNCHANGED <<epoll, events, appVars, ready>>
        /\ app' = app \/ app.pc = "wait"
    BY <1>5 DEF FlushEpollEvents, Wakes
  <2>2. Told(e)
    BY <1>w, <2>1, Zenon DEF Wanted
  <2> QED
    BY <1>i, <1>r, <2>1, <2>2, Zenon DEF Told, UnderWay, Queued, appVars
<1>6. ASSUME app.pc \in {"run", "wait", "woken", "fetch"}, got \subseteq got',
             UNCHANGED <<epoll, events, ready, stack, calls>>
      PROVE  Told(e)'
  <2>1. Told(e)
    BY <1>w, <1>6 DEF Wanted
  <2> QED
    BY <1>r, <1>6, <2>1, Zenon DEF Told, UnderWay, Queued
<1>7. ASSUME NEW t \in Timeouts, mtcp_epoll_wait(t) PROVE Told(e)'
  BY <1>6, <1>7 DEF mtcp_epoll_wait
<1>8. ASSUME Woken PROVE Told(e)'
  BY <1>6, <1>8, Zenon DEF Woken
<1>9. ASSUME Fetch PROVE Told(e)'
  BY <1>6, <1>9, Zenon DEF Fetch, Fetching
<1>10. ASSUME Clear PROVE Told(e)'
  <2>1. /\ app.ev \in Events /\ Store(app.ev[1], app.word, app.word \ {app.ev[2]})
        /\ app.pc = "clear" /\ UNCHANGED <<epoll, appVars, ready, stack>>
    BY <1>p, <1>10 DEF Clear, PlaceInv
  <2>2. Queued(e)' <=> Queued(e) /\ e # app.ev
    BY <1>q, <2>1, ClearBit, Zenon
  <2>3. Told(e) /\ e[2] \in epoll[e[1]]
    BY <1>w, <2>1 DEF Wanted
  <2>4. e = app.ev => e \in got
    BY <2>1, <2>3, Zenon DEF BitInv
  <2> QED
    BY <2>1, <2>2, <2>3, <2>4, ZenonT(30) DEF Told, UnderWay, appVars
<1>11. ASSUME Return PROVE Told(e)'
  BY <1>6, <1>11 DEF Return
<1>12. ASSUME NEW f \in Events, NEW leaves \in BOOLEAN, Serve(f, leaves) PROVE Told(e)'
  <2>1. /\ app.pc = "run" /\ calls = <<>> /\ got' = got \ {f}
        /\ ready' = IF leaves THEN ready ELSE Without(ready, f[1], f[2])
        /\ calls' = IF leaves /\ f[2] \in epoll[f[1]] THEN <<f>> ELSE <<>>
        /\ UNCHANGED <<epoll, events, stack, app>>
    BY <1>12, ZenonT(30) DEF Serve, Running
  <2>2. f[1] \in Socks /\ f = <<f[1], f[2]>>
    BY EventFacts
  <2>3. CASE e = f
    <3>1. leaves
      BY <1>q, <1>e, <2>1, <2>2, <2>3, Zenon DEF Wanted, Without
    <3>2. calls' = <<e>>
      BY <2>1, <2>3, <3>1 DEF Wanted
    <3> QED
      BY <3>2, InOne, Zenon DEF Told, UnderWay
  <2>4. CASE e # f
    <3>1. e[2] \in ready[e[1]]
      BY <1>q, <1>e, <2>1, <2>2, Zenon DEF Wanted, Without
    <3>2. Told(e)
      BY <1>w, <2>1, <3>1, Zenon DEF Wanted
    <3> QED
      BY <2>1, <2>4, <3>2, InOne, Zenon DEF Told, UnderWay, Queued
  <2> QED
    BY <2>3, <2>4, Zenon
<1>13. ASSUME NEW s \in Streams, NEW ks \in SUBSET Kinds, mtcp_epoll_ctl(s, ks) PROVE Told(e)'
  <2>1. /\ app.pc = "run" /\ epoll' = [epoll EXCEPT ![s] = ks]
        /\ app'.pc = "pending" /\ app'.ev[1] = s
        /\ UNCHANGED <<events, appVars, ready, stack>>
    BY <1>13, Zenon DEF mtcp_epoll_ctl, Running
  <2>2. CASE e[1] = s
    BY <2>1, <2>2, ZenonT(30) DEF Told, UnderWay
  <2>3. CASE e[1] # s
    <3>1. Told(e)
      BY <1>q, <1>e, <1>w, <2>1, <2>3, Zenon DEF Wanted
    <3> QED
      BY <1>r, <2>1, <3>1, ZenonT(30) DEF Told, UnderWay, Queued, appVars
  <2> QED
    BY <2>2, <2>3, Zenon
<1>14. ASSUME RaisePendingStreamEvents PROVE Told(e)'
  <2> DEFINE s == app.ev[1]
  <2>1. /\ app.pc = "pending" /\ calls = <<>> /\ s \in Socks
        /\ calls' = PendingIn(s) \o PendingOut(s)
        /\ UNCHANGED <<epoll, events, ready, stack, got>>
    BY <1>p, <1>14, EventFacts, Zenon DEF RaisePendingStreamEvents, PlaceInv
  <2> HIDE DEF s
  <2>2. PendingIn(s) \in Seq(Events) /\ PendingOut(s) \in Seq(Events)
    BY <2>1, PairEvent DEF PendingIn, PendingOut, Kinds
  <2>3. In(calls', e) <=> In(PendingIn(s), e) \/ In(PendingOut(s), e)
    BY <2>1, <2>2, InCat
  <2>4. Told(e) /\ Wanted(e)
    BY <1>w, <2>1, Zenon DEF Wanted
  <2>5. CASE e[1] = s /\ e[2] = "IN"
    <3>1. PendingIn(s) = <<e>>
      BY <1>e, <2>4, <2>5, Zenon DEF PendingIn, Wanted
    <3> QED
      BY <2>3, <3>1, InOne, Zenon DEF Told, UnderWay
  <2>6. CASE e[1] = s /\ e[2] = "OUT" /\ ~Queued(e)
    <3>1. PendingOut(s) = <<e>>
      BY <1>e, <2>4, <2>6, Zenon DEF PendingOut, Wanted, Queued
    <3> QED
      BY <2>3, <3>1, InOne, ZenonT(30) DEF Told, UnderWay
  <2>7. CASE Queued(e)
    BY <2>1, <2>7 DEF Told, Queued
  <2>8. CASE e[1] # s
    BY <2>1, <2>4, <2>8, InOne, Zenon DEF Told, UnderWay, Queued, s
  <2> QED
    BY <1>e, <2>5, <2>6, <2>7, <2>8, Zenon DEF Kinds
<1>15. ASSUME AddToShadow PROVE Told(e)'
  <2>0. UNCHANGED <<epoll, ready, stack, got>>
    BY <1>15 DEF AddToShadow
  <2>t. Told(e)
    BY <1>w, <2>0 DEF Wanted
  <2>1. CASE /\ app.pc = "run" /\ calls # <<>> /\ events' = events
             /\ AddTests(Head(calls), usr_shadow_queue, "add", "run", app')
             /\ calls' = Tail(calls)
    <3>1. CASE e = Head(calls)
      <4>0. AddTests(e, usr_shadow_queue, "add", "run", app')
        BY <2>1, <3>1, ZenonT(30)
      <4>1. Queued(e) \/ (app'.ev = e /\ app'.pc = "add")
        BY <4>0, SMTT(30) DEF AddTests
      <4> QED
        BY <2>1, <4>1 DEF Told, UnderWay, Queued
    <3>2. CASE e # Head(calls)
      <4>1. In(calls, e) => In(calls', e)
        BY <1>q, <2>1, <3>2, InTailOf, Zenon
      <4> QED
        BY <1>r, <2>0, <2>t, <2>1, <4>1, Zenon DEF Told, UnderWay, Queued
    <3> QED
      BY <3>1, <3>2, ZenonT(30)
  <2>2. CASE app.pc = "add" /\ AddStores(app) /\ calls' = calls
    <3>1. /\ app.ev \in Events /\ app.ev[2] \notin app.word
          /\ Store(app.ev[1], app.word, app.word \cup {app.ev[2]})
      BY <1>p, <2>2 DEF AddStores, PlaceInv
    <3>2. Queued(e)' <=> Queued(e) \/ e = app.ev
      BY <1>q, <3>1, AddBit, Zenon
    <3> QED
      BY <2>0, <2>t, <2>2, <3>2, ZenonT(30) DEF Told, UnderWay
  <2> QED
    BY <1>15, <2>1, <2>2 DEF AddToShadow
<1>16. ASSUME UNCHANGED vars PROVE Told(e)'
  BY <1>w, <1>16 DEF Wanted, Told, UnderWay, Queued, vars
<1> QED
  BY <1>1, <1>2, <1>3, <1>4, <1>5, <1>7, <1>8, <1>9, <1>10, <1>11, <1>12, <1>13, <1>14, <1>15, <1>16, ZenonT(30)
     DEF Next, InCall, Wait

LEMMA DroppedStays == ASSUME TypeInv, dropped, [Next]_vars PROVE dropped'
BY Zenon DEF Next, InCall, Wait, Arrive, Raise, AddToMtcp, RoundDone, FlushEpollEvents, mtcp_epoll_wait,
       Woken, Fetch, Clear, Return, Serve, mtcp_epoll_ctl, RaisePendingStreamEvents, AddToShadow,
       AddTests, vars

LEMMA LostNext ==
  ASSUME QueueInv, QueueInv', LostOnlyInRace, [Next]_vars PROVE LostOnlyInRace'
<1> SUFFICES ASSUME ~raced', ~dropped' PROVE Noticed'
  BY DEF LostOnlyInRace
<1>1. TypeInv /\ TypeInv' /\ BitInv'
  BY DEF QueueInv
<1>2. ~raced /\ ~dropped
  BY <1>1, BitNext, DroppedStays
<1>3. BitInv /\ Noticed
  BY <1>2 DEF QueueInv, LostOnlyInRace
<1>4. \A e \in Events : Wanted(e) => Told(e)
  BY <1>3 DEF Noticed, Wanted, Told
<1>5. \A e \in Events : Wanted(e)' => Told(e)'
  BY <1>1, <1>3, <1>4, ToldNext
<1>6. \A e \in Events : InQueue(e)' <=> Queued(e)'
  <2>1. TypeInv /\ BitInv => \A e \in Events : InQueue(e) <=> Queued(e)
    BY QueuedHasBit
  <2>2. (TypeInv /\ BitInv => \A e \in Events : InQueue(e) <=> Queued(e))'
    BY QueuedHasBit, PTL
  <2> QED
    BY <1>1, <2>2
<1> QED
  BY <1>5, <1>6, Zenon DEF Noticed, Wanted, Told

-----------------------------------------------------------------------------
(* The theorems. *)

LEMMA DistinctOnce ==
  ASSUME NEW q \in Seq(Events), Distinct(q), NEW e
  PROVE  LET at == {i \in 1..Len(q) : q[i] = e}
         IN  Cardinality(at) = IF In(q, e) THEN 1 ELSE 0
<1> DEFINE at == {i \in 1..Len(q) : q[i] = e}
<1>1. CASE In(q, e)
  <2>1. PICK i \in 1..Len(q) : q[i] = e
    BY <1>1 DEF In
  <2>2. at = {i}
    BY <2>1 DEF Distinct
  <2> HIDE DEF at
  <2>3. Cardinality(at) = 1
    BY <2>2, FS_Singleton, Zenon
  <2> QED
    BY <1>1, <2>3 DEF at
<1>2. CASE ~In(q, e)
  <2>1. at = {}
    BY <1>2 DEF In
  <2> HIDE DEF at
  <2>2. Cardinality(at) = 0
    BY <2>1, FS_EmptySet
  <2> QED
    BY <1>2, <2>2 DEF at
<1> QED
  BY <1>1, <1>2

\* Both is the two queues, so what is in it once is in one of them.
LEMMA BothDistinct ==
  ASSUME TypeInv, Distinct(Both)
  PROVE  /\ Distinct(usr_queue) /\ Distinct(mtcp_queue)
         /\ \A e : ~(In(usr_queue, e) /\ In(mtcp_queue, e))
<1>1. /\ usr_queue \in Seq(Events) /\ mtcp_queue \in Seq(Events)
  BY QueueTypes
<1>2. /\ Len(Both) = Len(usr_queue) + Len(mtcp_queue)
      /\ Len(usr_queue) \in Nat /\ Len(mtcp_queue) \in Nat
      /\ \A i \in 1..(Len(usr_queue) + Len(mtcp_queue)) :
           Both[i] = IF i <= Len(usr_queue) THEN usr_queue[i] ELSE mtcp_queue[i - Len(usr_queue)]
  BY <1>1, ConcatProperties DEF Both
<1>3. \A i \in 1..Len(usr_queue) : i \in 1..Len(Both) /\ Both[i] = usr_queue[i]
  BY <1>2
<1>4. ASSUME NEW i \in 1..Len(mtcp_queue)
      PROVE  /\ Len(usr_queue) + i \in 1..Len(Both) /\ Len(usr_queue) + i > Len(usr_queue)
             /\ Both[Len(usr_queue) + i] = mtcp_queue[i]
  <2>1. /\ Len(usr_queue) + i \in 1..Len(Both) /\ Len(usr_queue) + i > Len(usr_queue)
        /\ (Len(usr_queue) + i) - Len(usr_queue) = i
    BY <1>2
  <2>2. Both[Len(usr_queue) + i] = mtcp_queue[(Len(usr_queue) + i) - Len(usr_queue)]
    BY <1>2, <2>1
  <2> QED
    BY <2>1, <2>2
<1>5. Distinct(usr_queue)
  BY <1>3 DEF Distinct
<1>6. Distinct(mtcp_queue)
  <2> SUFFICES ASSUME NEW i \in 1..Len(mtcp_queue), NEW j \in 1..Len(mtcp_queue),
                      mtcp_queue[i] = mtcp_queue[j]
               PROVE  i = j
    BY DEF Distinct
  <2>1. Len(usr_queue) + i = Len(usr_queue) + j
    BY <1>4, Zenon DEF Distinct
  <2> QED
    BY <1>2, <2>1
<1>7. ASSUME NEW e, In(usr_queue, e), In(mtcp_queue, e) PROVE FALSE
  <2>1. PICK i \in 1..Len(usr_queue) : usr_queue[i] = e
    BY <1>7 DEF In
  <2>2. PICK j \in 1..Len(mtcp_queue) : mtcp_queue[j] = e
    BY <1>7 DEF In
  <2>3. i = Len(usr_queue) + j
    BY <1>3, <1>4, <2>1, <2>2, ZenonT(30) DEF Distinct
  <2> QED
    BY <1>2, <1>4, <2>1, <2>3, SMTT(30)
<1> QED
  BY <1>5, <1>6, <1>7, Zenon

LEMMA QueueKept == QueueInv => TypeOK /\ BitHasEvent /\ QueuedOnce
<1> SUFFICES ASSUME QueueInv PROVE TypeOK /\ BitHasEvent /\ QueuedOnce
  OBVIOUS
<1>1. TypeInv /\ TypeOK
  BY DEF QueueInv, TypeInv
<1>2. CASE raced
  BY <1>1, <1>2 DEF BitHasEvent, QueuedOnce
<1>3. CASE BitInv
  <2>1. BitHasEvent
    BY <1>1, <1>3, QueuedHasBit DEF BitHasEvent
  <2>2. ASSUME NEW e \in Events
        PROVE  Cardinality({i \in 1..Len(mtcp_queue) : mtcp_queue[i] = e})
               + Cardinality({i \in 1..Len(usr_queue) : usr_queue[i] = e})
               + Cardinality({i \in 1..Len(usr_shadow_queue) : usr_shadow_queue[i] = e}) <= 1
    <3> DEFINE m == Cardinality({i \in 1..Len(mtcp_queue) : mtcp_queue[i] = e})
               u == Cardinality({i \in 1..Len(usr_queue) : usr_queue[i] = e})
               s == Cardinality({i \in 1..Len(usr_shadow_queue) : usr_shadow_queue[i] = e})
    <3>1. /\ Distinct(usr_queue) /\ Distinct(mtcp_queue) /\ Distinct(usr_shadow_queue)
          /\ ~(In(usr_queue, e) /\ In(mtcp_queue, e))
      BY <1>1, <1>3, BothDistinct, Zenon DEF BitInv
    <3>2. /\ mtcp_queue \in Seq(Events) /\ usr_queue \in Seq(Events)
          /\ usr_shadow_queue \in Seq(Events)
      BY <1>1, QueueTypes, Zenon
    <3>3. /\ In(usr_queue, e) => ~In(usr_shadow_queue, e)
          /\ In(mtcp_queue, e) => ~In(usr_shadow_queue, e)
      BY <1>3, <3>2, InCat, Zenon DEF BitInv, Both
    <3>4. m = IF In(mtcp_queue, e) THEN 1 ELSE 0
      BY <3>1, <3>2, DistinctOnce
    <3>5. u = IF In(usr_queue, e) THEN 1 ELSE 0
      BY <3>1, <3>2, DistinctOnce
    <3>6. s = IF In(usr_shadow_queue, e) THEN 1 ELSE 0
      BY <3>1, <3>2, DistinctOnce
    <3> HIDE DEF m, u, s
    <3>7. m + u + s <= 1
      BY <3>1, <3>3, <3>4, <3>5, <3>6
    <3> QED
      BY <3>7 DEF m, u, s
  <2> QED
    BY <1>1, <2>1, <2>2 DEF QueuedOnce
<1> QED
  BY <1>2, <1>3 DEF QueueInv

\* mtcp_epoll_ctl() and RaiseReadEvent() keep their sockets and events in range, and no
\* queue of the three holds more than the size mtcp_epoll_create() was given, whatever
\* the two threads' order.
THEOREM EpollTyped == Spec => []TypeOK
<1>1. Init => TypeInv
  BY TypeInit
<1>2. TypeInv /\ [Next]_vars => TypeInv'
  BY TypeNext
<1>3. TypeInv => TypeOK
  BY DEF TypeInv
<1> QED
  BY <1>1, <1>2, <1>3, PTL DEF Spec

\* AddEpollEvent(), FlushEpollEvents() and mtcp_epoll_wait(): in whatever order their steps
\* happen, no event is lost until a queue is full or two changes of one socket's word
\* overlap, and until the latter a bit that is set has its event, which is queued once.
THEOREM EventsAreKept == Spec => []EventsKept
<1>1. Init => QueueInv /\ LostOnlyInRace
  <2> SUFFICES ASSUME Init PROVE QueueInv /\ LostOnlyInRace
    OBVIOUS
  <2>1. QueueInv
    BY TypeInit, BitInit, Zenon DEF QueueInv
  <2>2. Noticed
    <3>1. ASSUME NEW e \in Events PROVE ~(e[2] \in epoll[e[1]] /\ e[2] \in ready[e[1]])
      <4>1. e[1] \in Socks
        BY EventFacts
      <4> QED
        BY <4>1, EpollAssumption DEF Init, Socks
    <3> QED
      BY <3>1 DEF Noticed
  <2> QED
    BY <2>1, <2>2 DEF LostOnlyInRace
<1>2. QueueInv /\ LostOnlyInRace /\ [Next]_vars => QueueInv' /\ LostOnlyInRace'
  <2> SUFFICES ASSUME QueueInv, LostOnlyInRace, [Next]_vars PROVE QueueInv' /\ LostOnlyInRace'
    OBVIOUS
  <2>1. TypeInv'
    BY TypeNext DEF QueueInv
  <2>2. QueueInv'
    BY <2>1, BitNext DEF QueueInv
  <2> QED
    BY <2>2, LostNext
<1>3. QueueInv /\ LostOnlyInRace => EventsKept
  BY QueueKept DEF EventsKept
<1> QED
  BY <1>1, <1>2, <1>3, PTL DEF Spec
=============================================================================
