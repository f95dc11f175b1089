----------------------------- MODULE MperfTimer -----------------------------
(***************************************************************************)
(* The timers of mperf (timer.c): a doubly linked list sorted by time, a   *)
(* free list through the same links, and tmr_run(), which keeps a pointer  *)
(* to the next timer across the callback of the present one.  A callback   *)
(* may itself create, reset or cancel timers.                              *)
(***************************************************************************)
EXTENDS Integers, Sequences, FiniteSets

CONSTANTS
  Timers,        \* the Timer structs malloc() can give
  Delays,        \* the usecs given to tmr_create()
  MaxNow,        \* bound on the clock
  CancelsAny     \* TRUE: a callback cancels any timer; FALSE: neither its own nor
                 \* the one tmr_run() goes on with, and it does not reset that one

NULL == 0

\* What the constants must satisfy; the modules that instantiate this one assume it.
TimerAssumption ==
  /\ Delays \subseteq Nat /\ MaxNow \in Nat /\ CancelsAny \in BOOLEAN
  /\ NULL \notin Timers

VARIABLES
  timers, free_timers,            \* the heads of the two lists
  prev, next, time, usecs, periodic,
  now,                            \* the clock
  run,       \* tmr_run(): its t, its next and its now; pc is "idle" outside it,
             \* "test" at the top of the loop and "proc" in the callback
  due,       \* history: timers due when tmr_run() began and not dealt with since
  cancelled  \* history: timers cancelled and not created again

links == <<timers, free_timers, prev, next>>
fields == <<time, usecs, periodic>>
vars == <<links, fields, now, run, due, cancelled>>

Idle == [pc |-> "idle", t |-> NULL, next |-> NULL]

Init ==
  /\ timers = NULL /\ free_timers = NULL
  /\ prev = [t \in Timers |-> NULL] /\ next = [t \in Timers |-> NULL]
  /\ time = [t \in Timers |-> 0] /\ usecs = [t \in Timers |-> 0]
  /\ periodic = [t \in Timers |-> FALSE]
  /\ now = 0 /\ run = Idle /\ due = {} /\ cancelled = {}

-----------------------------------------------------------------------------
(* The list as a value, and the operations on it.                          *)

List == [first |-> timers, free |-> free_timers, prev |-> prev, next |-> next]

\* What can be reached from t by next within as many steps as there are timers.
From(t, nxt) ==
  LET Step[n \in 0..Cardinality(Timers)] ==
        IF n = 0 THEN <<t>>
        ELSE LET s == Step[n - 1] IN
             IF s[Len(s)] = NULL THEN s ELSE Append(s, nxt[s[Len(s)]])
  IN SelectSeq(Step[Cardinality(Timers)], LAMBDA x : x # NULL)
Set(s) == {s[i] : i \in 1..Len(s)}

\* Mutant: the successor keeps its prev.
RemoveHalf(l, t) ==
  [l EXCEPT !.first = IF l.prev[t] = NULL THEN l.next[t] ELSE @,
            !.next = IF l.prev[t] = NULL THEN @ ELSE [@ EXCEPT ![l.prev[t]] = l.next[t]]]

list_remove(l, t) ==
  [l EXCEPT !.first = IF l.prev[t] = NULL THEN l.next[t] ELSE @,
            !.next = IF l.prev[t] = NULL THEN @ ELSE [@ EXCEPT ![l.prev[t]] = l.next[t]],
            !.prev = IF l.next[t] = NULL THEN @ ELSE [@ EXCEPT ![l.next[t]] = l.prev[t]]]

\* Mutant: a timer always goes to the end.
BeforeEnd(l, t, tm) ==
  LET s == From(l.first, l.next) IN IF s = <<>> THEN NULL ELSE s[Len(s)]

\* The last timer of the list that t does not come before, NULL when there is none.
Before(l, t, tm) ==
  LET s == From(l.first, l.next)
      later == {i \in 1..Len(s) : tm[t] < tm[s[i]]}
      at == IF later = {} THEN Len(s) + 1 ELSE CHOOSE i \in later : \A j \in later : i <= j
  IN IF at = 1 THEN NULL ELSE s[at - 1]

list_add(l, t, tm) ==
  LET p == Before(l, t, tm)
      n == IF p = NULL THEN l.first ELSE l.next[p]
  IN [l EXCEPT !.first = IF p = NULL THEN t ELSE @,
               !.next = [x \in Timers |-> IF x = t THEN n ELSE IF x = p THEN t ELSE @[x]],
               !.prev = [x \in Timers |-> IF x = t THEN p ELSE IF x = n THEN t ELSE @[x]]]

\* Mutant: it is not added back.
ResortRemoves(l, t, tm) == list_remove(l, t)

list_resort(l, t, tm) == list_add(list_remove(l, t), t, tm)

\* Mutant: the timer stays on the active list.
FreedKept(l, t) == [l EXCEPT !.free = t]

Freed(l, t) ==
  LET r == list_remove(l, t)
  IN [r EXCEPT !.next[t] = r.free, !.free = t, !.prev[t] = NULL]

SetList(l) ==
  timers' = l.first /\ free_timers' = l.free /\ prev' = l.prev /\ next' = l.next

Active == Set(From(timers, next))
Free == Set(From(free_timers, next))

-----------------------------------------------------------------------------
(* The calls, made from outside or from a callback.                        *)

MayCall == run.pc \in {"idle", "proc"}

tmr_create(t, us, per) ==
  /\ MayCall
  /\ IF free_timers # NULL THEN t = free_timers ELSE t \in Timers \ (Active \cup Free)
  /\ usecs' = [usecs EXCEPT ![t] = us] /\ periodic' = [periodic EXCEPT ![t] = per]
  /\ time' = [time EXCEPT ![t] = now + us]
  /\ SetList(list_add(IF t = free_timers THEN [List EXCEPT !.free = next[t]] ELSE List,
                      t, time'))
  /\ due' = due \ {t} /\ cancelled' = cancelled \ {t}
  /\ UNCHANGED <<now, run>>

\* What a callback leaves to tmr_run().
Spared(t) == ~CancelsAny /\ run.pc = "proc" /\ t = run.next

\* Mutant: the timeout is taken off the present time.
ResetBack(t) ==
  /\ MayCall /\ t \in Active /\ ~Spared(t)
  /\ time' = [time EXCEPT ![t] = now - usecs[t]]
  /\ SetList(list_resort(List, t, time'))
  /\ due' = due \ {t}
  /\ UNCHANGED <<usecs, periodic, now, run, cancelled>>

tmr_reset(t) ==
  /\ MayCall /\ t \in Active /\ ~Spared(t)
  /\ time' = [time EXCEPT ![t] = now + usecs[t]]
  /\ SetList(list_resort(List, t, time'))
  /\ due' = due \ {t}
  /\ UNCHANGED <<usecs, periodic, now, run, cancelled>>

tmr_cancel(t) ==
  /\ MayCall /\ t \in Active /\ ~Spared(t)
  /\ run.pc = "proc" => (CancelsAny \/ t # run.t)
  /\ SetList(Freed(List, t))
  /\ due' = due \ {t} /\ cancelled' = cancelled \cup {t}
  /\ UNCHANGED <<fields, now, run>>

tmr_cleanup ==
  /\ run.pc = "idle" /\ free_timers # NULL
  /\ free_timers' = NULL
  /\ next' = [t \in Timers |-> IF t \in Free THEN NULL ELSE next[t]]
  /\ UNCHANGED <<timers, prev, fields, now, run, due, cancelled>>

tmr_destroy ==
  /\ run.pc = "idle" /\ timers # NULL
  /\ timers' = NULL /\ free_timers' = NULL
  /\ prev' = [t \in Timers |-> NULL] /\ next' = [t \in Timers |-> NULL]
  /\ due' = {} /\ cancelled' = cancelled \cup Active
  /\ UNCHANGED <<fields, now, run>>

Tick ==
  /\ run.pc = "idle" /\ now < MaxNow
  /\ now' = now + 1
  /\ UNCHANGED <<links, fields, run, due, cancelled>>

-----------------------------------------------------------------------------
(* tmr_run().                                                              *)

At(t) == IF t = NULL THEN Idle ELSE [pc |-> "test", t |-> t, next |-> NULL]

Start ==
  /\ run.pc = "idle" /\ timers # NULL
  /\ run' = At(timers)
  /\ due' = {t \in Active : time[t] <= now}
  /\ UNCHANGED <<links, fields, now, cancelled>>

\* Mutant: a timer is ready only once its time is past.
TestStrict ==
  /\ run.pc = "test"
  /\ run' = IF time[run.t] >= now THEN Idle
            ELSE [run EXCEPT !.pc = "proc", !.next = next[run.t]]
  /\ due' = IF time[run.t] >= now THEN due ELSE due \ {run.t}
  /\ UNCHANGED <<links, fields, now, cancelled>>

\* A timer that is ready: its successor is noted and its callback called.
Test ==
  /\ run.pc = "test"
  /\ run' = IF time[run.t] > now THEN Idle
            ELSE [run EXCEPT !.pc = "proc", !.next = next[run.t]]
  /\ due' = IF time[run.t] > now THEN due ELSE due \ {run.t}
  /\ UNCHANGED <<links, fields, now, cancelled>>

\* The callback is over: reschedule the timer or cancel it.
ProcDone ==
  /\ run.pc = "proc"
  /\ IF periodic[run.t]
     THEN /\ time' = [time EXCEPT ![run.t] = @ + usecs[run.t]]
          /\ SetList(list_resort(List, run.t, time'))
     ELSE SetList(Freed(List, run.t)) /\ UNCHANGED time
  /\ run' = At(run.next)
  /\ UNCHANGED <<usecs, periodic, now, due, cancelled>>

Next ==
  \/ \E t \in Timers, us \in Delays, per \in BOOLEAN :
       (per => us > 0) /\ tmr_create(t, us, per)
  \/ \E t \in Timers : tmr_reset(t) \/ tmr_cancel(t)
  \/ tmr_cleanup \/ tmr_destroy \/ Tick
  \/ Start \/ Test \/ ProcDone

Spec == Init /\ [][Next]_vars

-----------------------------------------------------------------------------
Pointer == Timers \cup {NULL}

\* Type invariant; a timer's time is never set back before 0 by tmr_reset().
TypeOK ==
  /\ timers \in Pointer /\ free_timers \in Pointer
  /\ prev \in [Timers -> Pointer] /\ next \in [Timers -> Pointer]
  /\ time \in [Timers -> Nat] /\ usecs \in [Timers -> Delays \cup {0}]
  /\ periodic \in [Timers -> BOOLEAN] /\ now \in 0..MaxNow
  /\ run \in [pc : {"idle", "test", "proc"}, t : Pointer, next : Pointer]
  /\ due \subseteq Timers /\ cancelled \subseteq Timers

\* The links of the active list agree in both directions, the list ends, and
\* no timer is on it and on the free list.
WellLinked ==
  LET s == From(timers, next) IN
    /\ Active \cap Free = {}
    /\ Cardinality(Active) = Len(s)
    /\ \A i \in 1..Len(s) :
         /\ prev[s[i]] = IF i = 1 THEN NULL ELSE s[i - 1]
         /\ next[s[i]] = IF i = Len(s) THEN NULL ELSE s[i + 1]

\* "Since the list is sorted, we only need to look at the first timer."  In the
\* callback the list is sorted too.
Sorted ==
  LET s == From(timers, next) IN
    \A i, j \in 1..Len(s) : i < j => time[s[i]] <= time[s[j]]

\* When tmr_run() returns, every timer that was due when it began has been called,
\* or reset, cancelled or made anew by the callback of another.
RunsAllDue == run.pc = "idle" => due = {}

\* Where tmr_run() goes on after a callback is a timer on the active list.
GoesOnActive == run.pc = "proc" => run.next \in Active \cup {NULL} /\ run.t \in Active

\* "Deschedule a timer": a callback is not called once its timer is cancelled.
NeverFiresCancelled ==
  [][run.pc = "test" /\ run'.pc = "proc" => run.t \notin cancelled]_vars
=============================================================================
