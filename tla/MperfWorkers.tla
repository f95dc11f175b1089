---------------------------- MODULE MperfWorkers ----------------------------
(***************************************************************************)
(* The life of mperf's threads: the master (main.c) creates one worker per *)
(* core, waits for them and destroys what they left (mperf_worker.c); each *)
(* worker owns an mTCP context with a stack thread of its own (core.c).    *)
(* SIGINT goes to the master, which forwards it to the workers: Linux      *)
(* delivers a signal of the process to the main thread unless it blocks    *)
(* it, and main() does not.                                                *)
(*                                                                         *)
(* Using a thread id that was never set, or a context that was freed, has  *)
(* no defined outcome: the first ends the process, the second may.         *)
(***************************************************************************)
EXTENDS Naturals

CONSTANTS N,            \* n_thread
          MaxSigs,      \* bound on the SIGINTs the process gets
          SpawnFails,   \* TRUE: pthread_create() may fail
          MultiProcess  \* CONFIG.multi_process

ASSUME WorkersAssumption ==
  /\ N \in Nat \ {0} /\ MaxSigs \in Nat
  /\ SpawnFails \in BOOLEAN /\ MultiProcess \in BOOLEAN

Worker == 1..N

VARIABLES
  mpc, mi,      \* the master: where it is, and the loop index i
  wpc,          \* where each worker is
  wstate,       \* ctx->worker_state
  tid,          \* ctx->tid has been set
  done,         \* ctx->done
  epollfd,      \* ctx->epollfd # -1
  mctx,         \* ctx->mctx # NULL
  frees,        \* how often the context has been freed
  stack,        \* the stack thread: "none", "up", "stopping" or "gone"
  intr, exit,   \* g_pctx[i]->interrupt and ->exit
  sig,          \* workers with a forwarded SIGINT pending
  nsig          \* SIGINTs so far

ctxVars == <<epollfd, mctx, frees, stack>>
sigVars == <<intr, exit, sig, nsig>>
vars == <<mpc, mi, wpc, wstate, tid, done, ctxVars, sigVars>>

\* threads[] and mTCP's tables before mperf_create_workers().  The initializer
\* of threads[] covers the first worker only: the others have 0 for epollfd,
\* which is not -1.
Init ==
  /\ mpc = "create" /\ mi = 1
  /\ wpc = [i \in Worker |-> "none"]
  /\ wstate = [i \in Worker |-> "UNUSED"]
  /\ tid = [i \in Worker |-> FALSE] /\ done = [i \in Worker |-> FALSE]
  /\ epollfd = [i \in Worker |-> i # 1] /\ mctx = [i \in Worker |-> FALSE]
  /\ frees = [i \in Worker |-> 0] /\ stack = [i \in Worker |-> "none"]
  /\ intr = [i \in Worker |-> FALSE] /\ exit = [i \in Worker |-> FALSE]
  /\ sig = {} /\ nsig = 0

\* The handle is still set, but it, or the stack's context it leads to, is freed.
Dangling(i) == mctx[i] /\ (frees[i] > 0 \/ stack[i] = "gone")

Alive == mpc \notin {"over", "crashed"}
Crash == mpc' = "crashed"

-----------------------------------------------------------------------------
(* The master.                                                             *)

\* The loops over the workers: on to the next one, or to the next phase.
StepPast(phase, next) ==
  IF mi <= N THEN mpc' = phase /\ mi' = mi + 1 ELSE mpc' = next /\ mi' = 1
Step(phase, next) ==
  IF mi < N THEN mpc' = phase /\ mi' = mi + 1 ELSE mpc' = next /\ mi' = 1

\* mperf_create_workers(): UNINIT, then pthread_create().
Create ==
  /\ mpc = "create"
  /\ \/ /\ wstate' = [wstate EXCEPT ![mi] = "UNINIT"]
        /\ wpc' = [wpc EXCEPT ![mi] = "begin"]
        /\ Step("create", "wait")
     \/ /\ SpawnFails
        /\ wstate' = [wstate EXCEPT ![mi] = "ERROR"]
        /\ mpc' = "kill" /\ mi' = 1 /\ UNCHANGED wpc
  /\ UNCHANGED <<tid, done, ctxVars, sigVars>>

Running(i) == wstate[i] \in {"UNINIT", "INITED"}

\* kill_all: SIGINT to each worker that was created.
KillAll ==
  /\ mpc = "kill"
  /\ IF Running(mi) /\ ~tid[mi]
     THEN Crash /\ UNCHANGED <<mi, sig>>
     ELSE /\ Step("kill", "wait")
          /\ sig' = IF Running(mi) /\ wpc[mi] # "gone" THEN sig \cup {mi} ELSE sig
  /\ UNCHANGED <<wpc, wstate, tid, done, ctxVars, intr, exit, nsig>>

\* mperf_wait_workers(): which workers are joined.
JoinInited(i) == wstate[i] = "INITED"
Joinable(i) == Running(i)

Wait ==
  /\ mpc = "wait"
  /\ \/ ~Joinable(mi) /\ Step("wait", "close")
     \/ Joinable(mi) /\ tid[mi] /\ mpc' = "join" /\ UNCHANGED mi
     \/ Joinable(mi) /\ ~tid[mi] /\ Crash /\ UNCHANGED mi
  /\ UNCHANGED <<wpc, wstate, tid, done, ctxVars, sigVars>>

Join ==
  /\ mpc = "join" /\ wpc[mi] = "gone"
  /\ Step("wait", "close")
  /\ UNCHANGED <<wpc, wstate, tid, done, ctxVars, sigVars>>

\* mtcp_destroy_context(): the stack thread is told to stop, the handle freed.
Free(i) ==
  /\ frees' = [frees EXCEPT ![i] = @ + 1]
  /\ stack' = [stack EXCEPT ![i] = IF @ = "up" THEN "stopping" ELSE @]

\* mperf_destroy_workers(): close_mtcp_fd() and destroy_mctx(), which tests
\* the pointer, frees the context and then clears the pointer.
DestroyClose ==
  /\ mpc = "close"
  /\ \/ /\ wstate[mi] \in {"UNUSED", "ERROR"}
        /\ Step("close", "finish") /\ UNCHANGED epollfd
     \/ /\ wstate[mi] \notin {"UNUSED", "ERROR"} /\ mpc' = "free"
        /\ epollfd' = [epollfd EXCEPT ![mi] = FALSE] /\ UNCHANGED mi
     \/ /\ wstate[mi] \notin {"UNUSED", "ERROR"} /\ epollfd[mi] /\ Dangling(mi)
        /\ Crash /\ UNCHANGED <<mi, epollfd>>
  /\ UNCHANGED <<wpc, wstate, tid, done, mctx, frees, stack, sigVars>>

DestroyFree ==
  /\ mpc = "free"
  /\ \/ ~mctx[mi] /\ Step("close", "finish") /\ UNCHANGED <<frees, stack>>
     \/ mctx[mi] /\ mpc' = "clear" /\ UNCHANGED mi /\ Free(mi)
     \/ mctx[mi] /\ frees[mi] > 0 /\ Crash /\ UNCHANGED <<mi, frees, stack>>
  /\ UNCHANGED <<wpc, wstate, tid, done, epollfd, mctx, sigVars>>

DestroyClear ==
  /\ mpc = "clear"
  /\ mctx' = [mctx EXCEPT ![mi] = FALSE]
  /\ Step("close", "finish")
  /\ UNCHANGED <<wpc, wstate, tid, done, epollfd, frees, stack, sigVars>>

\* mtcp_destroy(): wait for every stack thread that runs.
Finish ==
  /\ mpc = "finish" /\ \A i \in Worker : stack[i] \in {"none", "gone"}
  /\ mpc' = "over"
  /\ UNCHANGED <<mi, wpc, wstate, tid, done, ctxVars, sigVars>>

Master ==
  \/ Create \/ KillAll \/ Wait \/ Join \/ DestroyClose \/ DestroyFree
  \/ DestroyClear \/ Finish

-----------------------------------------------------------------------------
(* SIGINT.                                                                 *)

\* HandleSignal(): the first SIGINT on a core interrupts the applications of
\* all running contexts; one that follows in a later second, or any of several
\* processes, stops the stacks.
HandleSignal ==
  LET up == {i \in Worker : stack[i] \in {"up", "stopping"}} IN
  \/ /\ ~MultiProcess /\ intr' = [i \in Worker |-> intr[i] \/ i \in up]
     /\ UNCHANGED exit
  \/ /\ MultiProcess \/ nsig > 0
     /\ exit' = [i \in Worker |-> exit[i] \/ i \in up] /\ UNCHANGED intr

\* __sig_handler() in the master: forward to each worker that runs.
Sigint ==
  /\ Alive /\ nsig < MaxSigs /\ nsig' = nsig + 1
  /\ HandleSignal
  /\ IF \E i \in Worker : Running(i) /\ ~tid[i]
     THEN Crash /\ UNCHANGED sig
     ELSE /\ sig' = sig \cup {i \in Worker : Running(i) /\ wpc[i] # "gone"}
          /\ UNCHANGED mpc
  /\ UNCHANGED <<mi, wpc, wstate, tid, done, ctxVars>>

\* __sig_handler() in a worker, between any two steps of it.
CloseOnly(i) ==
  wstate' = [wstate EXCEPT ![i] = "CLOSE"] /\ UNCHANGED done
SetDone(i) ==
  wstate' = [wstate EXCEPT ![i] = "CLOSE"] /\ done' = [done EXCEPT ![i] = TRUE]

WorkerSignal(i) ==
  /\ Alive /\ i \in sig /\ wpc[i] # "gone"
  /\ sig' = sig \ {i} /\ HandleSignal /\ SetDone(i)
  /\ UNCHANGED <<mpc, mi, wpc, tid, ctxVars, nsig>>

-----------------------------------------------------------------------------
(* The workers.                                                            *)

Goto(i, pc) == wpc' = [wpc EXCEPT ![i] = pc]

\* mperf_init_worker(): thread_id and tid.
WBegin(i) ==
  /\ Alive /\ wpc[i] = "begin" /\ Goto(i, "context")
  /\ tid' = [tid EXCEPT ![i] = TRUE]
  /\ UNCHANGED <<mpc, mi, wstate, done, ctxVars, sigVars>>

\* mtcp_create_context(): starts the stack thread and waits until it is up.
WContext(i) ==
  /\ Alive /\ wpc[i] = "context"
  /\ \/ /\ Goto(i, "epoll") /\ mctx' = [mctx EXCEPT ![i] = TRUE]
        /\ stack' = [stack EXCEPT ![i] = "up"]
     \/ Goto(i, "gone") /\ UNCHANGED <<mctx, stack>>
  /\ UNCHANGED <<mpc, mi, wstate, tid, done, epollfd, frees, sigVars>>

\* mtcp_epoll_create(), and INITED whatever the state was.
WEpoll(i) ==
  /\ Alive /\ wpc[i] = "epoll"
  /\ \/ /\ Goto(i, "enter") /\ epollfd' = [epollfd EXCEPT ![i] = TRUE]
        /\ wstate' = [wstate EXCEPT ![i] = "INITED"]
     \/ Goto(i, "free") /\ UNCHANGED <<epollfd, wstate>>
  /\ UNCHANGED <<mpc, mi, tid, done, mctx, frees, stack, sigVars>>

\* The routine starts.  The server needs a listener, for which its state must
\* still be INITED, and leaves done as it is without one; the client needs a
\* buffer, and sets done without one.
WEnter(i) ==
  /\ Alive /\ wpc[i] = "enter"
  /\ \/ Goto(i, "check") /\ UNCHANGED done
     \/ Goto(i, "close") /\ UNCHANGED done
     \/ Goto(i, "close") /\ done' = [done EXCEPT ![i] = TRUE]
  /\ UNCHANGED <<mpc, mi, wstate, tid, ctxVars, sigVars>>

\* The loop of the server or the client: while (!ctx->done) ...
WCheck(i) ==
  /\ Alive /\ wpc[i] = "check"
  /\ Goto(i, IF done[i] THEN "close" ELSE "poll")
  /\ UNCHANGED <<mpc, mi, wstate, tid, done, ctxVars, sigVars>>

\* What makes the loop break off: it sets done when it ends.
LeaveLoop(i) == Goto(i, "close") /\ done' = [done EXCEPT ![i] = TRUE]

\* GetMTCPManager() refuses once the stack was told to stop.
Told(i) == exit[i] \/ stack[i] \in {"stopping", "gone"}

\* ... mtcp_epoll_wait() is called, and fails at once or goes on ...
WPoll(i) ==
  /\ Alive /\ wpc[i] = "poll"
  /\ \/ (Told(i) \/ ~mctx[i] \/ ~epollfd[i]) /\ LeaveLoop(i) /\ UNCHANGED mpc
     \/ /\ ~Told(i) /\ mctx[i] /\ epollfd[i]
        /\ Goto(i, "lock") /\ UNCHANGED <<mpc, done>>
     \/ Dangling(i) /\ Crash /\ UNCHANGED <<wpc, done>>
  /\ UNCHANGED <<mi, wstate, tid, ctxVars, sigVars>>

\* ... to take the lock, see no event, set waiting and sleep ...
WWait(i) ==
  /\ Alive /\ wpc[i] = "lock" /\ Goto(i, "sleep")
  /\ UNCHANGED <<mpc, mi, wstate, tid, done, ctxVars, sigVars>>

\* ... until there are events, which may end the test.  Fetching and handling
\* them uses the context and the queues.
WEvents(i) ==
  /\ Alive
  /\ wpc[i] = "lock" \/ (wpc[i] = "sleep" /\ ~Told(i) /\ ~intr[i])
  /\ \/ LeaveLoop(i) /\ UNCHANGED mpc
     \/ Goto(i, "check") /\ UNCHANGED <<mpc, done>>
     \/ (Dangling(i) \/ ~epollfd[i]) /\ Crash /\ UNCHANGED <<wpc, done>>
  /\ UNCHANGED <<mi, wstate, tid, ctxVars, sigVars>>

\* A sleeper that is woken looks at ctx->done, exit and interrupt.
Woken(i) == LeaveLoop(i) /\ intr' = [intr EXCEPT ![i] = FALSE]

\* InterruptApplication() in the stack thread's loop: it is repeated as long as
\* interrupt is set, and wakes the worker if it is waiting.
StackInterrupt(i) ==
  /\ Alive /\ stack[i] \in {"up", "stopping"} /\ intr[i] /\ wpc[i] = "sleep"
  /\ Woken(i)
  /\ UNCHANGED <<mpc, mi, wstate, tid, ctxVars, exit, sig, nsig>>

\* The end of __worker_routine(): close_mtcp_fd(), destroy_mctx().
WClose(i) ==
  /\ Alive /\ wpc[i] = "close"
  /\ \/ /\ Goto(i, "free") /\ epollfd' = [epollfd EXCEPT ![i] = FALSE]
        /\ UNCHANGED mpc
     \/ epollfd[i] /\ Dangling(i) /\ Crash /\ UNCHANGED <<wpc, epollfd>>
  /\ UNCHANGED <<mi, wstate, tid, done, mctx, frees, stack, sigVars>>

WFree(i) ==
  /\ Alive /\ wpc[i] = "free"
  /\ \/ ~mctx[i] /\ Goto(i, "gone") /\ UNCHANGED <<mpc, frees, stack>>
     \/ mctx[i] /\ Goto(i, "clear") /\ Free(i) /\ UNCHANGED mpc
     \/ mctx[i] /\ frees[i] > 0 /\ Crash /\ UNCHANGED <<wpc, frees, stack>>
  /\ UNCHANGED <<mi, wstate, tid, done, epollfd, mctx, sigVars>>

Keep(i) == UNCHANGED mctx
Clear(i) == mctx' = [mctx EXCEPT ![i] = FALSE]

WClear(i) ==
  /\ Alive /\ wpc[i] = "clear"
  /\ Clear(i) /\ Goto(i, "gone")
  /\ UNCHANGED <<mpc, mi, wstate, tid, done, epollfd, frees, stack, sigVars>>

WorkerStep(i) ==
  \/ WBegin(i) \/ WContext(i) \/ WEpoll(i) \/ WEnter(i) \/ WCheck(i)
  \/ WPoll(i) \/ WWait(i) \/ WClose(i) \/ WFree(i) \/ WClear(i)

\* RunMainLoop() ends once it was told to and no flow is left, or at once on
\* exit.  It calls InterruptApplication() one last time, which finds the worker
\* waiting or not; mtcp_free_context() follows.
StackEnd(i) ==
  /\ Alive /\ (stack[i] = "stopping" \/ (stack[i] = "up" /\ exit[i]))
  /\ stack' = [stack EXCEPT ![i] = "gone"]
  /\ \/ wpc[i] = "sleep" /\ Woken(i)
     \/ wpc[i] # "sleep" /\ UNCHANGED <<wpc, done, intr>>
  /\ UNCHANGED <<mpc, mi, wstate, tid, epollfd, mctx, frees, exit, sig, nsig>>

StackStep(i) == StackInterrupt(i) \/ StackEnd(i)

-----------------------------------------------------------------------------

\* exit() ends every thread that is left.
Ended == ~Alive /\ UNCHANGED vars

Next ==
  \/ Master \/ Sigint \/ Ended
  \/ \E i \in Worker :
       WorkerSignal(i) \/ WorkerStep(i) \/ WEvents(i) \/ StackStep(i)

Spec == Init /\ [][Next]_vars

\* Threads that can go on do, signals are delivered, and the flows of a stack
\* that was told to stop end by their timers.  No event, and no end of a test,
\* is ever forced.
FairSpec ==
  /\ Spec /\ WF_vars(Master)
  /\ \A i \in Worker : /\ WF_vars(WorkerSignal(i)) /\ WF_vars(WorkerStep(i))
                        /\ WF_vars(StackStep(i))

-----------------------------------------------------------------------------
(* Properties.                                                             *)

Places == {"none", "begin", "context", "epoll", "enter", "check", "poll",
           "lock", "sleep", "close", "free", "clear", "gone"}
Phases == {"create", "kill", "wait", "join", "close", "free", "clear", "finish",
           "over", "crashed"}

\* Type invariant of the threads, their contexts and the signal flags.
TypeOK ==
  /\ mpc \in Phases /\ mi \in Worker
  /\ wpc \in [Worker -> Places]
  /\ wstate \in [Worker -> {"UNUSED", "UNINIT", "INITED", "CLOSE", "ERROR"}]
  /\ tid \in [Worker -> BOOLEAN] /\ done \in [Worker -> BOOLEAN]
  /\ epollfd \in [Worker -> BOOLEAN] /\ mctx \in [Worker -> BOOLEAN]
  /\ frees \in [Worker -> Nat]
  /\ stack \in [Worker -> {"none", "up", "stopping", "gone"}]
  /\ intr \in [Worker -> BOOLEAN] /\ exit \in [Worker -> BOOLEAN]
  /\ sig \in SUBSET Worker /\ nsig \in 0..MaxSigs

\* The master is past mperf_wait_workers() ...
Waited == mpc \in {"close", "free", "clear", "finish", "over"}
\* ... and nothing went wrong: no SIGINT, and every thread was created.
Calm == nsig = 0 /\ \A i \in Worker : wstate[i] # "ERROR"

\* "All workers exit.": no worker runs when mperf_wait_workers() has returned.
AllWorkersExit ==
  Waited => \A i \in Worker : wpc[i] \in {"none", "gone"}

\* It is so as long as there is no SIGINT and every thread could be created.
CalmExit == Calm => AllWorkersExit

\* Then a context is freed at most once, though both destroy_mctx() of the
\* worker and that of the master may see it, and its stack thread has been
\* told to stop before mtcp_destroy() waits for it.
CalmFree ==
  Calm => \A i \in Worker : /\ frees[i] <= 1
                            /\ mpc = "finish" => stack[i] # "up"

\* Both: what mperf_wait_workers() and destroy_mctx() promise when nothing goes wrong.
CalmEnd == CalmExit /\ CalmFree

\* Even with SIGINT, and with threads that could not be created, a worker that
\* was not interrupted keeps its context and its epoll descriptor while it is
\* in its loop: mperf_destroy_workers() never takes them from it.
NotUnderWorker ==
  \A i \in Worker :
    wpc[i] \in {"enter", "check", "poll", "lock", "sleep"} /\ ~done[i] =>
      frees[i] = 0 /\ epollfd[i]

\* "Use ^C to gracefully shutdown the application": a worker that SIGINT was
\* forwarded to leaves its loop, wherever it was, and ends.
Quits ==
  \A i \in Worker : i \in sig ~> wpc[i] = "gone" \/ ~Alive

\* It is so as long as its stack is interrupted and not told to exit at once:
\* done, and an interrupt that is repeated until it is seen, leave no window.
Interruptible ==
  \A i \in Worker : i \in sig ~> wpc[i] = "gone" \/ exit[i] \/ ~Alive

=============================================================================
