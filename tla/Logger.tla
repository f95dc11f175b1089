------------------------------- MODULE Logger -------------------------------
(***************************************************************************)
(* The log of an mTCP context: thread_printf() collects lines in a buffer, *)
(* hands full buffers to the log thread and takes free ones back; a pipe   *)
(* wakes the log thread when it is idle.  The stack thread flushes the     *)
(* last buffer when its main loop ends and then waits for the log thread.  *)
(*                                                                         *)
(* The stack thread and the application's threads print.  A step is what   *)
(* a thread does between two accesses of shared state that another thread  *)
(* can see.  The build defines NDEBUG, so assert(wbuf) does not stop the   *)
(* loop that waits for a free buffer.                                      *)
(***************************************************************************)
EXTENDS Integers, Sequences, Functions

CONSTANTS
  Apps,           \* application threads that print
  NUM_LOG_BUFF,
  Fill,           \* lines that a buffer takes: LOG_BUFF_SIZE and PRINT_LIMIT
  PipeSize,       \* bytes the pipe takes
  MaxLines        \* bound: lines printed in all

ASSUME LoggerAssumption ==
  /\ {NUM_LOG_BUFF, Fill, PipeSize, MaxLines} \subseteq Nat \ {0}
  /\ {"stack", "log", "none"} \cap Apps = {}

VARIABLES
  free, work,   \* ctx->free_queue and ctx->working_queue
  w_buffer,     \* mtcp->w_buffer, 0 for NULL
  text,         \* the lines in each buffer
  mutex,        \* who holds ctx->mutex
  state, done,  \* ctx->state, ctx->done
  pipe,         \* bytes in the pipe
  lat, lbuf,    \* the log thread: where it is, its buffer (0 for none),
  cnt, final,   \* how many it has taken, and whether it is in its final loop
  at,           \* where each printing thread is
  lines,        \* lines printed so far
  flushed,      \* lines printed when the stack flushed its buffer
  gone,         \* buffers that no queue and no thread has any more
  file          \* the lines in the log file

logt == <<lat, lbuf, cnt, final>>
logvars == <<free, work, w_buffer, text, mutex, state, done, pipe, logt, at, lines, flushed, gone, file>>

Buffer == 1..NUM_LOG_BUFF
Printer == Apps \cup {"stack"}

\* InitLogThreadContext().
LogInit ==
  /\ free = [i \in Buffer |-> i] /\ work = <<>>
  /\ w_buffer = 0 /\ text = [b \in Buffer |-> <<>>]
  /\ mutex = "none" /\ state = "IDLE_LOGT" /\ done = FALSE /\ pipe = 0
  /\ lat = "lock" /\ lbuf = 0 /\ cnt = 0 /\ final = FALSE
  /\ at = [p \in Printer |-> "idle"]
  /\ lines = 0 /\ flushed = 0 /\ gone = {} /\ file = <<>>

Goes(p, to) == at' = [at EXCEPT ![p] = to]
Log(to) == lat' = to /\ UNCHANGED <<lbuf, cnt, final>>
LogLeaves(to) == lat' = to /\ lbuf' = 0 /\ UNCHANGED <<cnt, final>>

-----------------------------------------------------------------------------
(* thread_printf() *)

\* MUTANT of PrintLock: a buffer is handed over one line too late.
PrintLockLate(p) ==
  /\ at[p] = "idle" /\ mutex = "none" /\ lines < MaxLines
  /\ at["stack"] \in {"idle", "full", "wake", "take", "put"}
  /\ mutex' = p
  /\ Goes(p, IF w_buffer = 0 THEN "take"
             ELSE IF Len(text[w_buffer]) > Fill THEN "full" ELSE "put")
  /\ UNCHANGED <<free, work, w_buffer, text, state, done, pipe, logt, lines, flushed, gone, file>>

\* The applications have made their last call when the stack's loop ends.
PrintLock(p) ==
  /\ at[p] = "idle" /\ mutex = "none" /\ lines < MaxLines
  /\ at["stack"] \in {"idle", "full", "wake", "take", "put"}
  /\ mutex' = p
  /\ Goes(p, IF w_buffer = 0 THEN "take"
             ELSE IF Len(text[w_buffer]) = Fill THEN "full" ELSE "put")
  /\ UNCHANGED <<free, work, w_buffer, text, state, done, pipe, logt, lines, flushed, gone, file>>

\* MUTANT of EnqueueJobBuffer: the newest buffer first.
EnqueueFirst(b) == work' = <<b>> \o work /\ state' = "ACTIVE_LOGT"

EnqueueJobBuffer(b) == work' = Append(work, b) /\ state' = "ACTIVE_LOGT"

PrintFull(p) ==
  /\ at[p] = "full" /\ EnqueueJobBuffer(w_buffer) /\ Goes(p, "wake")
  /\ UNCHANGED <<free, w_buffer, text, mutex, done, pipe, logt, lines, flushed, gone, file>>

\* MUTANT of WakeUp: only a log thread that sleeps already is woken.
WakeUpSleeper(p, to) ==
  /\ pipe < PipeSize /\ pipe' = pipe + (IF lat = "read" THEN 1 ELSE 0) /\ Goes(p, to)
  /\ UNCHANGED <<free, work, w_buffer, text, mutex, state, logt, lines, flushed, gone, file>>

\* write() to the pipe, which blocks while the pipe is full.
WakeUp(p, to) ==
  /\ pipe < PipeSize /\ pipe' = pipe + 1 /\ Goes(p, to)
  /\ UNCHANGED <<free, work, w_buffer, text, mutex, state, logt, lines, flushed, gone, file>>

PrintWake(p) == at[p] = "wake" /\ WakeUp(p, "take") /\ UNCHANGED done

\* DequeueFreeBuffer(), again and again until there is one.
PrintTake(p) ==
  /\ at[p] = "take" /\ free # <<>>
  /\ w_buffer' = Head(free) /\ free' = Tail(free)
  /\ text' = [text EXCEPT ![Head(free)] = <<>>] /\ Goes(p, "put")
  /\ UNCHANGED <<work, mutex, state, done, pipe, logt, lines, flushed, gone, file>>

PrintPut(p) ==
  /\ at[p] = "put" /\ lines' = lines + 1
  /\ text' = [text EXCEPT ![w_buffer] = Append(@, lines + 1)]
  /\ mutex' = "none" /\ Goes(p, "idle")
  /\ UNCHANGED <<free, work, w_buffer, state, done, pipe, logt, flushed, gone, file>>

-----------------------------------------------------------------------------
(* The end of RunMainLoop() and mtcp_free_context(), by the stack thread. *)

Calm == at["stack"] = "idle" /\ \A p \in Apps : at[p] = "idle"

\* flush_log_data() without the mutex.  If the log thread is taking the only buffer
\* off the queue meanwhile, the link to the new one can be lost; if it has found the
\* queue empty, it makes the state idle after the new buffer is in.
StackFlush ==
  /\ Calm /\ flushed' = lines
  /\ IF w_buffer = 0
     THEN Goes("stack", "done") /\ UNCHANGED <<work, state, gone, logt, mutex>>
     ELSE /\ Goes("stack", "awake")
          /\ \/ EnqueueJobBuffer(w_buffer) /\ UNCHANGED <<gone, logt, mutex>>
             \/ /\ lat = "locked" /\ Len(work) = 1
                /\ gone' = gone \cup {w_buffer} /\ state' = "ACTIVE_LOGT"
                /\ UNCHANGED <<work, logt, mutex>>
             \/ /\ lat = "locked" /\ work = <<>>
                /\ work' = <<w_buffer>> /\ state' = "IDLE_LOGT"
                /\ Log("idle") /\ mutex' = "none" /\ UNCHANGED gone
  /\ UNCHANGED <<free, w_buffer, text, done, pipe, lines, file>>

StackWake == at["stack"] = "awake" /\ WakeUp("stack", "done") /\ UNCHANGED done

StackDone ==
  /\ at["stack"] = "done" /\ done' = TRUE /\ Goes("stack", "last")
  /\ UNCHANGED <<free, work, w_buffer, text, mutex, state, pipe, logt, lines, flushed, gone, file>>

\* MUTANT of StackLast: the log thread is not told.
StackLastSilent ==
  /\ at["stack"] = "last" /\ Goes("stack", "join")
  /\ UNCHANGED <<free, work, w_buffer, text, mutex, state, done, pipe, logt, lines, flushed, gone, file>>

StackLast == at["stack"] = "last" /\ WakeUp("stack", "join") /\ UNCHANGED done

StackJoin ==
  /\ at["stack"] = "join" /\ lat = "end" /\ Goes("stack", "closed")
  /\ UNCHANGED <<free, work, w_buffer, text, mutex, state, done, pipe, logt, lines, flushed, gone, file>>

-----------------------------------------------------------------------------
(* ThreadLogMain(): the loop, and after done the final loop, which is the same. *)

LogLock ==
  /\ lat = "lock" /\ mutex = "none" /\ mutex' = "log" /\ Log("locked")
  /\ UNCHANGED <<free, work, w_buffer, text, state, done, pipe, at, lines, flushed, gone, file>>

\* DequeueJobBuffer().  The buffer after NUM_LOG_BUFF others is taken and left.
LogTake ==
  /\ lat = "locked" /\ mutex' = "none"
  /\ IF work = <<>>
     THEN /\ state' = "IDLE_LOGT" /\ UNCHANGED work
          /\ Log(IF final THEN "end" ELSE "idle")
     ELSE /\ work' = Tail(work) /\ UNCHANGED state
          /\ lat' = IF cnt = NUM_LOG_BUFF THEN "drop" ELSE "write"
          /\ lbuf' = Head(work) /\ cnt' = cnt + 1 /\ UNCHANGED final
  /\ UNCHANGED <<free, w_buffer, text, done, pipe, at, lines, flushed, gone, file>>

LogWrite ==
  /\ lat = "write" /\ file' = file \o text[lbuf] /\ Log("free")
  /\ UNCHANGED <<free, work, w_buffer, text, mutex, state, done, pipe, at, lines, flushed, gone>>

\* MUTANT of LogFree: the buffer is not given back.
LogKeep ==
  /\ lat = "free" /\ LogLeaves("lock")
  /\ UNCHANGED <<free, work, w_buffer, text, mutex, state, done, pipe, at, lines, flushed, gone, file>>

\* EnqueueFreeBuffer().
LogFree ==
  /\ lat = "free" /\ free' = Append(free, lbuf)
  /\ LogLeaves("lock")
  /\ UNCHANGED <<work, w_buffer, text, mutex, state, done, pipe, at, lines, flushed, gone, file>>

\* The break of the inner loop.
LogDrop ==
  /\ lat = "drop" /\ gone' = gone \cup {lbuf}
  /\ LogLeaves(IF final THEN "end" ELSE "idle")
  /\ UNCHANGED <<free, work, w_buffer, text, mutex, state, done, pipe, at, lines, flushed, file>>

\* MUTANT of LogTest: no final loop.
LogTestEnds ==
  /\ lat = "idle"
  /\ lat' = IF done THEN "end" ELSE IF state = "IDLE_LOGT" THEN "read" ELSE "lock"
  /\ cnt' = 0 /\ final' = done /\ UNCHANGED lbuf
  /\ UNCHANGED <<free, work, w_buffer, text, mutex, state, done, pipe, at, lines, flushed, gone, file>>

\* while (state == IDLE_LOGT && !done) and while (!done).
LogTest ==
  /\ lat = "idle"
  /\ lat' = IF state = "IDLE_LOGT" /\ ~done THEN "read" ELSE "lock"
  /\ cnt' = 0 /\ final' = done /\ UNCHANGED lbuf
  /\ UNCHANGED <<free, work, w_buffer, text, mutex, state, done, pipe, at, lines, flushed, gone, file>>

LogRead ==
  /\ lat = "read" /\ pipe > 0 /\ pipe' = pipe - 1
  /\ lat' = "lock" /\ final' = done /\ UNCHANGED <<lbuf, cnt>>
  /\ UNCHANGED <<free, work, w_buffer, text, mutex, state, done, at, lines, flushed, gone, file>>

-----------------------------------------------------------------------------
Prints(p) == PrintFull(p) \/ PrintWake(p) \/ PrintTake(p) \/ PrintPut(p)
StackEnds == StackWake \/ StackDone \/ StackLast \/ StackJoin
LogThread == LogLock \/ LogTake \/ LogWrite \/ LogFree \/ LogDrop \/ LogTest \/ LogRead

LogNext ==
  \/ \E p \in Printer : PrintLock(p) \/ Prints(p)
  \/ StackFlush \/ StackEnds \/ LogThread

LogSpec == LogInit /\ [][LogNext]_logvars

\* The threads run.  The log thread gets the mutex in the end although the others
\* take it again and again.
LogFairSpec ==
  /\ LogSpec /\ WF_logvars(StackEnds) /\ WF_logvars(LogThread) /\ SF_logvars(LogLock)
  /\ \A p \in Printer : WF_logvars(Prints(p))

-----------------------------------------------------------------------------
\* Types and bounds; no buffer ever holds more than LOG_BUFF_SIZE.
LogTypeOK ==
  /\ free \in Seq(Buffer) /\ work \in Seq(Buffer) /\ w_buffer \in 0..NUM_LOG_BUFF
  /\ mutex \in Printer \cup {"log", "none"} /\ pipe \in 0..PipeSize
  /\ \A b \in Buffer : Len(text[b]) <= Fill
  /\ cnt \in 0..(NUM_LOG_BUFF + 1) /\ lbuf \in 0..NUM_LOG_BUFF
  /\ lines \in 0..MaxLines /\ Len(file) <= lines

\* The buffer lines go to; between EnqueueJobBuffer() and DequeueFreeBuffer()
\* mtcp->w_buffer still names one that was handed over.
Filling ==
  IF \E p \in Printer : at[p] \in {"wake", "take"} \/ at["stack"] \in {"awake", "done", "last", "join", "closed"}
  THEN {} ELSE {w_buffer} \ {0}

\* Every buffer is in one place and in one place only, however the two mutexes and
\* the unlocked flush interleave: what keeps free_buff_cnt + job_buff_cnt, which the
\* assertions of logger.c compare with NUM_LOG_BUFF, within it.
OnePlace ==
  LET holds == <<Range(free), Range(work), Filling, {lbuf} \ {0}, gone>>
  IN /\ IsInjective(free) /\ IsInjective(work)
     /\ \A i, j \in DOMAIN holds : i # j => holds[i] \cap holds[j] = {}
     /\ UNION Range(holds) = Buffer

\* The log file has the lines in the order they were printed, and all of them up to
\* the last as long as no buffer was lost.
InOrder ==
  /\ \A i \in 1..(Len(file) - 1) : file[i] < file[i + 1]
  /\ gone = {} => \A i \in DOMAIN file : file[i] = i

\* No wake-up is lost: the log thread does not sleep in read() with a buffer to
\* write unless somebody is about to write to the pipe.
LogWoken ==
  lat = "read" /\ pipe = 0 /\ work # <<>> =>
    \E p \in Printer : at[p] \in {"wake", "awake"}

\* What was printed before the main loop ended is in the file when mtcp_free_context()
\* closes it, if no buffer was lost.
WrittenAtEnd == at["stack"] = "closed" /\ gone = {} => Len(file) >= flushed

\* LIVENESS: pthread_join() on the log thread returns.
Joins == at["stack"] = "done" ~> at["stack"] = "closed"

\* "handle every jobs in job buffer": no line is missing between two of the file.
EveryJob == \A i \in DOMAIN file : file[i] = i

\* "flush logs": the same without the condition.
Flushed == at["stack"] = "closed" => Len(file) >= flushed

\* A thread that waits for a free buffer gets one.
GetsBuffer == \A p \in Printer : at[p] = "take" ~> at[p] = "put"

\* The logger as a whole: every buffer is in one place, the file has the lines in
\* order, the log thread is woken, and at the end the file has all of them.
LogKept == LogTypeOK /\ OnePlace /\ InOrder /\ LogWoken /\ WrittenAtEnd
=============================================================================
