---------------------------- MODULE ThreadsProofs ----------------------------
(***************************************************************************)
(* Proofs about what the threads of mTCP share: the ring of                *)
(* tcp_stream_queue.c implements a first-in first-out queue, and the log   *)
(* keeps its buffers and its lines, for any number of threads, streams,    *)
(* buffers and lines.                                                      *)
(***************************************************************************)
EXTENDS StreamQueue, Logger, TLAPS

LEMMA SameSeq ==
  ASSUME NEW S, NEW s \in Seq(S), NEW t \in Seq(S), Len(s) = Len(t),
         \A i \in 1..Len(s) : s[i] = t[i]
  PROVE  s = t
OBVIOUS

LEMMA AppendFacts ==
  ASSUME NEW S, NEW s \in Seq(S), NEW e \in S
  PROVE  /\ Append(s, e) \in Seq(S) /\ Len(Append(s, e)) = Len(s) + 1
         /\ \A i \in 1..Len(s) : Append(s, e)[i] = s[i]
         /\ Append(s, e)[Len(s) + 1] = e
OBVIOUS

LEMMA TailFacts ==
  ASSUME NEW S, NEW s \in Seq(S), s # <<>>
  PROVE  /\ Head(s) \in S /\ Tail(s) \in Seq(S) /\ Len(Tail(s)) = Len(s) - 1
         /\ \A i \in 1..(Len(s) - 1) : Tail(s)[i] = s[i + 1]
OBVIOUS

LEMMA LenIs ==
  ASSUME NEW S, NEW s \in Seq(S)
  PROVE  /\ Len(s) \in Nat /\ (s = <<>> <=> Len(s) = 0)
         /\ s # <<>> => 1 \in 1..Len(s) /\ Len(s) \in 1..Len(s)
OBVIOUS

LEMMA EmptyIs == ASSUME NEW S, NEW s \in Seq(S), Len(s) = 0 PROVE s = <<>>
OBVIOUS

-----------------------------------------------------------------------------
(* The ring: what it holds is a queue. *)

\* What the locals of the two threads know while the other one moves.
RingInv ==
  /\ TypeOK
  /\ \A i \in 1..Size : q[Slot(i)] \in Stream
  /\ ppc # "idle" => pt = tail /\ pstream \in Stream /\ Size < Cap
  /\ ppc = "publish" => q[tail] = pstream
  /\ cpc # "idle" => ch = head /\ Size > 0
  /\ cpc = "advance" => cstream = q[head]

\* The arithmetic of the ring: Size and the slots.
LEMMA RingArith ==
  ASSUME head \in Index, tail \in Index
  PROVE  /\ Size \in 0..Cap
         /\ (Size = 0) <=> (head = tail)
         /\ (Size < Cap) <=> HasRoom(tail)
         /\ Slot(1) = head /\ Slot(Size + 1) = tail
         /\ \A i \in 1..Size : Slot(i) \in Index /\ Slot(i) # tail
BY QueueAssumption DEF Index, Size, Slot, HasRoom, NextIndex

\* Moving the tail on adds one slot at the end.
LEMMA TailMoves ==
  ASSUME head \in Index, tail \in Index, HasRoom(tail), head' = head,
         tail' = NextIndex(tail)
  PROVE  /\ tail' \in Index /\ Size' = Size + 1
         /\ \A i \in 1..(Size + 1) : Slot(i)' = Slot(i)
BY QueueAssumption DEF Index, Size, Slot, HasRoom, NextIndex

\* Moving the head on drops the first slot.
LEMMA HeadMoves ==
  ASSUME head \in Index, tail \in Index, head # tail, tail' = tail,
         head' = NextIndex(head)
  PROVE  /\ head' \in Index /\ Size' = Size - 1
         /\ \A i \in 1..(Size - 1) : Slot(i)' = Slot(i + 1)
BY QueueAssumption DEF Index, Size, Slot, NextIndex

\* Every step keeps the ring's invariant.
LEMMA RingStep ==
  ASSUME RingInv, [Next]_vars
  PROVE  RingInv'
<1> USE DEF RingInv, prodVars, consVars
<1>1. Size \in 0..Cap /\ \A i \in 1..Size : Slot(i) \in Index /\ Slot(i) # tail
  BY RingArith DEF TypeOK
<1>2. ASSUME UNCHANGED <<head, tail>>
      PROVE  Size' = Size /\ \A i \in 1..Size : Slot(i)' = Slot(i)
  BY <1>2 DEF Size, Slot
<1>3. ASSUME NEW s \in Stream, EnqLoad(s) PROVE RingInv'
  BY <1>1, <1>2, <1>3, RingArith DEF EnqLoad, TypeOK
<1>4. CASE EnqFull
  BY <1>1, <1>2, <1>4 DEF EnqFull, TypeOK
<1>5. CASE EnqStore
  <2>1. \A i \in Index : q'[i] = IF i = tail THEN pstream ELSE q[i]
    BY <1>5 DEF EnqStore, TypeOK
  <2>2. TypeOK'
    BY <1>5 DEF EnqStore, TypeOK
  <2>3. cpc # "idle" => head # tail
    BY RingArith DEF TypeOK
  <2> QED BY <1>1, <1>2, <1>5, <2>1, <2>2, <2>3 DEF EnqStore, TypeOK
<1>6. CASE EnqPublish
  <2>1. /\ tail' \in Index /\ Size' = Size + 1
        /\ \A i \in 1..(Size + 1) : Slot(i)' = Slot(i)
    BY <1>6, RingArith, TailMoves DEF EnqPublish, TypeOK
  <2>2. Slot(Size + 1) = tail
    BY RingArith DEF TypeOK
  <2>3. TypeOK'
    BY <1>6, <2>1 DEF EnqPublish, TypeOK
  <2>4. \A i \in 1..Size' : q'[Slot(i)'] \in Stream
    <3> SUFFICES ASSUME NEW i \in 1..(Size + 1) PROVE q[Slot(i)] \in Stream
      BY <1>6, <2>1 DEF EnqPublish
    <3>1. CASE i = Size + 1
      BY <1>6, <3>1, <2>2 DEF EnqPublish
    <3>2. CASE i \in 1..Size
      BY <3>2
    <3> QED BY <1>1, <3>1, <3>2
  <2> QED BY <1>1, <1>6, <2>1, <2>3, <2>4 DEF EnqPublish
<1>7. CASE DeqLoad
  BY <1>1, <1>2, <1>7, RingArith DEF DeqLoad, TypeOK
<1>8. CASE DeqEmpty
  BY <1>1, <1>2, <1>8 DEF DeqEmpty, TypeOK
<1>9. CASE DeqRead
  BY <1>1, <1>2, <1>9 DEF DeqRead, TypeOK
<1>10. CASE DeqAdvance
  <2>1. /\ head' \in Index /\ Size' = Size - 1
        /\ \A i \in 1..(Size - 1) : Slot(i)' = Slot(i + 1)
    BY <1>10, RingArith, HeadMoves DEF DeqAdvance, TypeOK
  <2>2. TypeOK'
    BY <1>10, <2>1 DEF DeqAdvance, TypeOK
  <2>3. \A i \in 1..Size' : q'[Slot(i)'] \in Stream
    BY <1>1, <1>10, <2>1 DEF DeqAdvance
  <2> QED BY <1>1, <1>10, <2>1, <2>2, <2>3, QueueAssumption DEF DeqAdvance
<1>11. CASE UNCHANGED vars
  BY <1>1, <1>2, <1>11 DEF vars, TypeOK
<1> QED BY <1>3, <1>4, <1>5, <1>6, <1>7, <1>8, <1>9, <1>10, <1>11
     DEF Next, Enqueue, Dequeue

\* The ring's invariant holds in every state.
THEOREM RingInvariance == Spec => []RingInv
<1>1. Init => RingInv
  BY QueueAssumption DEF Init, RingInv, TypeOK, Index, Size
<1> QED BY <1>1, RingStep, PTL DEF Spec

\* Indices, slots and locals keep their types for every capacity.
THEOREM RingTyped == Spec => []TypeOK
BY RingInvariance, PTL DEF RingInv

\* assert(stream) in StreamDequeue() holds for every capacity.
THEOREM StreamNotNullHolds == Spec => []StreamNotNull
<1>1. RingInv => StreamNotNull
  BY RingArith DEF RingInv, TypeOK, StreamNotNull
<1> QED BY <1>1, RingInvariance, PTL

-----------------------------------------------------------------------------
(* Refinement.                                                             *)

\* What the streams between head and tail are as a sequence.
LEMMA ContentsSeq ==
  ASSUME RingInv
  PROVE  Contents \in Seq(Stream) /\ Len(Contents) = Size
<1>1. Size \in Nat
  BY RingArith, QueueAssumption DEF RingInv, TypeOK
<1>2. Contents \in [1..Size -> Stream]
  BY DEF RingInv, Contents
<1> QED BY <1>1, <1>2

\* Every step of the two threads is a step of the queue, or invisible.
LEMMA StepSimulation ==
  ASSUME RingInv, RingInv', [Next]_vars
  PROVE  [Fifo!Next]_<<Contents, eret, dret>>
<1> USE DEF prodVars, consVars
<1>0. Size \in 0..Cap /\ Cap \in Nat
  BY RingArith, QueueAssumption DEF RingInv, TypeOK
<1>1. Contents \in Seq(Stream) /\ Len(Contents) = Size
  BY ContentsSeq
<1>2. Contents' \in Seq(Stream) /\ Len(Contents') = Size'
  <2>1. Size' \in Nat
    <3>1. head' \in Index /\ tail' \in Index
      BY DEF RingInv, TypeOK
    <3>2. \A h, t \in 0..Cap :
            (IF h <= t THEN t - h ELSE t + Cap + 1 - h) \in Nat
      BY QueueAssumption
    <3> QED BY <3>1, <3>2, Zenon DEF Size, Index
  <2>2. Contents' \in [1..Size' -> Stream]
    BY DEF RingInv, Contents
  <2> QED BY <2>1, <2>2
<1>3. ASSUME UNCHANGED <<q, head, tail>> PROVE Contents' = Contents
  BY <1>3 DEF Contents, Size, Slot
<1>4. ASSUME NEW s \in Stream, EnqLoad(s) PROVE UNCHANGED <<Contents, eret, dret>>
  BY <1>3, <1>4 DEF EnqLoad
<1>5. CASE EnqFull
  BY <1>0, <1>1, <1>3, <1>5, RingArith
  DEF EnqFull, RingInv, TypeOK, Fifo!Next, Fifo!Full
<1>6. CASE EnqStore
  <2>1. Size' = Size /\ \A i \in 1..Size : Slot(i)' = Slot(i)
    BY <1>6 DEF EnqStore, Size, Slot
  <2>2. \A i \in 1..Size : q'[Slot(i)] = q[Slot(i)]
    BY <1>6, RingArith DEF EnqStore, RingInv, TypeOK
  <2>3. Contents' = Contents
    BY <2>1, <2>2 DEF Contents
  <2> QED BY <1>6, <2>3 DEF EnqStore
<1>7. CASE EnqPublish
  <2>1. Size' = Size + 1 /\ \A i \in 1..(Size + 1) : Slot(i)' = Slot(i)
    BY <1>7, RingArith, TailMoves DEF EnqPublish, RingInv, TypeOK
  <2>2. \A i \in 1..Size : Contents'[i] = Contents[i]
    BY <1>0, <1>7, <2>1 DEF EnqPublish, Contents
  <2>3. Contents'[Size + 1] = pstream
    <3>1. Slot(Size + 1) = tail
      BY RingArith DEF RingInv, TypeOK
    <3> QED BY <1>0, <1>7, <2>1, <3>1 DEF EnqPublish, Contents, RingInv
  <2>4. pstream \in Stream
    BY <1>7 DEF EnqPublish, RingInv
  <2>5. Contents' = Append(Contents, pstream)
    BY <1>0, <1>1, <1>2, <2>1, <2>2, <2>3, <2>4, AppendFacts, SameSeq
  <2>6. Size < Cap
    BY <1>7 DEF EnqPublish, RingInv
  <2>7. Fifo!Put(pstream)
    BY <1>1, <1>7, <2>5, <2>6 DEF EnqPublish, Fifo!Put
  <2> QED BY <2>4, <2>7 DEF Fifo!Next
<1>8. CASE DeqLoad
  BY <1>3, <1>8 DEF DeqLoad
<1>9. CASE DeqEmpty
  <2>1. Contents = <<>>
    BY <1>1, <1>9, RingArith, EmptyIs DEF DeqEmpty, RingInv, TypeOK
  <2> QED BY <1>3, <1>9, <2>1 DEF DeqEmpty, Fifo!Next, Fifo!Empty
<1>10. CASE DeqRead
  BY <1>3, <1>10 DEF DeqRead
<1>11. CASE DeqAdvance
  <2>1. Size > 0
    BY <1>11 DEF DeqAdvance, RingInv
  <2>2. Size' = Size - 1 /\ \A i \in 1..(Size - 1) : Slot(i)' = Slot(i + 1)
    BY <1>11, <2>1, RingArith, HeadMoves DEF DeqAdvance, RingInv, TypeOK
  <2>3. Contents # <<>>
    BY <1>1, <2>1
  <2>4. \A i \in 1..(Size - 1) : Contents'[i] = Contents[i + 1]
    BY <1>0, <1>11, <2>2 DEF DeqAdvance, Contents
  <2>5. Contents' = Tail(Contents)
    BY <1>0, <1>1, <1>2, <2>1, <2>2, <2>3, <2>4, TailFacts, SameSeq
  <2>6. Contents[1] = q[head]
    BY <1>0, <2>1, RingArith DEF Contents, RingInv, TypeOK
  <2>7. dret' = Head(Contents)
    BY <1>1, <1>11, <2>3, <2>6 DEF DeqAdvance, RingInv
  <2> QED BY <1>11, <2>3, <2>5, <2>7 DEF DeqAdvance, Fifo!Next, Fifo!Take
<1>12. CASE UNCHANGED vars
  BY <1>3, <1>12 DEF vars
<1> QED BY <1>4, <1>5, <1>6, <1>7, <1>8, <1>9, <1>10, <1>11, <1>12
     DEF Next, Enqueue, Dequeue

\* The ring implements a first-in first-out queue, whatever its capacity and
\* however the steps of the two threads interleave.
THEOREM RingIsFifo == Spec => IsFifo
<1>1. Init => Fifo!Init
  <2> SUFFICES ASSUME Init PROVE Contents = <<>>
    BY DEF Init, Fifo!Init
  <2>1. Size = 0
    BY DEF Init, Size
  <2> QED BY <2>1 DEF Contents
<1>2. RingInv /\ RingInv' /\ [Next]_vars => [Fifo!Next]_<<Contents, eret, dret>>
  BY StepSimulation
<1> QED BY <1>1, <1>2, RingInvariance, PTL DEF Spec, IsFifo, Fifo!Spec

-----------------------------------------------------------------------------
(* The log. *)

InPrintf == {"full", "wake", "take", "put"}
AtEnd == {"awake", "done", "last", "join", "closed"}
LogAt == {"lock", "locked", "write", "free", "drop", "idle", "read", "end"}

\* Types of the buffers and of the threads.
BufferTypes ==
  /\ free \in Seq(Buffer) /\ work \in Seq(Buffer) /\ w_buffer \in 0..NUM_LOG_BUFF
  /\ text \in [Buffer -> Seq(Nat)] /\ \A b \in Buffer : Len(text[b]) <= Fill
  /\ lines \in 0..MaxLines /\ flushed \in 0..MaxLines
  /\ gone \subseteq Buffer /\ file \in Seq(Nat)

ThreadTypes ==
  /\ mutex \in Printer \cup {"log", "none"} /\ state \in {"IDLE_LOGT", "ACTIVE_LOGT"}
  /\ done \in BOOLEAN /\ pipe \in 0..PipeSize /\ lat \in LogAt
  /\ lbuf \in 0..NUM_LOG_BUFF /\ cnt \in 0..(NUM_LOG_BUFF + 1) /\ final \in BOOLEAN
  /\ at \in [Printer -> {"idle"} \cup InPrintf \cup AtEnd]

\* Who holds ctx->mutex is where it shows, and nobody prints once the stack has ended.
Held ==
  /\ \A p \in Printer : at[p] \in InPrintf <=> mutex = p
  /\ lat = "locked" <=> mutex = "log"
  /\ \A p \in Apps : at[p] \notin AtEnd
  /\ at["stack"] \in AtEnd => \A p \in Apps : at[p] = "idle"

\* The buffer that lines go to.
Current ==
  /\ \A p \in Printer :
       /\ at[p] \in {"full", "put"} => w_buffer # 0
       /\ at[p] = "full" => Len(text[w_buffer]) = Fill
       /\ at[p] = "put" => Len(text[w_buffer]) < Fill
       /\ at[p] \in InPrintf => lines < MaxLines
  /\ mutex \in {"none", "log"} /\ w_buffer # 0 => Len(text[w_buffer]) >= 1

\* The log thread and the end of the stack.
Thread ==
  /\ lbuf # 0 <=> lat \in {"write", "free", "drop"}
  /\ lat \in {"lock", "locked", "write", "free"} => cnt <= NUM_LOG_BUFF
  /\ lat = "read" => cnt = 0
  /\ final => done
  /\ done => at["stack"] \in {"last", "join", "closed"}
  /\ lat = "end" => final /\ (gone = {} => work = <<>>)
  /\ at["stack"] = "closed" => lat = "end"
  /\ at["stack"] \in AtEnd => flushed = lines

Control == BufferTypes /\ ThreadTypes /\ Held /\ Current /\ Thread

-----------------------------------------------------------------------------
LEMMA Nums ==
  /\ NUM_LOG_BUFF \in Nat /\ NUM_LOG_BUFF > 0 /\ Fill \in Nat /\ Fill > 0
  /\ PipeSize \in Nat /\ PipeSize > 0 /\ MaxLines \in Nat /\ MaxLines > 0
BY LoggerAssumption

LEMMA Names ==
  /\ "stack" \in Printer /\ "stack" \notin Apps /\ Apps \subseteq Printer
  /\ "log" \notin Printer /\ "none" \notin Printer
  /\ \A p \in Printer : p = "stack" \/ p \in Apps
BY LoggerAssumption DEF Printer

LEMMA BufferIs ==
  /\ \A b \in 0..NUM_LOG_BUFF : b # 0 => b \in Buffer
  /\ \A b \in Buffer : b \in 0..NUM_LOG_BUFF /\ b # 0
BY Nums DEF Buffer

LEMMA TypeOfAppend == ASSUME NEW S, NEW s \in Seq(S), NEW x \in S PROVE Append(s, x) \in Seq(S)
OBVIOUS

LEMMA TypeOfTail ==
  ASSUME NEW S, NEW s \in Seq(S), s # <<>> PROVE Tail(s) \in Seq(S) /\ Head(s) \in S
OBVIOUS

LEMMA TypeOfConcat ==
  ASSUME NEW S, NEW s \in Seq(S), NEW t \in Seq(S) PROVE s \o t \in Seq(S)
OBVIOUS

LEMMA GoesTo ==
  ASSUME ThreadTypes, NEW p \in Printer, NEW to, Goes(p, to)
  PROVE  \A y \in Printer : at'[y] = IF y = p THEN to ELSE at[y]
BY DEF ThreadTypes, Goes

\* Every step keeps the types of the buffers.
LEMMA BufferTypesStep ==
  ASSUME BufferTypes, ThreadTypes, Current, Thread, [LogNext]_logvars
  PROVE  BufferTypes'
<1> USE Nums, BufferIs DEF BufferTypes
<1>1. ASSUME NEW p \in Printer, PrintLock(p) PROVE BufferTypes'
  BY <1>1, Zenon DEF PrintLock
<1>2. ASSUME NEW p \in Printer, PrintFull(p) PROVE BufferTypes'
  <2>1. w_buffer \in Buffer
    BY <1>2 DEF PrintFull, Current
  <2> QED BY <1>2, <2>1, TypeOfAppend DEF PrintFull, EnqueueJobBuffer
<1>3. ASSUME NEW p \in Printer, PrintWake(p) PROVE BufferTypes'
  BY <1>3 DEF PrintWake, WakeUp
<1>4. ASSUME NEW p \in Printer, PrintTake(p) PROVE BufferTypes'
  <2>1. Head(free) \in Buffer /\ Tail(free) \in Seq(Buffer)
    BY <1>4, TypeOfTail DEF PrintTake
  <2>2. text' \in [Buffer -> Seq(Nat)] /\ \A b \in Buffer : Len(text'[b]) <= Fill
    BY <1>4, <2>1, SMTT(30) DEF PrintTake
  <2> QED BY <1>4, <2>1, <2>2, Zenon DEF PrintTake
<1>5. ASSUME NEW p \in Printer, PrintPut(p) PROVE BufferTypes'
  <2>1. w_buffer \in Buffer /\ Len(text[w_buffer]) < Fill /\ lines + 1 \in 0..MaxLines
    BY <1>5 DEF PrintPut, Current, InPrintf
  <2>2. Append(text[w_buffer], lines + 1) \in Seq(Nat)
    BY <2>1, TypeOfAppend
  <2>3. Len(Append(text[w_buffer], lines + 1)) = Len(text[w_buffer]) + 1
    BY <2>1
  <2>4. text' \in [Buffer -> Seq(Nat)] /\ \A b \in Buffer : Len(text'[b]) <= Fill
    BY <1>5, <2>1, <2>2, <2>3 DEF PrintPut
  <2> QED BY <1>5, <2>1, <2>4 DEF PrintPut
<1>6. CASE StackFlush
  <2>1. w_buffer # 0 => w_buffer \in Buffer
    OBVIOUS
  <2>2. w_buffer # 0 => Append(work, w_buffer) \in Seq(Buffer) /\ <<w_buffer>> \in Seq(Buffer)
    BY <2>1, TypeOfAppend
  <2>3. work' \in Seq(Buffer) /\ gone' \subseteq Buffer
    BY <1>6, <2>1, <2>2, Zenon DEF StackFlush, EnqueueJobBuffer
  <2> QED BY <1>6, <2>3, Zenon DEF StackFlush, EnqueueJobBuffer
<1>7. CASE StackWake
  BY <1>7 DEF StackWake, WakeUp
<1>8. CASE StackDone
  BY <1>8 DEF StackDone
<1>9. CASE StackLast
  BY <1>9 DEF StackLast, WakeUp
<1>10. CASE StackJoin
  BY <1>10 DEF StackJoin
<1>11. CASE LogLock
  BY <1>11 DEF LogLock
<1>12. CASE LogTake
  <2>1. work # <<>> => Tail(work) \in Seq(Buffer)
    BY TypeOfTail
  <2> QED BY <1>12, <2>1, Zenon DEF LogTake
<1>13. CASE LogWrite
  <2>1. text[lbuf] \in Seq(Nat)
    BY <1>13 DEF LogWrite, Thread, ThreadTypes
  <2> QED BY <1>13, <2>1, TypeOfConcat DEF LogWrite
<1>14. CASE LogFree
  <2>1. lbuf \in Buffer
    BY <1>14 DEF LogFree, Thread, ThreadTypes
  <2> QED BY <1>14, <2>1, TypeOfAppend DEF LogFree
<1>15. CASE LogDrop
  <2>1. lbuf \in Buffer
    BY <1>15 DEF LogDrop, Thread, ThreadTypes
  <2> QED BY <1>15, <2>1 DEF LogDrop
<1>16. CASE LogTest
  BY <1>16 DEF LogTest
<1>17. CASE LogRead
  BY <1>17 DEF LogRead
<1>18. CASE UNCHANGED logvars
  BY <1>18, Zenon DEF logvars
<1> QED BY <1>1, <1>2, <1>3, <1>4, <1>5, <1>6, <1>7, <1>8, <1>9,
           <1>10, <1>11, <1>12, <1>13, <1>14, <1>15, <1>16, <1>17, <1>18, Zenon
        DEF LogNext, Prints, StackEnds, LogThread

\* Every step keeps the types of the threads.
LEMMA ThreadTypesStep ==
  ASSUME BufferTypes, ThreadTypes, Thread, [LogNext]_logvars
  PROVE  ThreadTypes'
<1> USE Nums, BufferIs, Names DEF ThreadTypes, InPrintf, AtEnd, LogAt
<1>1. ASSUME NEW p \in Printer, PrintLock(p) PROVE ThreadTypes'
  BY <1>1 DEF PrintLock, Goes, logt
<1>2. ASSUME NEW p \in Printer, PrintFull(p) PROVE ThreadTypes'
  BY <1>2 DEF PrintFull, EnqueueJobBuffer, Goes, logt
<1>3. ASSUME NEW p \in Printer, PrintWake(p) PROVE ThreadTypes'
  BY <1>3 DEF PrintWake, WakeUp, Goes, logt
<1>4. ASSUME NEW p \in Printer, PrintTake(p) PROVE ThreadTypes'
  BY <1>4 DEF PrintTake, Goes, logt
<1>5. ASSUME NEW p \in Printer, PrintPut(p) PROVE ThreadTypes'
  BY <1>5 DEF PrintPut, Goes, logt
<1>6. CASE StackFlush
  BY <1>6 DEF StackFlush, EnqueueJobBuffer, Goes, Log, logt
<1>7. CASE StackWake
  BY <1>7 DEF StackWake, WakeUp, Goes, logt
<1>8. CASE StackDone
  BY <1>8 DEF StackDone, Goes, logt
<1>9. CASE StackLast
  BY <1>9 DEF StackLast, WakeUp, Goes, logt
<1>10. CASE StackJoin
  BY <1>10 DEF StackJoin, Goes, logt
<1>11. CASE LogLock
  BY <1>11 DEF LogLock, Log, logt
<1>12. CASE LogTake
  <2>0. work # <<>> => Head(work) \in Buffer
    BY TypeOfTail DEF BufferTypes
  <2> QED BY <1>12, <2>0 DEF LogTake, Log, logt, Thread
<1>13. CASE LogWrite
  BY <1>13 DEF LogWrite, Log, logt
<1>14. CASE LogFree
  BY <1>14 DEF LogFree, LogLeaves, logt
<1>15. CASE LogDrop
  BY <1>15 DEF LogDrop, LogLeaves, logt
<1>16. CASE LogTest
  BY <1>16 DEF LogTest, logt
<1>17. CASE LogRead
  BY <1>17 DEF LogRead, logt
<1>18. CASE UNCHANGED logvars
  BY <1>18 DEF logvars, logt
<1> QED BY <1>1, <1>2, <1>3, <1>4, <1>5, <1>6, <1>7, <1>8, <1>9,
           <1>10, <1>11, <1>12, <1>13, <1>14, <1>15, <1>16, <1>17, <1>18, Zenon
        DEF LogNext, Prints, StackEnds, LogThread

\* Every step keeps who holds the mutex.
LEMMA HeldStep ==
  ASSUME ThreadTypes, Held, [LogNext]_logvars
  PROVE  Held'
<1> USE Names DEF ThreadTypes, Held, InPrintf, AtEnd
<1>1. ASSUME NEW p \in Printer, PrintLock(p) PROVE Held'
  BY <1>1 DEF PrintLock, Goes, logt
<1>2. ASSUME NEW p \in Printer, PrintFull(p) PROVE Held'
  BY <1>2 DEF PrintFull, EnqueueJobBuffer, Goes, logt
<1>3. ASSUME NEW p \in Printer, PrintWake(p) PROVE Held'
  BY <1>3 DEF PrintWake, WakeUp, Goes, logt
<1>4. ASSUME NEW p \in Printer, PrintTake(p) PROVE Held'
  BY <1>4 DEF PrintTake, Goes, logt
<1>5. ASSUME NEW p \in Printer, PrintPut(p) PROVE Held'
  BY <1>5 DEF PrintPut, Goes, logt
<1>6. CASE StackFlush
  <2>2. \A p \in Printer : at'[p] = IF p = "stack" THEN (IF w_buffer = 0 THEN "done" ELSE "awake") ELSE at[p]
    BY <1>6, GoesTo DEF StackFlush
  <2> QED BY <1>6, <2>2 DEF StackFlush, Calm, EnqueueJobBuffer, Log, logt
<1>7. CASE StackWake
  BY <1>7 DEF StackWake, WakeUp, Goes, logt
<1>8. CASE StackDone
  BY <1>8 DEF StackDone, Goes, logt
<1>9. CASE StackLast
  BY <1>9 DEF StackLast, WakeUp, Goes, logt
<1>10. CASE StackJoin
  BY <1>10 DEF StackJoin, Goes, logt
<1>11. CASE LogLock
  BY <1>11 DEF LogLock, Log, logt
<1>12. CASE LogTake
  BY <1>12 DEF LogTake, Log, logt
<1>13. CASE LogWrite
  BY <1>13 DEF LogWrite, Log, logt
<1>14. CASE LogFree
  BY <1>14 DEF LogFree, LogLeaves, logt
<1>15. CASE LogDrop
  BY <1>15 DEF LogDrop, LogLeaves, logt
<1>16. CASE LogTest
  BY <1>16 DEF LogTest, logt
<1>17. CASE LogRead
  BY <1>17 DEF LogRead, logt
<1>18. CASE UNCHANGED logvars
  BY <1>18 DEF logvars, logt
<1> QED BY <1>1, <1>2, <1>3, <1>4, <1>5, <1>6, <1>7, <1>8, <1>9,
           <1>10, <1>11, <1>12, <1>13, <1>14, <1>15, <1>16, <1>17, <1>18, Zenon
        DEF LogNext, Prints, StackEnds, LogThread

\* Every step keeps what is known of the buffer that lines go to.
LEMMA CurrentStep ==
  ASSUME BufferTypes, ThreadTypes, Held, Current, [LogNext]_logvars
  PROVE  Current'
<1> USE Nums, Names, BufferIs DEF BufferTypes, ThreadTypes, Held, Current, InPrintf, AtEnd
<1>1. ASSUME NEW p \in Printer, PrintLock(p) PROVE Current'
  BY <1>1 DEF PrintLock, Goes, logt
<1>2. ASSUME NEW p \in Printer, PrintFull(p) PROVE Current'
  BY <1>2 DEF PrintFull, EnqueueJobBuffer, Goes, logt
<1>3. ASSUME NEW p \in Printer, PrintWake(p) PROVE Current'
  BY <1>3 DEF PrintWake, WakeUp, Goes, logt
<1>4. ASSUME NEW p \in Printer, PrintTake(p) PROVE Current'
  BY <1>4, SMTT(30) DEF PrintTake, Goes, logt
<1>5. ASSUME NEW p \in Printer, PrintPut(p) PROVE Current'
  BY <1>5, SMTT(30) DEF PrintPut, Goes, logt
<1>6. CASE StackFlush
  <2>1. UNCHANGED <<w_buffer, text, lines>> /\ mutex \in {"none", "log"} /\ mutex' \in {"none", "log"}
    BY <1>6, Zenon DEF StackFlush, Calm
  <2>2. \A p \in Printer : at'[p] \in {"idle", "awake", "done"}
    BY <1>6, GoesTo, SMTT(30) DEF StackFlush, Calm
  <2> QED BY <2>1, <2>2, Zenon
<1>7. CASE StackWake
  BY <1>7 DEF StackWake, WakeUp, Goes, logt
<1>8. CASE StackDone
  BY <1>8 DEF StackDone, Goes, logt
<1>9. CASE StackLast
  BY <1>9, Zenon DEF StackLast, WakeUp, Goes, logt
<1>10. CASE StackJoin
  BY <1>10 DEF StackJoin, Goes, logt
<1>11. CASE LogLock
  BY <1>11 DEF LogLock, Log, logt
<1>12. CASE LogTake
  BY <1>12 DEF LogTake, Log, logt
<1>13. CASE LogWrite
  BY <1>13 DEF LogWrite, Log, logt
<1>14. CASE LogFree
  BY <1>14 DEF LogFree, LogLeaves, logt
<1>15. CASE LogDrop
  BY <1>15, Zenon DEF LogDrop, LogLeaves, logt
<1>16. CASE LogTest
  BY <1>16 DEF LogTest, logt
<1>17. CASE LogRead
  BY <1>17, Zenon DEF LogRead, logt
<1>18. CASE UNCHANGED logvars
  BY <1>18 DEF logvars, logt
<1> QED BY <1>1, <1>2, <1>3, <1>4, <1>5, <1>6, <1>7, <1>8, <1>9,
           <1>10, <1>11, <1>12, <1>13, <1>14, <1>15, <1>16, <1>17, <1>18, Zenon
        DEF LogNext, Prints, StackEnds, LogThread

\* Every step keeps what is known of the log thread.
LEMMA ThreadStep ==
  ASSUME BufferTypes, ThreadTypes, Held, Thread, [LogNext]_logvars
  PROVE  Thread'
<1> USE Nums, Names, BufferIs DEF BufferTypes, ThreadTypes, Held, Thread, InPrintf, AtEnd
<1>1. ASSUME NEW p \in Printer, PrintLock(p) PROVE Thread'
  BY <1>1, SMTT(30) DEF PrintLock, Goes, logt
<1>2. ASSUME NEW p \in Printer, PrintFull(p) PROVE Thread'
  BY <1>2, SMTT(30) DEF PrintFull, EnqueueJobBuffer, Goes, logt
<1>3. ASSUME NEW p \in Printer, PrintWake(p) PROVE Thread'
  BY <1>3, SMTT(30) DEF PrintWake, WakeUp, Goes, logt
<1>4. ASSUME NEW p \in Printer, PrintTake(p) PROVE Thread'
  BY <1>4, SMTT(30) DEF PrintTake, Goes, logt
<1>5. ASSUME NEW p \in Printer, PrintPut(p) PROVE Thread'
  BY <1>5, SMTT(30) DEF PrintPut, Goes, logt
<1>6. CASE StackFlush
  <2>2. \A p \in Printer : at'[p] = IF p = "stack" THEN (IF w_buffer = 0 THEN "done" ELSE "awake") ELSE at[p]
    BY <1>6, GoesTo, SMTT(30) DEF StackFlush
  <2> QED BY <1>6, <2>2, Zenon DEF StackFlush, Calm, EnqueueJobBuffer, Log, logt
<1>7. CASE StackWake
  BY <1>7 DEF StackWake, WakeUp, Goes, logt
<1>8. CASE StackDone
  BY <1>8, SMTT(30) DEF StackDone, Goes, logt
<1>9. CASE StackLast
  BY <1>9, Zenon DEF StackLast, WakeUp, Goes, logt
<1>10. CASE StackJoin
  BY <1>10, Zenon DEF StackJoin, Goes, logt
<1>11. CASE LogLock
  BY <1>11, Zenon DEF LogLock, Log, logt
<1>12. CASE LogTake
  <2>0. work # <<>> => Head(work) \in Buffer
    BY TypeOfTail
  <2> QED BY <1>12, <2>0, SMTT(30) DEF LogTake, Log, logt
<1>13. CASE LogWrite
  BY <1>13 DEF LogWrite, Log, logt
<1>14. CASE LogFree
  BY <1>14 DEF LogFree, LogLeaves, logt
<1>15. CASE LogDrop
  BY <1>15, Zenon DEF LogDrop, LogLeaves, logt
<1>16. CASE LogTest
  BY <1>16, SMTT(30) DEF LogTest, logt
<1>17. CASE LogRead
  BY <1>17 DEF LogRead, logt
<1>18. CASE UNCHANGED logvars
  BY <1>18, Zenon DEF logvars, logt
<1> QED BY <1>1, <1>2, <1>3, <1>4, <1>5, <1>6, <1>7, <1>8, <1>9,
           <1>10, <1>11, <1>12, <1>13, <1>14, <1>15, <1>16, <1>17, <1>18, Zenon
        DEF LogNext, Prints, StackEnds, LogThread

-----------------------------------------------------------------------------
(* Every buffer is in one place. *)

\* The places of a buffer, apart from each other.
Apart(f, w, c, l, g) ==
  /\ f \cap w = {} /\ f \cap c = {} /\ f \cap l = {} /\ f \cap g = {}
  /\ w \cap c = {} /\ w \cap l = {} /\ w \cap g = {}
  /\ c \cap l = {} /\ c \cap g = {} /\ l \cap g = {}
  /\ f \cup w \cup c \cup l \cup g = Buffer

\* Five sets that do not meet, pair by pair.
LEMMA FiveApart ==
  ASSUME NEW h
  PROVE  (\A i, j \in {1, 2, 3, 4, 5} : i # j => h[i] \cap h[j] = {}) <=>
         /\ h[1] \cap h[2] = {} /\ h[1] \cap h[3] = {} /\ h[1] \cap h[4] = {} /\ h[1] \cap h[5] = {}
         /\ h[2] \cap h[3] = {} /\ h[2] \cap h[4] = {} /\ h[2] \cap h[5] = {}
         /\ h[3] \cap h[4] = {} /\ h[3] \cap h[5] = {} /\ h[4] \cap h[5] = {}
OBVIOUS

LEMMA OnePlaceIs ==
  OnePlace <=> /\ IsInjective(free) /\ IsInjective(work)
               /\ Apart(Range(free), Range(work), Filling, {lbuf} \ {0}, gone)
<1> DEFINE h == <<Range(free), Range(work), Filling, {lbuf} \ {0}, gone>>
<1>1. /\ DOMAIN h = 1..5 /\ h[1] = Range(free) /\ h[2] = Range(work) /\ h[3] = Filling
      /\ h[4] = {lbuf} \ {0} /\ h[5] = gone
  OBVIOUS
<1>2. OnePlace <=> /\ IsInjective(free) /\ IsInjective(work)
                   /\ \A i, j \in DOMAIN h : i # j => h[i] \cap h[j] = {}
                   /\ UNION Range(h) = Buffer
  BY DEF OnePlace
<1> HIDE DEF h
<1>3. UNION Range(h) = h[1] \cup h[2] \cup h[3] \cup h[4] \cup h[5]
  <2>1. Range(h) = {h[1], h[2], h[3], h[4], h[5]}
    BY <1>1, SMTT(30) DEF Range
  <2> QED BY <2>1
<1>4. 1..5 = {1, 2, 3, 4, 5}
  BY SMTT(30)
<1>5. (\A i, j \in DOMAIN h : i # j => h[i] \cap h[j] = {}) <=>
      /\ h[1] \cap h[2] = {} /\ h[1] \cap h[3] = {} /\ h[1] \cap h[4] = {} /\ h[1] \cap h[5] = {}
      /\ h[2] \cap h[3] = {} /\ h[2] \cap h[4] = {} /\ h[2] \cap h[5] = {}
      /\ h[3] \cap h[4] = {} /\ h[3] \cap h[5] = {} /\ h[4] \cap h[5] = {}
  <2>1. DOMAIN h = {1, 2, 3, 4, 5}
    BY <1>1, <1>4, Zenon
  <2> QED BY <2>1, FiveApart
<1> QED BY <1>1, <1>2, <1>3, <1>5 DEF Apart

\* A queue that a buffer is put into, and one that its first is taken from.
LEMMA Enqueued ==
  ASSUME NEW s \in Seq(Buffer), NEW b \in Buffer
  PROVE  /\ Range(Append(s, b)) = Range(s) \cup {b}
         /\ IsInjective(s) /\ b \notin Range(s) => IsInjective(Append(s, b))
<1>1. /\ DOMAIN Append(s, b) = 1..(Len(s) + 1) /\ Append(s, b)[Len(s) + 1] = b
      /\ DOMAIN s = 1..Len(s) /\ Len(s) \in Nat
      /\ \A i \in 1..Len(s) : Append(s, b)[i] = s[i]
  OBVIOUS
<1>2. \A i \in 1..(Len(s) + 1) : i = Len(s) + 1 \/ i \in 1..Len(s)
  BY <1>1
<1>3. Len(s) + 1 \in 1..(Len(s) + 1) /\ \A i \in 1..Len(s) : i \in 1..(Len(s) + 1)
  BY <1>1
<1> HIDE DEF Append
<1> QED BY <1>1, <1>2, <1>3, Zenon DEF Range, IsInjective

LEMMA Dequeued ==
  ASSUME NEW s \in Seq(Buffer), s # <<>>
  PROVE  /\ Range(s) = {Head(s)} \cup Range(Tail(s))
         /\ IsInjective(s) => IsInjective(Tail(s)) /\ Head(s) \notin Range(Tail(s))
<1>1. /\ DOMAIN Tail(s) = 1..(Len(s) - 1) /\ Head(s) = s[1] /\ Len(s) \in Nat /\ Len(s) > 0
      /\ DOMAIN s = 1..Len(s) /\ \A i \in 1..(Len(s) - 1) : Tail(s)[i] = s[i + 1]
  OBVIOUS
<1>2. \A i \in 1..Len(s) : i = 1 \/ (i - 1 \in 1..(Len(s) - 1) /\ s[i] = Tail(s)[i - 1])
  BY <1>1
<1>3. 1 \in 1..Len(s) /\ \A i \in 1..(Len(s) - 1) : i + 1 \in 1..Len(s) /\ i + 1 # 1
  BY <1>1
<1>4. \A i, j \in 1..(Len(s) - 1) : i + 1 = j + 1 => i = j
  BY <1>1
<1>5. Range(s) = {Head(s)} \cup Range(Tail(s))
  <2>1. \A i \in DOMAIN s : s[i] \in {Head(s)} \cup Range(Tail(s))
    BY <1>1, <1>2, Zenon DEF Range
  <2>2. Head(s) \in Range(s) /\ \A i \in DOMAIN Tail(s) : Tail(s)[i] \in Range(s)
    BY <1>1, <1>3 DEF Range
  <2> QED BY <2>1, <2>2, Zenon DEF Range
<1>6. ASSUME IsInjective(s) PROVE IsInjective(Tail(s)) /\ Head(s) \notin Range(Tail(s))
  <2>1. \A i, j \in 1..(Len(s) - 1) : s[i + 1] = s[j + 1] => i = j
    BY <1>1, <1>3, <1>4, <1>6 DEF IsInjective
  <2>2. \A i \in 1..(Len(s) - 1) : s[i + 1] # s[1]
    BY <1>1, <1>3, <1>6 DEF IsInjective
  <2>3. IsInjective(Tail(s))
    BY <1>1, <2>1 DEF IsInjective
  <2>4. Head(s) \notin Range(Tail(s))
    BY <1>1, <2>2 DEF Range
  <2> QED BY <2>3, <2>4
<1> QED BY <1>5, <1>6

\* When the buffer that lines go to is one of the logger's places.
LEMMA StaysAtEnd ==
  ASSUME at["stack"] \in AtEnd, at'["stack"] \in AtEnd
  PROVE  Filling' = Filling
BY Names, Zenon DEF Filling, AtEnd, Printer

LEMMA FillingIs ==
  ASSUME ThreadTypes, Held
  PROVE  /\ \A p \in Printer : at[p] \in {"wake", "take"} => Filling = {}
         /\ at["stack"] \in AtEnd => Filling = {}
         /\ \A p \in Printer : at[p] \in {"full", "put"} => Filling = {w_buffer} \ {0}
         /\ mutex \notin Printer /\ at["stack"] \notin AtEnd => Filling = {w_buffer} \ {0}
BY Names, Zenon DEF Held, Filling, InPrintf, AtEnd

LEMMA LockFilling ==
  ASSUME Control, NEW p \in Printer, PrintLock(p)
  PROVE  Filling' = Filling
<1> DEFINE to == IF w_buffer = 0 THEN "take"
                 ELSE IF Len(text[w_buffer]) = Fill THEN "full" ELSE "put"
<1>1. \A y \in Printer : at[y] \notin {"wake", "take"}
  BY Names, Zenon DEF Control, Held, PrintLock, InPrintf
<1>2. at["stack"] \notin AtEnd /\ w_buffer' = w_buffer /\ Goes(p, to)
  BY DEF PrintLock, AtEnd
<1>3. Filling = {w_buffer} \ {0}
  BY <1>1, <1>2, Zenon DEF Filling, AtEnd
<1>4. \A y \in Printer : at'[y] = IF y = p THEN to ELSE at[y]
  BY <1>2, GoesTo, Zenon DEF Control
<1>5. CASE w_buffer = 0
  <2>1. at'[p] = "take"
    BY <1>4, <1>5
  <2>2. Filling' = {}
    BY <2>1, Zenon DEF Filling, Printer
  <2> QED BY <1>3, <1>5, <2>2
<1>6. CASE w_buffer # 0
  <2>1. to \in {"full", "put"}
    BY <1>6
  <2> HIDE DEF to
  <2>2. \A y \in Printer : at'[y] \notin {"wake", "take"}
    BY <1>1, <1>4, <2>1
  <2>3. at'["stack"] \notin AtEnd
    BY <1>2, <1>4, <2>1, Names DEF AtEnd
  <2>4. Filling' = {w_buffer'} \ {0}
    BY <2>2, <2>3, Zenon DEF Filling, AtEnd, Printer
  <2> QED BY <1>2, <1>3, <2>4, Zenon
<1> QED BY <1>5, <1>6

LEMMA WakeFilling ==
  ASSUME Control, NEW p \in Printer, PrintWake(p)
  PROVE  Filling' = Filling
BY FillingIs, Names, BufferIs, SMTT(30) DEF Control, Filling, Held, InPrintf, AtEnd, PrintWake, WakeUp, Goes, logt

LEMMA PutFilling ==
  ASSUME Control, NEW p \in Printer, PrintPut(p)
  PROVE  Filling' = Filling
BY FillingIs, Names, BufferIs DEF Control, Filling, Held, InPrintf, AtEnd, PrintPut, Goes, logt

\* Moves of a buffer from one place to the next.
LEMMA Moves ==
  ASSUME NEW f, NEW w, NEW c, NEW l, NEW g, Apart(f, w, c, l, g)
  PROVE  /\ Apart(f, w \cup c, {}, l, g)
         /\ \A b : f = {b} \cup (f \ {b}) /\ c = {} => Apart(f \ {b}, w, {b}, l, g)
         /\ \A b : w = {b} \cup (w \ {b}) /\ l = {} => Apart(f, w \ {b}, c, {b}, g)
         /\ Apart(f \cup l, w, c, {}, g)
         /\ Apart(f, w, c, {}, g \cup l)
         /\ Apart(f, w, {}, l, g \cup c)
BY Zenon DEF Apart

\* What OnePlace says, without its list of places.
Places == /\ IsInjective(free) /\ IsInjective(work)
          /\ Apart(Range(free), Range(work), Filling, {lbuf} \ {0}, gone)

\* Every step keeps every buffer in one place.
LEMMA PlacesStep ==
  ASSUME Control, Control', Places, [LogNext]_logvars
  PROVE  Places'
<1> USE DEF Control
<1>1. ASSUME NEW p \in Printer, PrintLock(p) PROVE Places'
  <2>1. UNCHANGED <<free, work, lbuf, gone>>
    BY <1>1 DEF PrintLock, Goes, logt
  <2>2. Filling' = Filling
    BY <1>1, LockFilling, Zenon
  <2> QED BY <2>1, <2>2, Zenon DEF Places
<1>2. ASSUME NEW p \in Printer, PrintFull(p) PROVE Places'
  <2>1. w_buffer \in Buffer /\ Filling = {w_buffer}
    BY <1>2, FillingIs, BufferIs, Zenon DEF PrintFull, Current, BufferTypes
  <2>2. Filling' = {}
    BY <1>2, GoesTo, Zenon DEF PrintFull, Filling
  <2>3. w_buffer \notin Range(work) /\ work' = Append(work, w_buffer)
    BY <1>2, <2>1 DEF Places, Apart, PrintFull, EnqueueJobBuffer
  <2>4. Range(work') = Range(work) \cup Filling /\ IsInjective(work')
    BY <2>1, <2>3, Enqueued, Zenon DEF Places, BufferTypes
  <2>5. UNCHANGED <<free, lbuf, gone>>
    BY <1>2 DEF PrintFull, logt
  <2>6. Apart(Range(free), Range(work) \cup Filling, {}, {lbuf} \ {0}, gone)
    BY Moves, Zenon DEF Places
  <2> QED BY <2>2, <2>4, <2>5, <2>6 DEF Places
<1>3. ASSUME NEW p \in Printer, PrintWake(p) PROVE Places'
  <2>1. UNCHANGED <<free, work, lbuf, gone>>
    BY <1>3, Zenon DEF PrintWake, WakeUp, Goes, logt
  <2>2. Filling' = Filling
    BY <1>3, WakeFilling, Zenon
  <2> QED BY <2>1, <2>2, Zenon DEF Places
<1>4. ASSUME NEW p \in Printer, PrintTake(p) PROVE Places'
  <2>1. Filling = {}
    BY <1>4, FillingIs, Zenon DEF PrintTake
  <2>2. Head(free) \in Buffer /\ w_buffer' = Head(free) /\ free' = Tail(free) /\ free # <<>>
    BY <1>4, TypeOfTail, Zenon DEF PrintTake, BufferTypes
  <2>3. \A y \in Printer : at'[y] \notin {"wake", "take"} /\ at'["stack"] \notin AtEnd
    BY <1>4, GoesTo, Names DEF PrintTake, Held, InPrintf, AtEnd
  <2>4. Filling' = {Head(free)}
    BY <2>2, <2>3, BufferIs DEF Filling, AtEnd
  <2>5. Range(free) = {Head(free)} \cup Range(free') /\ IsInjective(free') /\ Head(free) \notin Range(free')
    BY <2>2, Dequeued, Zenon DEF Places, BufferTypes
  <2>6. Range(free') = Range(free) \ {Head(free)} /\ Range(free) = {Head(free)} \cup (Range(free) \ {Head(free)})
    BY <2>5
  <2>7. UNCHANGED <<work, lbuf, gone>>
    BY <1>4 DEF PrintTake, logt
  <2>8. Apart(Range(free) \ {Head(free)}, Range(work), {Head(free)}, {lbuf} \ {0}, gone)
    BY <2>1, <2>6, Moves, Zenon DEF Places
  <2> QED BY <2>4, <2>5, <2>6, <2>7, <2>8 DEF Places
<1>5. ASSUME NEW p \in Printer, PrintPut(p) PROVE Places'
  <2>1. UNCHANGED <<free, work, lbuf, gone>>
    BY <1>5 DEF PrintPut, Goes, logt
  <2>2. Filling' = Filling
    BY <1>5, PutFilling, Zenon
  <2> QED BY <2>1, <2>2, Zenon DEF Places
<1>6. CASE StackFlush
  <2>0. Filling = {w_buffer} \ {0}
    BY <1>6, FillingIs, Names, Zenon DEF StackFlush, Calm, Held, AtEnd, InPrintf
  <2>1. Filling' = {}
    BY <1>6, GoesTo, Names DEF StackFlush, Filling
  <2>2. UNCHANGED <<free, lbuf>>
    BY <1>6 DEF StackFlush, Log, logt
  <2>3. CASE w_buffer = 0
    <3>1. UNCHANGED <<work, gone>> /\ Filling = {}
      BY <1>6, <2>0, <2>3 DEF StackFlush
    <3> QED BY <2>1, <2>2, <3>1, Zenon DEF Places
  <2>4. CASE w_buffer # 0
    <3>1. w_buffer \in Buffer /\ Filling = {w_buffer}
      BY <2>0, <2>4, BufferIs, Zenon DEF BufferTypes
    <3>2. work \in Seq(Buffer) /\ w_buffer \notin Range(work)
      BY <3>1 DEF BufferTypes, Places, Apart
    <3>3. CASE work' = Append(work, w_buffer) /\ UNCHANGED gone
      <4>1. Range(work') = Range(work) \cup Filling /\ IsInjective(work')
        BY <3>1, <3>2, <3>3, Enqueued, Zenon DEF Places
      <4>2. Apart(Range(free), Range(work) \cup Filling, {}, {lbuf} \ {0}, gone)
        BY Moves, Zenon DEF Places
      <4> QED BY <2>1, <2>2, <3>3, <4>1, <4>2 DEF Places
    <3>4. CASE gone' = gone \cup {w_buffer} /\ UNCHANGED work
      <4>1. Apart(Range(free), Range(work), {}, {lbuf} \ {0}, gone \cup Filling)
        BY Moves, Zenon DEF Places
      <4> QED BY <2>1, <2>2, <3>1, <3>4, <4>1 DEF Places
    <3>5. work = <<>> => Append(work, w_buffer) = <<w_buffer>>
      OBVIOUS
    <3> QED BY <1>6, <2>4, <3>3, <3>4, <3>5, Zenon DEF StackFlush, EnqueueJobBuffer
  <2> QED BY <2>3, <2>4
<1>7. CASE StackWake
  <2>1. UNCHANGED <<free, work, lbuf, gone>>
    BY <1>7 DEF StackWake, WakeUp, Goes, logt
  <2>2. Filling' = Filling
    <3>1. at["stack"] \in AtEnd /\ at'["stack"] \in AtEnd
      BY <1>7, Names DEF ThreadTypes, AtEnd, StackWake, WakeUp, Goes
    <3> QED BY <3>1, StaysAtEnd, Zenon
  <2> QED BY <2>1, <2>2, Zenon DEF Places
<1>8. CASE StackDone
  <2>1. UNCHANGED <<free, work, lbuf, gone>>
    BY <1>8, Zenon DEF StackDone, Goes, logt
  <2>2. Filling' = Filling
    <3>1. at["stack"] \in AtEnd /\ at'["stack"] \in AtEnd
      BY <1>8, Names DEF ThreadTypes, AtEnd, StackDone, Goes
    <3> QED BY <3>1, StaysAtEnd, Zenon
  <2> QED BY <2>1, <2>2, Zenon DEF Places
<1>9. CASE StackLast
  <2>1. UNCHANGED <<free, work, lbuf, gone>>
    BY <1>9, Zenon DEF StackLast, WakeUp, Goes, logt
  <2>2. Filling' = Filling
    <3>1. at["stack"] \in AtEnd /\ at'["stack"] \in AtEnd
      BY <1>9, Names DEF ThreadTypes, AtEnd, StackLast, WakeUp, Goes
    <3> QED BY <3>1, StaysAtEnd, Zenon
  <2> QED BY <2>1, <2>2, Zenon DEF Places
<1>10. CASE StackJoin
  <2>1. UNCHANGED <<free, work, lbuf, gone>>
    BY <1>10, Zenon DEF StackJoin, Goes, logt
  <2>2. Filling' = Filling
    <3>1. at["stack"] \in AtEnd /\ at'["stack"] \in AtEnd
      BY <1>10, Names, Zenon DEF ThreadTypes, AtEnd, StackJoin, Goes
    <3> QED BY <3>1, StaysAtEnd, Zenon
  <2> QED BY <2>1, <2>2, Zenon DEF Places
<1>11. CASE LogLock
  <2>1. UNCHANGED <<at, w_buffer>>
    BY <1>11 DEF LogLock, Log, logt
  <2>2. Filling' = Filling
    BY <2>1, Zenon DEF Filling
  <2> QED BY <1>11, <2>2 DEF LogLock, Log, logt, Places
<1>12. CASE LogTake
  <2>1. UNCHANGED <<at, w_buffer>>
    BY <1>12 DEF LogTake, Log, logt
  <2>2. Filling' = Filling
    BY <2>1, Zenon DEF Filling
  <2>3. CASE work = <<>>
    <3>1. UNCHANGED <<free, work, lbuf, gone>>
      BY <1>12, <2>3 DEF LogTake, Log, logt
    <3> QED BY <2>2, <3>1, Zenon DEF Places
  <2>4. CASE work # <<>>
    <3>1. Head(work) \in Buffer /\ lbuf' = Head(work) /\ work' = Tail(work) /\ UNCHANGED <<free, gone>>
      BY <1>12, <2>4, TypeOfTail, Zenon DEF LogTake, BufferTypes
    <3>2. {lbuf} \ {0} = {} /\ {lbuf'} \ {0} = {Head(work)}
      BY <1>12, <3>1, BufferIs DEF LogTake, Thread
    <3>3. Range(work) = {Head(work)} \cup Range(work') /\ IsInjective(work') /\ Head(work) \notin Range(work')
      BY <2>4, <3>1, Dequeued, Zenon DEF Places, BufferTypes
    <3>4. Range(work') = Range(work) \ {Head(work)} /\ Range(work) = {Head(work)} \cup (Range(work) \ {Head(work)})
      BY <3>3
    <3>5. Apart(Range(free), Range(work) \ {Head(work)}, Filling, {Head(work)}, gone)
      BY <3>2, <3>4, Moves, Zenon DEF Places
    <3> QED BY <2>2, <3>1, <3>2, <3>3, <3>4, <3>5, Zenon DEF Places
  <2> QED BY <2>3, <2>4
<1>13. CASE LogWrite
  <2>1. UNCHANGED <<at, w_buffer>>
    BY <1>13 DEF LogWrite, Log, logt
  <2>2. Filling' = Filling
    BY <2>1, Zenon DEF Filling
  <2> QED BY <1>13, <2>2 DEF LogWrite, Log, logt, Places
<1>14. CASE LogFree
  <2>1. UNCHANGED <<at, w_buffer>>
    BY <1>14, ZenonT(30) DEF LogFree, LogLeaves, logt
  <2>2. Filling' = Filling
    BY <2>1, Zenon DEF Filling
  <2>3. lbuf \in Buffer /\ lbuf' = 0 /\ {lbuf} \ {0} = {lbuf} /\ {lbuf'} \ {0} = {}
    BY <1>14, BufferIs, Zenon DEF LogFree, LogLeaves, Thread, ThreadTypes
  <2>4. lbuf \notin Range(free) /\ free' = Append(free, lbuf) /\ UNCHANGED <<work, gone>>
    BY <1>14, <2>3 DEF LogFree, Places, Apart
  <2>5. Range(free') = Range(free) \cup {lbuf} /\ IsInjective(free')
    BY <2>3, <2>4, Enqueued, Zenon DEF Places, BufferTypes
  <2>6. Apart(Range(free) \cup {lbuf}, Range(work), Filling, {}, gone)
    BY <2>3, Moves, Zenon DEF Places
  <2> QED BY <2>2, <2>3, <2>4, <2>5, <2>6, Zenon DEF Places
<1>15. CASE LogDrop
  <2>1. UNCHANGED <<at, w_buffer>>
    BY <1>15, Zenon DEF LogDrop, LogLeaves, logt
  <2>2. Filling' = Filling
    BY <2>1, Zenon DEF Filling
  <2>3. lbuf \in Buffer /\ lbuf' = 0 /\ {lbuf} \ {0} = {lbuf} /\ {lbuf'} \ {0} = {}
    BY <1>15, BufferIs DEF LogDrop, LogLeaves, Thread, ThreadTypes
  <2>4. gone' = gone \cup {lbuf} /\ UNCHANGED <<free, work>>
    BY <1>15 DEF LogDrop
  <2>5. Apart(Range(free), Range(work), Filling, {}, gone \cup {lbuf})
    BY <2>3, Moves, Zenon DEF Places
  <2> QED BY <2>2, <2>3, <2>4, <2>5 DEF Places
<1>16. CASE LogTest
  <2>1. UNCHANGED <<at, w_buffer>>
    BY <1>16 DEF LogTest, logt
  <2>2. Filling' = Filling
    BY <2>1, Zenon DEF Filling
  <2> QED BY <1>16, <2>2 DEF LogTest, logt, Places
<1>17. CASE LogRead
  <2>1. UNCHANGED <<at, w_buffer>>
    BY <1>17 DEF LogRead, logt
  <2>2. Filling' = Filling
    BY <2>1, Zenon DEF Filling
  <2> QED BY <1>17, <2>2 DEF LogRead, logt, Places
<1>18. CASE UNCHANGED logvars
  BY <1>18, Zenon DEF logvars, logt, Places, Filling
<1> QED BY <1>1, <1>2, <1>3, <1>4, <1>5, <1>6, <1>7, <1>8, <1>9,
           <1>10, <1>11, <1>12, <1>13, <1>14, <1>15, <1>16, <1>17, <1>18, Zenon
        DEF LogNext, Prints, StackEnds, LogThread

-----------------------------------------------------------------------------
(* The lines are in order. *)

\* The lines of a buffer follow each other.
Last(y) == y[Len(y)]
Run(y) == Len(y) >= 1 /\ \A k \in 1..Len(y) : y[k] = y[1] + (k - 1)
Meets(a, b, g) == a < b /\ (g => b = a + 1)

\* The buffers u are full of lines between line e, the last before them, and line c,
\* the first after them, in order and, if g, with none missing.
Chain(u, t, e, c, g) ==
  /\ \A i \in 1..Len(u) : Run(t[u[i]]) /\ Last(t[u[i]]) < c
  /\ e < c /\ (u = <<>> => Meets(e, c, g))
  /\ u # <<>> => Meets(e, t[u[1]][1], g) /\ Meets(Last(t[u[Len(u)]]), c, g)
  /\ \A i \in 1..(Len(u) - 1) : Meets(Last(t[u[i]]), t[u[i + 1]][1], g)

Texts == [Buffer -> Seq(Nat)]

LEMMA Pushed ==
  ASSUME NEW S, NEW b \in S, NEW s \in Seq(S)
  PROVE  /\ <<b>> \o s \in Seq(S) /\ <<b>> \o s # <<>> /\ (<<b>> \o s)[1] = b
         /\ Tail(<<b>> \o s) = s
<1>1. /\ <<b>> \o s \in Seq(S) /\ Len(<<b>> \o s) = Len(s) + 1 /\ (<<b>> \o s)[1] = b
      /\ Len(s) \in Nat
      /\ \A i \in 1..Len(s) : (<<b>> \o s)[i + 1] = s[i]
  OBVIOUS
<1>2. <<b>> \o s # <<>>
  BY <1>1
<1>3. /\ Tail(<<b>> \o s) \in Seq(S) /\ Len(Tail(<<b>> \o s)) = Len(s)
      /\ \A i \in 1..Len(s) : Tail(<<b>> \o s)[i] = s[i]
  BY <1>1, <1>2
<1> QED BY <1>1, <1>2, <1>3

LEMMA RunEnds ==
  ASSUME NEW y \in Seq(Nat), Run(y)
  PROVE  y[1] \in Nat /\ Last(y) \in Nat /\ Last(y) = y[1] + (Len(y) - 1) /\ y[1] <= Last(y)
<1>1. Len(y) \in Nat /\ 1 \in 1..Len(y) /\ Len(y) \in 1..Len(y)
  BY DEF Run
<1> QED BY <1>1, SMTT(30) DEF Run, Last

\* Every buffer of the chain ends in a line.
LEMMA ChainRuns ==
  ASSUME NEW t \in Texts, NEW u \in Seq(Buffer), NEW e, NEW c, NEW g, Chain(u, t, e, c, g)
  PROVE  \A i \in 1..Len(u) : Last(t[u[i]]) \in Nat
<1> TAKE i \in 1..Len(u)
<1>1. u[i] \in Buffer
  OBVIOUS
<1>2. t[u[i]] \in Seq(Nat)
  BY <1>1 DEF Texts
<1>3. Run(t[u[i]])
  BY Zenon DEF Chain
<1> QED BY <1>2, <1>3, RunEnds, Zenon

LEMMA ChainAppend ==
  ASSUME NEW t \in Texts, NEW u \in Seq(Buffer), NEW e \in Nat, NEW c \in Int, NEW g \in BOOLEAN,
         NEW b \in Buffer, Run(t[b]), t[b][1] = c, Chain(u, t, e, c, g)
  PROVE  Chain(Append(u, b), t, e, c + Len(t[b]), g)
<1> DEFINE v == Append(u, b)
<1>1. /\ Len(u) \in Nat /\ Len(v) = Len(u) + 1 /\ v[Len(u) + 1] = b /\ v # <<>>
      /\ \A i \in 1..Len(u) : v[i] = u[i]
  OBVIOUS
<1>2. u = <<>> <=> Len(u) = 0
  BY LenIs, Zenon
<1>3. Len(t[b]) \in Nat /\ Len(t[b]) >= 1 /\ Last(t[b]) = c + (Len(t[b]) - 1)
  <2>1. t[b] \in Seq(Nat)
    BY DEF Texts
  <2>2. Len(t[b]) \in Nat /\ Len(t[b]) >= 1
    BY <2>1 DEF Run
  <2> QED BY <2>1, <2>2, RunEnds, Zenon
<1>4. \A i \in 1..Len(u) : Last(t[u[i]]) \in Nat
  BY ChainRuns, Zenon
<1> HIDE DEF v
<1>5. \A i \in 1..Len(v) : i = Len(u) + 1 \/ i \in 1..Len(u)
  BY <1>1, SMTT(30)
<1>6. \A i \in 1..Len(v) : Run(t[v[i]]) /\ Last(t[v[i]]) < c + Len(t[b])
  <2> TAKE i \in 1..Len(v)
  <2>1. CASE i = Len(u) + 1
    BY <1>1, <1>3, <2>1, SMTT(30)
  <2>2. CASE i \in 1..Len(u)
    BY <1>1, <1>3, <1>4, <2>2, SMTT(30) DEF Chain
  <2> QED BY <1>5, <2>1, <2>2, SMTT(30)
<1>7. e < c + Len(t[b]) /\ Meets(Last(t[v[Len(v)]]), c + Len(t[b]), g)
  BY <1>1, <1>3, SMTT(30) DEF Chain, Meets
<1>8. Meets(e, t[v[1]][1], g)
  <2>1. CASE u = <<>>
    BY <1>1, <1>2, <2>1, SMTT(30) DEF Chain
  <2>2. CASE u # <<>>
    <3>1. 1 \in 1..Len(u)
      BY <1>1, <1>2, <2>2
    <3> QED BY <1>1, <2>2, <3>1, SMTT(30) DEF Chain
  <2> QED BY <2>1, <2>2, SMTT(30)
<1>9. \A i \in 1..(Len(v) - 1) : Meets(Last(t[v[i]]), t[v[i + 1]][1], g)
  <2> TAKE i \in 1..(Len(v) - 1)
  <2>1. CASE i = Len(u)
    BY <1>1, <1>2, <2>1 DEF Chain
  <2>2. CASE i # Len(u)
    <3>1. i \in 1..(Len(u) - 1) /\ i \in 1..Len(u) /\ i + 1 \in 1..Len(u)
      BY <1>1, <2>2
    <3>2. v[i] = u[i] /\ v[i + 1] = u[i + 1] /\ Meets(Last(t[u[i]]), t[u[i + 1]][1], g)
      BY <1>1, <3>1, Zenon DEF Chain
    <3> QED BY <3>2, Zenon
  <2> QED BY <2>1, <2>2, Zenon
<1>10. Chain(v, t, e, c + Len(t[b]), g)
  BY <1>1, <1>6, <1>7, <1>8, <1>9, Zenon DEF Chain
<1> QED BY <1>10 DEF v

LEMMA LooserMeets == \A a, b, g : Meets(a, b, g) => Meets(a, b, FALSE)
BY Zenon DEF Meets

LEMMA InBetween ==
  ASSUME NEW a \in Nat, NEW b \in Nat, NEW c \in Nat, NEW d \in Nat, a < b, b <= c, c < d
  PROVE  a < d
OBVIOUS

LEMMA ChainTail ==
  ASSUME NEW t \in Texts, NEW u \in Seq(Buffer), NEW e \in Nat, NEW c \in Int, NEW g \in BOOLEAN,
         u # <<>>, Chain(u, t, e, c, g)
  PROVE  /\ Chain(Tail(u), t, Last(t[u[1]]), c, g)
         /\ Chain(Tail(u), t, e, c, FALSE)
         /\ Meets(e, t[u[1]][1], g) /\ Run(t[u[1]])
<1> DEFINE v == Tail(u)
<1>0. /\ Len(u) \in Nat /\ Len(u) > 0 /\ v \in Seq(Buffer) /\ Len(v) = Len(u) - 1
      /\ \A i \in 1..(Len(u) - 1) : v[i] = u[i + 1]
  OBVIOUS
<1>1. /\ Len(u) \in Nat /\ Len(u) > 0 /\ Len(v) = Len(u) - 1 /\ (v = <<>> <=> Len(u) = 1)
      /\ \A i \in 1..(Len(u) - 1) : v[i] = u[i + 1]
  <2> HIDE DEF v
  <2>1. v = <<>> <=> Len(v) = 0
    BY <1>0, SMTT(30)
  <2> QED BY <1>0, <2>1
<1>2. \A i \in 1..Len(u) : t[u[i]] \in Seq(Nat) /\ Run(t[u[i]])
  BY DEF Chain, Texts
<1>3. \A i \in 1..Len(u) : /\ t[u[i]][1] \in Nat /\ Last(t[u[i]]) \in Nat
                           /\ t[u[i]][1] <= Last(t[u[i]]) /\ Last(t[u[i]]) < c
  BY <1>2, RunEnds, Zenon DEF Chain
<1> HIDE DEF v
<1>4. \A i \in 1..Len(v) : Run(t[v[i]]) /\ Last(t[v[i]]) < c
  <2> TAKE i \in 1..Len(v)
  <2>1. i + 1 \in 1..Len(u) /\ v[i] = u[i + 1]
    BY <1>1
  <2> QED BY <1>2, <1>3, <2>1, Zenon
<1>5. \A i \in 1..(Len(v) - 1) : Meets(Last(t[v[i]]), t[v[i + 1]][1], g)
  <2> TAKE i \in 1..(Len(v) - 1)
  <2>1. i + 1 \in 1..(Len(u) - 1) /\ i \in 1..(Len(u) - 1)
    BY <1>1
  <2>2. v[i] = u[i + 1] /\ v[i + 1] = u[(i + 1) + 1]
    BY <1>1, <2>1, Zenon
  <2>3. Meets(Last(t[u[i + 1]]), t[u[(i + 1) + 1]][1], g)
    BY <2>1, Zenon DEF Chain
  <2> QED BY <2>2, <2>3, Zenon
<1>6. 1 \in 1..Len(u) /\ Len(u) \in 1..Len(u)
  BY <1>1
<1>7. Meets(e, t[u[1]][1], g) /\ Meets(Last(t[u[Len(u)]]), c, g) /\ e < c /\ Last(t[u[1]]) < c
  BY <1>3, <1>6, Zenon DEF Chain
<1>8. \A i \in 1..(Len(v) - 1) : Meets(Last(t[v[i]]), t[v[i + 1]][1], FALSE)
  BY <1>5, LooserMeets, Zenon
<1>9. ASSUME v = <<>> PROVE Meets(Last(t[u[1]]), c, g) /\ Meets(e, c, FALSE)
  <2>1. Len(u) = 1
    BY <1>1, <1>9
  <2> QED BY <1>7, <2>1, Zenon DEF Meets
<1>10. ASSUME v # <<>>
       PROVE  /\ Meets(Last(t[u[1]]), t[v[1]][1], g) /\ Meets(Last(t[v[Len(v)]]), c, g)
              /\ Meets(e, t[v[1]][1], FALSE)
  <2>1. 1 \in 1..(Len(u) - 1) /\ v[1] = u[1 + 1] /\ v[Len(v)] = u[Len(u)] /\ 1 + 1 \in 1..Len(u)
    BY <1>1, <1>10
  <2>2. Meets(Last(t[u[1]]), t[u[1 + 1]][1], g)
    BY <2>1, Zenon DEF Chain
  <2>3. /\ e < t[u[1]][1] /\ t[u[1]][1] <= Last(t[u[1]]) /\ Last(t[u[1]]) < t[u[1 + 1]][1]
        /\ t[u[1]][1] \in Nat /\ Last(t[u[1]]) \in Nat /\ t[u[1 + 1]][1] \in Nat
    BY <1>3, <1>6, <1>7, <2>1, <2>2, Zenon DEF Meets
  <2>4. e < t[u[1 + 1]][1]
    BY <2>3, InBetween, Zenon
  <2> QED BY <1>7, <2>1, <2>2, <2>4, Zenon DEF Meets
<1>11. Chain(v, t, Last(t[u[1]]), c, g)
  BY <1>4, <1>5, <1>7, <1>9, <1>10, Zenon DEF Chain
<1>12. Meets(Last(t[v[Len(v)]]), c, g) => Meets(Last(t[v[Len(v)]]), c, FALSE)
  BY LooserMeets, Zenon
<1>13. Chain(v, t, e, c, FALSE)
  BY <1>4, <1>7, <1>8, <1>9, <1>10, <1>12, Zenon DEF Chain
<1> QED BY <1>2, <1>6, <1>7, <1>11, <1>13, Zenon DEF v

\* Texts of other buffers do not matter.
LEMMA ChainSame ==
  ASSUME NEW t, NEW s, NEW u \in Seq(Buffer), NEW e, NEW c, NEW g,
         \A i \in 1..Len(u) : s[u[i]] = t[u[i]], Chain(u, t, e, c, g)
  PROVE  Chain(u, s, e, c, g)
<1>1. Len(u) \in Nat
  BY LenIs, Zenon
<1>2. u # <<>> => 1 \in 1..Len(u) /\ Len(u) \in 1..Len(u)
  BY LenIs, Zenon
<1>3. \A i \in 1..(Len(u) - 1) : i \in 1..Len(u) /\ i + 1 \in 1..Len(u)
  BY <1>1, SMTT(30)
<1> QED BY <1>2, <1>3, Zenon DEF Chain

\* What comes later may leave a gap.
LEMMA ChainLater ==
  ASSUME NEW t \in Texts, NEW u \in Seq(Buffer), NEW e \in Nat, NEW c \in Int, NEW d \in Int,
         NEW g \in BOOLEAN, c <= d, Chain(u, t, e, c, g)
  PROVE  Chain(u, t, e, d, FALSE)
<1>1. \A i \in 1..Len(u) : Last(t[u[i]]) \in Nat
  BY ChainRuns, Zenon
<1>2. Len(u) \in Nat /\ (u # <<>> => Len(u) \in 1..Len(u))
  BY LenIs, Zenon
<1>3. \A x \in Nat : x < c => x < d
  OBVIOUS
<1>4. \A x \in Nat : Meets(x, c, g) => Meets(x, d, FALSE)
  BY <1>3, Zenon DEF Meets
<1>5. \A x, y : Meets(x, y, g) => Meets(x, y, FALSE)
  BY Zenon DEF Meets
<1> QED BY <1>1, <1>2, <1>3, <1>4, <1>5, Zenon DEF Chain

\* The buffers with lines to write, and the last line before and the first after them.
Unwritten == IF lat \in {"write", "drop"} THEN <<lbuf>> \o work ELSE work
LastLine == IF file = <<>> THEN 0 ELSE file[Len(file)]
NextLine == lines + 1 - (IF Filling = {} THEN 0 ELSE Len(text[w_buffer]))

FillInv == Filling # {} => \A k \in 1..Len(text[w_buffer]) : text[w_buffer][k] = NextLine + (k - 1)
FileInv == InOrder /\ \A i \in 1..Len(file) : file[i] >= i
ChainInv == Chain(Unwritten, text, LastLine, NextLine, gone = {})
LinesInv == ChainInv /\ FillInv /\ FileInv

LEMMA LineTypes ==
  ASSUME Control
  PROVE  /\ Unwritten \in Seq(Buffer) /\ text \in Texts /\ LastLine \in Nat /\ NextLine \in Int
         /\ (gone = {}) \in BOOLEAN /\ work \in Seq(Buffer) /\ lines \in Nat
         /\ lat \in {"write", "drop"} =>
              lbuf \in Buffer /\ Unwritten # <<>> /\ Unwritten[1] = lbuf /\ Tail(Unwritten) = work
         /\ w_buffer # 0 => w_buffer \in Buffer /\ text[w_buffer] \in Seq(Nat)
<1> USE DEF Control
<1>1. lat \in {"write", "drop"} => lbuf \in Buffer
  BY BufferIs DEF Thread, ThreadTypes
<1>2. /\ text \in Texts /\ work \in Seq(Buffer) /\ lines \in Nat /\ file \in Seq(Nat)
  BY Nums DEF BufferTypes, Texts
<1>3. w_buffer # 0 => w_buffer \in Buffer /\ text[w_buffer] \in Seq(Nat)
  BY <1>2, BufferIs DEF BufferTypes, Texts
<1>4. lat \in {"write", "drop"} =>
        /\ Unwritten \in Seq(Buffer) /\ Unwritten # <<>> /\ Unwritten[1] = lbuf
        /\ Tail(Unwritten) = work
  <2> SUFFICES ASSUME lat \in {"write", "drop"}, lbuf \in Buffer
               PROVE  /\ <<lbuf>> \o work \in Seq(Buffer) /\ <<lbuf>> \o work # <<>>
                      /\ (<<lbuf>> \o work)[1] = lbuf /\ Tail(<<lbuf>> \o work) = work
    BY <1>1 DEF Unwritten
  <2> QED BY <1>2, Pushed
<1>5. lat \notin {"write", "drop"} => Unwritten \in Seq(Buffer)
  BY <1>2 DEF Unwritten
<1>6. LastLine \in Nat
  BY <1>2 DEF LastLine
<1>7. NextLine \in Int
  <2>1. Filling # {} => w_buffer # 0
    BY DEF Filling
  <2> QED BY <1>2, <1>3, <2>1 DEF NextLine
<1> QED BY <1>1, <1>2, <1>3, <1>4, <1>5, <1>6, <1>7, SMTT(30)

LEMMA UnwrittenAre ==
  ASSUME Control
  PROVE  \A i \in 1..Len(Unwritten) : Unwritten[i] \in Range(work) \cup ({lbuf} \ {0})
<1>1. work \in Seq(Buffer)
  BY LineTypes, Zenon
<1>2. \A i \in 1..Len(work) : work[i] \in Range(work)
  BY <1>1 DEF Range
<1>3. CASE lat \in {"write", "drop"}
  <2>1. /\ Unwritten = <<lbuf>> \o work /\ lbuf # 0
    BY <1>3, LineTypes, BufferIs DEF Unwritten
  <2>2. \A i \in 1..Len(<<lbuf>> \o work) :
          (<<lbuf>> \o work)[i] = lbuf \/ \E j \in 1..Len(work) : (<<lbuf>> \o work)[i] = work[j]
    BY <1>1
  <2> QED BY <1>2, <2>1, <2>2, SMTT(30)
<1>4. CASE lat \notin {"write", "drop"}
  BY <1>2, <1>4, Zenon DEF Unwritten
<1> QED BY <1>3, <1>4

\* A buffer with lines in it that is handed over.
LEMMA HandedOver ==
  ASSUME Control, LinesInv, w_buffer \in Buffer, Filling = {w_buffer}, Len(text[w_buffer]) >= 1
  PROVE  Chain(Append(Unwritten, w_buffer), text, LastLine, lines + 1, gone = {})
<1> DEFINE y == text[w_buffer]
<1>1. /\ y \in Seq(Nat) /\ Len(y) \in Nat /\ Len(y) >= 1 /\ NextLine = lines + 1 - Len(y)
      /\ lines \in Nat
  BY LineTypes, BufferIs, SMTT(30) DEF NextLine
<1>2. \A k \in 1..Len(y) : y[k] = NextLine + (k - 1)
  BY DEF LinesInv, FillInv
<1>3. y[1] = NextLine /\ NextLine \in Int
  <2>1. 1 \in 1..Len(y) /\ NextLine \in Int
    BY <1>1, LineTypes
  <2>2. y[1] = NextLine + (1 - 1)
    BY <1>2, <2>1, Zenon
  <2> QED BY <2>1, <2>2
<1>4. Run(y)
  BY <1>1, <1>2, <1>3, Zenon DEF Run
<1>5. Chain(Append(Unwritten, w_buffer), text, LastLine, NextLine + Len(y), gone = {})
  BY <1>3, <1>4, LineTypes, ChainAppend, Zenon DEF LinesInv, ChainInv
<1>6. NextLine + Len(y) = lines + 1
  BY <1>1
<1> QED BY <1>5, <1>6, SMTT(30)

\* The lines of a buffer at the end of the file.
LEMMA FileGrows ==
  ASSUME NEW f \in Seq(Nat), NEW y \in Seq(Nat), NEW g \in BOOLEAN, Run(y),
         Meets(IF f = <<>> THEN 0 ELSE f[Len(f)], y[1], g),
         \A i \in 1..(Len(f) - 1) : f[i] < f[i + 1],
         g => \A i \in DOMAIN f : f[i] = i, \A i \in 1..Len(f) : f[i] >= i
  PROVE  /\ \A i \in 1..(Len(f \o y) - 1) : (f \o y)[i] < (f \o y)[i + 1]
         /\ g => \A i \in DOMAIN (f \o y) : (f \o y)[i] = i
         /\ \A i \in 1..Len(f \o y) : (f \o y)[i] >= i
         /\ f \o y # <<>> /\ (f \o y)[Len(f \o y)] = Last(y)
<1> DEFINE h == f \o y
           e == IF f = <<>> THEN 0 ELSE f[Len(f)]
<1>1. /\ Len(f) \in Nat /\ Len(y) \in Nat /\ Len(y) >= 1
      /\ \A i \in 1..Len(f) : f[i] \in Nat
      /\ \A k \in 1..Len(y) : y[k] = y[1] + (k - 1)
  BY SMTT(30) DEF Run
<1>2. /\ h \in Seq(Nat) /\ Len(h) = Len(f) + Len(y) /\ DOMAIN h = 1..Len(h) /\ DOMAIN f = 1..Len(f)
      /\ \A i \in 1..Len(f) : h[i] = f[i]
      /\ \A k \in 1..Len(y) : h[Len(f) + k] = y[k]
  BY SMTT(30)
<1>3. e \in Nat /\ e >= Len(f) /\ (g => e = Len(f)) /\ Meets(e, y[1], g) /\ y[1] \in Nat
  <2>1. f = <<>> <=> Len(f) = 0
    BY SMTT(30)
  <2>2. Len(f) # 0 => Len(f) \in 1..Len(f)
    BY <1>1, SMTT(30)
  <2>3. y[1] \in Nat
    BY RunEnds
  <2>4. CASE f = <<>>
    BY <2>1, <2>3, <2>4
  <2>5. CASE f # <<>>
    BY <1>1, <1>2, <2>1, <2>2, <2>3, <2>5, Zenon
  <2> QED BY <2>4, <2>5
<1>4. f # <<>> => e = f[Len(f)] /\ Len(f) \in 1..Len(f)
  BY SMTT(30)
<1> HIDE DEF h, e
<1>5. \A i \in 1..Len(h) : i \in 1..Len(f) \/ (i - Len(f) \in 1..Len(y) /\ h[i] = y[1] + (i - Len(f) - 1))
  <2> TAKE i \in 1..Len(h)
  <2>1. CASE i <= Len(f)
    BY <1>1, <2>1, SMTT(30)
  <2>2. CASE i > Len(f)
    <3> DEFINE k == i - Len(f)
    <3>1. k \in 1..Len(y) /\ Len(f) + k = i
      BY <1>1, <1>2, <2>2
    <3>2. h[Len(f) + k] = y[k] /\ y[k] = y[1] + (k - 1)
      BY <1>1, <1>2, <3>1, Zenon
    <3> QED BY <3>1, <3>2
  <2> QED BY <1>1, <2>1, <2>2, SMTT(30)
<1>6. \A i \in 1..Len(h) : h[i] >= i
  <2> TAKE i \in 1..Len(h)
  <2>1. CASE i \in 1..Len(f)
    BY <1>2, <2>1, Zenon
  <2>2. CASE h[i] = y[1] + (i - Len(f) - 1)
    BY <1>1, <1>3, <2>2, SMTT(30) DEF Meets
  <2> QED BY <1>5, <2>1, <2>2
<1>7. ASSUME g, NEW i \in 1..Len(h) PROVE h[i] = i
  <2>1. CASE i \in 1..Len(f)
    BY <1>2, <1>7, <2>1, Zenon
  <2>2. CASE h[i] = y[1] + (i - Len(f) - 1)
    BY <1>1, <1>3, <1>7, <2>2, SMTT(30) DEF Meets
  <2> QED BY <1>5, <2>1, <2>2
<1>8. \A i \in 1..(Len(h) - 1) : h[i] < h[i + 1]
  <2> TAKE i \in 1..(Len(h) - 1)
  <2>1. CASE i \in 1..(Len(f) - 1)
    BY <1>1, <1>2, <2>1, SMTT(30)
  <2>2. CASE i = Len(f)
    <3>1. h[i] = e /\ h[i + 1] = y[1]
      BY <1>1, <1>2, <1>4, <2>2
    <3> QED BY <1>3, <3>1, SMTT(30) DEF Meets
  <2>3. CASE i > Len(f)
    <3>1. Len(h) \in Nat /\ i \in 1..Len(h) /\ i + 1 \in 1..Len(h)
      BY <1>1, <1>2, SMTT(30)
    <3>2. i \notin 1..Len(f) /\ i + 1 \notin 1..Len(f)
      BY <1>1, <2>3, SMTT(30)
    <3>3. h[i] = y[1] + (i - Len(f) - 1) /\ h[i + 1] = y[1] + ((i + 1) - Len(f) - 1)
      BY <1>5, <3>1, <3>2
    <3> QED BY <1>1, <1>3, <3>3, SMTT(30)
  <2>4. i \in 1..(Len(f) - 1) \/ i = Len(f) \/ i > Len(f)
    BY <1>1, SMTT(30)
  <2> QED BY <2>1, <2>2, <2>3, <2>4
<1>9. h # <<>> /\ h[Len(h)] = Last(y)
  BY <1>1, <1>2, SMTT(30) DEF Last
<1>10. DOMAIN h = 1..Len(h)
  BY <1>2
<1> QED BY <1>6, <1>7, <1>8, <1>9, <1>10, Zenon DEF h

LEMMA LinesSame ==
  ASSUME LinesInv, Unwritten' = Unwritten, Filling' = Filling,
         UNCHANGED <<text, lines, w_buffer, gone, file>>
  PROVE  LinesInv'
BY Zenon DEF LinesInv, ChainInv, FillInv, FileInv, InOrder, LastLine, NextLine

LEMMA Pulled ==
  ASSUME NEW S, NEW s \in Seq(S), s # <<>>
  PROVE  <<Head(s)>> \o Tail(s) = s
OBVIOUS

LEMMA EarlierLine ==
  ASSUME NEW n \in Nat, NEW k \in Nat
  PROVE  /\ n + 1 - k <= n + 1 /\ n + 1 \in Int
         /\ (n + 1) + 1 - (k + 1) = n + 1 - k
OBVIOUS

LEMMA NextIsLater ==
  ASSUME Control
  PROVE  NextLine <= lines + 1
<1>0. lines \in Nat
  BY LineTypes
<1>1. CASE Filling = {}
  BY <1>0, <1>1 DEF NextLine
<1>2. CASE Filling # {}
  <2>1. Len(text[w_buffer]) \in Nat
    <3>1. w_buffer # 0
      BY <1>2 DEF Filling
    <3> QED BY <3>1, LineTypes
  <2>2. NextLine = lines + 1 - Len(text[w_buffer])
    BY <1>2 DEF NextLine
  <2> QED BY <1>0, <2>1, <2>2, EarlierLine, Zenon
<1> QED BY <1>1, <1>2

LEMMA PushedAppend ==
  ASSUME NEW S, NEW s \in Seq(S), NEW a \in S, NEW b \in S
  PROVE  <<a>> \o Append(s, b) = Append(<<a>> \o s, b)
OBVIOUS

\* Every step keeps the lines in order.
LEMMA LinesStep ==
  ASSUME Control, Control', Places, LinesInv, [LogNext]_logvars
  PROVE  LinesInv'
<1> USE DEF Control
<1>0. /\ Unwritten \in Seq(Buffer) /\ text \in Texts /\ LastLine \in Nat /\ NextLine \in Int
      /\ (gone = {}) \in BOOLEAN /\ work \in Seq(Buffer) /\ lines \in Nat
      /\ lat \in {"write", "drop"} =>
           lbuf \in Buffer /\ Unwritten # <<>> /\ Unwritten[1] = lbuf /\ Tail(Unwritten) = work
      /\ w_buffer # 0 => w_buffer \in Buffer /\ text[w_buffer] \in Seq(Nat)
  BY LineTypes
<1>1. ASSUME NEW p \in Printer, PrintLock(p) PROVE LinesInv'
  <2>1. UNCHANGED <<work, lat, lbuf, text, lines, w_buffer, gone, file>>
    BY <1>1 DEF PrintLock, Goes, logt
  <2>2. Filling' = Filling
    BY <1>1, LockFilling, Zenon
  <2>3. Unwritten' = Unwritten
    BY <2>1, Zenon DEF Unwritten
  <2> QED BY <2>1, <2>2, <2>3, LinesSame, Zenon
<1>2. ASSUME NEW p \in Printer, PrintFull(p) PROVE LinesInv'
  <2>1. w_buffer \in Buffer /\ Filling = {w_buffer} /\ Len(text[w_buffer]) >= 1
    BY <1>2, FillingIs, BufferIs, Nums, SMTT(30) DEF PrintFull, Current, BufferTypes
  <2>2. Filling' = {}
    BY <1>2, GoesTo DEF PrintFull, Filling
  <2>3. UNCHANGED <<lat, lbuf, text, lines, w_buffer, gone, file>> /\ work' = Append(work, w_buffer)
    BY <1>2 DEF PrintFull, EnqueueJobBuffer, Goes, logt
  <2>4. Unwritten' = Append(Unwritten, w_buffer)
    BY <1>0, <2>1, <2>3, PushedAppend, ZenonT(30) DEF Unwritten
  <2>5. NextLine' = lines + 1 /\ LastLine' = LastLine /\ FillInv' /\ FileInv'
    <3>1. NextLine' = lines + 1 - 0 /\ LastLine' = LastLine
      BY <2>2, <2>3, Zenon DEF NextLine, LastLine
    <3>2. FillInv' /\ FileInv'
      BY <2>2, <2>3, Zenon DEF FillInv, FileInv, InOrder, LinesInv
    <3>3. lines \in Nat
      BY LineTypes, Zenon
    <3> QED BY <3>1, <3>2, <3>3
  <2>6. ChainInv'
    <3>1. Chain(Append(Unwritten, w_buffer), text, LastLine, lines + 1, gone = {})
      BY <2>1, HandedOver, Zenon
    <3> QED BY <2>3, <2>4, <2>5, <3>1, Zenon DEF ChainInv
  <2> QED BY <2>5, <2>6, SMTT(30) DEF LinesInv
<1>3. ASSUME NEW p \in Printer, PrintWake(p) PROVE LinesInv'
  <2>1. UNCHANGED <<work, lat, lbuf, text, lines, w_buffer, gone, file>>
    BY <1>3, ZenonT(30) DEF PrintWake, WakeUp, Goes, logt
  <2>2. Filling' = Filling
    BY <1>3, WakeFilling, Zenon
  <2>3. Unwritten' = Unwritten
    BY <2>1, Zenon DEF Unwritten
  <2> QED BY <2>1, <2>2, <2>3, LinesSame, Zenon
<1>4. ASSUME NEW p \in Printer, PrintTake(p) PROVE LinesInv'
  <2>1. Filling = {}
    BY <1>4, FillingIs, Zenon DEF PrintTake
  <2>2. Head(free) \in Buffer /\ w_buffer' = Head(free) /\ free # <<>>
    BY <1>4, TypeOfTail, Zenon DEF PrintTake, BufferTypes
  <2>3. UNCHANGED <<work, lat, lbuf, lines, gone, file>>
    BY <1>4, Zenon DEF PrintTake, Goes, logt
  <2>4. text'[Head(free)] = <<>> /\ \A b \in Buffer : b # Head(free) => text'[b] = text[b]
    BY <1>4, <2>2, Zenon DEF PrintTake, BufferTypes
  <2>5. Head(free) \in Range(free)
    BY <2>2, Dequeued, SMTT(30) DEF BufferTypes
  <2>6. \A i \in 1..Len(Unwritten) : Unwritten[i] \in Buffer /\ Unwritten[i] # Head(free)
    BY <1>0, <2>5, UnwrittenAre, Zenon DEF Places, Apart
  <2>7. Unwritten' = Unwritten /\ LastLine' = LastLine /\ FileInv'
    BY <2>3 DEF Unwritten, LastLine, FileInv, InOrder, LinesInv
  <2>8. Len(text'[w_buffer']) = 0
    BY <2>2, <2>4, ZenonT(30)
  <2>9. NextLine' = NextLine /\ FillInv'
    BY <1>0, <2>1, <2>3, <2>8 DEF NextLine, FillInv
  <2>10. Chain(Unwritten, text', LastLine, NextLine, gone = {})
    BY <1>0, <2>4, <2>6, ChainSame, Zenon DEF LinesInv, ChainInv
  <2> QED BY <2>3, <2>7, <2>9, <2>10 DEF LinesInv, ChainInv
<1>5. ASSUME NEW p \in Printer, PrintPut(p) PROVE LinesInv'
  <2>1. w_buffer \in Buffer /\ Filling = {w_buffer}
    BY <1>5, FillingIs, BufferIs, Zenon DEF PrintPut, Current, BufferTypes
  <2>2. Filling' = {w_buffer}
    <3>1. w_buffer' = w_buffer /\ \A r \in Printer : at'[r] \notin {"wake", "take"} /\ at'["stack"] \notin AtEnd
      BY <1>5, GoesTo, Names, SMTT(30) DEF PrintPut, Held, InPrintf, AtEnd
    <3> QED BY <2>1, <3>1, BufferIs, SMTT(30) DEF Filling, AtEnd
  <2>3. UNCHANGED <<work, lat, lbuf, w_buffer, gone, file>> /\ lines' = lines + 1
    BY <1>5 DEF PrintPut, Goes, logt
  <2>4. /\ text'[w_buffer] = Append(text[w_buffer], lines + 1)
        /\ \A b \in Buffer : b # w_buffer => text'[b] = text[b]
    BY <1>5, <2>1, ZenonT(30) DEF PrintPut, BufferTypes
  <2>5. \A i \in 1..Len(Unwritten) : Unwritten[i] \in Buffer /\ Unwritten[i] # w_buffer
    BY <1>0, <2>1, UnwrittenAre, Zenon DEF Places, Apart
  <2>6. Unwritten' = Unwritten /\ LastLine' = LastLine /\ FileInv'
    BY <2>3 DEF Unwritten, LastLine, FileInv, InOrder, LinesInv
  <2> DEFINE y == text[w_buffer]
  <2>7. /\ Len(y) \in Nat /\ lines \in Nat /\ Len(Append(y, lines + 1)) = Len(y) + 1
        /\ Append(y, lines + 1)[Len(y) + 1] = lines + 1
        /\ \A k \in 1..Len(y) : Append(y, lines + 1)[k] = y[k]
    BY <1>0, <2>1, BufferIs, SMTT(30)
  <2>8. NextLine = lines + 1 - Len(y) /\ NextLine' = lines' + 1 - Len(Append(y, lines + 1))
    BY <2>1, <2>2, <2>3, <2>4, Zenon DEF NextLine
  <2>9. NextLine' = NextLine
    <3>1. NextLine' = (lines + 1) + 1 - (Len(y) + 1)
      BY <2>3, <2>7, <2>8, Zenon
    <3>2. (lines + 1) + 1 - (Len(y) + 1) = lines + 1 - Len(y)
      BY <2>7, EarlierLine, Zenon
    <3> QED BY <2>8, <3>1, <3>2, Zenon
  <2>10. \A k \in 1..Len(y) : y[k] = NextLine + (k - 1)
    <3>1. Filling # {}
      BY <2>1, ZenonT(30)
    <3> QED BY <3>1, Zenon DEF LinesInv, FillInv
  <2>11. ASSUME NEW k \in 1..(Len(y) + 1) PROVE Append(y, lines + 1)[k] = NextLine + (k - 1)
    <3>1. CASE k = Len(y) + 1
      BY <2>7, <2>8, <3>1
    <3>2. CASE k \in 1..Len(y)
      BY <2>7, <2>10, <3>2, ZenonT(30)
    <3> QED BY <2>7, <3>1, <3>2
  <2>12. FillInv'
    BY <2>3, <2>4, <2>7, <2>9, <2>11 DEF FillInv
  <2>13. Chain(Unwritten, text', LastLine, NextLine, gone = {})
    BY <1>0, <2>4, <2>5, ChainSame, Zenon DEF LinesInv, ChainInv
  <2> QED BY <2>3, <2>6, <2>9, <2>12, <2>13, Zenon DEF LinesInv, ChainInv
<1>6. CASE StackFlush
  <2>0. Filling = {w_buffer} \ {0}
    BY <1>6, FillingIs, Names, Zenon DEF StackFlush, Calm, Held, AtEnd, InPrintf
  <2>1. Filling' = {}
    BY <1>6, GoesTo, Names, ZenonT(30) DEF StackFlush, Filling
  <2>2. UNCHANGED <<lbuf, text, lines, w_buffer, file>>
    BY <1>6 DEF StackFlush, Log, logt
  <2>3. NextLine' = lines + 1 /\ LastLine' = LastLine /\ FillInv'
    <3>1. NextLine' = lines' + 1 - 0
      BY <2>1, Zenon DEF NextLine
    <3>2. lines + 1 - 0 = lines + 1 /\ lines' = lines
      BY <1>0, <2>2
    <3>3. LastLine' = LastLine
      BY <2>2, Zenon DEF LastLine
    <3>4. FillInv'
      BY <2>1, Zenon DEF FillInv
    <3> QED BY <3>1, <3>2, <3>3, <3>4, Zenon
  <2>4. CASE w_buffer = 0
    <3>1. UNCHANGED <<work, gone, lat>> /\ Filling = {}
      BY <1>6, <2>0, <2>4 DEF StackFlush, logt
    <3>2. Unwritten' = Unwritten
      BY <2>2, <3>1, Zenon DEF Unwritten
    <3> QED BY <2>1, <2>2, <3>1, <3>2, LinesSame, Zenon
  <2>5. CASE w_buffer # 0
    <3>1. w_buffer \in Buffer /\ Filling = {w_buffer}
      BY <2>0, <2>5, BufferIs, Zenon DEF BufferTypes
    <3>2. Len(text[w_buffer]) >= 1 /\ Len(text[w_buffer]) \in Nat
      <4>1. mutex \in {"none", "log"}
        BY <1>6, Names DEF StackFlush, Calm, Held, InPrintf, ThreadTypes
      <4>2. Len(text[w_buffer]) >= 1
        BY <1>0, <2>5, <4>1, Zenon DEF Current
      <4>3. text[w_buffer] \in Seq(Nat)
        BY <2>0, <3>1, Zenon DEF BufferTypes
      <4> QED BY <4>2, <4>3, SMTT(30)
    <3>3. CASE Unwritten' = Append(Unwritten, w_buffer) /\ UNCHANGED gone
      <4>1. FileInv'
        BY <2>2, <3>3, Zenon DEF LinesInv, FileInv, InOrder
      <4>2. ChainInv'
        BY <2>2, <2>3, <3>1, <3>2, <3>3, HandedOver DEF ChainInv
      <4> QED BY <2>3, <4>1, <4>2, SMTT(30) DEF LinesInv
    <3>4. CASE Unwritten' = Unwritten /\ gone' = gone \cup {w_buffer}
      <4>1. FileInv' /\ (gone' = {}) = FALSE
        BY <2>2, <3>4 DEF LinesInv, FileInv, InOrder
      <4>2. NextLine <= lines + 1 /\ lines + 1 \in Int
        <5>1. NextLine = lines + 1 - Len(text[w_buffer])
          BY <3>1 DEF NextLine
        <5>2. lines \in Nat /\ Len(text[w_buffer]) \in Nat
          BY <1>0, <3>2, Zenon
        <5> QED BY <5>1, <5>2, EarlierLine, Zenon
      <4>3. Chain(Unwritten, text, LastLine, lines + 1, FALSE)
        BY <1>0, <4>2, ChainLater, Zenon DEF LinesInv, ChainInv
      <4>4. ChainInv'
        BY <2>2, <2>3, <3>4, <4>1, <4>3, Zenon DEF ChainInv
      <4> QED BY <2>3, <4>1, <4>4, ZenonT(30) DEF LinesInv
    <3>5. \/ EnqueueJobBuffer(w_buffer) /\ UNCHANGED <<gone, lat>>
          \/ UNCHANGED <<work, lat>> /\ gone' = gone \cup {w_buffer}
          \/ /\ lat = "locked" /\ lat' = "idle" /\ work = <<>> /\ work' = <<w_buffer>>
             /\ UNCHANGED gone
      BY <1>6, <2>5 DEF StackFlush, Log, logt
    <3>6. CASE EnqueueJobBuffer(w_buffer) /\ UNCHANGED <<gone, lat>>
      <4>1. Unwritten' = Append(Unwritten, w_buffer)
        BY <1>0, <2>2, <3>1, <3>6, PushedAppend, ZenonT(30) DEF Unwritten, EnqueueJobBuffer
      <4> QED BY <3>3, <3>6, <4>1, ZenonT(30)
    <3>7. CASE UNCHANGED <<work, lat>> /\ gone' = gone \cup {w_buffer}
      <4>1. Unwritten' = Unwritten
        BY <2>2, <3>7, Zenon DEF Unwritten
      <4> QED BY <3>4, <3>7, <4>1
    <3>8. CASE lat = "locked" /\ lat' = "idle" /\ work = <<>> /\ work' = <<w_buffer>> /\ UNCHANGED gone
      <4>1. Unwritten = <<>> /\ Unwritten' = <<w_buffer>> /\ Append(<<>>, w_buffer) = <<w_buffer>>
        BY <3>8 DEF Unwritten
      <4> QED BY <3>3, <3>8, <4>1, SMTT(30)
    <3> QED BY <3>5, <3>6, <3>7, <3>8
  <2> QED BY <2>4, <2>5
<1>7. CASE StackWake
  <2>1. UNCHANGED <<work, lat, lbuf, text, lines, w_buffer, gone, file>>
    BY <1>7 DEF StackWake, WakeUp, Goes, logt
  <2>2. Filling' = Filling
    <3>1. at["stack"] \in AtEnd /\ at'["stack"] \in AtEnd
      BY <1>7, <1>0, Names DEF ThreadTypes, AtEnd, StackWake, WakeUp, Goes
    <3> QED BY <3>1, StaysAtEnd, Zenon
  <2>3. Unwritten' = Unwritten
    BY <2>1, Zenon DEF Unwritten
  <2> QED BY <2>1, <2>2, <2>3, LinesSame, Zenon
<1>8. CASE StackDone
  <2>1. UNCHANGED <<work, lat, lbuf, text, lines, w_buffer, gone, file>>
    BY <1>8, Zenon DEF StackDone, Goes, logt
  <2>2. Filling' = Filling
    <3>1. at["stack"] \in AtEnd /\ at'["stack"] \in AtEnd
      BY <1>8, <1>0, Names, Zenon DEF ThreadTypes, AtEnd, StackDone, Goes
    <3> QED BY <3>1, StaysAtEnd, Zenon
  <2>3. Unwritten' = Unwritten
    BY <2>1, Zenon DEF Unwritten
  <2> QED BY <2>1, <2>2, <2>3, LinesSame, Zenon
<1>9. CASE StackLast
  <2>1. UNCHANGED <<work, lat, lbuf, text, lines, w_buffer, gone, file>>
    BY <1>9, Zenon DEF StackLast, WakeUp, Goes, logt
  <2>2. Filling' = Filling
    <3>1. at["stack"] \in AtEnd /\ at'["stack"] \in AtEnd
      BY <1>9, <1>0, Names, Zenon DEF ThreadTypes, AtEnd, StackLast, WakeUp, Goes
    <3> QED BY <3>1, StaysAtEnd, Zenon
  <2>3. Unwritten' = Unwritten
    BY <2>1, Zenon DEF Unwritten
  <2> QED BY <2>1, <2>2, <2>3, LinesSame, Zenon
<1>10. CASE StackJoin
  <2>1. UNCHANGED <<work, lat, lbuf, text, lines, w_buffer, gone, file>>
    BY <1>10, ZenonT(30) DEF StackJoin, Goes, logt
  <2>2. Filling' = Filling
    <3>1. at["stack"] \in AtEnd /\ at'["stack"] \in AtEnd
      BY <1>10, <1>0, Names DEF ThreadTypes, AtEnd, StackJoin, Goes
    <3> QED BY <3>1, StaysAtEnd, Zenon
  <2>3. Unwritten' = Unwritten
    BY <2>1, Zenon DEF Unwritten
  <2> QED BY <2>1, <2>2, <2>3, LinesSame, Zenon
<1>11. CASE LogLock
  <2>1. UNCHANGED <<at, text, lines, w_buffer>>
    BY <1>11 DEF LogLock, Log, logt
  <2>2. Filling' = Filling
    BY <2>1, Zenon DEF Filling
  <2>3. Unwritten' = Unwritten
    BY <1>11 DEF Unwritten, LogLock, Log, logt
  <2>4. UNCHANGED <<gone, file>>
    BY <1>11, ZenonT(30) DEF LogLock, Log, logt
  <2> QED BY <2>1, <2>2, <2>3, <2>4, LinesSame, Zenon
<1>12. CASE LogTake
  <2>1. UNCHANGED <<at, text, lines, w_buffer>>
    BY <1>12 DEF LogTake, Log, logt
  <2>2. Filling' = Filling
    BY <2>1, Zenon DEF Filling
  <2>3. Unwritten' = Unwritten
    <3>1. Unwritten = work
      BY <1>12, Zenon DEF LogTake, Unwritten
    <3>2. CASE work = <<>>
      BY <1>12, <3>1, <3>2 DEF LogTake, Log, Unwritten
    <3>3. CASE work # <<>>
      <4>1. Unwritten' = <<Head(work)>> \o Tail(work)
        BY <1>12, <3>3, ZenonT(30) DEF LogTake, Unwritten
      <4> QED BY <1>0, <3>1, <3>3, <4>1, Pulled, Zenon
    <3> QED BY <3>2, <3>3, Zenon
  <2>4. UNCHANGED <<gone, file>>
    BY <1>12 DEF LogTake
  <2> QED BY <2>1, <2>2, <2>3, <2>4, LinesSame, Zenon
<1>13. CASE LogWrite
  <2>1. UNCHANGED <<at, text, lines, w_buffer>>
    BY <1>13, ZenonT(30) DEF LogWrite, Log, logt
  <2>2. Filling' = Filling
    BY <2>1, Zenon DEF Filling
  <2> DEFINE y == text[lbuf]
  <2>3. /\ lbuf \in Buffer /\ Unwritten # <<>> /\ Unwritten[1] = lbuf /\ Tail(Unwritten) = work
        /\ y \in Seq(Nat) /\ file \in Seq(Nat)
    BY <1>13, <1>0, Zenon DEF LogWrite, BufferTypes
  <2>4. Unwritten' = work /\ UNCHANGED gone /\ file' = file \o y
    BY <1>13 DEF LogWrite, Log, Unwritten
  <2>5. /\ Chain(work, text, Last(y), NextLine, gone = {})
        /\ Meets(LastLine, y[1], gone = {}) /\ Run(y)
    BY <1>0, <2>3, ChainTail, Zenon DEF LinesInv, ChainInv
  <2>6. /\ \A i \in 1..(Len(file \o y) - 1) : (file \o y)[i] < (file \o y)[i + 1]
        /\ gone = {} => \A i \in DOMAIN (file \o y) : (file \o y)[i] = i
        /\ \A i \in 1..Len(file \o y) : (file \o y)[i] >= i
        /\ file \o y # <<>> /\ (file \o y)[Len(file \o y)] = Last(y)
    BY <2>3, <2>5, FileGrows, ZenonT(30) DEF LinesInv, FileInv, InOrder, LastLine
  <2>7. FileInv' /\ LastLine' = Last(y)
    BY <2>4, <2>6, Zenon DEF FileInv, InOrder, LastLine
  <2>8. NextLine' = NextLine /\ FillInv'
    BY <2>1, <2>2 DEF NextLine, FillInv, LinesInv
  <2>9. ChainInv'
    BY <2>1, <2>4, <2>5, <2>7, <2>8, Zenon DEF ChainInv
  <2> QED BY <2>7, <2>8, <2>9, Zenon DEF LinesInv
<1>14. CASE LogFree
  <2>1. UNCHANGED <<at, text, lines, w_buffer>>
    BY <1>14, Zenon DEF LogFree, LogLeaves, logt
  <2>2. Filling' = Filling
    BY <2>1, Zenon DEF Filling
  <2>3. Unwritten' = Unwritten
    BY <1>14 DEF Unwritten, LogFree, LogLeaves, logt
  <2>4. UNCHANGED <<gone, file>>
    BY <1>14 DEF LogFree, LogLeaves, logt
  <2> QED BY <2>1, <2>2, <2>3, <2>4, LinesSame, Zenon
<1>15. CASE LogDrop
  <2>1. UNCHANGED <<at, text, lines, w_buffer>>
    BY <1>15, Zenon DEF LogDrop, LogLeaves, logt
  <2>2. Filling' = Filling
    BY <2>1, Zenon DEF Filling
  <2>3. Unwritten # <<>> /\ Tail(Unwritten) = work
    BY <1>15, <1>0, Zenon DEF LogDrop
  <2>4. Unwritten' = work /\ gone' # {} /\ file' = file
    BY <1>15 DEF LogDrop, LogLeaves, Unwritten
  <2>5. Chain(work, text, LastLine, NextLine, FALSE)
    BY <1>0, <2>3, ChainTail, Zenon DEF LinesInv, ChainInv
  <2>6. FileInv' /\ LastLine' = LastLine
    BY <2>4 DEF LinesInv, FileInv, InOrder, LastLine
  <2>7. NextLine' = NextLine /\ FillInv'
    BY <2>1, <2>2 DEF NextLine, FillInv, LinesInv
  <2>8. (gone' = {}) = FALSE
    BY <2>4
  <2>9. ChainInv'
    BY <2>1, <2>4, <2>5, <2>6, <2>7, <2>8, Zenon DEF ChainInv
  <2> QED BY <2>6, <2>7, <2>9, ZenonT(30) DEF LinesInv
<1>16. CASE LogTest
  <2>1. UNCHANGED <<at, text, lines, w_buffer>>
    BY <1>16, Zenon DEF LogTest, logt
  <2>2. Filling' = Filling
    BY <2>1, Zenon DEF Filling
  <2>3. Unwritten' = Unwritten
    BY <1>16 DEF Unwritten, LogTest, logt
  <2>4. UNCHANGED <<gone, file>>
    BY <1>16, ZenonT(30) DEF LogTest, logt
  <2> QED BY <2>1, <2>2, <2>3, <2>4, LinesSame, Zenon
<1>17. CASE LogRead
  <2>1. UNCHANGED <<at, text, lines, w_buffer>>
    BY <1>17, Zenon DEF LogRead, logt
  <2>2. Filling' = Filling
    BY <2>1, Zenon DEF Filling
  <2>3. Unwritten' = Unwritten
    BY <1>17, Zenon DEF Unwritten, LogRead, logt
  <2>4. UNCHANGED <<gone, file>>
    BY <1>17 DEF LogRead, logt
  <2> QED BY <2>1, <2>2, <2>3, <2>4, LinesSame, Zenon
<1>18. CASE UNCHANGED logvars
  <2>1. UNCHANGED <<work, lat, lbuf, text, lines, w_buffer, gone, file, at>>
    BY <1>18 DEF logvars, logt
  <2> QED BY <2>1, LinesSame, Zenon DEF Unwritten, Filling
<1> QED BY <1>1, <1>2, <1>3, <1>4, <1>5, <1>6, <1>7, <1>8, <1>9,
           <1>10, <1>11, <1>12, <1>13, <1>14, <1>15, <1>16, <1>17, <1>18, Zenon
        DEF LogNext, Prints, StackEnds, LogThread

-----------------------------------------------------------------------------
(* The wake-ups. *)

\* A buffer waits although the state says idle only after the unlocked flush, and then
\* the log thread is on its way to it or will be told.
WakeInv ==
  /\ state = "IDLE_LOGT" /\ work # <<>> =>
       /\ Len(work) = 1
       /\ \/ lat \in {"idle", "read"} /\ (at["stack"] = "awake" \/ pipe > 0)
          \/ lat \in {"lock", "locked"} /\ cnt = 0
  /\ LogWoken

LEMMA OneTaken == ASSUME NEW S, NEW s \in Seq(S), Len(s) = 1 PROVE Tail(s) = <<>>
<1>1. s # <<>>
  OBVIOUS
<1>2. Tail(s) \in Seq(S) /\ Len(Tail(s)) = Len(s) - 1
  BY <1>1
<1>3. Len(Tail(s)) = 0
  BY <1>2
<1> QED BY <1>2, <1>3, EmptyIs, Zenon

\* Every step keeps the wake-ups.
LEMMA WakeStep ==
  ASSUME Control, WakeInv, [LogNext]_logvars
  PROVE  WakeInv'
<1> USE DEF Control
<1>1. ASSUME NEW p \in Printer, PrintLock(p) PROVE WakeInv'
  <2>1. \A r \in Printer : at'[r] = IF r = p THEN (IF w_buffer = 0 THEN "take" ELSE IF Len(text[w_buffer]) = Fill THEN "full" ELSE "put") ELSE at[r]
    BY <1>1, GoesTo, Names, Zenon DEF PrintLock
  <2>2. UNCHANGED <<state, work, lat, cnt, pipe>>
    BY <1>1, ZenonT(30) DEF PrintLock, Goes, logt
  <2>3. \A r \in Printer : at[r] \in {"wake", "awake"} <=> at'[r] \in {"wake", "awake"}
    BY <1>1, <2>1, Zenon DEF PrintLock
  <2>4. at["stack"] = "awake" => at'["stack"] = "awake"
    BY <1>1, <2>1, Names DEF PrintLock
  <2> QED BY <2>2, <2>3, <2>4, SMTT(30) DEF WakeInv, LogWoken
<1>2. ASSUME NEW p \in Printer, PrintFull(p) PROVE WakeInv'
  <2>1. at'[p] = "wake" /\ state' = "ACTIVE_LOGT"
    BY <1>2, GoesTo DEF PrintFull, EnqueueJobBuffer
  <2> QED BY <2>1, ZenonT(30) DEF WakeInv, LogWoken
<1>3. ASSUME NEW p \in Printer, PrintWake(p) PROVE WakeInv'
  <2>2. pipe' > 0 /\ UNCHANGED <<state, work, lat, cnt>>
    BY <1>3, SMTT(30) DEF ThreadTypes, PrintWake, WakeUp, Goes, logt
  <2> QED BY <2>2, SMTT(30) DEF WakeInv, LogWoken
<1>4. ASSUME NEW p \in Printer, PrintTake(p) PROVE WakeInv'
  <2>1. \A r \in Printer : at'[r] = IF r = p THEN "put" ELSE at[r]
    BY <1>4, GoesTo, Names DEF PrintTake
  <2>2. UNCHANGED <<state, work, lat, cnt, pipe>>
    BY <1>4, ZenonT(30) DEF PrintTake, Goes, logt
  <2>3. \A r \in Printer : at[r] \in {"wake", "awake"} <=> at'[r] \in {"wake", "awake"}
    BY <1>4, <2>1, Zenon DEF PrintTake
  <2>4. at["stack"] = "awake" => at'["stack"] = "awake"
    BY <1>4, <2>1, Names, ZenonT(30) DEF PrintTake
  <2> QED BY <2>2, <2>3, <2>4 DEF WakeInv, LogWoken
<1>5. ASSUME NEW p \in Printer, PrintPut(p) PROVE WakeInv'
  <2>1. \A r \in Printer : at'[r] = IF r = p THEN "idle" ELSE at[r]
    BY <1>5, GoesTo, Names DEF PrintPut
  <2>2. UNCHANGED <<state, work, lat, cnt, pipe>>
    BY <1>5, ZenonT(30) DEF PrintPut, Goes, logt
  <2>3. \A r \in Printer : at[r] \in {"wake", "awake"} <=> at'[r] \in {"wake", "awake"}
    BY <1>5, <2>1, Zenon DEF PrintPut
  <2>4. at["stack"] = "awake" => at'["stack"] = "awake"
    BY <1>5, <2>1, Names DEF PrintPut
  <2> QED BY <2>2, <2>3, <2>4 DEF WakeInv, LogWoken
<1>6. CASE StackFlush
  <2>0. pipe' = pipe /\ pipe \in Nat
    BY <1>6, Nums DEF StackFlush, ThreadTypes
  <2>1. CASE w_buffer = 0
    <3>1. \A r \in Printer : at'[r] = IF r = "stack" THEN "done" ELSE at[r]
      BY <1>6, <2>1, GoesTo, Names, Zenon DEF StackFlush
    <3>2. UNCHANGED <<state, work, lat, cnt, pipe>>
      BY <1>6, <2>1, ZenonT(30) DEF StackFlush, logt
    <3>3. \A r \in Printer : at[r] \notin {"wake", "awake"}
      BY <1>6, Names, Zenon DEF StackFlush, Calm
    <3> QED BY <2>0, <3>2, <3>3, Names, ZenonT(30) DEF WakeInv, LogWoken
  <2>2. CASE w_buffer # 0
    <3>1. at'["stack"] = "awake" /\ "stack" \in Printer
      BY <1>6, <2>2, GoesTo, Names, ZenonT(30) DEF StackFlush
    <3>2. \/ state' = "ACTIVE_LOGT"
          \/ work' = <<w_buffer>> /\ lat' = "idle"
      BY <1>6, <2>2 DEF StackFlush, EnqueueJobBuffer, Log
    <3> QED BY <3>1, <3>2, SMTT(30) DEF WakeInv, LogWoken
  <2> QED BY <2>1, <2>2, SMTT(30)
<1>7. CASE StackWake
  <2>2. pipe' > 0 /\ UNCHANGED <<state, work, lat, cnt>>
    BY <1>7 DEF ThreadTypes, StackWake, WakeUp, Goes, logt
  <2> QED BY <2>2, SMTT(30) DEF WakeInv, LogWoken
<1>8. CASE StackDone
  <2>1. \A r \in Printer : at'[r] = IF r = "stack" THEN "last" ELSE at[r]
    BY <1>8, GoesTo, Names, Zenon DEF StackDone
  <2>2. UNCHANGED <<state, work, lat, cnt, pipe>>
    BY <1>8, Zenon DEF StackDone, Goes, logt
  <2>3. \A r \in Printer : at[r] \in {"wake", "awake"} <=> at'[r] \in {"wake", "awake"}
    BY <1>8, <2>1, Zenon DEF StackDone
  <2>4. at["stack"] = "awake" => at'["stack"] = "awake"
    BY <1>8, <2>1, Names DEF StackDone
  <2> QED BY <2>2, <2>3, <2>4, SMTT(30) DEF WakeInv, LogWoken
<1>9. CASE StackLast
  <2>2. pipe' > 0 /\ UNCHANGED <<state, work, lat, cnt>>
    BY <1>9, SMTT(30) DEF ThreadTypes, StackLast, WakeUp, Goes, logt
  <2> QED BY <2>2 DEF WakeInv, LogWoken
<1>10. CASE StackJoin
  <2>1. \A r \in Printer : at'[r] = IF r = "stack" THEN "closed" ELSE at[r]
    BY <1>10, GoesTo, Names, Zenon DEF StackJoin
  <2>2. UNCHANGED <<state, work, lat, cnt, pipe>>
    BY <1>10, Zenon DEF StackJoin, Goes, logt
  <2>3. \A r \in Printer : at[r] \in {"wake", "awake"} <=> at'[r] \in {"wake", "awake"}
    BY <1>10, <2>1 DEF StackJoin
  <2>4. at["stack"] = "awake" => at'["stack"] = "awake"
    BY <1>10, <2>1, Names, ZenonT(30) DEF StackJoin
  <2> QED BY <2>2, <2>3, <2>4 DEF WakeInv, LogWoken
<1>11. CASE LogLock
  BY <1>11, Zenon DEF WakeInv, LogWoken, Thread, LogLock, Log, logt
<1>12. CASE LogTake
  <2>1. lat' # "read"
    BY <1>12 DEF LogTake, Log
  <2>2. state' = "IDLE_LOGT" => work' = <<>>
    <3>1. CASE work = <<>>
      BY <1>12, <3>1 DEF LogTake
    <3>2. CASE work # <<>>
      <4>1. work' = Tail(work) /\ state' = state
        BY <1>12, <3>2 DEF LogTake
      <4>2. state = "IDLE_LOGT" => Tail(work) = <<>>
        BY <3>2, OneTaken, ZenonT(30) DEF WakeInv, BufferTypes
      <4> QED BY <4>1, <4>2
    <3> QED BY <3>1, <3>2, SMTT(30)
  <2> QED BY <2>1, <2>2, SMTT(30) DEF WakeInv, LogWoken
<1>13. CASE LogWrite
  BY <1>13 DEF WakeInv, LogWoken, Thread, LogWrite, Log, logt
<1>14. CASE LogFree
  BY <1>14, ZenonT(30) DEF WakeInv, LogWoken, Thread, LogFree, LogLeaves, logt
<1>15. CASE LogDrop
  BY <1>15, Zenon DEF WakeInv, LogWoken, Thread, LogDrop, LogLeaves, logt
<1>16. CASE LogTest
  <2>1. UNCHANGED <<work, state, pipe, at>> /\ cnt' = 0 /\ lat = "idle"
    BY <1>16, Zenon DEF LogTest
  <2>2. lat' = "lock" \/ (lat' = "read" /\ state = "IDLE_LOGT")
    BY <1>16 DEF LogTest
  <2>3. state = "IDLE_LOGT" /\ work # <<>> => Len(work) = 1 /\ (at["stack"] = "awake" \/ pipe > 0)
    BY <2>1 DEF WakeInv
  <2>4. pipe > 0 => pipe # 0
    BY SMTT(30) DEF ThreadTypes
  <2> QED BY <2>1, <2>2, <2>3, <2>4, Names, ZenonT(30) DEF WakeInv, LogWoken
<1>17. CASE LogRead
  BY <1>17, ZenonT(30) DEF WakeInv, LogWoken, Thread, LogRead, logt
<1>18. CASE UNCHANGED logvars
  BY <1>18 DEF WakeInv, LogWoken, logvars, logt
<1> QED BY <1>1, <1>2, <1>3, <1>4, <1>5, <1>6, <1>7, <1>8, <1>9,
           <1>10, <1>11, <1>12, <1>13, <1>14, <1>15, <1>16, <1>17, <1>18, Zenon
        DEF LogNext, Prints, StackEnds, LogThread

-----------------------------------------------------------------------------
(* The invariant of the logger. *)

LogInv == Control /\ Places /\ LinesInv /\ WakeInv

LEMMA LogStarts == LogInit => LogInv
<1> SUFFICES ASSUME LogInit PROVE LogInv
  BY Zenon
<1>1. free \in Seq(Buffer) /\ Len(free) = NUM_LOG_BUFF /\ Range(free) = Buffer /\ IsInjective(free)
  BY Nums, SMTT(30) DEF LogInit, Buffer, Range, IsInjective
<1>2. BufferTypes
  BY <1>1, Nums DEF LogInit, BufferTypes
<1>3. ThreadTypes
  <2>1. at \in [Printer -> {"idle"} \cup InPrintf \cup AtEnd]
    BY Zenon DEF LogInit
  <2>2. pipe \in 0..PipeSize /\ lbuf \in 0..NUM_LOG_BUFF /\ cnt \in 0..(NUM_LOG_BUFF + 1)
    BY Nums, SMTT(30) DEF LogInit
  <2> QED BY <2>1, <2>2, Zenon DEF LogInit, ThreadTypes, LogAt
<1>4. Held /\ Current /\ Thread
  BY Names, Nums DEF LogInit, Held, Current, Thread, InPrintf, AtEnd
<1>5. Filling = {}
  BY Names, ZenonT(30) DEF LogInit, Filling
<1>6. Places
  BY <1>1, <1>5, SMTT(30) DEF LogInit, Places, Apart, Range, IsInjective
<1>7. Unwritten = <<>> /\ LastLine = 0 /\ NextLine = 1
  BY <1>5, SMTT(30) DEF LogInit, Unwritten, LastLine, NextLine
<1>8. LinesInv
  BY <1>5, <1>7, SMTT(30) DEF LogInit, LinesInv, ChainInv, Chain, Meets, FillInv, FileInv, InOrder
<1>9. WakeInv
  BY DEF LogInit, WakeInv, LogWoken
<1> QED BY <1>2, <1>3, <1>4, <1>6, <1>8, <1>9 DEF LogInv, Control

\* No more lines are in the file than were printed.
LEMMA FileIsShort == LogInv => Len(file) <= lines
<1> SUFFICES ASSUME LogInv PROVE Len(file) <= lines
  BY ZenonT(30)
<1>0. file \in Seq(Nat) /\ lines \in Nat /\ LastLine \in Nat /\ NextLine \in Int
  BY LineTypes DEF LogInv, Control, BufferTypes
<1>1. CASE file = <<>>
  BY <1>0, <1>1
<1>2. CASE file # <<>>
  <2>1. Len(file) \in Nat /\ Len(file) >= 1
    BY <1>0, <1>2
  <2>2. LastLine >= Len(file)
    BY <1>2, <2>1 DEF LogInv, LinesInv, FileInv, LastLine
  <2>3. LastLine < NextLine
    BY Zenon DEF LogInv, LinesInv, ChainInv, Chain
  <2>4. NextLine <= lines + 1
    BY <1>0, NextIsLater DEF LogInv
  <2> QED BY <1>0, <2>1, <2>2, <2>3, <2>4
<1> QED BY <1>1, <1>2

LEMMA LogInvKeeps == LogInv => LogKept
<1> SUFFICES ASSUME LogInv PROVE LogKept
  BY ZenonT(30)
<1>1. LogTypeOK
  BY FileIsShort DEF LogInv, Control, BufferTypes, ThreadTypes, LogTypeOK
<1>2. OnePlace
  BY OnePlaceIs, Zenon DEF LogInv, Places
<1>3. InOrder /\ LogWoken
  BY DEF LogInv, LinesInv, FileInv, WakeInv
<1>4. WrittenAtEnd
  <2> SUFFICES ASSUME at["stack"] = "closed", gone = {} PROVE Len(file) >= flushed
    BY Zenon DEF WrittenAtEnd
  <2>1. lat = "end" /\ work = <<>> /\ flushed = lines
    BY Zenon DEF LogInv, Control, Thread, AtEnd
  <2>2. Unwritten = <<>> /\ Filling = {}
    BY <2>1, Names, ZenonT(30) DEF Unwritten, Filling
  <2>3. file \in Seq(Nat) /\ lines \in Nat /\ LastLine \in Nat
    BY LineTypes DEF LogInv, Control, BufferTypes
  <2>4. NextLine = lines + 1
    BY <2>2, <2>3 DEF NextLine
  <2>5. NextLine = LastLine + 1
    BY <2>2, Zenon DEF LogInv, LinesInv, ChainInv, Chain, Meets
  <2>6. LastLine = Len(file)
    <3>1. CASE file = <<>>
      BY <3>1 DEF LastLine
    <3>2. CASE file # <<>>
      <4>1. Len(file) \in DOMAIN file
        BY <2>3, <3>2
      <4> QED BY <3>2, <4>1 DEF LastLine, LogInv, LinesInv, FileInv, InOrder
    <3> QED BY <3>1, <3>2
  <2> QED BY <2>1, <2>3, <2>4, <2>5, <2>6
<1> QED BY <1>1, <1>2, <1>3, <1>4 DEF LogKept

\* The log, for any number of threads, buffers and lines: every buffer is in one place
\* and only one, the file has the lines in the order of thread_printf() with none
\* missing unless a buffer was lost, the log thread never sleeps on a buffer with nobody
\* about to wake it, and what was printed before the flush is in the file when
\* mtcp_free_context() closes it.
THEOREM LogIsKept == LogSpec => []LogKept
<1>1. LogInit => LogInv
  BY LogStarts
<1>2. LogInv /\ [LogNext]_logvars => LogInv'
  <2> SUFFICES ASSUME LogInv, [LogNext]_logvars PROVE LogInv'
    OBVIOUS
  <2>1. Control'
    BY BufferTypesStep, ThreadTypesStep, HeldStep, CurrentStep, ThreadStep, Zenon DEF LogInv, Control
  <2>2. Places'
    BY <2>1, PlacesStep, Zenon DEF LogInv
  <2>3. LinesInv'
    BY <2>1, LinesStep, Zenon DEF LogInv
  <2>4. WakeInv'
    BY WakeStep, Zenon DEF LogInv
  <2> QED BY <2>1, <2>2, <2>3, <2>4 DEF LogInv
<1>3. LogInv => LogKept
  BY LogInvKeeps
<1> QED BY <1>1, <1>2, <1>3, PTL DEF LogSpec
=============================================================================
