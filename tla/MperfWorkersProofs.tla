------------------------- MODULE MperfWorkersProofs -------------------------
(***************************************************************************)
(* Proofs about MperfWorkers for every number of workers and of SIGINTs.   *)
(*                                                                         *)
(* What mperf_wait_workers() has established about a worker it has gone    *)
(* past is kept in PassedInv: the worker is gone, or was never created, or *)
(* its done flag is set.  The last case is the SIGINT one, which is why    *)
(* "All workers exit." needs a calm run, and NotUnderWorker does not.      *)
(***************************************************************************)
EXTENDS MperfWorkers, TLAPS

\* mperf_wait_workers() has gone past worker j.
Passed(j) == Waited \/ (mpc \in {"wait", "join"} /\ j < mi)

\* Workers are created in order, and the state of one tells where it can be.
StateInv ==
  /\ \A j \in Worker : mpc = "create" /\ j >= mi =>
                         wpc[j] = "none" /\ wstate[j] = "UNUSED"
  /\ \A j \in Worker : wstate[j] \in {"UNUSED", "ERROR"} <=> wpc[j] = "none"
  /\ \A j \in sig : wpc[j] # "none"
  /\ \A j \in Worker : wstate[j] = "CLOSE" => done[j]
  /\ \A j \in Worker : wpc[j] = "none" => ~mctx[j] /\ frees[j] = 0

\* What is known of a worker the master has waited for.
PassedInv ==
  \A j \in Worker : Passed(j) => wpc[j] \in {"none", "gone"} \/ done[j]

\* A worker in its loop that was not interrupted has what it needs.
OwnInv ==
  \A j \in Worker : ~done[j] =>
    /\ frees[j] > 0 => wpc[j] \in {"none", "clear", "gone"}
    /\ wpc[j] \in {"enter", "check", "poll", "lock", "sleep"} => epollfd[j]

WorkersInv == TypeOK /\ StateInv /\ PassedInv /\ OwnInv

\* Every step keeps the types.
LEMMA TypeStep ==
  ASSUME TypeOK, [Next]_vars
  PROVE  TypeOK'
<1>1. ASSUME Create PROVE TypeOK'
  <2>1. mpc' \in Phases /\ mi' \in Worker
    BY <1>1, WorkersAssumption DEF Create, Step, TypeOK, Worker, Phases
  <2>2. wpc' \in [Worker -> Places]
    BY <1>1 DEF Create, TypeOK, Places
  <2>3. wstate' \in [Worker -> {"UNUSED", "UNINIT", "INITED", "CLOSE", "ERROR"}]
    BY <1>1 DEF Create, TypeOK
  <2> QED BY <1>1, <2>1, <2>2, <2>3 DEF Create, ctxVars, sigVars, TypeOK
<1>2. ASSUME KillAll PROVE TypeOK'
  <2>1. mpc' \in Phases /\ mi' \in Worker
    BY <1>2, WorkersAssumption DEF KillAll, Step, Crash, TypeOK, Worker, Phases
  <2>2. sig' \in SUBSET Worker
    BY <1>2 DEF KillAll, TypeOK
  <2> QED BY <1>2, <2>1, <2>2 DEF KillAll, ctxVars, sigVars, TypeOK
<1>3. ASSUME Wait PROVE TypeOK'
  BY <1>3, WorkersAssumption DEF Wait, Step, Crash, Joinable, Running, ctxVars,
     sigVars, TypeOK, Worker, Places, Phases
<1>4. ASSUME Join PROVE TypeOK'
  BY <1>4, WorkersAssumption DEF Join, Step, ctxVars, sigVars, TypeOK, Worker,
     Places, Phases
<1>5. ASSUME DestroyClose PROVE TypeOK'
  <2>1. mpc' \in Phases /\ mi' \in Worker
    BY <1>5, WorkersAssumption DEF DestroyClose, Step, Crash, TypeOK, Worker, Phases
  <2>2. epollfd' \in [Worker -> BOOLEAN]
    BY <1>5, Zenon DEF DestroyClose, TypeOK
  <2> QED BY <1>5, <2>1, <2>2 DEF DestroyClose, ctxVars, sigVars, TypeOK
<1>6. ASSUME DestroyFree PROVE TypeOK'
  <2>1. mpc' \in Phases /\ mi' \in Worker
    BY <1>6, WorkersAssumption DEF DestroyFree, Step, Crash, TypeOK, Worker,
     Phases
  <2>2. frees' \in [Worker -> Nat]
    BY <1>6 DEF DestroyFree, Free, TypeOK
  <2>3. stack' \in [Worker -> {"none", "up", "stopping", "gone"}]
    BY <1>6 DEF DestroyFree, Free, TypeOK
  <2> QED BY <1>6, <2>1, <2>2, <2>3 DEF DestroyFree, ctxVars, sigVars, TypeOK
<1>7. ASSUME DestroyClear PROVE TypeOK'
  BY <1>7, WorkersAssumption DEF DestroyClear, Step, ctxVars, sigVars, TypeOK,
     Worker, Places, Phases
<1>8. ASSUME Finish PROVE TypeOK'
  BY <1>8, WorkersAssumption DEF Finish, ctxVars, sigVars, TypeOK, Worker,
     Places, Phases
<1>9. ASSUME Sigint PROVE TypeOK'
  <2>1. mpc' \in Phases /\ mi' \in Worker
    BY <1>9, WorkersAssumption DEF Sigint, Crash, TypeOK, Worker, Phases
  <2>2. intr' \in [Worker -> BOOLEAN]
    BY <1>9, Zenon DEF Sigint, HandleSignal, TypeOK
  <2>3. exit' \in [Worker -> BOOLEAN]
    BY <1>9, Zenon DEF Sigint, HandleSignal, TypeOK
  <2>4. sig' \in SUBSET Worker
    BY <1>9 DEF Sigint, TypeOK
  <2>5. nsig' \in 0..MaxSigs
    BY <1>9, WorkersAssumption DEF Sigint, TypeOK
  <2> QED BY <1>9, <2>1, <2>2, <2>3, <2>4, <2>5 DEF Sigint, ctxVars, sigVars, TypeOK
<1>10. ASSUME NEW i \in Worker, WBegin(i) PROVE TypeOK'
  BY <1>10 DEF WBegin, Goto, ctxVars, sigVars, TypeOK, Places, Phases
<1>11. ASSUME NEW i \in Worker, WContext(i) PROVE TypeOK'
  BY <1>11, Zenon DEF WContext, Goto, ctxVars, sigVars, TypeOK, Places, Phases
<1>12. ASSUME NEW i \in Worker, WEpoll(i) PROVE TypeOK'
  BY <1>12, ZenonT(30) DEF WEpoll, Goto, ctxVars, sigVars, TypeOK, Places, Phases
<1>13. ASSUME NEW i \in Worker, WEnter(i) PROVE TypeOK'
  BY <1>13, Zenon DEF WEnter, Goto, ctxVars, sigVars, TypeOK, Places, Phases
<1>14. ASSUME NEW i \in Worker, WCheck(i) PROVE TypeOK'
  BY <1>14 DEF WCheck, Goto, ctxVars, sigVars, TypeOK, Places, Phases
<1>15. ASSUME NEW i \in Worker, WPoll(i) PROVE TypeOK'
  BY <1>15, Zenon DEF WPoll, Goto, LeaveLoop, Crash, ctxVars, sigVars, TypeOK, Places,
     Phases
<1>16. ASSUME NEW i \in Worker, WWait(i) PROVE TypeOK'
  BY <1>16 DEF WWait, Goto, ctxVars, sigVars, TypeOK, Places, Phases
<1>17. ASSUME NEW i \in Worker, WClose(i) PROVE TypeOK'
  BY <1>17, Zenon DEF WClose, Goto, Crash, ctxVars, sigVars, TypeOK, Places, Phases
<1>18. ASSUME NEW i \in Worker, WFree(i) PROVE TypeOK'
  <2>1. mpc' \in Phases /\ mi' \in Worker
    BY <1>18, WorkersAssumption DEF WFree, Crash, TypeOK, Worker, Phases
  <2>2. wpc' \in [Worker -> Places]
    BY <1>18 DEF WFree, Goto, TypeOK, Places
  <2>3. frees' \in [Worker -> Nat]
    BY <1>18 DEF WFree, Free, TypeOK
  <2>4. stack' \in [Worker -> {"none", "up", "stopping", "gone"}]
    BY <1>18 DEF WFree, Free, TypeOK
  <2> QED BY <1>18, <2>1, <2>2, <2>3, <2>4 DEF WFree, ctxVars, sigVars, TypeOK
<1>19. ASSUME NEW i \in Worker, WClear(i) PROVE TypeOK'
  BY <1>19 DEF WClear, Goto, Clear, ctxVars, sigVars, TypeOK, Places, Phases
<1>20. ASSUME NEW i \in Worker, WEvents(i) PROVE TypeOK'
  BY <1>20, Zenon DEF WEvents, Goto, LeaveLoop, Crash, ctxVars, sigVars, TypeOK,
     Places, Phases
<1>21. ASSUME NEW i \in Worker, StackInterrupt(i) PROVE TypeOK'
  BY <1>21 DEF StackInterrupt, Goto, LeaveLoop, Woken, ctxVars, sigVars,
     TypeOK, Places, Phases
<1>22. ASSUME NEW i \in Worker, StackEnd(i) PROVE TypeOK'
  BY <1>22, Zenon DEF StackEnd, Goto, LeaveLoop, Woken, ctxVars, sigVars, TypeOK,
     Places, Phases
<1>23. ASSUME NEW i \in Worker, WorkerSignal(i) PROVE TypeOK'
  BY <1>23, ZenonT(30) DEF WorkerSignal, HandleSignal, SetDone, ctxVars, sigVars, TypeOK,
     Places, Phases
<1>24. ASSUME UNCHANGED vars PROVE TypeOK'
  BY <1>24 DEF vars, ctxVars, sigVars, TypeOK, Worker, Places, Phases
<1> QED BY <1>1, <1>2, <1>3, <1>4, <1>5, <1>6, <1>7, <1>8, <1>9, <1>10, <1>11,
     <1>12, <1>13, <1>14, <1>15, <1>16, <1>17, <1>18, <1>19, <1>20, <1>21,
     <1>22, <1>23, <1>24
     DEF Next, Master, WorkerStep, StackStep, Ended

\* Every step keeps what a worker's state tells of its place.
LEMMA StateStep ==
  ASSUME WorkersInv, [Next]_vars
  PROVE  StateInv'
<1>1. ASSUME Create PROVE StateInv'
  BY <1>1, WorkersAssumption DEF Create, Step, ctxVars, sigVars, TypeOK,
     Worker, Places, Phases, WorkersInv, StateInv
<1>2. ASSUME KillAll PROVE StateInv'
  <2>1. \A j \in sig' : wpc[j] # "none"
    BY <1>2 DEF KillAll, Running, TypeOK, WorkersInv, StateInv
  <2>2. mpc' # "create"
    BY <1>2 DEF KillAll, Step, Crash
  <2> QED BY <1>2, <2>1, <2>2 DEF KillAll, ctxVars, WorkersInv, StateInv
<1>3. ASSUME Wait PROVE StateInv'
  BY <1>3, WorkersAssumption DEF Wait, Step, Crash, Joinable, Running, ctxVars,
     sigVars, TypeOK, Worker, Places, Phases, WorkersInv, StateInv
<1>4. ASSUME Join PROVE StateInv'
  BY <1>4, WorkersAssumption DEF Join, Step, ctxVars, sigVars, TypeOK, Worker,
     Places, Phases, WorkersInv, StateInv
<1>5. ASSUME DestroyClose PROVE StateInv'
  BY <1>5, WorkersAssumption DEF DestroyClose, Step, Crash, ctxVars, sigVars,
     TypeOK, Worker, Places, Phases, WorkersInv, StateInv
<1>6. ASSUME DestroyFree PROVE StateInv'
  BY <1>6, WorkersAssumption DEF DestroyFree, Step, Free, Crash, ctxVars,
     sigVars, TypeOK, Worker, Places, Phases, WorkersInv, StateInv
<1>7. ASSUME DestroyClear PROVE StateInv'
  BY <1>7, WorkersAssumption DEF DestroyClear, Step, ctxVars, sigVars, TypeOK,
     Worker, Places, Phases, WorkersInv, StateInv
<1>8. ASSUME Finish PROVE StateInv'
  BY <1>8, WorkersAssumption DEF Finish, ctxVars, sigVars, TypeOK, Worker,
     Places, Phases, WorkersInv, StateInv
<1>9. ASSUME Sigint PROVE StateInv'
  BY <1>9, WorkersAssumption, ZenonT(30) DEF Sigint, HandleSignal, Crash, Running, ctxVars,
     sigVars, TypeOK, Worker, Places, Phases, WorkersInv, StateInv
<1>10. ASSUME NEW i \in Worker, WBegin(i) PROVE StateInv'
  BY <1>10 DEF WBegin, Goto, ctxVars, sigVars, TypeOK, WorkersInv, StateInv
<1>11. ASSUME NEW i \in Worker, WContext(i) PROVE StateInv'
  BY <1>11 DEF WContext, Goto, ctxVars, sigVars, TypeOK, WorkersInv, StateInv
<1>12. ASSUME NEW i \in Worker, WEpoll(i) PROVE StateInv'
  BY <1>12 DEF WEpoll, Goto, ctxVars, sigVars, TypeOK, WorkersInv, StateInv
<1>13. ASSUME NEW i \in Worker, WEnter(i) PROVE StateInv'
  BY <1>13 DEF WEnter, Goto, ctxVars, sigVars, TypeOK, WorkersInv, StateInv
<1>14. ASSUME NEW i \in Worker, WCheck(i) PROVE StateInv'
  BY <1>14 DEF WCheck, Goto, ctxVars, sigVars, TypeOK, WorkersInv, StateInv
<1>15. ASSUME NEW i \in Worker, WPoll(i) PROVE StateInv'
  BY <1>15 DEF WPoll, Goto, LeaveLoop, Crash, ctxVars, sigVars, TypeOK,
     WorkersInv, StateInv
<1>16. ASSUME NEW i \in Worker, WWait(i) PROVE StateInv'
  BY <1>16 DEF WWait, Goto, ctxVars, sigVars, TypeOK, WorkersInv, StateInv
<1>17. ASSUME NEW i \in Worker, WClose(i) PROVE StateInv'
  BY <1>17 DEF WClose, Goto, Crash, ctxVars, sigVars, TypeOK, WorkersInv,
     StateInv
<1>18. ASSUME NEW i \in Worker, WFree(i) PROVE StateInv'
  <2>1. \A j \in Worker : (wpc'[j] = "none") <=> (wpc[j] = "none")
    BY <1>18 DEF WFree, Goto, TypeOK, WorkersInv
  <2>2. \A j \in Worker : wpc[j] = "none" => frees'[j] = frees[j]
    BY <1>18 DEF WFree, Free, TypeOK, WorkersInv
  <2>3. mpc' = "create" => mpc = "create"
    BY <1>18 DEF WFree, Crash
  <2> QED BY <1>18, <2>1, <2>2, <2>3 DEF WFree, sigVars, TypeOK, WorkersInv, StateInv
<1>19. ASSUME NEW i \in Worker, WClear(i) PROVE StateInv'
  BY <1>19 DEF WClear, Goto, Clear, ctxVars, sigVars, TypeOK, WorkersInv,
     StateInv
<1>20. ASSUME NEW i \in Worker, WEvents(i) PROVE StateInv'
  BY <1>20 DEF WEvents, Goto, LeaveLoop, Crash, ctxVars, sigVars, TypeOK,
     WorkersInv, StateInv
<1>21. ASSUME NEW i \in Worker, StackInterrupt(i) PROVE StateInv'
  BY <1>21 DEF StackInterrupt, Goto, LeaveLoop, Woken, ctxVars, sigVars,
     TypeOK, WorkersInv, StateInv
<1>22. ASSUME NEW i \in Worker, StackEnd(i) PROVE StateInv'
  BY <1>22 DEF StackEnd, Goto, LeaveLoop, Woken, ctxVars, sigVars, TypeOK,
     WorkersInv, StateInv
<1>23. ASSUME NEW i \in Worker, WorkerSignal(i) PROVE StateInv'
  <2>1. \A j \in Worker : wstate'[j] = IF j = i THEN "CLOSE" ELSE wstate[j]
    BY <1>23 DEF WorkerSignal, SetDone, TypeOK, WorkersInv
  <2>2. done'[i] /\ \A j \in Worker : done[j] => done'[j]
    BY <1>23 DEF WorkerSignal, SetDone, TypeOK, WorkersInv
  <2>3. wpc[i] # "none"
    BY <1>23 DEF WorkerSignal, WorkersInv, StateInv
  <2> QED BY <1>23, <2>1, <2>2, <2>3
    DEF WorkerSignal, ctxVars, sigVars, TypeOK, WorkersInv, StateInv
<1>24. ASSUME UNCHANGED vars PROVE StateInv'
  BY <1>24 DEF vars, ctxVars, sigVars, TypeOK, Worker, Places, Phases,
     WorkersInv, StateInv
<1> QED BY <1>1, <1>2, <1>3, <1>4, <1>5, <1>6, <1>7, <1>8, <1>9, <1>10, <1>11,
     <1>12, <1>13, <1>14, <1>15, <1>16, <1>17, <1>18, <1>19, <1>20, <1>21,
     <1>22, <1>23, <1>24
     DEF Next, Master, WorkerStep, StackStep, Ended

\* Every step keeps what is known of the workers waited for.
LEMMA PassedStep ==
  ASSUME WorkersInv, [Next]_vars
  PROVE  PassedInv'
<1>1. ASSUME Create PROVE PassedInv'
  BY <1>1, WorkersAssumption DEF Create, Step, ctxVars, sigVars, TypeOK,
     Worker, Places, Phases, WorkersInv, StateInv, PassedInv, Passed, Waited
<1>2. ASSUME KillAll PROVE PassedInv'
  BY <1>2, WorkersAssumption DEF KillAll, Step, Crash, Running, ctxVars,
     sigVars, TypeOK, Worker, Places, Phases, WorkersInv, StateInv, PassedInv,
     Passed, Waited
<1>3. ASSUME Wait PROVE PassedInv'
  BY <1>3, WorkersAssumption DEF Wait, Step, Crash, Joinable, Running, ctxVars,
     sigVars, TypeOK, Worker, Places, Phases, WorkersInv, StateInv, PassedInv,
     Passed, Waited
<1>4. ASSUME Join PROVE PassedInv'
  BY <1>4, WorkersAssumption DEF Join, Step, ctxVars, sigVars, TypeOK, Worker,
     Places, Phases, WorkersInv, StateInv, PassedInv, Passed, Waited
<1>5. ASSUME DestroyClose PROVE PassedInv'
  BY <1>5, WorkersAssumption DEF DestroyClose, Step, Crash, ctxVars, sigVars,
     TypeOK, Worker, Places, Phases, WorkersInv, StateInv, PassedInv, Passed,
     Waited
<1>6. ASSUME DestroyFree PROVE PassedInv'
  BY <1>6, WorkersAssumption DEF DestroyFree, Step, Free, Crash, ctxVars,
     sigVars, TypeOK, Worker, Places, Phases, WorkersInv, StateInv, PassedInv,
     Passed, Waited
<1>7. ASSUME DestroyClear PROVE PassedInv'
  BY <1>7, WorkersAssumption DEF DestroyClear, Step, ctxVars, sigVars, TypeOK,
     Worker, Places, Phases, WorkersInv, StateInv, PassedInv, Passed, Waited
<1>8. ASSUME Finish PROVE PassedInv'
  BY <1>8, WorkersAssumption DEF Finish, ctxVars, sigVars, TypeOK, Worker,
     Places, Phases, WorkersInv, StateInv, PassedInv, Passed, Waited
<1>9. ASSUME Sigint PROVE PassedInv'
  BY <1>9, WorkersAssumption DEF Sigint, HandleSignal, Crash, Running, ctxVars,
     sigVars, TypeOK, Worker, Places, Phases, WorkersInv, StateInv, PassedInv,
     Passed, Waited
<1>10. ASSUME NEW i \in Worker, WBegin(i) PROVE PassedInv'
  BY <1>10 DEF WBegin, Goto, ctxVars, sigVars, TypeOK, WorkersInv, StateInv,
     PassedInv, Passed, Waited
<1>11. ASSUME NEW i \in Worker, WContext(i) PROVE PassedInv'
  BY <1>11 DEF WContext, Goto, ctxVars, sigVars, TypeOK, WorkersInv, StateInv,
     PassedInv, Passed, Waited
<1>12. ASSUME NEW i \in Worker, WEpoll(i) PROVE PassedInv'
  BY <1>12 DEF WEpoll, Goto, ctxVars, sigVars, TypeOK, WorkersInv, StateInv,
     PassedInv, Passed, Waited
<1>13. ASSUME NEW i \in Worker, WEnter(i) PROVE PassedInv'
  BY <1>13 DEF WEnter, Goto, ctxVars, sigVars, TypeOK, WorkersInv, StateInv,
     PassedInv, Passed, Waited
<1>14. ASSUME NEW i \in Worker, WCheck(i) PROVE PassedInv'
  BY <1>14 DEF WCheck, Goto, ctxVars, sigVars, TypeOK, WorkersInv, StateInv,
     PassedInv, Passed, Waited
<1>15. ASSUME NEW i \in Worker, WPoll(i) PROVE PassedInv'
  BY <1>15 DEF WPoll, Goto, LeaveLoop, Crash, ctxVars, sigVars, TypeOK,
     WorkersInv, StateInv, PassedInv, Passed, Waited
<1>16. ASSUME NEW i \in Worker, WWait(i) PROVE PassedInv'
  BY <1>16 DEF WWait, Goto, ctxVars, sigVars, TypeOK, WorkersInv, StateInv,
     PassedInv, Passed, Waited
<1>17. ASSUME NEW i \in Worker, WClose(i) PROVE PassedInv'
  BY <1>17 DEF WClose, Goto, Crash, ctxVars, sigVars, TypeOK, WorkersInv,
     StateInv, PassedInv, Passed, Waited
<1>18. ASSUME NEW i \in Worker, WFree(i) PROVE PassedInv'
  BY <1>18 DEF WFree, Goto, Free, Crash, ctxVars, sigVars, TypeOK, WorkersInv,
     StateInv, PassedInv, Passed, Waited
<1>19. ASSUME NEW i \in Worker, WClear(i) PROVE PassedInv'
  BY <1>19 DEF WClear, Goto, Clear, ctxVars, sigVars, TypeOK, WorkersInv,
     StateInv, PassedInv, Passed, Waited
<1>20. ASSUME NEW i \in Worker, WEvents(i) PROVE PassedInv'
  BY <1>20 DEF WEvents, Goto, LeaveLoop, Crash, ctxVars, sigVars, TypeOK,
     WorkersInv, StateInv, PassedInv, Passed, Waited
<1>21. ASSUME NEW i \in Worker, StackInterrupt(i) PROVE PassedInv'
  BY <1>21 DEF StackInterrupt, Goto, LeaveLoop, Woken, ctxVars, sigVars,
     TypeOK, WorkersInv, StateInv, PassedInv, Passed, Waited
<1>22. ASSUME NEW i \in Worker, StackEnd(i) PROVE PassedInv'
  BY <1>22 DEF StackEnd, Goto, LeaveLoop, Woken, ctxVars, sigVars, TypeOK,
     WorkersInv, StateInv, PassedInv, Passed, Waited
<1>23. ASSUME NEW i \in Worker, WorkerSignal(i) PROVE PassedInv'
  BY <1>23 DEF WorkerSignal, HandleSignal, SetDone, ctxVars, sigVars, TypeOK,
     WorkersInv, StateInv, PassedInv, Passed, Waited
<1>24. ASSUME UNCHANGED vars PROVE PassedInv'
  BY <1>24 DEF vars, ctxVars, sigVars, TypeOK, Worker, Places, Phases,
     WorkersInv, StateInv, PassedInv, Passed, Waited
<1> QED BY <1>1, <1>2, <1>3, <1>4, <1>5, <1>6, <1>7, <1>8, <1>9, <1>10, <1>11,
     <1>12, <1>13, <1>14, <1>15, <1>16, <1>17, <1>18, <1>19, <1>20, <1>21,
     <1>22, <1>23, <1>24
     DEF Next, Master, WorkerStep, StackStep, Ended

\* Every step leaves a worker that was not interrupted its context.
LEMMA OwnStep ==
  ASSUME WorkersInv, [Next]_vars
  PROVE  OwnInv'
<1>1. ASSUME Create PROVE OwnInv'
  BY <1>1, WorkersAssumption DEF Create, Step, ctxVars, sigVars, TypeOK,
     Worker, Places, Phases, WorkersInv, StateInv, PassedInv, Passed, Waited,
     OwnInv
<1>2. ASSUME KillAll PROVE OwnInv'
  BY <1>2, WorkersAssumption DEF KillAll, Step, Crash, Running, ctxVars,
     sigVars, TypeOK, Worker, Places, Phases, WorkersInv, StateInv, PassedInv,
     Passed, Waited, OwnInv
<1>3. ASSUME Wait PROVE OwnInv'
  BY <1>3, WorkersAssumption DEF Wait, Step, Crash, Joinable, Running, ctxVars,
     sigVars, TypeOK, Worker, Places, Phases, WorkersInv, StateInv, PassedInv,
     Passed, Waited, OwnInv
<1>4. ASSUME Join PROVE OwnInv'
  BY <1>4, WorkersAssumption DEF Join, Step, ctxVars, sigVars, TypeOK, Worker,
     Places, Phases, WorkersInv, StateInv, PassedInv, Passed, Waited, OwnInv
<1>5. ASSUME DestroyClose PROVE OwnInv'
  BY <1>5, WorkersAssumption DEF DestroyClose, Step, Crash, ctxVars, sigVars,
     TypeOK, Worker, Places, Phases, WorkersInv, StateInv, PassedInv, Passed,
     Waited, OwnInv
<1>6. ASSUME DestroyFree PROVE OwnInv'
  BY <1>6, WorkersAssumption DEF DestroyFree, Step, Free, Crash, ctxVars,
     sigVars, TypeOK, Worker, Places, Phases, WorkersInv, StateInv, PassedInv,
     Passed, Waited, OwnInv
<1>7. ASSUME DestroyClear PROVE OwnInv'
  BY <1>7, WorkersAssumption DEF DestroyClear, Step, ctxVars, sigVars, TypeOK,
     Worker, Places, Phases, WorkersInv, StateInv, PassedInv, Passed, Waited,
     OwnInv
<1>8. ASSUME Finish PROVE OwnInv'
  BY <1>8, WorkersAssumption DEF Finish, ctxVars, sigVars, TypeOK, Worker,
     Places, Phases, WorkersInv, StateInv, PassedInv, Passed, Waited, OwnInv
<1>9. ASSUME Sigint PROVE OwnInv'
  BY <1>9, WorkersAssumption DEF Sigint, HandleSignal, Crash, Running, ctxVars,
     sigVars, TypeOK, Worker, Places, Phases, WorkersInv, StateInv, PassedInv,
     Passed, Waited, OwnInv
<1>10. ASSUME NEW i \in Worker, WBegin(i) PROVE OwnInv'
  BY <1>10 DEF WBegin, Goto, ctxVars, sigVars, TypeOK, WorkersInv, StateInv,
     PassedInv, Passed, Waited, OwnInv
<1>11. ASSUME NEW i \in Worker, WContext(i) PROVE OwnInv'
  BY <1>11 DEF WContext, Goto, ctxVars, sigVars, TypeOK, WorkersInv, StateInv,
     PassedInv, Passed, Waited, OwnInv
<1>12. ASSUME NEW i \in Worker, WEpoll(i) PROVE OwnInv'
  BY <1>12 DEF WEpoll, Goto, ctxVars, sigVars, TypeOK, WorkersInv, StateInv,
     PassedInv, Passed, Waited, OwnInv
<1>13. ASSUME NEW i \in Worker, WEnter(i) PROVE OwnInv'
  <2>1. \A j \in Worker : done[j] => done'[j]
    BY <1>13 DEF WEnter, TypeOK, WorkersInv
  <2>2. \A j \in Worker : wpc'[j] # wpc[j] => j = i /\ wpc[j] = "enter"
    BY <1>13 DEF WEnter, Goto, TypeOK, WorkersInv
  <2> QED BY <1>13, <2>1, <2>2
    DEF WEnter, ctxVars, sigVars, TypeOK, WorkersInv, OwnInv
<1>14. ASSUME NEW i \in Worker, WCheck(i) PROVE OwnInv'
  BY <1>14 DEF WCheck, Goto, ctxVars, sigVars, TypeOK, WorkersInv, StateInv,
     PassedInv, Passed, Waited, OwnInv
<1>15. ASSUME NEW i \in Worker, WPoll(i) PROVE OwnInv'
  BY <1>15 DEF WPoll, Goto, LeaveLoop, Crash, ctxVars, sigVars, TypeOK,
     WorkersInv, StateInv, PassedInv, Passed, Waited, OwnInv
<1>16. ASSUME NEW i \in Worker, WWait(i) PROVE OwnInv'
  BY <1>16 DEF WWait, Goto, ctxVars, sigVars, TypeOK, WorkersInv, StateInv,
     PassedInv, Passed, Waited, OwnInv
<1>17. ASSUME NEW i \in Worker, WClose(i) PROVE OwnInv'
  BY <1>17 DEF WClose, Goto, Crash, ctxVars, sigVars, TypeOK, WorkersInv,
     StateInv, PassedInv, Passed, Waited, OwnInv
<1>18. ASSUME NEW i \in Worker, WFree(i) PROVE OwnInv'
  BY <1>18 DEF WFree, Goto, Free, Crash, ctxVars, sigVars, TypeOK, WorkersInv,
     StateInv, PassedInv, Passed, Waited, OwnInv
<1>19. ASSUME NEW i \in Worker, WClear(i) PROVE OwnInv'
  BY <1>19 DEF WClear, Goto, Clear, ctxVars, sigVars, TypeOK, WorkersInv,
     StateInv, PassedInv, Passed, Waited, OwnInv
<1>20. ASSUME NEW i \in Worker, WEvents(i) PROVE OwnInv'
  BY <1>20 DEF WEvents, Goto, LeaveLoop, Crash, ctxVars, sigVars, TypeOK,
     WorkersInv, StateInv, PassedInv, Passed, Waited, OwnInv
<1>21. ASSUME NEW i \in Worker, StackInterrupt(i) PROVE OwnInv'
  BY <1>21 DEF StackInterrupt, Goto, LeaveLoop, Woken, ctxVars, sigVars,
     TypeOK, WorkersInv, StateInv, PassedInv, Passed, Waited, OwnInv
<1>22. ASSUME NEW i \in Worker, StackEnd(i) PROVE OwnInv'
  BY <1>22 DEF StackEnd, Goto, LeaveLoop, Woken, ctxVars, sigVars, TypeOK,
     WorkersInv, StateInv, PassedInv, Passed, Waited, OwnInv
<1>23. ASSUME NEW i \in Worker, WorkerSignal(i) PROVE OwnInv'
  BY <1>23 DEF WorkerSignal, HandleSignal, SetDone, ctxVars, sigVars, TypeOK,
     WorkersInv, StateInv, PassedInv, Passed, Waited, OwnInv
<1>24. ASSUME UNCHANGED vars PROVE OwnInv'
  BY <1>24 DEF vars, ctxVars, sigVars, TypeOK, Worker, Places, Phases,
     WorkersInv, StateInv, PassedInv, Passed, Waited, OwnInv
<1> QED BY <1>1, <1>2, <1>3, <1>4, <1>5, <1>6, <1>7, <1>8, <1>9, <1>10, <1>11,
     <1>12, <1>13, <1>14, <1>15, <1>16, <1>17, <1>18, <1>19, <1>20, <1>21,
     <1>22, <1>23, <1>24
     DEF Next, Master, WorkerStep, StackStep, Ended

\* Where the threads may be is invariant.
THEOREM Invariance == Spec => []WorkersInv
<1>1. Init => WorkersInv
  BY WorkersAssumption DEF Init, WorkersInv, TypeOK, StateInv, PassedInv,
     OwnInv,
     Passed, Waited, Worker, Places, Phases
<1>2. WorkersInv /\ [Next]_vars => WorkersInv'
  BY TypeStep, StateStep, PassedStep, OwnStep DEF WorkersInv
<1> QED BY <1>1, <1>2, PTL DEF Spec

\* Type correctness of the threads, their contexts and the signal flags.
THEOREM WorkersTyped == Spec => []TypeOK
BY Invariance, PTL DEF WorkersInv

\* mperf_destroy_workers() takes nothing from a worker in its loop that was
\* not interrupted, however many workers and signals there are.
THEOREM NotUnderWorkerHolds == Spec => []NotUnderWorker
<1>1. WorkersInv => NotUnderWorker
  BY DEF WorkersInv, TypeOK, OwnInv, NotUnderWorker
<1> QED BY <1>1, Invariance, PTL

-----------------------------------------------------------------------------
(* A calm run: no SIGINT, and every thread could be created.               *)

\* mperf_destroy_workers() has gone past worker j.
Destroyed(j) ==
  mpc \in {"finish", "over"} \/ (mpc \in {"close", "free", "clear"} /\ j < mi)

\* In a calm run the workers keep the states that are joined ...
CalmStates ==
  Calm /\ mpc # "crashed" =>
    /\ sig = {} /\ mpc # "kill"
    /\ \A j \in Worker : wstate[j] # "CLOSE"
    /\ \A j \in Worker : mpc # "create" \/ j < mi => wstate[j] # "UNUSED"

\* ... so that the master passes only those that are gone ...
CalmPassed == Calm => \A j \in Worker : Passed(j) => wpc[j] = "gone"

\* ... and whoever frees a context clears the pointer before the other looks.
OwnedOnce(j) ==
  /\ frees[j] <= 1
  /\ mpc # "crashed" =>
       /\ frees[j] > 0 => wpc[j] \in {"clear", "gone"}
       /\ mctx[j] /\ wpc[j] # "clear" /\ ~(mpc = "clear" /\ mi = j) => frees[j] = 0
       /\ stack[j] = "up" => mctx[j] /\ frees[j] = 0
       /\ wpc[j] = "clear" \/ (mpc = "clear" /\ mi = j) => stack[j] # "up"
       /\ wpc[j] \in {"begin", "context"} => ~mctx[j] /\ stack[j] = "none"
       /\ wpc[j] = "none" => stack[j] = "none"
       /\ Destroyed(j) => ~mctx[j]
CalmOwner == Calm => \A j \in Worker : OwnedOnce(j)

CalmInv == CalmStates /\ CalmPassed /\ CalmOwner

\* A step into a calm state starts in one.
LEMMA CalmBack ==
  ASSUME WorkersInv, [Next]_vars, Calm'
  PROVE  Calm
<1>1. nsig = 0
  <2>1. CASE Sigint
    BY <2>1 DEF Sigint, Calm, WorkersInv, TypeOK
  <2>2. CASE Master
    BY <2>2, Zenon DEF Master, Create, KillAll, Wait, Join, DestroyClose, DestroyFree,
       DestroyClear, Finish, sigVars, Calm
  <2>3. ASSUME NEW i \in Worker, WorkerStep(i) PROVE nsig = 0
    BY <2>3, Zenon DEF WorkerStep, WBegin, WContext, WEpoll, WEnter, WCheck, WPoll, WWait,
       WClose, WFree, WClear, sigVars, Calm
  <2>4. ASSUME NEW i \in Worker, WorkerSignal(i) \/ WEvents(i) \/ StackStep(i)
        PROVE  nsig = 0
    BY <2>4 DEF WorkerSignal, WEvents, StackStep, StackInterrupt, StackEnd, sigVars,
       Calm
  <2>5. CASE UNCHANGED vars
    BY <2>5, Zenon DEF vars, sigVars, Calm
  <2> QED BY <2>1, <2>2, <2>3, <2>4, <2>5 DEF Next, Ended
<1>2. ASSUME NEW j \in Worker, wstate[j] = "ERROR" PROVE wstate'[j] = "ERROR"
  <2>1. CASE Create
    <3>1. mi # j
      BY <1>2, <2>1, WorkersAssumption DEF Create, WorkersInv, TypeOK,
     StateInv, Worker
    <3> QED BY <1>2, <2>1, <3>1 DEF Create, WorkersInv, TypeOK
  <2>2. ASSUME NEW i \in Worker, WEpoll(i) \/ WorkerSignal(i)
        PROVE  wstate'[j] = "ERROR"
    <3>1. i # j
      BY <1>2, <2>2 DEF WEpoll, WorkerSignal, WorkersInv, StateInv
    <3> QED BY <1>2, <2>2, <3>1
      DEF WEpoll, WorkerSignal, SetDone, WorkersInv, TypeOK
  <2>3. CASE UNCHANGED wstate
    BY <1>2, <2>3
  <2> QED BY <2>1, <2>2, <2>3, ZenonT(30) DEF Next, Master, WorkerStep, Ended, KillAll, Wait,
     Join, DestroyClose, DestroyFree, DestroyClear, Finish, Sigint, WBegin,
     WContext, WEnter, WCheck, WPoll, WWait, WClose, WFree, WClear, WEvents,
     StackStep, StackInterrupt, StackEnd, vars
<1> QED BY <1>1, <1>2 DEF Calm

\* In a calm run every step keeps the states that are joined.
LEMMA CalmStatesStep ==
  ASSUME WorkersInv, CalmInv, [Next]_vars
  PROVE  CalmStates'
<1> SUFFICES ASSUME Calm' PROVE CalmStates'
  BY DEF CalmStates
<1>0. Calm
  BY CalmBack
<1>1. ASSUME Create PROVE CalmStates'
  BY <1>0, <1>1, WorkersAssumption DEF Create, Step, ctxVars, sigVars,
     WorkersInv, TypeOK, Worker, CalmInv, Calm, StateInv, CalmStates
<1>2. ASSUME Wait PROVE CalmStates'
  BY <1>0, <1>2, WorkersAssumption DEF Wait, Step, Crash, Joinable, Running,
     ctxVars, sigVars, WorkersInv, TypeOK, Worker, CalmInv, Calm, StateInv,
     CalmStates
<1>3. ASSUME Join PROVE CalmStates'
  BY <1>0, <1>3, WorkersAssumption DEF Join, Step, ctxVars, sigVars,
     WorkersInv, TypeOK, Worker, CalmInv, Calm, StateInv, CalmStates
<1>4. ASSUME DestroyClose PROVE CalmStates'
  BY <1>0, <1>4, WorkersAssumption DEF DestroyClose, Step, Crash, ctxVars,
     sigVars, WorkersInv, TypeOK, Worker, CalmInv, Calm, StateInv, CalmStates
<1>5. ASSUME DestroyFree PROVE CalmStates'
  BY <1>0, <1>5, WorkersAssumption DEF DestroyFree, Step, Free, Crash, ctxVars,
     sigVars, WorkersInv, TypeOK, Worker, CalmInv, Calm, StateInv, CalmStates
<1>6. ASSUME DestroyClear PROVE CalmStates'
  BY <1>0, <1>6, WorkersAssumption DEF DestroyClear, Step, ctxVars, sigVars,
     WorkersInv, TypeOK, Worker, CalmInv, Calm, StateInv, CalmStates
<1>7. ASSUME Finish PROVE CalmStates'
  BY <1>0, <1>7, WorkersAssumption DEF Finish, ctxVars, sigVars, WorkersInv,
     TypeOK, Worker, CalmInv, Calm, StateInv, CalmStates
<1>8. ASSUME NEW i \in Worker, WBegin(i) PROVE CalmStates'
  BY <1>0, <1>8 DEF WBegin, Goto, ctxVars, sigVars, WorkersInv, TypeOK,
     CalmInv, Calm, StateInv, CalmStates
<1>9. ASSUME NEW i \in Worker, WContext(i) PROVE CalmStates'
  BY <1>0, <1>9 DEF WContext, Goto, ctxVars, sigVars, WorkersInv, TypeOK,
     CalmInv, Calm, StateInv, CalmStates
<1>10. ASSUME NEW i \in Worker, WEpoll(i) PROVE CalmStates'
  BY <1>0, <1>10 DEF WEpoll, Goto, ctxVars, sigVars, WorkersInv, TypeOK,
     CalmInv, Calm, StateInv, CalmStates
<1>11. ASSUME NEW i \in Worker, WEnter(i) PROVE CalmStates'
  BY <1>0, <1>11 DEF WEnter, Goto, ctxVars, sigVars, WorkersInv, TypeOK,
     CalmInv, Calm, StateInv, CalmStates
<1>12. ASSUME NEW i \in Worker, WCheck(i) PROVE CalmStates'
  BY <1>0, <1>12 DEF WCheck, Goto, ctxVars, sigVars, WorkersInv, TypeOK,
     CalmInv, Calm, StateInv, CalmStates
<1>13. ASSUME NEW i \in Worker, WPoll(i) PROVE CalmStates'
  BY <1>0, <1>13 DEF WPoll, Goto, LeaveLoop, Crash, ctxVars, sigVars,
     WorkersInv, TypeOK, CalmInv, Calm, StateInv, CalmStates
<1>14. ASSUME NEW i \in Worker, WWait(i) PROVE CalmStates'
  BY <1>0, <1>14 DEF WWait, Goto, ctxVars, sigVars, WorkersInv, TypeOK,
     CalmInv, Calm, StateInv, CalmStates
<1>15. ASSUME NEW i \in Worker, WClose(i) PROVE CalmStates'
  BY <1>0, <1>15 DEF WClose, Goto, Crash, ctxVars, sigVars, WorkersInv, TypeOK,
     CalmInv, Calm, StateInv, CalmStates
<1>16. ASSUME NEW i \in Worker, WFree(i) PROVE CalmStates'
  BY <1>0, <1>16 DEF WFree, Crash, sigVars, CalmInv, CalmStates
<1>17. ASSUME NEW i \in Worker, WClear(i) PROVE CalmStates'
  BY <1>0, <1>17 DEF WClear, Goto, Clear, ctxVars, sigVars, WorkersInv, TypeOK,
     CalmInv, Calm, StateInv, CalmStates
<1>18. ASSUME NEW i \in Worker, WEvents(i) PROVE CalmStates'
  BY <1>0, <1>18 DEF WEvents, Goto, LeaveLoop, Crash, ctxVars, sigVars,
     WorkersInv, TypeOK, CalmInv, Calm, CalmStates
<1>19. ASSUME NEW i \in Worker, StackInterrupt(i) PROVE CalmStates'
  BY <1>0, <1>19 DEF StackInterrupt, Goto, LeaveLoop, Woken, ctxVars, sigVars,
     WorkersInv, TypeOK, CalmInv, Calm, StateInv, CalmStates
<1>20. ASSUME NEW i \in Worker, StackEnd(i) PROVE CalmStates'
  BY <1>0, <1>20 DEF StackEnd, Goto, LeaveLoop, Woken, ctxVars, sigVars,
     WorkersInv, TypeOK, CalmInv, Calm, StateInv, CalmStates
<1>21. ~KillAll /\ ~Sigint /\ \A i \in Worker : ~WorkerSignal(i)
  BY <1>0 DEF CalmInv, CalmStates, Calm, Alive, KillAll, Sigint, WorkerSignal,
     WorkersInv, TypeOK
<1>22. ASSUME UNCHANGED vars PROVE CalmStates'
  BY <1>22 DEF vars, ctxVars, sigVars, WorkersInv, TypeOK, Worker, CalmInv,
     Calm, StateInv, CalmStates
<1> QED BY <1>1, <1>2, <1>3, <1>4, <1>5, <1>6, <1>7, <1>8, <1>9, <1>10, <1>11,
     <1>12, <1>13, <1>14, <1>15, <1>16, <1>17, <1>18, <1>19, <1>20, <1>21,
     <1>22
     DEF Next, Master, WorkerStep, StackStep, Ended

\* In a calm run the master passes only workers that are gone.
LEMMA CalmPassedStep ==
  ASSUME WorkersInv, CalmInv, [Next]_vars
  PROVE  CalmPassed'
<1> SUFFICES ASSUME Calm' PROVE CalmPassed'
  BY DEF CalmPassed
<1>0. Calm
  BY CalmBack
<1>1. ASSUME Create PROVE CalmPassed'
  BY <1>0, <1>1, WorkersAssumption DEF Create, Step, ctxVars, sigVars,
     WorkersInv, TypeOK, Worker, CalmInv, Calm, StateInv, CalmStates,
     CalmPassed, Passed, Waited
<1>2. ASSUME Wait PROVE CalmPassed'
  BY <1>0, <1>2, WorkersAssumption DEF Wait, Step, Crash, Joinable, Running,
     ctxVars, sigVars, WorkersInv, TypeOK, Worker, CalmInv, Calm, StateInv,
     CalmStates, CalmPassed, Passed, Waited
<1>3. ASSUME Join PROVE CalmPassed'
  BY <1>0, <1>3, WorkersAssumption DEF Join, Step, ctxVars, sigVars,
     WorkersInv, TypeOK, Worker, CalmInv, Calm, StateInv, CalmStates,
     CalmPassed, Passed, Waited
<1>4. ASSUME DestroyClose PROVE CalmPassed'
  BY <1>0, <1>4, WorkersAssumption DEF DestroyClose, Step, Crash, ctxVars,
     sigVars, WorkersInv, TypeOK, Worker, CalmInv, Calm, StateInv, CalmStates,
     CalmPassed, Passed, Waited
<1>5. ASSUME DestroyFree PROVE CalmPassed'
  BY <1>0, <1>5, WorkersAssumption DEF DestroyFree, Step, Free, Crash, ctxVars,
     sigVars, WorkersInv, TypeOK, Worker, CalmInv, Calm, StateInv, CalmStates,
     CalmPassed, Passed, Waited
<1>6. ASSUME DestroyClear PROVE CalmPassed'
  BY <1>0, <1>6, WorkersAssumption DEF DestroyClear, Step, ctxVars, sigVars,
     WorkersInv, TypeOK, Worker, CalmInv, Calm, StateInv, CalmStates,
     CalmPassed, Passed, Waited
<1>7. ASSUME Finish PROVE CalmPassed'
  BY <1>0, <1>7, WorkersAssumption DEF Finish, ctxVars, sigVars, WorkersInv,
     TypeOK, Worker, CalmInv, Calm, StateInv, CalmStates, CalmPassed, Passed,
     Waited
<1>8. ASSUME NEW i \in Worker, WBegin(i) PROVE CalmPassed'
  BY <1>0, <1>8 DEF WBegin, Goto, ctxVars, sigVars, WorkersInv, TypeOK,
     CalmInv, Calm, StateInv, CalmStates, CalmPassed, Passed, Waited
<1>9. ASSUME NEW i \in Worker, WContext(i) PROVE CalmPassed'
  BY <1>0, <1>9 DEF WContext, Goto, ctxVars, sigVars, WorkersInv, TypeOK,
     CalmInv, Calm, StateInv, CalmStates, CalmPassed, Passed, Waited
<1>10. ASSUME NEW i \in Worker, WEpoll(i) PROVE CalmPassed'
  BY <1>0, <1>10 DEF WEpoll, Goto, ctxVars, sigVars, WorkersInv, TypeOK,
     CalmInv, Calm, StateInv, CalmStates, CalmPassed, Passed, Waited
<1>11. ASSUME NEW i \in Worker, WEnter(i) PROVE CalmPassed'
  BY <1>0, <1>11 DEF WEnter, Goto, ctxVars, sigVars, WorkersInv, TypeOK,
     CalmInv, Calm, StateInv, CalmStates, CalmPassed, Passed, Waited
<1>12. ASSUME NEW i \in Worker, WCheck(i) PROVE CalmPassed'
  BY <1>0, <1>12 DEF WCheck, Goto, ctxVars, sigVars, WorkersInv, TypeOK,
     CalmInv, Calm, StateInv, CalmStates, CalmPassed, Passed, Waited
<1>13. ASSUME NEW i \in Worker, WPoll(i) PROVE CalmPassed'
  BY <1>0, <1>13 DEF WPoll, Goto, LeaveLoop, Crash, ctxVars, sigVars,
     WorkersInv, TypeOK, CalmInv, Calm, StateInv, CalmStates, CalmPassed,
     Passed, Waited
<1>14. ASSUME NEW i \in Worker, WWait(i) PROVE CalmPassed'
  BY <1>0, <1>14 DEF WWait, Goto, ctxVars, sigVars, WorkersInv, TypeOK,
     CalmInv, Calm, StateInv, CalmStates, CalmPassed, Passed, Waited
<1>15. ASSUME NEW i \in Worker, WClose(i) PROVE CalmPassed'
  BY <1>0, <1>15 DEF WClose, Goto, Crash, ctxVars, sigVars, WorkersInv, TypeOK,
     CalmInv, Calm, StateInv, CalmStates, CalmPassed, Passed, Waited
<1>16. ASSUME NEW i \in Worker, WFree(i) PROVE CalmPassed'
  BY <1>0, <1>16 DEF WFree, Goto, Free, Crash, ctxVars, sigVars, WorkersInv,
     TypeOK, CalmInv, Calm, StateInv, CalmStates, CalmPassed, Passed, Waited
<1>17. ASSUME NEW i \in Worker, WClear(i) PROVE CalmPassed'
  BY <1>0, <1>17 DEF WClear, Goto, Clear, ctxVars, sigVars, WorkersInv, TypeOK,
     CalmInv, Calm, StateInv, CalmStates, CalmPassed, Passed, Waited
<1>18. ASSUME NEW i \in Worker, WEvents(i) PROVE CalmPassed'
  BY <1>0, <1>18 DEF WEvents, Goto, LeaveLoop, Crash, ctxVars, sigVars,
     WorkersInv, TypeOK, CalmInv, Calm, StateInv, CalmStates, CalmPassed,
     Passed, Waited
<1>19. ASSUME NEW i \in Worker, StackInterrupt(i) PROVE CalmPassed'
  BY <1>0, <1>19 DEF StackInterrupt, Goto, LeaveLoop, Woken, ctxVars, sigVars,
     WorkersInv, TypeOK, CalmInv, Calm, StateInv, CalmStates, CalmPassed,
     Passed, Waited
<1>20. ASSUME NEW i \in Worker, StackEnd(i) PROVE CalmPassed'
  BY <1>0, <1>20 DEF StackEnd, Goto, LeaveLoop, Woken, ctxVars, sigVars,
     WorkersInv, TypeOK, CalmInv, Calm, StateInv, CalmStates, CalmPassed,
     Passed, Waited
<1>21. ~KillAll /\ ~Sigint /\ \A i \in Worker : ~WorkerSignal(i)
  BY <1>0 DEF CalmInv, CalmStates, Calm, Alive, KillAll, Sigint, WorkerSignal,
     WorkersInv, TypeOK
<1>22. ASSUME UNCHANGED vars PROVE CalmPassed'
  BY <1>22 DEF vars, ctxVars, sigVars, WorkersInv, TypeOK, Worker, CalmInv,
     Calm, StateInv, CalmStates, CalmPassed, Passed, Waited
<1> QED BY <1>1, <1>2, <1>3, <1>4, <1>5, <1>6, <1>7, <1>8, <1>9, <1>10, <1>11,
     <1>12, <1>13, <1>14, <1>15, <1>16, <1>17, <1>18, <1>19, <1>20, <1>21,
     <1>22
     DEF Next, Master, WorkerStep, StackStep, Ended

\* A step that moves one worker and leaves the contexts alone keeps their owners.
LEMMA MoveKeepsOwner ==
  ASSUME WorkersInv, CalmOwner, Calm, NEW i \in Worker, NEW pc,
         pc \notin {"none", "begin", "context", "clear"},
         wpc[i] \notin {"clear", "gone"}, Goto(i, pc),
         mpc # "crashed", UNCHANGED <<mpc, mi, mctx, frees, stack>>
  PROVE  CalmOwner'
<1>1. wpc'[i] = pc /\ \A j \in Worker : j # i => wpc'[j] = wpc[j]
  BY DEF Goto, WorkersInv, TypeOK
<1>2. \A j \in Worker : Destroyed(j)' => Destroyed(j)
  BY ZenonT(30) DEF Destroyed
<1>3. OwnedOnce(i)'
  BY <1>1, <1>2 DEF CalmOwner, OwnedOnce
<1>4. ASSUME NEW j \in Worker, j # i PROVE OwnedOnce(j)'
  BY <1>1, <1>2, <1>4 DEF CalmOwner, OwnedOnce
<1> QED BY <1>3, <1>4 DEF CalmOwner

\* Nothing but the number of frees is claimed after a crash.
LEMMA CrashKeepsOwner ==
  ASSUME CalmOwner, Calm, Crash, UNCHANGED frees
  PROVE  CalmOwner'
BY DEF Crash, CalmOwner, OwnedOnce

\* A step of the master alone keeps the owners when it destroys no context.
LEMMA MasterKeepsOwner ==
  ASSUME CalmOwner, Calm, UNCHANGED <<wpc, mctx, frees, stack>>,
         mpc # "crashed", mpc # "clear", mpc' # "clear",
         \A j \in Worker : Destroyed(j)' => Destroyed(j) \/ ~mctx[j]
  PROVE  CalmOwner'
BY Zenon DEF CalmOwner, OwnedOnce

\* In a calm run every step keeps one owner of each context.
LEMMA CalmOwnerStep ==
  ASSUME WorkersInv, CalmInv, [Next]_vars
  PROVE  CalmOwner'
<1> SUFFICES ASSUME Calm' PROVE CalmOwner'
  BY DEF CalmOwner, OwnedOnce
<1>0. Calm /\ CalmOwner
  BY CalmBack, Zenon DEF CalmInv
<1>1. ASSUME Create PROVE CalmOwner'
  BY <1>0, <1>1, WorkersAssumption DEF Create, Step, ctxVars, sigVars,
     WorkersInv, TypeOK, Worker, CalmInv, Calm, StateInv, CalmStates,
     CalmPassed, Passed, Waited, CalmOwner, OwnedOnce, Destroyed
<1>2. ASSUME Wait PROVE CalmOwner'
  <2>1. \A j \in Worker : Destroyed(j)' => Destroyed(j)
    BY <1>2, WorkersAssumption DEF Wait, Step, Crash, Destroyed, WorkersInv, TypeOK, Worker
  <2> QED BY <1>0, <1>2, <2>1, MasterKeepsOwner DEF Wait, Step, Crash, ctxVars
<1>3. ASSUME Join PROVE CalmOwner'
  <2>1. \A j \in Worker : Destroyed(j)' => Destroyed(j)
    BY <1>3, WorkersAssumption DEF Join, Step, Destroyed, WorkersInv, TypeOK, Worker
  <2> QED BY <1>0, <1>3, <2>1, MasterKeepsOwner DEF Join, Step, ctxVars
<1>4. ASSUME DestroyClose PROVE CalmOwner'
  <2>1. CASE Crash
    BY <1>0, <1>4, <2>1, CrashKeepsOwner DEF DestroyClose
  <2>2. CASE wstate[mi] \in {"UNUSED", "ERROR"} /\ Step("close", "finish")
    <3>1. wpc[mi] = "none" /\ ~mctx[mi]
      BY <2>2 DEF WorkersInv, StateInv, TypeOK
    <3>2. \A j \in Worker : Destroyed(j)' => Destroyed(j) \/ j = mi
      BY <1>4, <2>2, WorkersAssumption
      DEF DestroyClose, Step, Destroyed, WorkersInv, TypeOK, Worker
    <3> QED BY <1>0, <1>4, <2>2, <3>1, <3>2, MasterKeepsOwner DEF DestroyClose, Step
  <2>3. CASE mpc' = "free" /\ UNCHANGED mi
    <3>1. \A j \in Worker : Destroyed(j)' => Destroyed(j)
      BY <1>4, <2>3, Zenon DEF DestroyClose, Destroyed
    <3> QED BY <1>0, <1>4, <2>3, <3>1, MasterKeepsOwner DEF DestroyClose
  <2> QED BY <1>4, <2>1, <2>2, <2>3 DEF DestroyClose
<1>5. ASSUME DestroyFree PROVE CalmOwner'
  <2>0. mi \in Worker /\ wpc[mi] = "gone"
    BY <1>0, <1>5, Zenon DEF DestroyFree, WorkersInv, TypeOK, CalmInv, CalmPassed, Passed,
       Waited
  <2>1. CASE ~mctx[mi] /\ Step("close", "finish") /\ UNCHANGED <<frees, stack>>
    <3>1. \A j \in Worker : Destroyed(j)' => Destroyed(j) \/ j = mi
      BY <1>5, <2>1, WorkersAssumption, SMTT(30)
      DEF DestroyFree, Step, Destroyed, WorkersInv, TypeOK, Worker
    <3> QED BY <1>0, <1>5, <2>0, <2>1, <3>1
      DEF DestroyFree, Step, CalmInv, CalmOwner, OwnedOnce
  <2>2. CASE mctx[mi] /\ mpc' = "clear" /\ UNCHANGED mi /\ Free(mi)
    <3>1. frees[mi] = 0
      BY <1>0, <1>5, <2>0, <2>2 DEF DestroyFree, CalmInv, CalmOwner, OwnedOnce
    <3>2. \A j \in Worker : frees'[j] = IF j = mi THEN 1 ELSE frees[j]
      BY <2>2, <3>1 DEF Free, WorkersInv, TypeOK
    <3>3. stack'[mi] # "up" /\ \A j \in Worker : j # mi => stack'[j] = stack[j]
      BY <2>0, <2>2 DEF Free, WorkersInv, TypeOK
    <3>4. \A j \in Worker : Destroyed(j)' => Destroyed(j) /\ j # mi
      BY <1>5, <2>2, SMTT(30) DEF DestroyFree, Destroyed, WorkersInv, TypeOK, Worker
    <3>5. UNCHANGED <<wpc, mctx, mi>>
      BY <1>5, <2>2 DEF DestroyFree
    <3>6. OwnedOnce(mi)'
      BY <2>0, <2>2, <3>2, <3>3, <3>4, <3>5, SMTT(30) DEF OwnedOnce
    <3>7. ASSUME NEW j \in Worker, j # mi PROVE OwnedOnce(j)'
      BY <1>0, <1>5, <2>2, <3>2, <3>3, <3>4, <3>5, <3>7, ZenonT(30)
      DEF DestroyFree, OwnedOnce, CalmInv, CalmOwner
    <3> QED BY <3>5, <3>6, <3>7 DEF CalmOwner
  <2>3. CASE Crash /\ UNCHANGED frees
    BY <1>0, <2>3, ZenonT(30) DEF Crash, CalmInv, CalmOwner, OwnedOnce
  <2> QED BY <1>5, <2>1, <2>2, <2>3 DEF DestroyFree
<1>6. ASSUME DestroyClear PROVE CalmOwner'
  <2>1. \A j \in Worker : mctx'[j] = (mctx[j] /\ j # mi)
    BY <1>6, ZenonT(30) DEF DestroyClear, WorkersInv, TypeOK
  <2>2. stack[mi] # "up"
    BY <1>0, <1>6 DEF DestroyClear, WorkersInv, TypeOK, CalmInv, CalmOwner, OwnedOnce,
     CalmPassed
  <2> QED BY <1>0, <1>6, <2>1, <2>2, WorkersAssumption, SMTT(30)
    DEF DestroyClear, Step, WorkersInv, TypeOK, Worker, CalmInv, CalmOwner, OwnedOnce, Destroyed
<1>7. ASSUME Finish PROVE CalmOwner'
  BY <1>0, <1>7, MasterKeepsOwner DEF Finish, Destroyed, ctxVars
<1>8. ASSUME NEW i \in Worker, WBegin(i) PROVE CalmOwner'
  <2>1. \A j \in Worker : wpc'[j] = IF j = i THEN "context" ELSE wpc[j]
    BY <1>8 DEF WBegin, Goto, WorkersInv, TypeOK
  <2> QED BY <1>0, <1>8, <2>1 DEF WBegin, ctxVars, CalmOwner, OwnedOnce, Destroyed
<1>9. ASSUME NEW i \in Worker, WContext(i) PROVE CalmOwner'
  <2>1. CASE Goto(i, "gone") /\ UNCHANGED <<mctx, stack>>
    BY <1>0, <1>9, <2>1, MoveKeepsOwner DEF WContext, Alive
  <2>2. CASE /\ Goto(i, "epoll") /\ mctx' = [mctx EXCEPT ![i] = TRUE]
             /\ stack' = [stack EXCEPT ![i] = "up"]
    <3>1. /\ wpc'[i] = "epoll" /\ mctx'[i] /\ stack'[i] = "up"
          /\ \A j \in Worker : j # i => /\ wpc'[j] = wpc[j] /\ mctx'[j] = mctx[j]
                                        /\ stack'[j] = stack[j]
      BY <2>2 DEF Goto, WorkersInv, TypeOK
    <3>2. UNCHANGED <<mpc, mi, frees>> /\ wpc[i] = "context" /\ mpc # "crashed"
      BY <1>9 DEF WContext, Alive
    <3>3. \A j \in Worker : Destroyed(j)' => Destroyed(j) /\ j # i
      BY <1>0, <3>2 DEF Destroyed, CalmInv, CalmPassed, Passed, Waited
    <3>4. ~(mpc = "clear" /\ mi = i)
      BY <1>0, <3>2 DEF CalmInv, CalmPassed, Passed, Waited
    <3>5. frees[i] = 0
      BY <1>0, <3>2, SMTT(30) DEF CalmOwner, OwnedOnce, WorkersInv, TypeOK
    <3>6. OwnedOnce(i)'
      BY <3>1, <3>2, <3>3, <3>4, <3>5, SMTT(30) DEF OwnedOnce
    <3>7. ASSUME NEW j \in Worker, j # i PROVE OwnedOnce(j)'
      BY <1>0, <3>1, <3>2, <3>3, <3>7, ZenonT(30) DEF CalmOwner, OwnedOnce
    <3> QED BY <3>6, <3>7 DEF CalmOwner
  <2> QED BY <1>9, <2>1, <2>2 DEF WContext
<1>10. ASSUME NEW i \in Worker, WEpoll(i) PROVE CalmOwner'
  BY <1>0, <1>10, MoveKeepsOwner DEF WEpoll, Alive, ctxVars
<1>11. ASSUME NEW i \in Worker, WEnter(i) PROVE CalmOwner'
  BY <1>0, <1>11, MoveKeepsOwner DEF WEnter, Alive, ctxVars
<1>12. ASSUME NEW i \in Worker, WCheck(i) PROVE CalmOwner'
  BY <1>0, <1>12, MoveKeepsOwner, Zenon DEF WCheck, Alive, ctxVars
<1>13. ASSUME NEW i \in Worker, WPoll(i) PROVE CalmOwner'
  BY <1>0, <1>13, MoveKeepsOwner, CrashKeepsOwner DEF WPoll, LeaveLoop, Alive,
     ctxVars
<1>14. ASSUME NEW i \in Worker, WWait(i) PROVE CalmOwner'
  BY <1>0, <1>14, MoveKeepsOwner DEF WWait, Alive, ctxVars
<1>15. ASSUME NEW i \in Worker, WClose(i) PROVE CalmOwner'
  BY <1>0, <1>15, MoveKeepsOwner, CrashKeepsOwner DEF WClose, Alive,
     ctxVars
<1>16. ASSUME NEW i \in Worker, WFree(i) PROVE CalmOwner'
  <2>1. CASE Crash /\ UNCHANGED frees
    BY <1>0, <2>1, ZenonT(30) DEF Crash, CalmInv, CalmOwner, OwnedOnce
  <2>2. CASE Goto(i, "gone") /\ ~mctx[i] /\ UNCHANGED <<mpc, frees, stack>>
    BY <1>0, <1>16, <2>2, Zenon DEF WFree, Alive, Goto, WorkersInv, TypeOK, CalmInv,
       CalmOwner, OwnedOnce, Destroyed
  <2>3. CASE Goto(i, "clear") /\ mctx[i] /\ Free(i) /\ UNCHANGED mpc
    <3>1. frees[i] = 0
      BY <1>0, <1>16, <2>3 DEF WFree, Alive, WorkersInv, TypeOK, CalmInv, CalmOwner, OwnedOnce
    <3>2. \A j \in Worker : frees'[j] = IF j = i THEN 1 ELSE frees[j]
      BY <2>3, <3>1 DEF Free, WorkersInv, TypeOK
    <3>3. \A j \in Worker : wpc'[j] = IF j = i THEN "clear" ELSE wpc[j]
      BY <2>3 DEF Goto, WorkersInv, TypeOK
    <3>4. stack'[i] # "up" /\ \A j \in Worker : j # i => stack'[j] = stack[j]
      BY <2>3, Zenon DEF Free, WorkersInv, TypeOK
    <3>5. UNCHANGED <<mpc, mi, mctx>> /\ wpc[i] = "free" /\ mpc # "crashed"
      BY <1>16, <2>3, Zenon DEF WFree, Alive
    <3>6. ASSUME NEW j \in Worker, j # i
          PROVE  /\ wpc'[j] = wpc[j] /\ frees'[j] = frees[j]
                 /\ stack'[j] = stack[j] /\ mctx'[j] = mctx[j]
      BY <3>2, <3>3, <3>4, <3>5, <3>6
    <3>7. \A j \in Worker : Destroyed(j)' => ~mctx[j]
      BY <1>0, <3>5, Zenon DEF Destroyed, CalmInv, CalmOwner, OwnedOnce
    <3>8. OwnedOnce(i)'
      BY <3>2, <3>3, <3>4, <3>5, <3>7, SMTT(30) DEF OwnedOnce
    <3>9. ASSUME NEW j \in Worker, j # i PROVE OwnedOnce(j)'
      BY <1>0, <3>5, <3>6, <3>7, <3>9, Zenon DEF OwnedOnce, CalmInv, CalmOwner
    <3> QED BY <3>8, <3>9 DEF CalmOwner
  <2> QED BY <1>16, <2>1, <2>2, <2>3, Zenon DEF WFree
<1>17. ASSUME NEW i \in Worker, WClear(i) PROVE CalmOwner'
  <2>1. \A j \in Worker : mctx'[j] <=> mctx[j] /\ j # i
    BY <1>17 DEF WClear, Clear, WorkersInv, TypeOK
  <2>2. \A j \in Worker : wpc'[j] = IF j = i THEN "gone" ELSE wpc[j]
    BY <1>17 DEF WClear, Goto, WorkersInv, TypeOK
  <2>3. stack[i] # "up"
    BY <1>0, <1>17, Zenon DEF WClear, Alive, WorkersInv, TypeOK, CalmInv, CalmOwner, OwnedOnce
  <2> QED BY <1>0, <1>17, <2>1, <2>2, <2>3
    DEF WClear, WorkersInv, TypeOK, CalmInv, CalmOwner, OwnedOnce, Destroyed
<1>18. ASSUME NEW i \in Worker, WEvents(i) PROVE CalmOwner'
  BY <1>0, <1>18, MoveKeepsOwner, CrashKeepsOwner, ZenonT(30) DEF WEvents, LeaveLoop, Alive,
     ctxVars
<1>19. ASSUME NEW i \in Worker, StackInterrupt(i) PROVE CalmOwner'
  BY <1>0, <1>19, MoveKeepsOwner, Zenon DEF StackInterrupt, Woken, LeaveLoop, Alive,
     ctxVars
<1>20. ASSUME NEW i \in Worker, StackEnd(i) PROVE CalmOwner'
  <2>1. stack'[i] = "gone" /\ \A j \in Worker : j # i => stack'[j] = stack[j]
    BY <1>20 DEF StackEnd, WorkersInv, TypeOK
  <2>2. \A j \in Worker : wpc'[j] # wpc[j] => wpc[j] = "sleep" /\ wpc'[j] = "close"
    BY <1>20, Zenon DEF StackEnd, Woken, LeaveLoop, Goto, WorkersInv, TypeOK
  <2>3. /\ UNCHANGED <<mpc, mi, mctx, frees>> /\ mpc # "crashed"
        /\ stack[i] \in {"up", "stopping"}
    BY <1>20, Zenon DEF StackEnd, Alive
  <2>4. \A j \in Worker : Destroyed(j)' => Destroyed(j)
    BY <2>3, Zenon DEF Destroyed
  <2>5. ASSUME NEW j \in Worker PROVE OwnedOnce(j)'
    <3>1. OwnedOnce(j)
      BY <1>0 DEF CalmOwner
    <3> QED BY <2>1, <2>2, <2>3, <2>4, <3>1 DEF OwnedOnce
  <2> QED BY <2>5 DEF CalmOwner
<1>21. ~KillAll /\ ~Sigint /\ \A i \in Worker : ~WorkerSignal(i)
  BY <1>0 DEF CalmInv, CalmStates, Calm, Alive, KillAll, Sigint, WorkerSignal,
     WorkersInv, TypeOK
<1>22. ASSUME UNCHANGED vars PROVE CalmOwner'
  BY <1>0, <1>22 DEF vars, ctxVars, CalmOwner, OwnedOnce, Destroyed
<1> QED BY <1>1, <1>2, <1>3, <1>4, <1>5, <1>6, <1>7, <1>8, <1>9, <1>10, <1>11,
     <1>12, <1>13, <1>14, <1>15, <1>16, <1>17, <1>18, <1>19, <1>20, <1>21,
     <1>22
     DEF Next, Master, WorkerStep, StackStep, Ended

\* The invariant of calm runs.
THEOREM CalmInvariance == Spec => [](WorkersInv /\ CalmInv)
<1>1. Init => CalmInv
  BY WorkersAssumption DEF Init, CalmInv, CalmStates, CalmPassed, CalmOwner, OwnedOnce,
     Passed,
     Waited, Destroyed, Worker
<1>2. WorkersInv /\ CalmInv /\ [Next]_vars => CalmInv'
  BY CalmStatesStep, CalmPassedStep, CalmOwnerStep DEF CalmInv
<1> QED BY <1>1, <1>2, Invariance, PTL DEF Spec

\* "All workers exit." holds when there was no SIGINT and every thread could
\* be created: mperf_wait_workers() returns after the last worker.
THEOREM CalmExitHolds == Spec => []CalmExit
<1>1. CalmInv => CalmExit
  BY DEF CalmInv, CalmPassed, CalmExit, AllWorkersExit, Passed
<1> QED BY <1>1, CalmInvariance, PTL

\* Then each context is freed at most once, and its stack thread was told to
\* stop before mtcp_destroy() waits for it.
THEOREM CalmFreeHolds == Spec => []CalmFree
<1>1. CalmInv => CalmFree
  BY DEF CalmInv, CalmOwner, OwnedOnce, CalmFree, Destroyed
<1> QED BY <1>1, CalmInvariance, PTL

\* for any number of workers, without SIGINT and with every thread created,
\* mperf_wait_workers() returns after the last worker, and then destroy_mctx() frees
\* every context at most once, with its stack thread told to stop.
THEOREM CalmEndHolds == Spec => []CalmEnd
BY CalmExitHolds, CalmFreeHolds, PTL DEF CalmEnd
=============================================================================
