----------------------------- MODULE MCThreads ------------------------------
(***************************************************************************)
(* The ring of streams (StreamQueue, with the constants of the             *)
(* configuration), and what must happen in the end between the threads of  *)
(* mTCP, for TLC: in the event queues, the logger and the table of ARP     *)
(* requests.  A behaviour is one of `part' alone, and only that part is    *)
(* fair.                                                                   *)
(***************************************************************************)
EXTENDS StreamQueue

VARIABLES
  part,                                                       \* who runs
  epoll, events, mtcp_queue, usr_queue, usr_shadow_queue,     \* EpollEvents
  waiting, ready, stack, app, timeout, got, calls, raced, dropped,
  free, work, w_buffer, text, mutex, state, done, pipe,       \* Logger
  lat, lbuf, cnt, final, at, lines, flushed, gone, file,
  entry, entries, gateway, list, want, reg, net, lost, sent  \* ArpRequests

Epoll == INSTANCE EpollEvents WITH
  Streams <- {"s1"}, Listeners <- {}, Size <- 2, MaxEvents <- 2,
  Timeouts <- {"never", "later"}

Log == INSTANCE Logger WITH
  Apps <- {"app"}, NUM_LOG_BUFF <- 4, Fill <- 1, PipeSize <- 6, MaxLines <- 4

Arp == INSTANCE ArpRequests WITH
  Hosts <- {"h2"}, Gateway <- "h2", Outside <- {"ext"}, Cores <- {"c0", "c1"},
  ArpCore <- "c0", Timeout <- 1, MaxLost <- 1

ASSUME ConstantsAssumption ==
  Epoll!EpollAssumption /\ Log!LoggerAssumption /\ Arp!ArpAssumption

epolls == <<epoll, events, mtcp_queue, usr_queue, usr_shadow_queue, waiting, ready, stack,
            app, timeout, got, calls, raced, dropped>>
logs == <<free, work, w_buffer, text, mutex, state, done, pipe, lat, lbuf, cnt, final,
          at, lines, flushed, gone, file>>
arps == <<entry, entries, gateway, list, want, reg, net, lost, sent>>
mcvars == <<part, vars, epolls, logs, arps>>

\* An action of the part that runs.
Pick(e, l, a) ==
  /\ UNCHANGED <<part, vars>>
  /\ \/ part = "epoll" /\ e /\ UNCHANGED <<logs, arps>>
     \/ part = "log" /\ l /\ UNCHANGED <<epolls, arps>>
     \/ part = "arp" /\ a /\ UNCHANGED <<epolls, logs>>

MCInit ==
  /\ part \in {"ring", "epoll", "log", "arp"}
  /\ Init /\ Epoll!Init /\ Log!LogInit /\ Arp!ArpInit
MCNext ==
  \/ part = "ring" /\ Next /\ UNCHANGED <<part, epolls, logs, arps>>
  \/ Pick(Epoll!Next, Log!LogNext, Arp!ArpNext)

\* The turns that EpollEvents and ArpRequests are strongly fair to.
Serves(kind) == <<"s1", kind>> \in got /\ \E leaves \in BOOLEAN : Epoll!Serve(<<"s1", kind>>, leaves)
Asks == \E c \in {"c0", "c1"} : /\ Arp!IPOutput(c) /\ list["h2"] = -1
                                /\ [op |-> "request", host |-> "h2"] \in net'
Answered == Arp!Receive([op |-> "reply", host |-> "h2"])

\* The fairness of the three modules, one conjunct for an action of each.
MCFairness ==
  /\ WF_mcvars(Pick(Epoll!Raise, Log!StackEnds, Arp!ARPTimer))
  /\ WF_mcvars(Pick(Epoll!AddToMtcp, Log!LogThread, Arp!Tick))
  /\ WF_mcvars(Pick(Epoll!InCall, Log!Prints("app"), Arp!Learns))
  /\ WF_mcvars(Pick(FALSE, Log!Prints("stack"), Arp!HostReplies("h2")))
  /\ SF_mcvars(Pick(Epoll!RoundDone, Log!LogLock, Arp!IPOutput("c0")))
  /\ SF_mcvars(Pick(Epoll!FlushEpollEvents, FALSE, Arp!IPOutput("c1")))
  /\ SF_mcvars(Pick(Epoll!Wait, FALSE, Asks))
  /\ SF_mcvars(Pick(Serves("IN"), FALSE, Answered))
  /\ SF_mcvars(Pick(Serves("OUT"), FALSE, FALSE))

\* Events are followed up to the first race of two threads for one socket's word.
Followed == Epoll!BeforeRace

MCSpec == MCInit /\ [][MCNext]_mcvars /\ MCFairness

\* mtcp_epoll_wait(), AddEpollEvent(), FlushEpollEvents(): an event that an application
\* is registered for is returned to it in the end.
EventDelivered == Epoll!Delivered

\* mtcp_destroy_context(): pthread_join() on the log thread returns.
LogJoined == part = "log" /\ at["stack"] = "done" ~> at["stack"] = "closed"

\* RequestARP(), "tcp will retry sending the packet later": a packet for a host that
\* answers goes out, although requests and replies are lost.
Resolves ==
  \A c \in {"c0", "c1"} : part = "arp" /\ want[c] # "none" ~> want[c] = "none"
=============================================================================
