---------------------------- MODULE MCSequential ----------------------------
(***************************************************************************)
(* The parts of mTCP and mperf that one thread uses at a time, for TLC:    *)
(* the send buffers, the receive buffer, the pool of fragments, mperf's    *)
(* timers and options, the RSS hash, the routing and ARP tables, and the   *)
(* store of retransmission timers.  They share no state, so a behaviour is *)
(* one of `part' alone: the other parts stay in their initial states.  The *)
(* constants of SendBuffer come from the configuration, those of the       *)
(* other parts are given here.                                             *)
(***************************************************************************)
EXTENDS SendBuffer

VARIABLES
  part,                                                    \* who runs
  rdata, head_offset, tail_offset, merged_len, rcum_len,   \* RecvBuffer
  last_len, rhead_seq, fctx, rcv_nxt, rcv_wnd, got,
  freeptr, free_chunks, mc_free, mc_next, fragq,           \* FragmentPool
  fragq_int, is_calloc, lists, heap,
  timers, free_timers, prev, next, time, usecs, periodic,  \* MperfTimer
  now, run, due, cancelled,
  conf, blksize, duration_flag, mtcp_flag, ret, given,     \* MperfOptions
  saddr, daddr, sport, dport,                              \* RssHash
  rtable, gateway, arp, arp_gateway,                       \* Routing
  cur_ts, now_idx, now_ts, rto_list, rto_list_cnt,         \* RtoStore
  on_rto_idx, ts_rto, timewait_list, ts_tw_expire, pc, timer, fired

Recv == INSTANCE RecvBuffer WITH
  Size <- 7, SeqSpace <- 23, InitSeq <- 18, MaxSeg <- 3, MaxByte <- 11, Junk <- 99,
  data <- rdata, cum_len <- rcum_len, head_seq <- rhead_seq

Pool == INSTANCE FragmentPool WITH CNum <- 3, MaxCalloc <- 1

Tmr == INSTANCE MperfTimer WITH
  Timers <- 1..3, Delays <- {0, 2}, MaxNow <- 2, CancelsAny <- FALSE

\* Of the units of units.c one that does not shift, one that stays within the width
\* of a 32-bit field and one that goes beyond it.
Shift == [b |-> 0, g |-> 3, t |-> 5]
Opts == INSTANCE MperfOptions WITH
  W32 <- 4, W64 <- 7, Nums <- {0, 1, 3}, DURATION <- 1, MAX_TIME <- 2,
  MAX_BURST <- 1, DEFAULT_TCP_BLKSIZE <- 9, MaxOpts <- 3

Rss == INSTANCE RssHash WITH
  Bits32 <- {5, 15, 30}, Bits16 <- {2, 15}, Queues <- {1, 2, 3, 8}

\* Every prefix length that differs in a byte, with few entries of arp.conf, and
\* more entries with fewer lengths.
Routes == INSTANCE Routing WITH
  Bits <- {0, 8}, Prefixes <- {0, 1, 8, 9, 31, 32}, Nifs <- {1, 2},
  Haddrs <- {"m1", "m2"}, MaxRoutes <- 3, MaxArp <- 0
Arps == INSTANCE Routing WITH
  Bits <- {0, 8}, Prefixes <- {0, 8, 9, 16}, Nifs <- {1},
  Haddrs <- {"m1", "m2"}, MaxRoutes <- 1, MaxArp <- 2

\* The wheel with timers that go beyond its end and come to rest on its last list,
\* and one whose timers all fit.
Far == INSTANCE RtoStore WITH
  Streams <- {"s1", "s2"}, RTO_HASH <- 2, Every <- 1, Wrap <- 10, Rtos <- {1, 3},
  Timewait <- 1, MaxStep <- 1
Near == INSTANCE RtoStore WITH
  Streams <- {"s1", "s2"}, RTO_HASH <- 3, Every <- 1, Wrap <- 8, Rtos <- {1, 2},
  Timewait <- 1, MaxStep <- 1

ASSUME ConstantsAssumption ==
  /\ Recv!RecvAssumption /\ Pool!PoolAssumption /\ Tmr!TimerAssumption
  /\ Opts!OptionsAssumption /\ Rss!RssHashAssumption
  /\ Routes!RoutingAssumption /\ Arps!RoutingAssumption
  /\ Far!RtoAssumption /\ Near!RtoAssumption

MCInit ==
  /\ part \in {"send", "recv", "pool", "timer", "options", "rss", "routes", "arp",
              "far", "near"}
  /\ Init /\ Recv!Init /\ Pool!Init /\ Tmr!Init /\ Opts!Init /\ Rss!Init /\ Routes!Init
  /\ IF part = "near" THEN Near!Init ELSE Far!Init

recv == <<rdata, head_offset, tail_offset, merged_len, rcum_len, last_len, rhead_seq,
          fctx, rcv_nxt, rcv_wnd, got>>
pool == <<freeptr, free_chunks, mc_free, mc_next, fragq, fragq_int, is_calloc, lists, heap>>
tmr == <<timers, free_timers, prev, next, time, usecs, periodic, now, run, due, cancelled>>
opts == <<conf, blksize, duration_flag, mtcp_flag, ret, given>>
rss == <<saddr, daddr, sport, dport>>
route == <<rtable, gateway, arp, arp_gateway>>
rto == <<cur_ts, now_idx, now_ts, rto_list, rto_list_cnt, on_rto_idx, ts_rto,
         timewait_list, ts_tw_expire, pc, timer, fired>>

MCNext ==
  \/ part = "send" /\ Next /\ UNCHANGED <<recv, pool, tmr, opts, rss, route, rto>>
  \/ part = "recv" /\ Recv!Next /\ UNCHANGED <<vars, pool, tmr, opts, rss, route, rto>>
  \/ part = "pool" /\ Pool!Next /\ UNCHANGED <<vars, recv, tmr, opts, rss, route, rto>>
  \/ part = "timer" /\ Tmr!Next /\ UNCHANGED <<vars, recv, pool, opts, rss, route, rto>>
  \/ part = "options" /\ Opts!Next /\ UNCHANGED <<vars, recv, pool, tmr, rss, route, rto>>
  \/ part = "rss" /\ Rss!Next /\ UNCHANGED <<vars, recv, pool, tmr, opts, route, rto>>
  \/ part = "routes" /\ Routes!Next /\ UNCHANGED <<vars, recv, pool, tmr, opts, rss, rto>>
  \/ part = "arp" /\ Arps!Next /\ UNCHANGED <<vars, recv, pool, tmr, opts, rss, rto>>
  \/ part = "far" /\ Far!Next /\ UNCHANGED <<vars, recv, pool, tmr, opts, rss, route>>
  \/ part = "near" /\ Near!Next /\ UNCHANGED <<vars, recv, pool, tmr, opts, rss, route>>

\* The peer's stream, the options and the lines of the tables come to an end.
Ends ==
  /\ part \in {"recv", "options", "routes", "arp"}
  /\ UNCHANGED <<vars, recv, pool, tmr, opts, rss, route, rto>>

mcvars == <<part, vars, recv, pool, tmr, opts, rss, route, rto>>
MCSpec == MCInit /\ [][(MCNext \/ Ends) /\ UNCHANGED part]_mcvars

-----------------------------------------------------------------------------
(* The properties of the parts; SendBuffer's have the names they have there. *)

\* RBPut(), RBRemove(): what may be read, acknowledged and still be sent is exactly
\* what the bytes received so far allow, every byte is in its place behind the head, the
\* fragments are the received bytes, and the assert() of an insertion holds.
Reassembles ==
  part = "recv" =>
    Recv!TypeOK /\ Recv!MergesAll /\ Recv!BytesInPlace /\ Recv!FragmentsAreRuns /\ Recv!InsertAsserts

\* AllocateFragmentContext(), FreeFragmentContext(), MPFreeChunk(): no context is used
\* twice, the counter agrees with the runs of chunks, and as long as calloc() did not
\* help out none is lost.
ContextsKept ==
  part = "pool" => Pool!TypeOK /\ Pool!NotTwice /\ Pool!CountsFree /\ Pool!NoneLost

\* list_add(), list_remove(), list_resort(), tmr_run(): the links agree in both
\* directions, "the list is sorted", in callbacks too, every timer that was due has been
\* dealt with when tmr_run() returns, and it goes on with one on the active list.
TimersKept ==
  part = "timer" =>
    Tmr!TypeOK /\ Tmr!WellLinked /\ Tmr!Sorted /\ Tmr!RunsAllDue /\ Tmr!GoesOnActive

\* tmr_cancel(): a cancelled timer's callback is not called.
NeverFiresCancelled == Tmr!NeverFiresCancelled

\* mperf_parse_args(): a test that is started has an end, and the order of the options
\* does not matter.
OptionsAgree == part = "options" => Opts!TypeOK /\ Opts!HasAnEnd /\ Opts!LastCounts

\* GetRSSCPUCore(), CreateAddressPoolPerCore(): both directions of a connection come to
\* one core, and every core has ports of its own.
RssAgrees == part = "rss" => Rss!CallersAgree /\ Rss!EveryCoreHasPorts

\* MaskFromPrefix(), GetOutputInterface(), GetDestinationHWaddr(): a mask is the bits of
\* its prefix, with the entries sorted the longest match is found, and an address found
\* is that of an entry that matches.
LookupsMatch ==
  /\ part = "routes" => Routes!MaskIsPrefix /\ Routes!SortedRoutes
  /\ part = "arp" => Arps!ArpMatches

\* AddtoRTOList(), RearrangeRTOStore(), CheckRtmTimeout(): a stream is on one list and
\* times out within a turn of the wheel, and one that fits the wheel not early.
WheelKept ==
  /\ part = "far" => Far!TypeOK /\ Far!OneList /\ Far!WaitBounded
  /\ part = "near" => Near!TypeOK /\ Near!OneList /\ Near!NotEarly
=============================================================================
