---------------------------- MODULE MperfOptions ----------------------------
(***************************************************************************)
(* The command line of mperf: mperf_parse_args() of mperf_api.c, one       *)
(* option a step as getopt_long() returns them, and unit_atolu() of        *)
(* units.c.  The widths and shifts are small stand-ins for the code's: a   *)
(* number has W64 bits, the fields declared uint32_t have W32.             *)
(***************************************************************************)
EXTENDS Integers, Sequences, FiniteSets

CONSTANTS
  W32, W64,      \* 32 and 64
  Shift,         \* unit_list: the shift of each unit, by its symbol
  Nums,          \* the numbers the user writes
  DURATION, MAX_TIME, MAX_BURST, DEFAULT_TCP_BLKSIZE,
  MaxOpts        \* bound on the number of options

\* What the constants must satisfy; the modules that instantiate this one assume it.
OptionsAssumption ==
  /\ W32 \in Nat /\ W64 \in Nat /\ W32 <= W64
  /\ \A u \in DOMAIN Shift : Shift[u] \in Nat
  /\ Nums \subseteq Nat /\ DURATION \in 1..MAX_TIME
  /\ MAX_BURST \in Nat /\ DEFAULT_TCP_BLKSIZE \in 1..(2^W32 - 1)

Units == DOMAIN Shift
NoUnit == "none"         \* the number ends the string, or no unit follows it
Numbers == [num : Nums, unit : Units \cup {NoUnit}]

VARIABLES
  conf,                            \* global_conf, in part
  blksize, duration_flag, mtcp_flag,
  ret,                             \* what was returned, "none" before that
  given                            \* history: the options so far

vars == <<conf, blksize, duration_flag, mtcp_flag, ret, given>>

\* Mutant: the fields are as wide as the number.
Wide(n) == n
uint32(n) == n % 2^W32

UINT64_MAX == 2^W64 - 1

\* sscanf() and unit_match(): no unit is not found in the list.
unit_atolu(a) ==
  IF a.unit \notin Units THEN UINT64_MAX ELSE (a.num * 2^Shift[a.unit]) % 2^W64

Init ==
  /\ conf = [verbose |-> 0, unit |-> "b", role |-> "server", sport |-> "PORT",
             rate |-> 0, burst |-> 0, bytes |-> 0, blocks |-> 0, duration |-> DURATION,
             blksize |-> DEFAULT_TCP_BLKSIZE]
  /\ blksize = 0 /\ duration_flag = FALSE /\ mtcp_flag = FALSE
  /\ ret = "none" /\ given = <<>>

-----------------------------------------------------------------------------
\* getopt_long() returns option o with argument a.
Flag(o, a) ==
  /\ ret = "none" /\ Len(given) < MaxOpts
  /\ given' = Append(given, [opt |-> o, arg |-> a])

\* An option that ends the parsing.
Returns(r) == ret' = r /\ UNCHANGED <<blksize, duration_flag, mtcp_flag>>
GoesOn == UNCHANGED <<blksize, duration_flag, mtcp_flag, ret>>

OptM ==
  /\ Flag("m", "file")
  /\ mtcp_flag' = TRUE
  /\ UNCHANGED <<conf, blksize, duration_flag, ret>>

OptP ==
  /\ Flag("p", "")
  /\ conf' = [conf EXCEPT !.sport = "given"]
  /\ GoesOn

\* The case of -f has no break and goes on into that of -V.
OptF(u) ==
  /\ Flag("f", u)
  /\ IF u \in Units
     THEN conf' = [conf EXCEPT !.unit = u, !.verbose = 1] /\ GoesOn
     ELSE UNCHANGED conf /\ Returns("error")

OptV ==
  /\ Flag("V", "")
  /\ conf' = [conf EXCEPT !.verbose = 1]
  /\ GoesOn

\* The role is set before the address is looked at.
OptRole(o, valid) ==
  /\ Flag(o, valid)
  /\ conf' = [conf EXCEPT !.role = IF o = "s" THEN "server" ELSE "client"]
  /\ IF valid THEN GoesOn ELSE Returns("error")

\* -b <bits>[/<burst>]: a burst is stored before it is looked at.
OptB(a, slash, burst) ==
  /\ Flag("b", a)
  /\ IF slash /\ (burst <= 0 \/ burst > MAX_BURST)
     THEN conf' = [conf EXCEPT !.burst = burst] /\ Returns("error")
     ELSE /\ conf' = [conf EXCEPT !.burst = IF slash THEN burst ELSE @,
                                  !.rate = unit_atolu(a)]
          /\ GoesOn

OptT(n) ==
  /\ Flag("t", n)
  /\ conf' = [conf EXCEPT !.duration = n]
  /\ IF n > MAX_TIME THEN Returns("error")
     ELSE duration_flag' = TRUE /\ UNCHANGED <<blksize, mtcp_flag, ret>>

OptN(a) ==
  /\ Flag("n", a)
  /\ conf' = [conf EXCEPT !.bytes = uint32(unit_atolu(a))]
  /\ GoesOn

OptK(a) ==
  /\ Flag("k", a)
  /\ conf' = [conf EXCEPT !.blocks = uint32(unit_atolu(a))]
  /\ GoesOn

OptL(a) ==
  /\ Flag("l", a)
  /\ blksize' = uint32(unit_atolu(a))
  /\ UNCHANGED <<conf, duration_flag, mtcp_flag, ret>>

\* -v leaves the program, -h and an unknown option show the usage.
OptQuits ==
  /\ Flag("h", "")
  /\ UNCHANGED conf /\ Returns("quit")

\* Mutant: -t is forgotten when an amount is given.
DurationAlways ==
  IF conf.bytes # 0 \/ conf.blocks # 0 THEN 0 ELSE conf.duration

\* Mutant: the default duration is dropped when an amount was named, be it 0.
DurationNamed ==
  IF (\E i \in 1..Len(given) : given[i].opt \in {"n", "k"}) /\ ~duration_flag
  THEN 0 ELSE conf.duration

\* An amount replaces the default duration and not one that was asked for.
Duration ==
  IF (conf.bytes # 0 \/ conf.blocks # 0) /\ ~duration_flag THEN 0 ELSE conf.duration

Blksize == IF blksize = 0 THEN DEFAULT_TCP_BLKSIZE ELSE blksize

Finish ==
  /\ ret = "none"
  /\ IF ~mtcp_flag THEN ret' = "error" /\ UNCHANGED conf
     ELSE ret' = "ok" /\ conf' = [conf EXCEPT !.blksize = Blksize, !.duration = Duration]
  /\ UNCHANGED <<blksize, duration_flag, mtcp_flag, given>>

Next ==
  \/ OptM \/ OptP \/ OptV \/ OptQuits \/ Finish
  \/ \E u \in Units \cup {NoUnit} : OptF(u)
  \/ \E o \in {"s", "c"}, valid \in BOOLEAN : OptRole(o, valid)
  \/ \E a \in Numbers, slash \in BOOLEAN, burst \in 0..(MAX_BURST + 1) : OptB(a, slash, burst)
  \/ \E n \in 0..(MAX_TIME + 1) : OptT(n)
  \/ \E a \in Numbers : OptN(a) \/ OptK(a) \/ OptL(a)

Spec == Init /\ [][Next]_vars

-----------------------------------------------------------------------------
\* Type invariant: what mperf_parse_args() stores fits the fields of struct
\* mperf_conn_config, which are narrower than what unit_atolu() returns.
TypeOK ==
  /\ conf \in [verbose : {0, 1}, unit : Units, role : {"server", "client"},
               sport : {"PORT", "given"}, rate : 0..UINT64_MAX, burst : 0..(MAX_BURST + 1),
               bytes : 0..(2^W32 - 1), blocks : 0..(2^W32 - 1),
               duration : 0..(MAX_TIME + 1), blksize : 0..(2^W32 - 1)]
  /\ blksize \in 0..(2^W32 - 1)
  /\ duration_flag \in BOOLEAN /\ mtcp_flag \in BOOLEAN
  /\ ret \in {"none", "ok", "error", "quit"}
  /\ Len(given) <= MaxOpts

Uses(o) == {i \in 1..Len(given) : given[i].opt = o}
LastArg(o) == given[CHOOSE i \in Uses(o) : \A j \in Uses(o) : j <= i].arg
Amount(o) == IF Uses(o) = {} THEN 0 ELSE uint32(unit_atolu(LastArg(o)))

\* Whatever the options and their order: a test that is started has an end, an
\* amount or a duration, unless the user asked for -t 0; and its blocks are
\* not empty.
HasAnEnd ==
  ret = "ok" =>
    /\ conf.bytes # 0 \/ conf.blocks # 0 \/ conf.duration # 0
       \/ (Uses("t") # {} /\ LastArg("t") = 0)
    /\ conf.blksize # 0

\* The order of the options does not matter but for two of one kind, where the
\* last one counts: an amount takes the place of the default duration, and one
\* given with -t stands beside it.
LastCounts ==
  ret = "ok" =>
    /\ conf.bytes = Amount("n") /\ conf.blocks = Amount("k")
    /\ conf.duration = IF Uses("t") # {} THEN LastArg("t")
                       ELSE IF Amount("n") # 0 \/ Amount("k") # 0 THEN 0 ELSE DURATION

\* "-n, --bytes #[KMG]": the unit may be left out, and the number is then itself.
UnitOptional ==
  ret = "ok" /\ Uses("n") # {} /\ LastArg("n").unit = NoUnit =>
    conf.bytes = uint32(LastArg("n").num)

\* "-n, --bytes: number of bytes to transmit": of a number with its unit.
BytesAsAsked ==
  ret = "ok" /\ Uses("n") # {} /\ LastArg("n").unit \in Units =>
    conf.bytes = LastArg("n").num * 2^Shift[LastArg("n").unit]

\* "-V, --verbose: more detailed output" is what makes the output detailed.
VerboseAsked == conf.verbose = 1 => Uses("V") # {}
=============================================================================
