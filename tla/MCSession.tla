----------------------------- MODULE MCSession ------------------------------
(***************************************************************************)
(* Three instances of MperfSession for TLC: the clients of the             *)
(* configuration file, whose configurations arrive in pieces; the same     *)
(* clients with configurations that arrive whole and blocks of one read;   *)
(* and the first client alone.                                             *)
(***************************************************************************)
EXTENDS MCMperfSession

CONSTANT Instances   \* those of a run

VARIABLE instance

Whole == INSTANCE MperfSession WITH Blk <- 1, Coalesced <- TRUE
Alone == INSTANCE MperfSession WITH Clients <- OneClient

\* An action of the instance that runs.
Pick(pieces, whole, alone) ==
  /\ UNCHANGED instance
  /\ \/ instance = "pieces" /\ pieces
     \/ instance = "whole" /\ whole
     \/ instance = "alone" /\ alone

MCInit ==
  /\ instance \in Instances
  /\ IF instance = "alone" THEN Alone!Init ELSE Init
MCNext == Pick(Next, Whole!Next, Alone!Next)
mcvars == <<instance, vars>>
MCSpec == MCInit /\ [][MCNext]_mcvars

\* The fairness of MperfSession, for the instance that runs.
MCFairness ==
  /\ WF_mcvars(Pick(Srv, Whole!Srv, Alone!Srv))
  /\ WF_mcvars(Pick(RaiseListener, Whole!RaiseListener, Alone!RaiseListener))
  /\ \A c \in Clients : WF_mcvars(Pick(Cli(c), Whole!Cli(c), c = c1 /\ Alone!Cli(c)))
  /\ \A k \in Conn :
       /\ WF_mcvars(Pick(Establish(k), Whole!Establish(k), k[1] = c1 /\ Alone!Establish(k)))
       /\ WF_mcvars(Pick(DeliverUp(k), Whole!DeliverUp(k), k[1] = c1 /\ Alone!DeliverUp(k)))
       /\ WF_mcvars(Pick(DeliverDown(k), Whole!DeliverDown(k),
                         k[1] = c1 /\ Alone!DeliverDown(k)))
MCFairSpec == MCSpec /\ MCFairness

\* An event of a control connection means something to read or the close, as
\* mperf_handle_server_msg() takes it, if configurations arrive whole.
ZeroIfWhole == instance = "whole" => ZeroMeansClosed

\* Once mperf_server_loop() has taken a controller, and no other client comes between,
\* the test ends on both sides: neither loop waits for ever for a message of the other.
AloneEnds == instance = "alone" /\ ctlfd # NoFd ~> Alone!Over

\* A client that was denied access leaves mperf_client_loop() (it does not know
\* ACCESS_DENY, but the close that follows it ends the loop).
DeniedLeaves ==
  \A c \in Clients :
    (instance = "whole" /\ downrdy[Ctl(c)] > 0 /\ Head(down[Ctl(c)]) = "ACCESS_DENY")
      ~> (instance = "alone" \/ cpc[c] = "over")
=============================================================================
