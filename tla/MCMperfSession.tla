--------------------------- MODULE MCMperfSession ---------------------------
(* Instances of MperfSession for TLC.                                      *)
EXTENDS MperfSession, TLC

CONSTANTS c1, c2, h1, h2

OneClient == {c1}
TwoClients == {c1, c2}
OwnHosts == c1 :> h1 @@ c2 :> h2
SameHost == c1 :> h1 @@ c2 :> h1
NoBadVersion == {}
SecondBad == {c2}

=============================================================================
