------------------------ MODULE MCInitialPublication ------------------------
(* TLC instances of InitialPublication: two calls in one process race with *)
(* a third in another, or two processes race while a foreign file appears. *)
EXTENDS InitialPublication, TLC

CONSTANTS c1, c2, c3, p1, p2

SharedProcess == (c1 :> p1) @@ (c2 :> p1) @@ (c3 :> p2)

TwoProcesses == (c1 :> p1) @@ (c2 :> p2)

=============================================================================
