---------------------------- MODULE MCPublication ----------------------------
(* The TLC instance of Publication: three creators, two of them threads of *)
(* one process, and a second process with the same process id.             *)
EXTENDS Publication, TLC

CONSTANTS c1, c2, c3, p1, p2

MCProcessOf == (c1 :> p1) @@ (c2 :> p1) @@ (c3 :> p2)
MCPidOf == (p1 :> 1) @@ (p2 :> 1)

=============================================================================
