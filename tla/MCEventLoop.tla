------------------------------ MODULE MCEventLoop ------------------------------
(* Instances of EventLoop: one rule in the file and one client. *)
EXTENDS EventLoop

CONSTANTS f, c1

\* One rule starts at once and is soon over, the other waits.
MCStartIn == f :> 1 @@ c1 :> 0
MCStopIn == f :> 2 @@ c1 :> 1
MCMaxSignals == [S |-> 1, D |-> 2]
================================================================================
