------------------------------ MODULE MCThreads ------------------------------
(***************************************************************************)
(* Two batches, the first of two rules, the second of which may fail to be *)
(* installed, so that both threads have work at the same time.  Or the     *)
(* first batch alone, which two clients may ask to remove.                 *)
(***************************************************************************)
EXTENDS Threads

CONSTANTS r1, r2, r3, b1, b2, c1, c2

MCRule == {r1, r2, r3}
MCBatch == {b1, b2}
MCRulesOf == b1 :> << r1, r2 >> @@ b2 :> << r3 >>
MCMayFail == {r2}
MCRemover == {c1, c2}
MCScripts == {{<< "add", b1 >>, << "add", b2 >>},
              {<< "add", b1 >>, << c1, b1 >>, << c2, b1 >>}}
==============================================================================
