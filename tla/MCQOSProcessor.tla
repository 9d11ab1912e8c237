---------------------------- MODULE MCQOSProcessor ----------------------------
(***************************************************************************)
(* Rules that compete for three flow identifiers and for bandwidth: r1 has *)
(* a timed action before one that may fail, r2 mixes the two modules, r3   *)
(* fits beside either, r4 names a module that does not exist.              *)
(***************************************************************************)
EXTENDS QOSProcessor

MCRule == {"r1", "r2", "r3", "r4"}
MCModule == {"htb", "tbf", "none"}
MCLoadable == {"htb", "tbf"}

HtbAction(rate, timed) == [module |-> "htb", rate |-> rate, timed |-> timed]
TbfAction(timed) == [module |-> "tbf", rate |-> 1, timed |-> timed]

NoSuchAction == [module |-> "none", rate |-> 1, timed |-> FALSE]

MCActions ==
    "r1" :> << HtbAction(1, TRUE), HtbAction(1, FALSE) >>
    @@ "r2" :> << TbfAction(TRUE), HtbAction(2, FALSE) >>
    @@ "r3" :> << HtbAction(1, TRUE) >>
    @@ "r4" :> << HtbAction(1, FALSE), NoSuchAction >>
=============================================================================
