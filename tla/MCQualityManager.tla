--------------------------- MODULE MCQualityManager ---------------------------
(***************************************************************************)
(* Two submissions: r1 and r2 start together and stop apart, r3 takes the  *)
(* name of r1, while r4 shares their set and has no stop time.  There are  *)
(* two flow identifiers, so activations fail half-way and timers outlive   *)
(* rolled-back rules.                                                      *)
(***************************************************************************)
EXTENDS QualityManager

MCRule == {"r1", "r2", "r3", "r4"}
MCModule == {"htb"}

HtbAction(rate, timed) == [module |-> "htb", rate |-> rate, timed |-> timed]

MCActions ==
    "r1" :> << HtbAction(1, TRUE), HtbAction(1, FALSE) >>
    @@ "r2" :> << HtbAction(1, TRUE) >>
    @@ "r3" :> << HtbAction(2, FALSE) >>
    @@ "r4" :> << HtbAction(1, FALSE) >>

MCBatches == << << "r1", "r2" >>, << "r3", "r4" >> >>
MCRuleSet == [r \in MCRule |-> "set"]
MCRuleName == [r \in MCRule |-> IF r = "r3" THEN "r1" ELSE r]
MCStart == [r \in MCRule |-> 1]
MCStop == "r1" :> 2 @@ "r2" :> 3 @@ "r3" :> 2 @@ "r4" :> 0
=============================================================================
