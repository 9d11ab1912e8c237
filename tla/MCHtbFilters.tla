----------------------------- MODULE MCHtbFilters -----------------------------
(***************************************************************************)
(* Rules of every kind: one source, one destination, both, any source, a   *)
(* set, a range, an address no key can hold, both directions, and in       *)
(* Masked the network of a source.                                         *)
(***************************************************************************)
EXTENDS HtbFilters

F(name, kind, values) ==
    [name |-> name, kind |-> kind, len |-> 4, values |-> values, wide |-> 1]

MCFilters ==
    [from1 |-> << F("srcip", "exact", {1}) >>,
     to1   |-> << F("dstip", "exact", {1}) >>,
     pair  |-> << F("dstip", "exact", {0}), F("srcip", "exact", {3}) >>,
     any   |-> << F("srcip", "wild", {}), F("dstip", "exact", {0}) >>,
     some  |-> << F("srcip", "set", {0, 2}) >>,
     span  |-> << F("srcip", "range", {0, 1}), F("dstip", "exact", {1}) >>,
     both  |-> << F("dstip", "exact", {0}) >>]
MCMasked ==
    [from1 |-> << F("srcip", "exact", {1}) >>,
     net   |-> << [F("srcip", "exact", {2}) EXCEPT !.wide = 2] >>]

MCRule == DOMAIN MCFilters
MCRuleMasked == DOMAIN MCMasked
MCBidir == [r \in MCRule |-> r = "both"]
MCBidirMasked == [r \in MCRuleMasked |-> FALSE]
MCRate == [r \in MCRule |-> IF r = "pair" THEN 2 ELSE 1]
MCRateMasked == [r \in MCRuleMasked |-> 1]
MCReverse == [srcip |-> "dstip", dstip |-> "srcip"]
MCPacket == [{"srcip", "dstip"} -> 0 .. 3]
=============================================================================
