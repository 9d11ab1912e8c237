------------------------------ MODULE MCControl ------------------------------
(***************************************************************************)
(* Two clients of a host that the access list admits or keeps out by its   *)
(* name, seen through a socket for IPv6.  One of them sends tasks, in      *)
(* pieces or whole, and may give up; the other reads pages and asks for    *)
(* what there is not.                                                      *)
(***************************************************************************)
EXTENDS Control

CONSTANTS c1, c2, a1, a2, u1, lan

MCClient == {c1, c2}
MCAddress == {a1, a2}
MCUser == {u1}
MCAddressOf == [c \in MCClient |-> a1]
MCUserOf == [c \in MCClient |-> u1]
MCIPv4 == {a1}
MCDns == [h \in {lan} |-> << a2, a1 >>]
MCStarts == {}
Host(h, ad) == [type |-> "Host", value |-> h, ad |-> ad]
Anyone == [type |-> "User", value |-> "All", ad |-> "ALLOW"]
MCAccessLists == {<< Host(lan, "ALLOW"), Host("All", "DENY"), Anyone >>,
                  << Host(lan, "DENY"), Host("All", "ALLOW"), Anyone >>}
\* All say HTTP/1.1.
R(m, cmd, k) == [method |-> m, cmd |-> cmd, keep |-> k, http11 |-> TRUE]
MCMayAsk == c1 :> {R("POST", "task", TRUE), R("GET", "task", FALSE)}
         @@ c2 :> {R("GET", "page", TRUE), R("POST", "unknown", FALSE)}
MCLeaving == {c1}
==============================================================================
