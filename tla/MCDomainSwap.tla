---------------------------- MODULE MCDomainSwap ----------------------------
(* Four swaps over three domains whose demands form a cycle, the case that *)
(* would deadlock if each took its locks in an order of its own.           *)
EXTENDS DomainSwap

MCCallers == {"p", "q", "r", "s"}
MCDomains == {"gpu0", "gpu1", "host"}
MCWanted == [p |-> {"gpu0", "gpu1"}, q |-> {"gpu1", "host"}, r |-> {"gpu0", "host"},
             s |-> {"gpu1"}]
MCRank == [gpu0 |-> 0, gpu1 |-> 1, host |-> 2]

(* awaiting has no value before the call; any one will do. *)
OneInit == Init /\ awaiting = [c \in Callers |-> "gpu0"]
OneSpec == OneInit /\ [][Next]_vars
           /\ \A c \in Callers : WF_vars(Advance(c)) /\ WF_vars(Finish(c))
=============================================================================
