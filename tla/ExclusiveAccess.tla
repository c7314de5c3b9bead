--------------------------- MODULE ExclusiveAccess ---------------------------
(***************************************************************************)
(* What a swap lock promises its callers: each asks once for a set of      *)
(* domains, is let in when nobody inside has one of them, and in the end   *)
(* everyone who asked is let in.  No queue, no order: how the promise is   *)
(* kept is the implementation's business.                                  *)
(***************************************************************************)
CONSTANTS Callers, DomainsWanted   \* DomainsWanted[c]: what caller c asks for

VARIABLE phase

Init == phase = [c \in Callers |-> "outside"]

Conflict(c, d) == c # d /\ DomainsWanted[c] \cap DomainsWanted[d] # {}

Ask(c) ==
  /\ phase[c] = "outside"
  /\ phase' = [phase EXCEPT ![c] = "asking"]

Enter(c) ==
  /\ phase[c] = "asking"
  /\ \A d \in Callers : phase[d] = "inside" => ~Conflict(c, d)
  /\ phase' = [phase EXCEPT ![c] = "inside"]

Leave(c) ==
  /\ phase[c] = "inside"
  /\ phase' = [phase EXCEPT ![c] = "left"]

Next == \E c \in Callers : Ask(c) \/ Enter(c) \/ Leave(c)

SafeSpec == Init /\ [][Next]_phase

(* Whoever asks is let in, provided everyone inside leaves. *)
Spec ==
  /\ SafeSpec
  /\ \A c \in Callers : SF_phase(Enter(c)) /\ WF_phase(Leave(c))
=============================================================================
