------------------------------ MODULE DomainSwap ------------------------------
(***************************************************************************)
(* The swap coordinator of the API proxy                                   *)
(* (apps/api/src/proxy/domain-swap-coordinator.ts): run(domains, fn) calls *)
(* fn while holding one lock per domain.  A lock is the tail of a chain of *)
(* promises, `tails': a caller appends its own promise and awaits the one  *)
(* before it.  Locks are taken one by one in sorted order, with an await   *)
(* in between, and released together when fn has settled, by return or by  *)
(* exception.                                                              *)
(***************************************************************************)
EXTENDS Integers, Sequences, FiniteSets

CONSTANTS
  Callers,        \* calls of run()
  Domains,
  DomainsWanted,  \* the domains each call names
  Rank            \* the sort order of the domain names

CallAssumption ==
  /\ DomainsWanted \in [Callers -> SUBSET Domains]
  /\ \A c \in Callers : DomainsWanted[c] # {}   \* target-lifecycle.ts calls run() only then
  /\ \A c \in Callers : IsFiniteSet(DomainsWanted[c])
  /\ Rank \in [Domains -> Nat]
  /\ \A j, k \in Domains : Rank[j] = Rank[k] => j = k

ASSUME Calls == CallAssumption

VARIABLES
  phase,     \* outside, asking (awaiting a prior), inside (fn runs), left
  chain,     \* per domain, the calls that appended to its chain of promises
  awaiting,  \* the domain whose prior promise a call awaits
  passed,    \* the domains whose prior promise a call has seen resolve
  released   \* the pairs <<call, domain>> whose promise is resolved

vars == <<phase, chain, awaiting, passed, released>>

TypeOK ==
  /\ phase \in [Callers -> {"outside", "asking", "inside", "left"}]
  /\ chain \in [Domains -> Seq(Callers)]
  /\ awaiting \in [Callers -> Domains]
  /\ passed \in [Callers -> SUBSET Domains]
  /\ released \subseteq Callers \X Domains

Init ==
  /\ phase = [c \in Callers |-> "outside"]
  /\ chain = [k \in Domains |-> << >>]
  /\ awaiting \in [Callers -> Domains]   \* meaningless before the call
  /\ passed = [c \in Callers |-> {}]
  /\ released = {}

(* The first of the sorted keys still to take. *)
BadFirstKey(K) == CHOOSE k \in K : \A j \in K : Rank[k] >= Rank[j]

FirstKey(K) == CHOOSE k \in K : \A j \in K : Rank[k] <= Rank[j]

(* The promise a caller awaits is resolved: there was none, or the caller  *)
(* just before it in the chain has released.                               *)
BadPriorResolved(c, k) ==
  chain[k][1] # c => <<chain[k][1], k>> \in released   \* the first tail, not the last

PriorResolved(c, k) ==
  \E i \in 1..Len(chain[k]) :
    /\ chain[k][i] = c
    /\ i > 1 => <<chain[k][i - 1], k>> \in released

(* tails.set(key, held), then the await of the prior promise.              *)
Enqueue(c, k) ==
  /\ chain' = [chain EXCEPT ![k] = Append(@, c)]
  /\ awaiting' = [awaiting EXCEPT ![c] = k]

(* The call runs synchronously up to its first await.                      *)
Ask(c) ==
  /\ phase[c] = "outside"
  /\ phase' = [phase EXCEPT ![c] = "asking"]
  /\ Enqueue(c, FirstKey(DomainsWanted[c]))
  /\ UNCHANGED <<passed, released>>

(* An await returns: the next key is taken, or fn is called.               *)
Advance(c) ==
  /\ phase[c] = "asking"
  /\ PriorResolved(c, awaiting[c])
  /\ LET had == passed[c] \cup {awaiting[c]}
         left == DomainsWanted[c] \ had
     IN /\ passed' = [passed EXCEPT ![c] = had]
        /\ IF left = {}
           THEN /\ phase' = [phase EXCEPT ![c] = "inside"]
                /\ UNCHANGED <<chain, awaiting>>
           ELSE /\ Enqueue(c, FirstKey(left))
                /\ UNCHANGED phase
  /\ UNCHANGED released

BadFinish(c) ==
  /\ phase[c] = "inside"
  /\ phase' = [phase EXCEPT ![c] = "left"]
  /\ released' = released \cup {<<c, awaiting[c]>>}   \* only the last one
  /\ UNCHANGED <<chain, awaiting, passed>>

(* fn settles and the finally block resolves every promise taken.          *)
Finish(c) ==
  /\ phase[c] = "inside"
  /\ phase' = [phase EXCEPT ![c] = "left"]
  /\ released' = released \cup ({c} \X passed[c])
  /\ UNCHANGED <<chain, awaiting, passed>>

Next == \E c \in Callers : Ask(c) \/ Advance(c) \/ Finish(c)

SafeSpec == Init /\ [][Next]_vars

(* Awaits of resolved promises return, and fn settles: every wait of the   *)
(* readiness executor it runs is bounded by a timeout.                     *)
Spec ==
  /\ SafeSpec
  /\ \A c \in Callers : WF_vars(Advance(c)) /\ WF_vars(Finish(c))

-----------------------------------------------------------------------------
(* Two swaps that share a domain never run at the same time.               *)
SwapsExclude ==
  \A c, d \in Callers :
    /\ c # d
    /\ phase[c] = "inside" /\ phase[d] = "inside"
    => DomainsWanted[c] \cap DomainsWanted[d] = {}

(* A call that waits holds only locks that sort before the one it awaits:  *)
(* the order that rules out a cycle of waiting calls.                      *)
LocksInOrder ==
  \A c \in Callers : phase[c] = "asking" =>
    \A k \in passed[c] : Rank[k] < Rank[awaiting[c]]

(* First come, first served on every domain: of two calls in a chain, the  *)
(* later one gets past its await only after the earlier one has released.  *)
ChainInTurn ==
  \A k \in Domains : \A i, j \in 1..Len(chain[k]) :
    i < j /\ k \in passed[chain[k][j]] => <<chain[k][i], k>> \in released

(* The lock keeps the abstract promise, its liveness included: although a  *)
(* call holds some locks while it waits for others, everyone is let in.    *)
Access == INSTANCE ExclusiveAccess
  WITH Callers <- Callers, DomainsWanted <- DomainsWanted, phase <- phase

KeepsPromise == Access!Spec
=============================================================================
