----------------------------- MODULE Placement -----------------------------
(***************************************************************************)
(* What the affinity router promises about WHERE requests go, with none of *)
(* its machinery.  Every request that is accepted is placed on one healthy *)
(* backend.  A request that asks for affinity follows the backend that     *)
(* last completed its prefix (or its session) within the last TTL time     *)
(* units; any other request that does not ask for a random backend goes to *)
(* the backend that has the fewest requests in flight at that moment, the  *)
(* lowest identifier first.  A home is learnt from a success, forgotten by *)
(* a reset, and lapses at the very instant its lease is over.              *)
(*                                                                         *)
(* There are no load counters here (the load IS the number of requests in  *)
(* flight), no lazily expired entries, and no protocol with the backend:   *)
(* Router shows that its counters, its lazy expiry and its five request    *)
(* phases implement this.                                                  *)
(***************************************************************************)
EXTENDS Integers, FiniteSets

CONSTANTS
    Requests,   \* requests the router may receive
    Backends,   \* backend identifiers, ordered as numbers
    Healthy,    \* the backends the router regards as healthy
    Prefixes,   \* non-empty prefix hashes
    Sessions,   \* non-empty session identifiers
    NoKey,      \* the empty prefix hash or session identifier
    NoBackend,  \* no backend
    Headers,    \* the routing headers a request may carry
    TTL         \* lifetime of an affinity entry

VARIABLES
    now,          \* the clock
    stage,        \* waiting, refused, inflight or done, per request
    header,       \* the routing headers of each request
    at,           \* the backend each request was placed on
    prefixHome,   \* where each prefix lives, and until when
    sessionHome   \* where each session lives, and until when

pvars == <<now, stage, header, at, prefixHome, sessionHome>>

Policies == {"random", "prefix_affinity", "session_affinity"}
PrefixKeys == Prefixes \cup {NoKey}
SessionKeys == Sessions \cup {NoKey}
Nowhere == [backend |-> NoBackend, expires |-> 0]

\* The requests in flight on b.
Load(b) == Cardinality({r \in Requests : stage[r] = "inflight" /\ at[r] = b})

LeastLoaded(b) ==
    /\ b \in Healthy
    /\ \A c \in Healthy : Load(b) < Load(c) \/ (Load(b) = Load(c) /\ b <= c)

HomeOf(h) ==
    CASE h.policy = "prefix_affinity" -> prefixHome[h.prefix].backend
      [] h.policy = "session_affinity" -> sessionHome[h.session].backend
      [] OTHER -> NoBackend

----------------------------------------------------------------------------

PInit ==
    /\ now = 0
    /\ stage = [r \in Requests |-> "waiting"]
    /\ header \in [Requests -> Headers]
    /\ at = [r \in Requests |-> NoBackend]
    /\ prefixHome = [k \in PrefixKeys |-> Nowhere]
    /\ sessionHome = [k \in SessionKeys |-> Nowhere]

\* Only an unknown policy, or nowhere to go, is refused.
Refuse(r) ==
    /\ stage[r] = "waiting"
    /\ Healthy = {} \/ header[r].policy \notin Policies
    /\ stage' = [stage EXCEPT ![r] = "refused"]
    /\ UNCHANGED <<now, header, at, prefixHome, sessionHome>>

\* Sticky where there is a home, least loaded where there is none.
PlaceAt(r, b) ==
    /\ stage[r] = "waiting"
    /\ b \in Healthy
    /\ header[r].policy \in Policies
    /\ header[r].policy # "random" =>
          IF HomeOf(header[r]) \in Healthy THEN b = HomeOf(header[r])
                                           ELSE LeastLoaded(b)
    /\ stage' = [stage EXCEPT ![r] = "inflight"]
    /\ at' = [at EXCEPT ![r] = b]
    /\ UNCHANGED <<now, header, prefixHome, sessionHome>>

\* A request that fails teaches nothing.
Fail(r) ==
    /\ stage[r] = "inflight"
    /\ stage' = [stage EXCEPT ![r] = "done"]
    /\ UNCHANGED <<now, header, at, prefixHome, sessionHome>>

\* A request that succeeds makes its backend the home of its keys.
Learn(r) ==
    LET lease == [backend |-> at[r], expires |-> now + TTL]
    IN  /\ stage[r] = "inflight"
        /\ stage' = [stage EXCEPT ![r] = "done"]
        /\ prefixHome' = [k \in PrefixKeys |->
              IF k = header[r].prefix /\ k # NoKey THEN lease ELSE prefixHome[k]]
        /\ sessionHome' = [k \in SessionKeys |->
              IF k = header[r].session /\ k # NoKey THEN lease ELSE sessionHome[k]]
        /\ UNCHANGED <<now, header, at>>

\* A reset forgets every home at once.
Forget ==
    /\ prefixHome' = [k \in PrefixKeys |-> Nowhere]
    /\ sessionHome' = [k \in SessionKeys |-> Nowhere]
    /\ UNCHANGED <<now, stage, header, at>>

\* A lease that is over at the new time lapses with the tick.
Pass ==
    /\ now' = now + 1
    /\ prefixHome' = [k \in PrefixKeys |->
          IF prefixHome[k].expires <= now + 1 THEN Nowhere ELSE prefixHome[k]]
    /\ sessionHome' = [k \in SessionKeys |->
          IF sessionHome[k].expires <= now + 1 THEN Nowhere ELSE sessionHome[k]]
    /\ UNCHANGED <<stage, header, at>>

PNext ==
    \/ \E r \in Requests :
          Refuse(r) \/ Fail(r) \/ Learn(r) \/ \E b \in Backends : PlaceAt(r, b)
    \/ Forget
    \/ Pass

PSpec == PInit /\ [][PNext]_pvars
=============================================================================
