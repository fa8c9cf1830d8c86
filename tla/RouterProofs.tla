---------------------------- MODULE RouterProofs ----------------------------
(***************************************************************************)
(* Proofs about Router, for every set of requests, backends and headers.   *)
(***************************************************************************)
EXTENDS Router, FiniteSetTheorems, TLAPS

\* Lowering one counter keeps the counters integers.
LEMMA LoweredTyped ==
  ASSUME NEW f \in [Backends -> Int], NEW b
  PROVE  [f EXCEPT ![b] = @ - 1] \in [Backends -> Int]
<1>1. CASE b \in Backends
  BY <1>1
<1>2. CASE b \notin Backends
  <2>1. [f EXCEPT ![b] = @ - 1] = f
    BY <1>2
  <2> QED
    BY <2>1
<1> QED
  BY <1>1, <1>2

\* Every variable keeps its type (router/app.py, cache_registry.py).
THEOREM TypeCorrect == Spec => []TypeOK
<1>1. Init => TypeOK
  BY ConstantsAssumption DEF Init, TypeOK, Entry, NoEntry, PrefixKeys, SessionKeys
<1>2. TypeOK /\ [Next]_vars => TypeOK'
  <2> SUFFICES ASSUME TypeOK, [Next]_vars PROVE TypeOK'
    OBVIOUS
  <2>0. /\ \A r \in Requests : header[r].prefix \in PrefixKeys
        /\ \A r \in Requests : header[r].session \in SessionKeys
        /\ NoEntry \in Entry
    BY ConstantsAssumption DEF TypeOK, PrefixKeys, SessionKeys, NoEntry, Entry
  <2> USE DEF TypeOK, InFlight
  <2>1. CASE UNCHANGED vars
    BY <2>1 DEF vars, requestVars, registryVars, resetVars
  <2>2. ASSUME NEW r \in Requests, RequestStep(r) PROVE TypeOK'
    <3>1. CASE Reject(r)
      BY <3>1 DEF Reject, registryVars, resetVars
    <3>2. ASSUME NEW b \in Backends, Place(r, b) PROVE TypeOK'
      <4>2. Popped(prefixes, header[r].prefix) \in [PrefixKeys -> Entry]
        BY <2>0 DEF Popped
      <4>3. Popped(sessions, header[r].session) \in [SessionKeys -> Entry]
        BY <2>0 DEF Popped
      <4>4. prefixes' \in [PrefixKeys -> Entry] /\ sessions' \in [SessionKeys -> Entry]
        BY <3>2, <4>2, <4>3 DEF Place
      <4> QED
        BY <3>2, <4>4 DEF Place, resetVars
    <3>3. CASE BackendServes(r)
      <4>2. \A b \in Backends : seen[b] \cup {header[r].prefix} \in SUBSET PrefixKeys
        BY <2>0
      <4>3. seen' \in [Backends -> SUBSET PrefixKeys]
        BY <3>3, <4>2 DEF BackendServes
      <4> QED
        BY <3>3, <4>3 DEF BackendServes, registryVars, resetVars
    <3>4. CASE BackendFails(r)
      BY <3>4 DEF BackendFails, registryVars, resetVars
    <3>5. CASE PostFails(r)
      <4>1. active' \in [Backends -> Int]
        BY LoweredTyped, <3>5 DEF PostFails, Lowered, Traced
      <4>2. rows' \in [Requests -> Nat]
        BY <3>5 DEF PostFails, Lowered, Traced
      <4> QED
        BY <3>5, <4>1, <4>2 DEF PostFails, Lowered, Traced, registryVars, resetVars
    <3>6. CASE PostReturns(r)
      BY <3>6 DEF PostReturns, registryVars, resetVars
    <3>7. CASE RelayDone(r)
      BY <3>7 DEF RelayDone, registryVars, resetVars
    <3>8. CASE RelayHalf(r)
      BY <3>8 DEF RelayHalf, registryVars, resetVars
    <3>9. CASE ClientLeaves(r)
      BY <3>9 DEF ClientLeaves, registryVars, resetVars
    <3>10. CASE StreamCloses(r)
      <4>2. [backend |-> placed[r], expires |-> clock + TTL] \in Entry
        BY ConstantsAssumption DEF Entry
      <4>3. Committed(prefixes, header[r].prefix, placed[r]) \in [PrefixKeys -> Entry]
        BY <2>0, <4>2 DEF Committed
      <4>4. Committed(sessions, header[r].session, placed[r]) \in [SessionKeys -> Entry]
        BY <2>0, <4>2 DEF Committed
      <4>5. prefixes' \in [PrefixKeys -> Entry] /\ sessions' \in [SessionKeys -> Entry]
        BY <3>10, <4>3, <4>4 DEF StreamCloses, Lowered, Traced
      <4>6. active' \in [Backends -> Int]
        BY LoweredTyped, <3>10 DEF StreamCloses, Lowered, Traced
      <4>7. rows' \in [Requests -> Nat]
        BY <3>10 DEF StreamCloses, Lowered, Traced
      <4>8. /\ phase' \in [Requests -> InFlight \cup {"idle", "rejected", "finished"}]
            /\ marker' \in [Requests -> {"none", "half", "whole"}]
            /\ completed' \in [Requests -> BOOLEAN]
        BY <3>10 DEF StreamCloses, Lowered, Traced
      <4> QED
        BY <3>10, <4>5, <4>6, <4>7, <4>8 DEF StreamCloses, Lowered, Traced, resetVars
    <3> QED
      BY <2>2, <3>1, <3>2, <3>3, <3>4, <3>5, <3>6, <3>7, <3>8, <3>9, <3>10
      DEF RequestStep
  <2>3. ASSUME NEW z \in Resets, ResetStep(z) PROVE TypeOK'
    <3>1. CASE ResetRegistry(z)
      BY <2>0, <3>1 DEF ResetRegistry, Cleared, requestVars
    <3>2. ASSUME NEW b \in Backends, ResetBackend(z, b) PROVE TypeOK'
      BY <3>2 DEF ResetBackend, requestVars, registryVars
    <3>3. ASSUME NEW b \in Backends, ResetSkips(z, b) PROVE TypeOK'
      BY <3>3 DEF ResetSkips, requestVars, registryVars
    <3>4. CASE ResetReturns(z)
      BY <3>4 DEF ResetReturns, requestVars, registryVars
    <3> QED
      BY <2>3, <3>1, <3>2, <3>3, <3>4 DEF ResetStep
  <2>4. CASE Tick
    BY <2>4 DEF Tick, requestVars, registryVars, resetVars
  <2> QED
    BY <2>1, <2>2, <2>3, <2>4 DEF Next
<1> QED
  BY <1>1, <1>2, PTL DEF Spec
----------------------------------------------------------------------------
(* The counters. *)

\* A request in flight has a backend.
PlacedInFlight == \A r \in Requests : phase[r] \in InFlight => placed[r] \in Backends

LEMMA AssignedFinite == \A b : IsFiniteSet(Assigned(b))
  BY ConstantsAssumption, FS_Subset DEF Assigned

\* A request that enters flight on b raises the count of b only ...
LEMMA Entering ==
  ASSUME NEW r \in Requests, NEW b \in Backends,
         phase[r] \notin InFlight, PlacedInFlight, ActiveCountsInFlight, TypeOK,
         \A q \in Requests \ {r} :
            placed'[q] = placed[q] /\ (phase'[q] \in InFlight <=> phase[q] \in InFlight),
         phase'[r] \in InFlight, placed'[r] = b,
         active' = [active EXCEPT ![b] = @ + 1]
  PROVE  PlacedInFlight' /\ ActiveCountsInFlight'
<1>1. PlacedInFlight'
  BY DEF PlacedInFlight
<1>2. ASSUME NEW c \in Backends PROVE active'[c] = Cardinality(Assigned(c)')
  <2>1. CASE c = b
    <3>1. Assigned(c)' = Assigned(c) \cup {r}
      BY <2>1 DEF Assigned
    <3>2. r \notin Assigned(c)
      BY DEF Assigned
    <3>3. Cardinality(Assigned(c)') = Cardinality(Assigned(c)) + 1
      BY <3>1, <3>2, AssignedFinite, FS_AddElement
    <3> QED
      BY <2>1, <3>3 DEF ActiveCountsInFlight, TypeOK
  <2>2. CASE c # b
    <3>1. Assigned(c)' = Assigned(c)
      BY <2>2 DEF Assigned
    <3> QED
      BY <2>2, <3>1 DEF ActiveCountsInFlight, TypeOK
  <2> QED
    BY <2>1, <2>2
<1> QED
  BY <1>1, <1>2 DEF ActiveCountsInFlight

\* ... and one that leaves it lowers the count of its backend only.
LEMMA Leaving ==
  ASSUME NEW r \in Requests,
         phase[r] \in InFlight, PlacedInFlight, ActiveCountsInFlight, TypeOK,
         placed' = placed,
         \A q \in Requests \ {r} : phase'[q] \in InFlight <=> phase[q] \in InFlight,
         phase'[r] \notin InFlight,
         active' = [active EXCEPT ![placed[r]] = @ - 1]
  PROVE  PlacedInFlight' /\ ActiveCountsInFlight'
<1>1. PlacedInFlight'
  BY DEF PlacedInFlight
<1>2. ASSUME NEW c \in Backends PROVE active'[c] = Cardinality(Assigned(c)')
  <2>1. CASE c = placed[r]
    <3>1. Assigned(c)' = Assigned(c) \ {r} /\ r \in Assigned(c)
      BY <2>1 DEF Assigned
    <3>2. Cardinality(Assigned(c)') = Cardinality(Assigned(c)) - 1
      BY <3>1, AssignedFinite, FS_RemoveElement
    <3> QED
      BY <2>1, <3>2 DEF ActiveCountsInFlight, TypeOK
  <2>2. CASE c # placed[r]
    <3>1. Assigned(c)' = Assigned(c)
      BY <2>2 DEF Assigned
    <3> QED
      BY <2>2, <3>1 DEF ActiveCountsInFlight, TypeOK
  <2> QED
    BY <2>1, <2>2
<1> QED
  BY <1>1, <1>2 DEF ActiveCountsInFlight

\* Every other step leaves both sides of the equation alone.
LEMMA Staying ==
  ASSUME PlacedInFlight, ActiveCountsInFlight, placed' = placed, active' = active,
         \A q \in Requests : phase'[q] \in InFlight <=> phase[q] \in InFlight
  PROVE  PlacedInFlight' /\ ActiveCountsInFlight'
<1>1. \A b \in Backends : Assigned(b)' = Assigned(b)
  BY DEF Assigned
<1> QED
  BY <1>1 DEF PlacedInFlight, ActiveCountsInFlight

CountInv == TypeOK /\ PlacedInFlight /\ ActiveCountsInFlight

LEMMA CountStep == CountInv /\ [Next]_vars /\ TypeOK' => CountInv'
<1> SUFFICES ASSUME CountInv, [Next]_vars, TypeOK' PROVE PlacedInFlight' /\ ActiveCountsInFlight'
  BY DEF CountInv
<1> USE DEF CountInv
<1>1. CASE UNCHANGED vars
  BY <1>1, Staying DEF vars, requestVars
<1>2. ASSUME NEW r \in Requests, RequestStep(r)
      PROVE  PlacedInFlight' /\ ActiveCountsInFlight'
  <2>1. CASE Reject(r)
    BY <2>1, Staying DEF Reject, TypeOK, InFlight
  <2>2. ASSUME NEW b \in Backends, Place(r, b)
        PROVE  PlacedInFlight' /\ ActiveCountsInFlight'
    <3>1. /\ \A q \in Requests \ {r} : placed'[q] = placed[q] /\ phase'[q] = phase[q]
          /\ phase'[r] \in InFlight /\ phase[r] \notin InFlight
          /\ placed'[r] = b
      BY <2>2 DEF Place, TypeOK, InFlight
    <3>2. active' = [active EXCEPT ![b] = @ + 1]
      BY <2>2 DEF Place
    <3> QED
      BY <3>1, <3>2, Entering
  <2>3. CASE BackendServes(r)
    BY <2>3, Staying DEF BackendServes, TypeOK, InFlight
  <2>4. CASE BackendFails(r)
    BY <2>4, Staying DEF BackendFails, TypeOK, InFlight
  <2>5. CASE PostFails(r)
    <3>1. /\ \A q \in Requests \ {r} : phase'[q] = phase[q]
          /\ phase[r] \in InFlight /\ phase'[r] \notin InFlight /\ placed' = placed
      BY <2>5 DEF PostFails, Lowered, Traced, TypeOK, InFlight
    <3>2. active' = [active EXCEPT ![placed[r]] = @ - 1]
      BY <2>5 DEF PostFails, Lowered, Traced
    <3> QED
      BY <3>1, <3>2, Leaving
  <2>6. CASE PostReturns(r)
    BY <2>6, Staying DEF PostReturns, TypeOK, InFlight
  <2>7. CASE RelayDone(r)
    BY <2>7, Staying DEF RelayDone
  <2>8. CASE RelayHalf(r)
    BY <2>8, Staying DEF RelayHalf
  <2>9. CASE ClientLeaves(r)
    BY <2>9, Staying DEF ClientLeaves, TypeOK, InFlight
  <2>10. CASE StreamCloses(r)
    <3>1. /\ \A q \in Requests \ {r} : phase'[q] = phase[q]
          /\ phase[r] \in InFlight /\ phase'[r] \notin InFlight /\ placed' = placed
      BY <2>10 DEF StreamCloses, Lowered, Traced, TypeOK, InFlight
    <3>2. active' = [active EXCEPT ![placed[r]] = @ - 1]
      BY <2>10 DEF StreamCloses, Lowered, Traced
    <3> QED
      BY <3>1, <3>2, Leaving
  <2> QED
    BY <1>2, <2>1, <2>2, <2>3, <2>4, <2>5, <2>6, <2>7, <2>8, <2>9, <2>10
    DEF RequestStep
<1>3. ASSUME NEW z \in Resets, ResetStep(z) PROVE placed' = placed /\ phase' = phase /\ active' = active
  BY <1>3 DEF ResetStep, ResetRegistry, ResetBackend, ResetSkips, ResetReturns, requestVars
<1>4. CASE Tick
  BY <1>4, Staying DEF Tick, requestVars
<1> QED
  BY <1>1, <1>2, <1>3, <1>4, Staying DEF Next

\* active_requests is the number of requests in flight on the backend, whatever
\* ends them (router/app.py 68, 79, 100): the counter neither leaks nor goes
\* negative.
THEOREM CountersExact == Spec => []ActiveCountsInFlight
<1>1. Init => PlacedInFlight /\ ActiveCountsInFlight
  <2> SUFFICES ASSUME Init PROVE PlacedInFlight /\ ActiveCountsInFlight
    OBVIOUS
  <2>1. PlacedInFlight
    BY DEF Init, PlacedInFlight, InFlight
  <2>2. \A b \in Backends : Assigned(b) = {}
    BY DEF Init, Assigned, InFlight
  <2> QED
    BY <2>1, <2>2, FS_EmptySet DEF Init, ActiveCountsInFlight
<1>2. CountInv => ActiveCountsInFlight
  BY DEF CountInv
<1> QED
  BY <1>1, <1>2, TypeCorrect, CountStep, PTL DEF Spec, CountInv
----------------------------------------------------------------------------
(* The trace and the registry. *)

\* A request leaves exactly one trace row, at its end (router/app.py 81, 106).
THEOREM RowsExact == Spec => []OneRowPerFinish
<1>1. Init => OneRowPerFinish
  BY DEF Init, OneRowPerFinish
<1>2. OneRowPerFinish /\ TypeOK /\ [Next]_vars => OneRowPerFinish'
  <2> SUFFICES ASSUME OneRowPerFinish, TypeOK, [Next]_vars PROVE OneRowPerFinish'
    OBVIOUS
  <2> USE DEF OneRowPerFinish
  <2>1. ASSUME NEW r \in Requests, RequestStep(r) PROVE OneRowPerFinish'
    <3>1. CASE Reject(r)
      BY <3>1 DEF Reject, TypeOK
    <3>2. ASSUME NEW b \in Backends, Place(r, b) PROVE OneRowPerFinish'
      BY <3>2 DEF Place, TypeOK
    <3>3. CASE BackendServes(r) \/ BackendFails(r) \/ PostReturns(r) \/ ClientLeaves(r)
      BY <3>3 DEF BackendServes, BackendFails, PostReturns, ClientLeaves, TypeOK
    <3>4. CASE PostFails(r)
      BY <3>4 DEF PostFails, Lowered, Traced, TypeOK
    <3>5. CASE RelayDone(r) \/ RelayHalf(r)
      BY <3>5 DEF RelayDone, RelayHalf
    <3>6. CASE StreamCloses(r)
      BY <3>6 DEF StreamCloses, Lowered, Traced, TypeOK
    <3> QED
      BY <2>1, <3>1, <3>2, <3>3, <3>4, <3>5, <3>6 DEF RequestStep
  <2>2. ASSUME NEW z \in Resets, ResetStep(z) PROVE OneRowPerFinish'
    BY <2>2 DEF ResetStep, ResetRegistry, ResetBackend, ResetSkips, ResetReturns,
                requestVars
  <2>3. CASE Tick
    BY <2>3 DEF Tick, requestVars
  <2>4. CASE UNCHANGED vars
    BY <2>4 DEF vars, requestVars
  <2> QED
    BY <2>1, <2>2, <2>3, <2>4 DEF Next
<1> QED
  BY <1>1, <1>2, TypeCorrect, PTL DEF Spec

\* A request has no status before its backend answers, and only a request that
\* was served can be complete.
StatusInv ==
    \A r \in Requests :
        /\ phase[r] \in {"idle", "rejected", "posted"} => status[r] = 0
        /\ completed[r] => status[r] = 200
        /\ status[r] = 200 => placed[r] \in Backends

\* A prefix that a backend served is still in its cache, or the request
\* outlived a reset of that cache.
ServedInv ==
    \A r \in Requests :
        status[r] = 200 => header[r].prefix \in seen[placed[r]] \/ r \in outlived

\* Behind an affinity entry there is a request that was served.
EntryJustified ==
    \A p \in Prefixes :
        prefixes[p].backend # NoBackend =>
            \E r \in Requests : /\ status[r] = 200 /\ header[r].prefix = p
                                /\ placed[r] = prefixes[p].backend

AffinityInv == StatusInv /\ ServedInv /\ EntryJustified

LEMMA AffinityStep ==
  TypeOK /\ TypeOK' /\ PlacedInFlight /\ AffinityInv /\ [Next]_vars => AffinityInv'
<1> SUFFICES ASSUME TypeOK, TypeOK', PlacedInFlight, AffinityInv, [Next]_vars
             PROVE  AffinityInv'
  OBVIOUS
<1> USE DEF AffinityInv
<1>0. NoKey \notin Prefixes /\ NoBackend \notin Backends
  BY ConstantsAssumption
<1>1. CASE UNCHANGED vars
  BY <1>1 DEF vars, requestVars, registryVars, resetVars, StatusInv, ServedInv,
              EntryJustified
<1>2. ASSUME NEW r \in Requests, RequestStep(r) PROVE AffinityInv'
  <2>1. CASE Reject(r)
    BY <2>1 DEF Reject, registryVars, resetVars, StatusInv, ServedInv,
                EntryJustified, TypeOK
  <2>2. ASSUME NEW b \in Backends, Place(r, b) PROVE AffinityInv'
    <3>1. status[r] = 0 /\ status' = status /\ header' = header
      BY <2>2 DEF Place, StatusInv
    <3>2. \A q \in Requests : q # r => placed'[q] = placed[q] /\ phase'[q] = phase[q]
      BY <2>2 DEF Place, TypeOK
    <3>3. StatusInv'
      BY <2>2, <3>1, <3>2 DEF Place, StatusInv, TypeOK
    <3>4. ServedInv'
      BY <2>2, <3>1, <3>2 DEF Place, ServedInv, resetVars
    <3>5. \A p \in Prefixes : prefixes'[p] = prefixes[p] \/ prefixes'[p] = NoEntry
      BY <2>2 DEF Place, Popped, TypeOK, PrefixKeys
    <3>6. EntryJustified'
      BY <3>1, <3>2, <3>5 DEF EntryJustified, NoEntry
    <3> QED
      BY <3>3, <3>4, <3>6
  <2>3. CASE BackendServes(r)
    <3>1. status[r] = 0 /\ placed[r] \in Backends
      BY <2>3 DEF BackendServes, StatusInv, PlacedInFlight, InFlight
    <3>2. /\ \A q \in Requests : q # r => status'[q] = status[q]
          /\ status'[r] = 200 /\ placed' = placed /\ header' = header
          /\ outlived' = outlived /\ prefixes' = prefixes /\ completed' = completed
      BY <2>3 DEF BackendServes, TypeOK, registryVars, resetVars
    <3>3. StatusInv'
      BY <2>3, <3>1, <3>2 DEF BackendServes, StatusInv, TypeOK
    <3>4. /\ header[r].prefix \in seen'[placed[r]]
          /\ \A b \in Backends : seen[b] \subseteq seen'[b]
      BY <2>3, <3>1 DEF BackendServes, TypeOK
    <3>5. ServedInv'
      BY <3>2, <3>4 DEF ServedInv, StatusInv
    <3>6. EntryJustified'
      BY <3>1, <3>2 DEF EntryJustified
    <3> QED
      BY <3>3, <3>5, <3>6
  <2>4. CASE BackendFails(r)
    <3>1. status[r] = 0
      BY <2>4 DEF BackendFails, StatusInv
    <3>2. /\ \A q \in Requests : q # r => status'[q] = status[q]
          /\ status'[r] = 503 /\ placed' = placed /\ header' = header
          /\ outlived' = outlived /\ prefixes' = prefixes /\ completed' = completed
          /\ seen' = seen
      BY <2>4 DEF BackendFails, TypeOK, registryVars, resetVars
    <3>3. StatusInv'
      BY <2>4, <3>1, <3>2 DEF BackendFails, StatusInv, TypeOK
    <3>4. ServedInv' /\ EntryJustified'
      BY <3>1, <3>2 DEF ServedInv, EntryJustified
    <3> QED
      BY <3>3, <3>4
  <2>5. CASE PostFails(r) \/ PostReturns(r) \/ ClientLeaves(r)
    BY <2>5 DEF PostFails, Lowered, Traced, PostReturns, ClientLeaves, registryVars, resetVars,
                StatusInv, ServedInv, EntryJustified, TypeOK
  <2>6. CASE RelayDone(r) \/ RelayHalf(r)
    BY <2>6 DEF RelayDone, RelayHalf, registryVars, resetVars,
                StatusInv, ServedInv, EntryJustified, TypeOK
  <2>7. CASE StreamCloses(r)
    <3>1. /\ status' = status /\ placed' = placed /\ header' = header
          /\ seen' = seen /\ outlived' = outlived
      BY <2>7 DEF StreamCloses, Lowered, Traced, resetVars
    <3>2. StatusInv'
      BY <2>7, <3>1 DEF StreamCloses, Lowered, Traced, StatusInv, TypeOK
    <3>3. ServedInv'
      BY <3>1 DEF ServedInv
    <3>4. ASSUME NEW p \in Prefixes, prefixes'[p].backend # NoBackend
          PROVE  \E q \in Requests : /\ status[q] = 200 /\ header[q].prefix = p
                                     /\ placed[q] = prefixes'[p].backend
      <4>1. CASE Success(r) /\ p = header[r].prefix
        <5>1. prefixes'[p].backend = placed[r]
          BY <1>0, <2>7, <4>1 DEF StreamCloses, Lowered, Traced, Committed, TypeOK, PrefixKeys
        <5>2. status[r] = 200
          BY <4>1 DEF Success, StatusInv
        <5> QED
          BY <4>1, <5>1, <5>2
      <4>2. CASE ~(Success(r) /\ p = header[r].prefix)
        <5>1. prefixes'[p] = prefixes[p]
          BY <2>7, <4>2 DEF StreamCloses, Lowered, Traced, Committed, TypeOK, PrefixKeys
        <5> QED
          BY <3>4, <5>1 DEF EntryJustified
      <4> QED
        BY <4>1, <4>2
    <3>5. EntryJustified'
      BY <3>1, <3>4 DEF EntryJustified
    <3> QED
      BY <3>2, <3>3, <3>5
  <2> QED
    BY <1>2, <2>1, <2>2, <2>3, <2>4, <2>5, <2>6, <2>7 DEF RequestStep
<1>3. ASSUME NEW z \in Resets, ResetStep(z) PROVE AffinityInv'
  <2>1. CASE ResetRegistry(z)
    <3>1. prefixes' = [k \in PrefixKeys |-> NoEntry]
      BY <2>1 DEF ResetRegistry, Cleared, TypeOK
    <3> QED
      BY <2>1, <3>1 DEF ResetRegistry, requestVars, StatusInv, ServedInv, EntryJustified,
                  NoEntry, PrefixKeys
  <2>2. ASSUME NEW b \in Backends, ResetBackend(z, b) PROVE AffinityInv'
    <3>1. UNCHANGED <<phase, header, placed, status, completed, prefixes>>
      BY <2>2 DEF ResetBackend, requestVars, registryVars
    <3>2. \A c \in Backends : c # b => seen'[c] = seen[c]
      BY <2>2 DEF ResetBackend, TypeOK
    <3>3. outlived' = outlived \cup {r \in Requests : placed[r] = b /\ status[r] = 200}
      BY <2>2 DEF ResetBackend
    <3>4. ServedInv'
      BY <3>1, <3>2, <3>3 DEF ServedInv, StatusInv
    <3> QED
      BY <3>1, <3>4 DEF StatusInv, EntryJustified
  <2>3. CASE (\E b \in Backends : ResetSkips(z, b)) \/ ResetReturns(z)
    BY <2>3 DEF ResetSkips, ResetReturns, requestVars, registryVars, StatusInv,
                ServedInv, EntryJustified
  <2> QED
    BY <1>3, <2>1, <2>2, <2>3 DEF ResetStep
<1>4. CASE Tick
  BY <1>4 DEF Tick, requestVars, registryVars, resetVars, StatusInv, ServedInv,
              EntryJustified
<1> QED
  BY <1>1, <1>2, <1>3, <1>4 DEF Next

LEMMA InitInv == Init => CountInv /\ AffinityInv
<1> SUFFICES ASSUME Init PROVE CountInv /\ AffinityInv
  OBVIOUS
<1>1. AffinityInv
  BY DEF Init, AffinityInv, StatusInv, ServedInv, EntryJustified, NoEntry, PrefixKeys
<1>2. \A b \in Backends : Assigned(b) = {}
  BY DEF Init, Assigned, InFlight
<1>3. TypeOK
  BY ConstantsAssumption
  DEF Init, TypeOK, Entry, NoEntry, PrefixKeys, SessionKeys, InFlight
<1> QED
  BY <1>1, <1>2, <1>3, FS_EmptySet
  DEF Init, CountInv, PlacedInFlight, ActiveCountsInFlight, InFlight

\* An affinity entry whose backend lost the prefix was committed by a request
\* that overtook a reset of that backend (router/app.py 47 against 105).
THEOREM ColdEntries == Spec => []ColdAffinityExplained
<1>1. Init => CountInv /\ AffinityInv
  BY InitInv
<1>2. AffinityInv => ColdAffinityExplained
  BY DEF AffinityInv, ServedInv, EntryJustified, ColdAffinityExplained
<1> QED
  BY <1>1, <1>2, TypeCorrect, CountStep, AffinityStep, PTL DEF Spec, CountInv
----------------------------------------------------------------------------
(* Quiet resets. *)

\* While a quiet reset runs, nothing is in flight and the registry is empty.
QuietInv ==
    QuietResets =>
        /\ \A z \in Resets : resetting[z] = "running" =>
              /\ \A r \in Requests : phase[r] \notin InFlight
              /\ \A p \in Prefixes : prefixes[p] = NoEntry
        /\ \A r \in Requests : phase[r] \in InFlight /\ status[r] = 200 =>
              header[r].prefix \in seen[placed[r]]

LEMMA QuietStep ==
  /\ TypeOK /\ PlacedInFlight /\ StatusInv /\ QuietInv /\ AffinityIsWarm
  /\ [Next]_vars
  => QuietInv' /\ AffinityIsWarm'
<1> SUFFICES ASSUME TypeOK, PlacedInFlight, StatusInv, QuietInv, AffinityIsWarm,
                    [Next]_vars, QuietResets
             PROVE  QuietInv' /\ AffinityIsWarm'
  BY DEF QuietInv, AffinityIsWarm
<1>0. NoKey \notin Prefixes /\ NoBackend \notin Backends
  BY ConstantsAssumption
<1>1. CASE UNCHANGED vars
  BY <1>1 DEF vars, requestVars, registryVars, resetVars, QuietInv, AffinityIsWarm
<1>2. ASSUME NEW r \in Requests, RequestStep(r) PROVE QuietInv' /\ AffinityIsWarm'
  <2>1. CASE Reject(r)
    BY <2>1 DEF Reject, registryVars, resetVars, QuietInv, AffinityIsWarm, TypeOK,
                InFlight
  <2>2. ASSUME NEW b \in Backends, Place(r, b) PROVE QuietInv' /\ AffinityIsWarm'
    <3>1. status[r] = 0 /\ status' = status /\ header' = header /\ seen' = seen
      BY <2>2 DEF Place, StatusInv
    <3>2. \A q \in Requests : q # r => placed'[q] = placed[q] /\ phase'[q] = phase[q]
      BY <2>2 DEF Place, TypeOK
    <3>3. \A p \in Prefixes : prefixes'[p] = prefixes[p] \/ prefixes'[p] = NoEntry
      BY <2>2 DEF Place, Popped, TypeOK, PrefixKeys
    <3>4. \A z \in Resets : resetting'[z] # "running"
      BY <2>2 DEF Place, resetVars
    <3> QED
      BY <3>1, <3>2, <3>3, <3>4 DEF QuietInv, AffinityIsWarm, NoEntry
  <2>3. CASE BackendServes(r)
    <3>1. /\ placed[r] \in Backends /\ phase[r] \in InFlight
          /\ placed' = placed /\ header' = header /\ prefixes' = prefixes
          /\ resetting' = resetting
      BY <2>3 DEF BackendServes, PlacedInFlight, InFlight, registryVars, resetVars
    <3>2. \A q \in Requests : q # r => status'[q] = status[q] /\ phase'[q] = phase[q]
      BY <2>3 DEF BackendServes, TypeOK
    <3>3. /\ header[r].prefix \in seen'[placed[r]]
          /\ \A b \in Backends : seen[b] \subseteq seen'[b]
      BY <2>3, <3>1 DEF BackendServes, TypeOK
    <3>4. \A p \in Prefixes :
             prefixes[p].backend # NoBackend => prefixes[p].backend \in Backends
      BY DEF TypeOK, Entry, PrefixKeys
    <3>5. \A z \in Resets : resetting[z] # "running"
      BY <3>1 DEF QuietInv
    <3>6. AffinityIsWarm'
      BY <3>1, <3>3, <3>4 DEF AffinityIsWarm
    <3>7. QuietInv'
      BY <3>1, <3>2, <3>3, <3>5 DEF QuietInv, PlacedInFlight
    <3> QED
      BY <3>6, <3>7
  <2>4. CASE BackendFails(r)
    BY <2>4 DEF BackendFails, registryVars, resetVars, QuietInv, AffinityIsWarm,
                TypeOK, InFlight
  <2>5. CASE PostFails(r) \/ PostReturns(r) \/ ClientLeaves(r)
    BY <2>5 DEF PostFails, Lowered, Traced, PostReturns, ClientLeaves, registryVars, resetVars,
                QuietInv, AffinityIsWarm, TypeOK, InFlight
  <2>6. CASE RelayDone(r) \/ RelayHalf(r)
    BY <2>6 DEF RelayDone, RelayHalf, registryVars, resetVars, QuietInv,
                AffinityIsWarm
  <2>7. CASE StreamCloses(r)
    <3>1. /\ status' = status /\ placed' = placed /\ header' = header
          /\ seen' = seen /\ resetting' = resetting
          /\ phase[r] \in InFlight /\ phase'[r] \notin InFlight
      BY <2>7 DEF StreamCloses, Lowered, Traced, resetVars, InFlight, TypeOK
    <3>2. \A q \in Requests : q # r => phase'[q] = phase[q]
      BY <2>7 DEF StreamCloses, Lowered, Traced, TypeOK
    <3>3. \A z \in Resets : resetting[z] # "running"
      BY <3>1 DEF QuietInv
    <3>4. QuietInv'
      BY <3>1, <3>2, <3>3 DEF QuietInv
    <3>5. ASSUME NEW p \in Prefixes, prefixes'[p].backend # NoBackend
          PROVE  p \in seen[prefixes'[p].backend]
      <4>1. CASE Success(r) /\ p = header[r].prefix
        <5>1. prefixes'[p].backend = placed[r]
          BY <1>0, <2>7, <4>1 DEF StreamCloses, Lowered, Traced, Committed, TypeOK, PrefixKeys
        <5>2. status[r] = 200
          BY <4>1 DEF Success, StatusInv
        <5> QED
          BY <3>1, <4>1, <5>1, <5>2 DEF QuietInv
      <4>2. CASE ~(Success(r) /\ p = header[r].prefix)
        <5>1. prefixes'[p] = prefixes[p]
          BY <2>7, <4>2 DEF StreamCloses, Lowered, Traced, Committed, TypeOK, PrefixKeys
        <5> QED
          BY <3>5, <5>1 DEF AffinityIsWarm
      <4> QED
        BY <4>1, <4>2
    <3> QED
      BY <3>1, <3>4, <3>5 DEF AffinityIsWarm
  <2> QED
    BY <1>2, <2>1, <2>2, <2>3, <2>4, <2>5, <2>6, <2>7 DEF RequestStep
<1>3. ASSUME NEW z \in Resets, ResetStep(z) PROVE QuietInv' /\ AffinityIsWarm'
  <2>1. CASE ResetRegistry(z)
    <3>1. /\ \A p \in Prefixes : prefixes'[p] = NoEntry
          /\ \A r \in Requests : phase'[r] \notin InFlight
      BY <2>1 DEF ResetRegistry, Cleared, requestVars, PrefixKeys, TypeOK
    <3> QED
      BY <3>1 DEF QuietInv, AffinityIsWarm, NoEntry
  <2>2. ASSUME NEW b \in Backends, ResetBackend(z, b) PROVE QuietInv' /\ AffinityIsWarm'
    <3>1. UNCHANGED <<phase, prefixes, resetting>> /\ resetting[z] = "running"
      BY <2>2 DEF ResetBackend, NextToReset, requestVars, registryVars
    <3>2. /\ \A p \in Prefixes : prefixes[p] = NoEntry
          /\ \A r \in Requests : phase[r] \notin InFlight
      BY <3>1 DEF QuietInv
    <3> QED
      BY <3>1, <3>2 DEF QuietInv, AffinityIsWarm, NoEntry
  <2>3. CASE (\E b \in Backends : ResetSkips(z, b)) \/ ResetReturns(z)
    BY <2>3 DEF ResetSkips, ResetReturns, requestVars, registryVars, QuietInv,
                AffinityIsWarm, TypeOK
  <2> QED
    BY <1>3, <2>1, <2>2, <2>3 DEF ResetStep
<1>4. CASE Tick
  BY <1>4 DEF Tick, requestVars, registryVars, resetVars, QuietInv, AffinityIsWarm
<1> QED
  BY <1>1, <1>2, <1>3, <1>4 DEF Next

\* With resets only while the router is idle, affinity always leads to a backend
\* that has the prefix in its cache (router/app.py 46-54, mock_backend.py 50-62).
THEOREM WarmAffinity == Spec => []AffinityIsWarm
<1>1. Init => QuietInv /\ AffinityIsWarm
  BY DEF Init, QuietInv, AffinityIsWarm, NoEntry, InFlight, PrefixKeys
<1>2. Init => CountInv /\ AffinityInv
  BY InitInv
<1> QED
  BY <1>1, <1>2, TypeCorrect, CountStep, AffinityStep, QuietStep, PTL
  DEF Spec, CountInv, AffinityInv
----------------------------------------------------------------------------
(* Refinement. *)

\* The requests the abstract specification counts are those the router counts.
LEMMA SameLoad ==
  ASSUME CountInv, NEW b \in Backends
  PROVE  Abstract!Load(b) = active[b]
<1>1. {r \in Requests : [q \in Requests |-> StageOf(phase[q])][r] = "inflight"
                        /\ placed[r] = b} = Assigned(b)
  BY DEF CountInv, TypeOK, Assigned, StageOf, InFlight
<1>2. Abstract!Cardinality(Assigned(b)) = Cardinality(Assigned(b))
  BY DEF Cardinality, Abstract!Cardinality
<1> QED
  BY <1>1, <1>2 DEF CountInv, ActiveCountsInFlight, Abstract!Load

\* What the registry returns is the home that the lease gives.
LEMMA SameHome ==
  ASSUME TypeOK, NEW r \in Requests
  PROVE  Abstract!HomeOf(header[r]) = Home(header[r])
<1>1. header[r].prefix \in PrefixKeys /\ header[r].session \in SessionKeys
  BY ConstantsAssumption DEF TypeOK, PrefixKeys, SessionKeys
<1>2. /\ Unexpired(prefixes)[header[r].prefix].backend = Lookup(prefixes, header[r].prefix)
      /\ Unexpired(sessions)[header[r].session].backend = Lookup(sessions, header[r].session)
  BY <1>1 DEF TypeOK, Unexpired, Lookup, NoEntry
<1> QED
  BY <1>2 DEF Abstract!HomeOf, Home

\* Popping an expired entry changes nothing that can be looked up.
LEMMA PopIsSilent ==
  ASSUME NEW K, NEW entries \in [K -> Entry], NEW k \in K
  PROVE  Unexpired(Popped(entries, k)) = Unexpired(entries)
  BY DEF Unexpired, Popped, Live, NoEntry, Entry

\* A commit is a lease of TTL.
LEMMA CommitIsLease ==
  ASSUME NEW K, NEW entries \in [K -> Entry], NEW k \in K, NEW b, clock \in Nat
  PROVE  Unexpired(Committed(entries, k, b)) =
           [j \in K |-> IF j = k /\ j # NoKey
                        THEN [backend |-> b, expires |-> clock + TTL]
                        ELSE Unexpired(entries)[j]]
<1>1. CASE k = NoKey
  BY <1>1 DEF Unexpired, Committed
<1>2. CASE k # NoKey
  <2>1. clock + TTL > clock
    BY ConstantsAssumption
  <2>2. Committed(entries, k, b) =
          [entries EXCEPT ![k] = [backend |-> b, expires |-> clock + TTL]]
    BY <1>2 DEF Committed
  <2> QED
    BY <1>2, <2>1, <2>2 DEF Unexpired, Live
<1> QED
  BY <1>1, <1>2

\* A step that moves no request between the abstract stages, and leaves the
\* registry and the clock alone, is a stutter.
LEMMA SilentStep ==
  ASSUME TypeOK, NEW r \in Requests, NEW f,
         phase' = [phase EXCEPT ![r] = f], StageOf(f) = StageOf(phase[r]),
         UNCHANGED <<header, placed, registryVars, clock>>
  PROVE  UNCHANGED Abstract!pvars
<1>1. [q \in Requests |-> StageOf(phase[q])]' = [q \in Requests |-> StageOf(phase[q])]
  BY DEF TypeOK
<1>2. Unexpired(prefixes)' = Unexpired(prefixes) /\ Unexpired(sessions)' = Unexpired(sessions)
  BY DEF Unexpired, Live, registryVars
<1> QED
  BY <1>1, <1>2 DEF Abstract!pvars

\* A step of one request from one stage to another.
LEMMA StageMoves ==
  ASSUME TypeOK, NEW r \in Requests, NEW f, phase' = [phase EXCEPT ![r] = f]
  PROVE  [q \in Requests |-> StageOf(phase[q])]' =
           [[q \in Requests |-> StageOf(phase[q])] EXCEPT ![r] = StageOf(f)]
  BY DEF TypeOK

LEMMA RegistryUnchanged ==
  ASSUME UNCHANGED <<registryVars, clock>>
  PROVE  Unexpired(prefixes)' = Unexpired(prefixes) /\ Unexpired(sessions)' = Unexpired(sessions)
  BY DEF Unexpired, Live, registryVars

LEMMA RefinementStep == CountInv /\ [Next]_vars => [Abstract!PNext]_(Abstract!pvars)
<1> SUFFICES ASSUME CountInv, [Next]_vars PROVE Abstract!PNext \/ UNCHANGED Abstract!pvars
  OBVIOUS
<1>0. TypeOK /\ PlacedInFlight
  BY DEF CountInv
<1>1. CASE UNCHANGED vars
  BY <1>1, RegistryUnchanged DEF vars, requestVars, registryVars, Abstract!pvars
<1>2. ASSUME NEW r \in Requests, RequestStep(r)
      PROVE  Abstract!PNext \/ UNCHANGED Abstract!pvars
  <2>1. CASE Reject(r)
    <3>1. Abstract!Refuse(r)
      BY <1>0, <2>1, StageMoves, RegistryUnchanged
      DEF Reject, Abstract!Refuse, Abstract!Policies, Policies, StageOf
    <3> QED
      BY <3>1 DEF Abstract!PNext
  <2>2. ASSUME NEW b \in Backends, Place(r, b)
        PROVE  Abstract!PNext
    <3>1. header[r].prefix \in PrefixKeys /\ header[r].session \in SessionKeys
      BY <1>0, ConstantsAssumption DEF TypeOK, PrefixKeys, SessionKeys
    <3>2. /\ Unexpired(prefixes)' = Unexpired(prefixes)
          /\ Unexpired(sessions)' = Unexpired(sessions)
      <4>1. clock' = clock
        BY <2>2 DEF Place
      <4>2. Unexpired(prefixes') = Unexpired(prefixes)
        BY <1>0, <2>2, <3>1, PopIsSilent DEF Place, TypeOK
      <4>3. Unexpired(sessions') = Unexpired(sessions)
        BY <1>0, <2>2, <3>1, PopIsSilent DEF Place, TypeOK
      <4> QED
        BY <4>1, <4>2, <4>3 DEF Unexpired, Live
    <3>3. /\ b \in Healthy
          /\ header[r].policy \in Policies
          /\ header[r].policy # "random" =>
                IF Home(header[r]) \in Healthy THEN b = Home(header[r])
                                               ELSE LeastActive(b)
      BY <2>2 DEF Place, Decision, LeastActive
    <3>4. LeastActive(b) => Abstract!LeastLoaded(b)
      BY SameLoad, ConstantsAssumption DEF LeastActive, Abstract!LeastLoaded
    <3>5. Abstract!HomeOf(header[r]) = Home(header[r])
      BY <1>0, SameHome
    <3>6. [q \in Requests |-> StageOf(phase[q])]' =
            [[q \in Requests |-> StageOf(phase[q])] EXCEPT ![r] = "inflight"]
      <4>1. phase' = [phase EXCEPT ![r] = "posted"]
        BY <2>2 DEF Place
      <4>2. StageOf("posted") = "inflight"
        BY DEF StageOf
      <4> QED
        BY <1>0, <4>1, <4>2, StageMoves
    <3>7. [q \in Requests |-> StageOf(phase[q])][r] = "waiting"
      BY <2>2 DEF Place, StageOf
    <3>8. Abstract!PlaceAt(r, b)
      BY <2>2, <3>2, <3>3, <3>4, <3>5, <3>6, <3>7
      DEF Place, Abstract!PlaceAt, Abstract!Policies, Policies
    <3> QED
      BY <3>8 DEF Abstract!PNext
  <2>3. CASE BackendServes(r)
    BY <1>0, <2>3, SilentStep DEF BackendServes, StageOf
  <2>4. CASE BackendFails(r)
    BY <1>0, <2>4, SilentStep DEF BackendFails, StageOf
  <2>5. CASE PostFails(r)
    <3>1. Abstract!Fail(r)
      BY <1>0, <2>5, StageMoves, RegistryUnchanged DEF PostFails, Lowered, Traced, Abstract!Fail, StageOf
    <3> QED
      BY <3>1 DEF Abstract!PNext
  <2>6. CASE PostReturns(r)
    BY <1>0, <2>6, SilentStep DEF PostReturns, StageOf
  <2>7. CASE RelayDone(r) \/ RelayHalf(r)
    BY <2>7, RegistryUnchanged DEF RelayDone, RelayHalf, Abstract!pvars
  <2>8. CASE ClientLeaves(r)
    BY <1>0, <2>8, SilentStep DEF ClientLeaves, StageOf
  <2>9. CASE StreamCloses(r)
    <3>1. /\ [q \in Requests |-> StageOf(phase[q])]' =
               [[q \in Requests |-> StageOf(phase[q])] EXCEPT ![r] = "done"]
          /\ [q \in Requests |-> StageOf(phase[q])][r] = "inflight"
          /\ UNCHANGED <<clock, header, placed>>
      BY <1>0, <2>9, StageMoves DEF StreamCloses, Lowered, Traced, StageOf
    <3>2. CASE ~Success(r)
      <4>1. Abstract!Fail(r)
        BY <2>9, <3>1, <3>2, RegistryUnchanged DEF StreamCloses, Lowered, Traced, registryVars, Abstract!Fail
      <4> QED
        BY <4>1 DEF Abstract!PNext
    <3>3. CASE Success(r)
      <4>1. /\ header[r].prefix \in PrefixKeys /\ header[r].session \in SessionKeys
            /\ clock \in Nat
        BY <1>0, ConstantsAssumption DEF TypeOK, PrefixKeys, SessionKeys
      <4>2. /\ Unexpired(prefixes)' = Unexpired(prefixes')
            /\ Unexpired(sessions)' = Unexpired(sessions')
        BY <3>1 DEF Unexpired, Live
      <4>3. Unexpired(prefixes)' =
              [k \in PrefixKeys |->
                 IF k = header[r].prefix /\ k # NoKey
                 THEN [backend |-> placed[r], expires |-> clock + TTL]
                 ELSE Unexpired(prefixes)[k]]
        <5>1. prefixes' = Committed(prefixes, header[r].prefix, placed[r])
          BY <2>9, <3>3 DEF StreamCloses, Lowered, Traced
        <5>2. prefixes \in [PrefixKeys -> Entry]
          BY <1>0 DEF TypeOK
        <5> QED
          BY <4>1, <4>2, <5>1, <5>2, CommitIsLease
      <4>4. Unexpired(sessions)' =
              [k \in SessionKeys |->
                 IF k = header[r].session /\ k # NoKey
                 THEN [backend |-> placed[r], expires |-> clock + TTL]
                 ELSE Unexpired(sessions)[k]]
        <5>1. sessions' = Committed(sessions, header[r].session, placed[r])
          BY <2>9, <3>3 DEF StreamCloses, Lowered, Traced
        <5>2. sessions \in [SessionKeys -> Entry]
          BY <1>0 DEF TypeOK
        <5> QED
          BY <4>1, <4>2, <5>1, <5>2, CommitIsLease
      <4>5. Abstract!Learn(r)
        BY <3>1, <4>3, <4>4
        DEF Abstract!Learn, Abstract!PrefixKeys, Abstract!SessionKeys, PrefixKeys, SessionKeys
      <4> QED
        BY <4>5 DEF Abstract!PNext
    <3> QED
      BY <3>2, <3>3
  <2> QED
    BY <1>2, <2>1, <2>2, <2>3, <2>4, <2>5, <2>6, <2>7, <2>8, <2>9 DEF RequestStep
<1>3. ASSUME NEW z \in Resets, ResetStep(z)
      PROVE  Abstract!PNext \/ UNCHANGED Abstract!pvars
  <2>1. CASE ResetRegistry(z)
    <3>1. /\ Unexpired(prefixes)' = [k \in PrefixKeys |-> NoEntry]
          /\ Unexpired(sessions)' = [k \in SessionKeys |-> NoEntry]
      <4>1. /\ prefixes' = [k \in PrefixKeys |-> NoEntry]
            /\ sessions' = [k \in SessionKeys |-> NoEntry]
        BY <1>0, <2>1 DEF ResetRegistry, Cleared, TypeOK
      <4> QED
        BY <4>1 DEF Unexpired
    <3>2. Abstract!Forget
      BY <2>1, <3>1 DEF ResetRegistry, Cleared, requestVars, Abstract!Forget, Abstract!Nowhere,
         NoEntry, Abstract!PrefixKeys, Abstract!SessionKeys, PrefixKeys, SessionKeys
    <3> QED
      BY <3>2 DEF Abstract!PNext
  <2>2. CASE (\E b \in Backends : ResetBackend(z, b) \/ ResetSkips(z, b)) \/ ResetReturns(z)
    BY <2>2, RegistryUnchanged DEF ResetBackend, ResetSkips, ResetReturns, requestVars,
       Abstract!pvars
  <2> QED
    BY <1>3, <2>1, <2>2 DEF ResetStep
<1>4. CASE Tick
  <2>1. /\ prefixes \in [PrefixKeys -> Entry] /\ sessions \in [SessionKeys -> Entry]
        /\ clock \in Nat /\ clock' = clock + 1
        /\ UNCHANGED <<requestVars, registryVars>>
    BY <1>0, <1>4 DEF TypeOK, Tick
  <2>2. /\ \A k \in PrefixKeys : prefixes[k].expires \in Nat
        /\ \A k \in SessionKeys : sessions[k].expires \in Nat
    BY <2>1 DEF Entry
  <2>3. Unexpired(prefixes)' =
          [k \in PrefixKeys |-> IF Unexpired(prefixes)[k].expires <= clock + 1
                                THEN NoEntry ELSE Unexpired(prefixes)[k]]
    BY <2>1, <2>2 DEF Unexpired, Live, NoEntry, registryVars
  <2>4. Unexpired(sessions)' =
          [k \in SessionKeys |-> IF Unexpired(sessions)[k].expires <= clock + 1
                                 THEN NoEntry ELSE Unexpired(sessions)[k]]
    BY <2>1, <2>2 DEF Unexpired, Live, NoEntry, registryVars
  <2>5. Abstract!Pass
    BY <2>1, <2>3, <2>4 DEF requestVars, Abstract!Pass, Abstract!Nowhere, NoEntry,
       Abstract!PrefixKeys, Abstract!SessionKeys, PrefixKeys, SessionKeys
  <2> QED
    BY <2>5 DEF Abstract!PNext
<1> QED
  BY <1>1, <1>2, <1>3, <1>4 DEF Next

\* The router implements the placement promise: counters stand for requests in
\* flight, lazy expiry for leases that lapse on time (router/routing_policy.py
\* 43-59, cache_registry.py 20-44).
THEOREM RouterImplementsPlacement == Spec => RefinesPlacement
<1>1. Init => Abstract!PInit
  <2> SUFFICES ASSUME Init PROVE Abstract!PInit
    OBVIOUS
  <2>1. /\ Unexpired(prefixes) = [k \in PrefixKeys |-> NoEntry]
        /\ Unexpired(sessions) = [k \in SessionKeys |-> NoEntry]
    BY DEF Init, Unexpired
  <2>2. [r \in Requests |-> StageOf(phase[r])] = [r \in Requests |-> "waiting"]
    BY DEF Init, StageOf
  <2> QED
    BY <2>1, <2>2 DEF Init, Abstract!PInit, Abstract!Nowhere, NoEntry,
       Abstract!PrefixKeys, Abstract!SessionKeys, PrefixKeys, SessionKeys
<1>2. Init => CountInv
  BY InitInv
<1> QED
  BY <1>1, <1>2, TypeCorrect, CountStep, RefinementStep, PTL
  DEF Spec, CountInv, RefinesPlacement, Abstract!PSpec
=============================================================================
