---------------------------- MODULE BenchProofs ----------------------------
(***************************************************************************)
(* Proofs about Bench, for every workload, chain, concurrency and pool.    *)
(***************************************************************************)
EXTENDS Bench, FiniteSetTheorems, TLAPS

States == Holding \cup {"asleep", "awaiting", "queued", "done", "failed", "poisoned"}

LEMMA StatesFinite == \A S : IsFiniteSet(InState(S))
  BY BenchAssumption, FS_Subset DEF InState

----------------------------------------------------------------------------
(* Sequences without repetition. *)

\* A newcomer at the end of the line.
LEMMA JoinLine ==
  ASSUME NEW S, NEW q \in Seq(S), IsInjective(q), NEW e \in S, e \notin ToSet(q)
  PROVE  /\ Append(q, e) \in Seq(S) /\ IsInjective(Append(q, e))
         /\ ToSet(Append(q, e)) = ToSet(q) \cup {e}
<1>1. /\ Append(q, e) \in Seq(S) /\ Len(Append(q, e)) = Len(q) + 1
      /\ \A i \in 1..Len(q) : Append(q, e)[i] = q[i]
      /\ Append(q, e)[Len(q) + 1] = e
  OBVIOUS
<1>2. DOMAIN q = 1..Len(q) /\ DOMAIN Append(q, e) = 1..(Len(q) + 1) /\ Len(q) \in Nat
  BY <1>1
<1>3. ToSet(Append(q, e)) = ToSet(q) \cup {e}
  BY <1>1, <1>2 DEF ToSet
<1>4. \A i \in 1..Len(q) : q[i] # e
  BY <1>2 DEF ToSet
<1>5. IsInjective(Append(q, e))
  BY <1>1, <1>2, <1>4 DEF IsInjective
<1> QED
  BY <1>1, <1>3, <1>5

\* The first of the line leaves it.
LEMMA LeaveLine ==
  ASSUME NEW S, NEW q \in Seq(S), IsInjective(q), q # <<>>
  PROVE  /\ Tail(q) \in Seq(S) /\ IsInjective(Tail(q))
         /\ Head(q) \in ToSet(q) /\ Head(q) \in S
         /\ ToSet(Tail(q)) = ToSet(q) \ {Head(q)}
<1>1. /\ Tail(q) \in Seq(S) /\ Len(Tail(q)) = Len(q) - 1
      /\ \A i \in 1..(Len(q) - 1) : Tail(q)[i] = q[i + 1]
      /\ Head(q) = q[1] /\ Len(q) \in Nat \ {0}
  OBVIOUS
<1>2. DOMAIN q = 1..Len(q) /\ DOMAIN Tail(q) = 1..(Len(q) - 1)
  BY <1>1
<1>3. \A i, j \in 1..Len(q) : q[i] = q[j] => i = j
  BY <1>2 DEF IsInjective
<1>4. IsInjective(Tail(q))
  BY <1>1, <1>2, <1>3 DEF IsInjective
<1>5. ToSet(Tail(q)) \subseteq ToSet(q) \ {Head(q)}
  <2> SUFFICES ASSUME NEW i \in 1..(Len(q) - 1)
               PROVE  Tail(q)[i] \in ToSet(q) \ {Head(q)}
    BY <1>2 DEF ToSet
  <2>1. Tail(q)[i] = q[i + 1] /\ i + 1 \in 1..Len(q) /\ i + 1 # 1
    BY <1>1
  <2> QED
    BY <1>1, <1>2, <1>3, <2>1 DEF ToSet
<1>6. ToSet(q) \ {Head(q)} \subseteq ToSet(Tail(q))
  <2> SUFFICES ASSUME NEW i \in 1..Len(q), q[i] # Head(q)
               PROVE  q[i] \in ToSet(Tail(q))
    BY <1>2 DEF ToSet
  <2>1. i - 1 \in 1..(Len(q) - 1) /\ Tail(q)[i - 1] = q[i]
    BY <1>1
  <2> QED
    BY <1>2, <2>1 DEF ToSet
<1>7. Head(q) \in ToSet(q) /\ Head(q) \in S
  BY <1>1, <1>2 DEF ToSet
<1> QED
  BY <1>1, <1>4, <1>5, <1>6, <1>7

----------------------------------------------------------------------------
(* Slots. *)

\* One task changes its state.
LEMMA MoveOne ==
  ASSUME NEW r \in Requests, NEW s \in States, pc \in [Requests -> States],
         pc' = [pc EXCEPT ![r] = s]
  PROVE  /\ pc' \in [Requests -> States]
         /\ \A S : InState(S)' = IF s \in S THEN InState(S) \cup {r} ELSE InState(S) \ {r}
<1>1. pc' \in [Requests -> States] /\ \A q \in Requests : pc'[q] = IF q = r THEN s ELSE pc[q]
  OBVIOUS
<1> QED
  BY <1>1 DEF InState

\* One task changes its state and another is woken.
LEMMA MoveTwo ==
  ASSUME NEW r \in Requests, NEW s \in States, NEW h \in Requests, h # r,
         pc \in [Requests -> States], pc' = [pc EXCEPT ![r] = s, ![h] = "granted"]
  PROVE  /\ pc' \in [Requests -> States]
         /\ pc'[h] = "granted" /\ pc'[r] = s
         /\ \A q \in Requests : q # r /\ q # h => pc'[q] = pc[q]
<1>1. "granted" \in States
  BY DEF States, Holding
<1> QED
  BY <1>1

SlotInv == TypeOK /\ SlotsConserved /\ QueueExact

\* The semaphore is acquired, or the task joins the line.
LEMMA AcquireKeepsSlots ==
  ASSUME SlotInv, NEW r \in Requests, pc[r] \in {"asleep", "awaiting"}, Acquire(r)
  PROVE  /\ pc' \in [Requests -> States] /\ free' \in 0..Concurrency
         /\ queue' \in Seq(Requests) /\ SlotsConserved' /\ QueueExact'
<1>0. /\ pc \in [Requests -> States] /\ queue \in Seq(Requests) /\ free \in 0..Concurrency
      /\ Concurrency \in Nat /\ IsInjective(queue) /\ ToSet(queue) = InState({"queued"})
      /\ free + Cardinality(InState(Holding)) = Concurrency
      /\ r \notin InState(Holding) /\ r \notin InState({"queued"})
  BY BenchAssumption DEF SlotInv, TypeOK, States, QueueExact, SlotsConserved, InState, Holding
<1>1. CASE free > 0 /\ queue = <<>> /\ InState({"granted"}) = {}
  <2>1. /\ free' = free - 1 /\ queue' = queue
        /\ pc' = [pc EXCEPT ![r] = "connecting"]
    BY <1>1 DEF Acquire
  <2>2. /\ pc' \in [Requests -> States]
        /\ InState(Holding)' = InState(Holding) \cup {r}
        /\ InState({"queued"})' = InState({"queued"}) \ {r}
    <3>1. /\ pc' \in [Requests -> States]
          /\ \A S : InState(S)' =
                IF pc'[r] \in S THEN InState(S) \cup {r} ELSE InState(S) \ {r}
      BY <1>0, <2>1, MoveOne DEF States, Holding
    <3>2. pc'[r] = "connecting"
      BY <1>0, <2>1
    <3> QED
      BY <3>1, <3>2 DEF Holding
  <2>3. Cardinality(InState(Holding)') = Cardinality(InState(Holding)) + 1
    BY <1>0, <2>2, StatesFinite, FS_AddElement
  <2>4. Cardinality(InState(Holding)) \in Nat
    BY StatesFinite, FS_CardinalityType
  <2>5. QueueExact'
    BY <1>0, <2>1, <2>2 DEF QueueExact
  <2>6. SlotsConserved' /\ free' \in 0..Concurrency
    BY <1>0, <1>1, <2>1, <2>3, <2>4 DEF SlotsConserved
  <2> QED
    BY <1>0, <2>1, <2>2, <2>5, <2>6
<1>2. CASE ~(free > 0 /\ queue = <<>> /\ InState({"granted"}) = {})
  <2>1. /\ free' = free /\ queue' = Append(queue, r)
        /\ pc' = [pc EXCEPT ![r] = "queued"]
    BY <1>2 DEF Acquire
  <2>2. /\ pc' \in [Requests -> States]
        /\ InState(Holding)' = InState(Holding) \ {r}
        /\ InState({"queued"})' = InState({"queued"}) \cup {r}
    <3>1. /\ pc' \in [Requests -> States]
          /\ \A S : InState(S)' =
                IF pc'[r] \in S THEN InState(S) \cup {r} ELSE InState(S) \ {r}
      BY <1>0, <2>1, MoveOne DEF States, Holding
    <3>2. pc'[r] = "queued"
      BY <1>0, <2>1
    <3> QED
      BY <3>1, <3>2 DEF Holding
  <2>3. InState(Holding)' = InState(Holding)
    BY <1>0, <2>2
  <2>4. /\ queue' \in Seq(Requests) /\ IsInjective(queue')
        /\ ToSet(queue') = ToSet(queue) \cup {r}
    BY <1>0, <2>1, JoinLine
  <2>5. QueueExact'
    BY <1>0, <2>2, <2>4 DEF QueueExact
  <2> QED
    BY <1>0, <2>1, <2>2, <2>3, <2>4, <2>5 DEF SlotsConserved
<1> QED
  BY <1>1, <1>2

\* A task that holds a slot moves on, keeping it (value = free) or giving it up
\* (value = free + 1), and the first of the line may be woken.
LEMMA WakeKeepsSlots ==
  ASSUME SlotInv, NEW r \in Requests, pc[r] \in Holding, NEW s, NEW value,
         \/ s \in Holding /\ value = free
         \/ s \in {"done", "failed"} /\ value = free + 1,
         WakeNext(value, r, s)
  PROVE  /\ pc' \in [Requests -> States] /\ free' \in 0..Concurrency
         /\ queue' \in Seq(Requests) /\ SlotsConserved' /\ QueueExact'
<1> DEFINE H == InState(Holding)
           K == IF s \in Holding THEN H ELSE H \ {r}
<1>0. /\ pc \in [Requests -> States] /\ queue \in Seq(Requests) /\ free \in 0..Concurrency
      /\ Concurrency \in Nat /\ IsInjective(queue) /\ ToSet(queue) = InState({"queued"})
      /\ free + Cardinality(H) = Concurrency /\ s \in States
      /\ r \in H /\ r \notin InState({"queued"})
  BY BenchAssumption DEF SlotInv, TypeOK, States, QueueExact, SlotsConserved, InState, Holding
<1>1. /\ IsFiniteSet(H) /\ IsFiniteSet(K) /\ Cardinality(H) \in Nat /\ Cardinality(K) \in Nat
      /\ value + Cardinality(K) = Concurrency /\ value \in Nat
  <2>1. /\ IsFiniteSet(H) /\ IsFiniteSet(H \ {r})
        /\ Cardinality(H) \in Nat /\ Cardinality(H \ {r}) \in Nat
    BY StatesFinite, FS_RemoveElement, FS_CardinalityType
  <2>2. Cardinality(H \ {r}) = Cardinality(H) - 1
    BY <1>0, <2>1, FS_RemoveElement
  <2>3. CASE s \in Holding /\ value = free
    BY <1>0, <2>1, <2>3
  <2>4. CASE s \in {"done", "failed"} /\ value = free + 1
    <3>1. K = H \ {r}
      BY <2>4 DEF Holding
    <3> QED
      BY <1>0, <2>1, <2>2, <2>4, <3>1
  <2> QED
    BY <2>3, <2>4
<1>2. CASE value > 0 /\ queue # <<>>
  <2> DEFINE h == Head(queue)
  <2>1. /\ free' = value - 1 /\ queue' = Tail(queue)
        /\ pc' = [pc EXCEPT ![r] = s, ![h] = "granted"]
    BY <1>2 DEF WakeNext
  <2>2. /\ queue' \in Seq(Requests) /\ IsInjective(queue') /\ h \in ToSet(queue)
        /\ h \in Requests /\ ToSet(queue') = ToSet(queue) \ {h}
    BY <1>0, <1>2, <2>1, LeaveLine
  <2>3. h # r /\ pc[h] = "queued"
    BY <1>0, <2>2 DEF InState
  <2>4. /\ pc' \in [Requests -> States]
        /\ pc'[h] = "granted" /\ pc'[r] = s
        /\ \A q \in Requests : q # r /\ q # h => pc'[q] = pc[q]
    BY <1>0, <2>1, <2>2, <2>3, MoveTwo
  <2>5. H' = K \cup {h} /\ h \notin K
    BY <1>0, <2>2, <2>3, <2>4 DEF InState, Holding
  <2>6. InState({"queued"})' = InState({"queued"}) \ {h}
    BY <1>0, <2>2, <2>3, <2>4 DEF InState, Holding
  <2>7. Cardinality(H') = Cardinality(K) + 1
    BY <1>1, <2>5, FS_AddElement
  <2>8. QueueExact'
    BY <1>0, <2>2, <2>6 DEF QueueExact
  <2>9. SlotsConserved' /\ free' \in 0..Concurrency
    BY <1>0, <1>1, <1>2, <2>1, <2>7 DEF SlotsConserved
  <2> QED
    BY <2>2, <2>4, <2>8, <2>9
<1>3. CASE ~(value > 0 /\ queue # <<>>)
  <2>1. free' = value /\ queue' = queue /\ pc' = [pc EXCEPT ![r] = s]
    BY <1>3 DEF WakeNext
  <2>2. /\ pc' \in [Requests -> States]
        /\ \A S : InState(S)' = IF s \in S THEN InState(S) \cup {r} ELSE InState(S) \ {r}
    BY <1>0, <2>1, MoveOne
  <2>3. H' = K /\ InState({"queued"})' = InState({"queued"})
    BY <1>0, <2>2 DEF Holding
  <2>4. QueueExact'
    BY <1>0, <2>1, <2>3 DEF QueueExact
  <2> QED
    BY <1>0, <1>1, <2>1, <2>2, <2>3, <2>4 DEF SlotsConserved
<1> QED
  BY <1>2, <1>3

\* A task that moves without touching the semaphore.
LEMMA MoveKeepsSlots ==
  ASSUME SlotInv, NEW r \in Requests, NEW s \in States \ {"queued"}, pc[r] # "queued",
         pc[r] \in Holding <=> s \in Holding, pc' = [pc EXCEPT ![r] = s],
         free' = free, queue' = queue
  PROVE  /\ pc' \in [Requests -> States] /\ free' \in 0..Concurrency
         /\ queue' \in Seq(Requests) /\ SlotsConserved' /\ QueueExact'
<1>1. pc \in [Requests -> States]
  BY DEF SlotInv, TypeOK, States
<1>2. /\ pc' \in [Requests -> States]
      /\ InState(Holding)' = InState(Holding)
      /\ InState({"queued"})' = InState({"queued"})
  BY <1>1, MoveOne DEF InState
<1> QED
  BY <1>2 DEF SlotInv, TypeOK, SlotsConserved, QueueExact
LEMMA SlotStep == SlotInv /\ [Next]_vars => SlotInv'
<1> SUFFICES ASSUME SlotInv, [Next]_vars PROVE SlotInv'
  OBVIOUS
<1> DEFINE Kept == /\ pc' \in [Requests -> States] /\ free' \in 0..Concurrency
                   /\ queue' \in Seq(Requests) /\ SlotsConserved' /\ QueueExact'
<1>0. TypeOK /\ pc \in [Requests -> States]
  BY DEF SlotInv, TypeOK, States
<1>1. CASE UNCHANGED vars
  BY <1>1 DEF vars, SlotInv, TypeOK, SlotsConserved, QueueExact, InState
<1>2. ASSUME NEW r \in Requests, TaskStep(r) PROVE SlotInv'
  <2>1. mode' = mode /\ chain' = chain /\ status' = status /\ results' \in [Requests -> Nat]
    <3>1. results' = results \/ results' = [results EXCEPT ![r] = @ + 1]
      BY <1>2 DEF TaskStep, NextTurn, Arrive, ArriveEarly, PredecessorDone,
         PredecessorRaised, Resume, Connect, Result, PauseEnds, Raise
    <3>2. results' \in [Requests -> Nat]
      BY <1>0, <3>1 DEF TypeOK
    <3> QED
      BY <1>2, <3>2 DEF TaskStep, NextTurn, Arrive, ArriveEarly, PredecessorDone,
         PredecessorRaised, Resume, Connect, Result, PauseEnds, Raise
  <2>2. Kept
    <3>1. CASE NextTurn(r) \/ Arrive(r) \/ PredecessorDone(r)
      <4>1. pc[r] \in {"asleep", "awaiting"} /\ Acquire(r)
        BY <3>1 DEF NextTurn, Arrive, Due, PredecessorDone
      <4> QED
        BY <4>1, AcquireKeepsSlots
    <3>2. CASE ArriveEarly(r)
      BY <1>0, <3>2, MoveKeepsSlots DEF ArriveEarly, Due, States, Holding
    <3>3. CASE PredecessorRaised(r)
      BY <1>0, <3>3, MoveKeepsSlots DEF PredecessorRaised, States, Holding
    <3>4. CASE Resume(r)
      <4>1. pc[r] \in Holding /\ "connecting" \in Holding /\ WakeNext(free, r, "connecting")
        BY <3>4 DEF Resume, Holding
      <4> QED
        BY <4>1, WakeKeepsSlots
    <3>5. CASE Connect(r)
      BY <1>0, <3>5, MoveKeepsSlots DEF Connect, States, Holding
    <3>6. CASE Result(r)
      <4>1. pc[r] \in Holding /\ pc[r] # "queued"
        BY <3>6 DEF Result, Holding
      <4>2. CASE Pause[mode]
        <5>1. /\ pc' = [pc EXCEPT ![r] = "pausing"] /\ free' = free /\ queue' = queue
              /\ "pausing" \in Holding /\ "pausing" \in States \ {"queued"}
          BY <3>6, <4>2 DEF Result, Holding, States
        <5> QED
          BY <4>1, <5>1, MoveKeepsSlots
      <4>3. CASE ~Pause[mode]
        <5>1. WakeNext(free + 1, r, "done")
          BY <3>6, <4>3 DEF Result, Release
        <5> QED
          BY <4>1, <5>1, WakeKeepsSlots
      <4> QED
        BY <4>2, <4>3
    <3>7. CASE PauseEnds(r)
      <4>1. pc[r] \in Holding /\ WakeNext(free + 1, r, "done")
        BY <3>7 DEF PauseEnds, Release, Holding
      <4> QED
        BY <4>1, WakeKeepsSlots
    <3>8. CASE Raise(r)
      <4>1. pc[r] \in Holding /\ WakeNext(free + 1, r, "failed")
        BY <3>8 DEF Raise, Release, Holding
      <4> QED
        BY <4>1, WakeKeepsSlots
    <3> QED
      BY <1>2, <3>1, <3>2, <3>3, <3>4, <3>5, <3>6, <3>7, <3>8 DEF TaskStep
  <2> QED
    BY <1>0, <2>1, <2>2 DEF SlotInv, TypeOK, States
<1>3. CASE RunCrashes \/ RunWrites
  BY <1>3 DEF RunCrashes, RunWrites, SlotInv, TypeOK, SlotsConserved, QueueExact, InState
<1>4. CASE Finished
  BY <1>1, <1>4 DEF Finished
<1> QED
  BY <1>1, <1>2, <1>3, <1>4 DEF Next

LEMMA SlotInit == Init => SlotInv
<1> SUFFICES ASSUME Init PROVE SlotInv
  OBVIOUS
<1>1. InState(Holding) = {} /\ InState({"queued"}) = {}
  BY DEF Init, InState, Holding
<1>2. Cardinality(InState(Holding)) = 0
  BY <1>1, FS_EmptySet
<1>3. TypeOK
  BY BenchAssumption DEF Init, TypeOK, Holding
<1>4. SlotsConserved
  BY <1>2, BenchAssumption DEF Init, SlotsConserved
<1>5. QueueExact
  BY <1>1 DEF Init, QueueExact, ToSet, IsInjective
<1> QED
  BY <1>3, <1>4, <1>5 DEF SlotInv

\* Every variable of the load generator keeps its type; the value of the
\* semaphore stays between 0 and --concurrency (run_benchmark.py 211).
THEOREM BenchTypeCorrect == Spec => []TypeOK
<1>1. SlotInv => TypeOK
  BY DEF SlotInv
<1> QED
  BY <1>1, SlotInit, SlotStep, PTL DEF Spec

\* Free slots and tasks that hold one always add up to --concurrency, through
\* results, pauses and exceptions alike (run_benchmark.py 228-244).
THEOREM SlotsNeverLeak == Spec => []SlotsConserved
<1>1. SlotInv => SlotsConserved
  BY DEF SlotInv
<1> QED
  BY <1>1, SlotInit, SlotStep, PTL DEF Spec

----------------------------------------------------------------------------
(* Turns. *)

\* A request that left the waiting for its predecessor has all the earlier
\* turns of its session behind it.
OrderInv ==
    \A r \in Requests :
        pc[r] \in Holding \cup {"queued", "done", "failed"} =>
            \A q \in chain.before[r] : pc[q] = "done"

\* Only the predecessor is awaited, but it awaited its own.
LEMMA ReadyMeansOrdered ==
  ASSUME TypeOK, OrderInv, NEW r \in Requests, Ready(r)
  PROVE  \A q \in chain.before[r] : pc[q] = "done"
<1>1. /\ chain.pred[r] \in Requests \cup {None}
      /\ chain.before[r] = IF chain.pred[r] = None THEN {}
                           ELSE chain.before[chain.pred[r]] \cup {chain.pred[r]}
  <2>1. chain \in ClosedChains \cup OpenChains
    BY DEF TypeOK
  <2>2. chain \in ChainType
    BY <2>1, BenchAssumption
  <2>3. chain.pred \in [Requests -> Requests \cup {None}]
    BY <2>2 DEF ChainType
  <2>4. \A c \in ClosedChains \cup OpenChains : \A q \in Requests :
           c.before[q] = IF c.pred[q] = None THEN {}
                         ELSE c.before[c.pred[q]] \cup {c.pred[q]}
    BY BenchAssumption
  <2> QED
    BY <2>1, <2>3, <2>4
<1>2. CASE chain.pred[r] = None
  BY <1>1, <1>2
<1>3. CASE chain.pred[r] # None
  <2>1. chain.pred[r] \in Requests /\ pc[chain.pred[r]] = "done"
    BY <1>1, <1>3 DEF Ready
  <2> QED
    BY <1>1, <1>3, <2>1 DEF OrderInv
<1> QED
  BY <1>2, <1>3

\* What a step of one task may do to the states of all.
LEMMA TaskEffect ==
  ASSUME SlotInv, NEW r \in Requests, TaskStep(r)
  PROVE  /\ chain' = chain
         /\ pc[r] # "done"
         /\ pc'[r] \in Holding \cup {"queued", "done", "failed"} =>
               Ready(r) \/ pc[r] \in Holding
         /\ \A q \in Requests : q # r =>
               pc'[q] = pc[q] \/ (pc[q] = "queued" /\ pc'[q] = "granted")
<1>0. pc \in [Requests -> States] /\ ToSet(queue) = InState({"queued"}) /\ queue \in Seq(Requests)
  BY DEF SlotInv, TypeOK, States, QueueExact
<1>1. ASSUME queue # <<>> PROVE Head(queue) \in Requests /\ pc[Head(queue)] = "queued"
  <2>1. Head(queue) \in ToSet(queue)
    BY <1>0, <1>1, LeaveLine DEF SlotInv, QueueExact
  <2> QED
    BY <1>0, <2>1 DEF InState
<1>2. ASSUME NEW value, NEW s, WakeNext(value, r, s), pc[r] # "queued"
      PROVE  /\ pc'[r] = s
             /\ \A q \in Requests : q # r =>
                   pc'[q] = pc[q] \/ (pc[q] = "queued" /\ pc'[q] = "granted")
  BY <1>0, <1>1, <1>2 DEF WakeNext
<1>3. CASE NextTurn(r) \/ Arrive(r) \/ PredecessorDone(r)
  BY <1>0, <1>3 DEF NextTurn, Arrive, Due, PredecessorDone, Acquire
<1>4. CASE ArriveEarly(r) \/ PredecessorRaised(r)
  BY <1>0, <1>4 DEF ArriveEarly, Due, PredecessorRaised, Holding
<1>5. CASE Resume(r)
  BY <1>2, <1>5 DEF Resume, Holding
<1>6. CASE Connect(r)
  BY <1>0, <1>6 DEF Connect, Holding
<1>7. CASE Result(r)
  <2>1. pc[r] \in {"connecting", "sent"} /\ chain' = chain
    BY <1>7 DEF Result
  <2>2. CASE Pause[mode]
    BY <1>0, <1>7, <2>1, <2>2 DEF Result, Holding
  <2>3. CASE ~Pause[mode]
    BY <1>2, <1>7, <2>1, <2>3 DEF Result, Release, Holding
  <2> QED
    BY <2>2, <2>3
<1>8. CASE PauseEnds(r) \/ Raise(r)
  BY <1>2, <1>8 DEF PauseEnds, Raise, Release, Holding
<1> QED
  BY <1>3, <1>4, <1>5, <1>6, <1>7, <1>8, TaskStep(r) DEF TaskStep

LEMMA OrderStep == SlotInv /\ OrderInv /\ [Next]_vars => OrderInv'
<1> SUFFICES ASSUME SlotInv, OrderInv, [Next]_vars PROVE OrderInv'
  OBVIOUS
<1>0. TypeOK
  BY DEF SlotInv
<1>1. ASSUME NEW r \in Requests, TaskStep(r) PROVE OrderInv'
  <2>1. /\ chain' = chain /\ pc[r] # "done"
        /\ pc'[r] \in Holding \cup {"queued", "done", "failed"} => Ready(r) \/ pc[r] \in Holding
        /\ \A q \in Requests : q # r =>
              pc'[q] = pc[q] \/ (pc[q] = "queued" /\ pc'[q] = "granted")
    BY <1>1, TaskEffect
  <2>2. \A q \in Requests : pc[q] = "done" => pc'[q] = "done"
    BY <2>1
  <2>3. \A q \in Requests : chain.before[q] \subseteq Requests
    BY <1>0, BenchAssumption DEF TypeOK, ChainType
  <2>4. ASSUME NEW q \in Requests, pc'[q] \in Holding \cup {"queued", "done", "failed"}
        PROVE  \A p \in chain.before[q] : pc[p] = "done"
    <3>1. CASE q = r
      BY <1>0, <2>1, <2>4, <3>1, ReadyMeansOrdered DEF OrderInv
    <3>2. CASE q # r
      BY <2>1, <2>4, <3>2 DEF OrderInv
    <3> QED
      BY <3>1, <3>2
  <2> QED
    BY <2>1, <2>2, <2>3, <2>4 DEF OrderInv
<1>2. CASE UNCHANGED vars \/ RunCrashes \/ RunWrites \/ Finished
  BY <1>2 DEF vars, RunCrashes, RunWrites, Finished, OrderInv
<1> QED
  BY <1>1, <1>2 DEF Next
----------------------------------------------------------------------------
(* Results. *)

\* A request has its one result from the moment it was answered; the results
\* are only written when all requests were.
ResultInv ==
    /\ \A r \in Requests : results[r] = IF pc[r] \in {"pausing", "done"} THEN 1 ELSE 0
    /\ status = "written" => \A r \in Requests : pc[r] = "done"

LEMMA ResultStep == SlotInv /\ ResultInv /\ [Next]_vars => ResultInv'
<1> SUFFICES ASSUME SlotInv, ResultInv, [Next]_vars PROVE ResultInv'
  OBVIOUS
<1>0. /\ pc \in [Requests -> States] /\ results \in [Requests -> Nat]
      /\ queue \in Seq(Requests) /\ ToSet(queue) = InState({"queued"})
  BY DEF SlotInv, TypeOK, States, QueueExact
<1>1. ASSUME NEW r \in Requests, TaskStep(r) PROVE ResultInv'
  <2>1. \A q \in Requests : q # r =>
           pc'[q] = pc[q] \/ (pc[q] = "queued" /\ pc'[q] = "granted")
    BY <1>1, TaskEffect
  <2>2. status = "running" /\ status' = status
    BY <1>1 DEF TaskStep, NextTurn, Arrive, Due, ArriveEarly, PredecessorDone,
       PredecessorRaised, Resume, Connect, Result, PauseEnds, Raise
  <2>3. ASSUME queue # <<>> PROVE Head(queue) \in Requests /\ pc[Head(queue)] = "queued"
    <3>1. Head(queue) \in ToSet(queue)
      BY <1>0, <2>3, LeaveLine DEF SlotInv, QueueExact
    <3> QED
      BY <1>0, <3>1 DEF InState
  <2>4. ASSUME NEW value, NEW s, WakeNext(value, r, s), pc[r] # "queued" PROVE pc'[r] = s
    BY <1>0, <2>3, <2>4 DEF WakeNext
  \* The task keeps the number of its results.
  <2>5. ASSUME results' = results,
               pc[r] \in {"pausing", "done"} <=> pc'[r] \in {"pausing", "done"}
        PROVE  ResultInv'
    BY <2>1, <2>2, <2>5 DEF ResultInv
  <2>6. CASE NextTurn(r) \/ Arrive(r) \/ PredecessorDone(r)
    <3>1. results' = results /\ pc[r] \in {"asleep", "awaiting"} /\ Acquire(r)
      BY <2>6 DEF NextTurn, Arrive, Due, PredecessorDone
    <3>2. pc'[r] \in {"connecting", "queued"}
      BY <1>0, <3>1 DEF Acquire
    <3> QED
      BY <2>5, <3>1, <3>2
  <2>7. CASE ArriveEarly(r) \/ PredecessorRaised(r)
    <3>1. results' = results /\ pc[r] \in {"asleep", "awaiting"}
          /\ pc'[r] \in {"awaiting", "poisoned"}
      BY <1>0, <2>7 DEF ArriveEarly, Due, PredecessorRaised
    <3> QED
      BY <2>5, <3>1
  <2>8. CASE Resume(r) \/ Connect(r)
    <3>1. results' = results /\ pc[r] \in {"granted", "connecting"}
          /\ pc'[r] \in {"connecting", "sent"}
      BY <1>0, <2>4, <2>8 DEF Resume, Connect
    <3> QED
      BY <2>5, <3>1
  <2>9. CASE Result(r)
    <3>1. results' = [results EXCEPT ![r] = @ + 1] /\ pc[r] \in {"connecting", "sent"}
      BY <2>9 DEF Result
    <3>2. pc'[r] \in {"pausing", "done"}
      <4>1. CASE Pause[mode]
        BY <1>0, <2>9, <4>1 DEF Result
      <4>2. CASE ~Pause[mode]
        BY <2>4, <2>9, <3>1, <4>2 DEF Result, Release
      <4> QED
        BY <4>1, <4>2
    <3> QED
      BY <1>0, <2>1, <2>2, <3>1, <3>2 DEF ResultInv
  <2>10. CASE PauseEnds(r)
    <3>1. results' = results /\ pc[r] = "pausing" /\ pc'[r] = "done"
      BY <2>4, <2>10 DEF PauseEnds, Release
    <3> QED
      BY <2>5, <3>1
  <2>11. CASE Raise(r)
    <3>1. results' = results /\ pc[r] = "sent" /\ pc'[r] = "failed"
      BY <2>4, <2>11 DEF Raise, Release
    <3> QED
      BY <2>5, <3>1
  <2> QED
    BY <1>1, <2>6, <2>7, <2>8, <2>9, <2>10, <2>11 DEF TaskStep
<1>2. CASE UNCHANGED vars \/ RunCrashes \/ RunWrites \/ Finished
  BY <1>2 DEF vars, RunCrashes, RunWrites, Finished, ResultInv
<1> QED
  BY <1>1, <1>2 DEF Next

\* requests.jsonl, once written, has one result of every request: gather
\* returns all of them or raises (run_benchmark.py 299).
THEOREM ResultsAreWhole == Spec => []AllOrNothing
<1>1. Init => ResultInv
  BY DEF Init, ResultInv
<1>2. ResultInv => AllOrNothing
  BY DEF ResultInv, AllOrNothing
<1> QED
  BY <1>1, <1>2, SlotInit, SlotStep, ResultStep, PTL DEF Spec

----------------------------------------------------------------------------
(* Refinement. *)

ReplayInv == SlotInv /\ OrderInv

LEMMA SameCardinality == \A S : Abstract!Cardinality(S) = Cardinality(S)
  BY DEF Cardinality, Abstract!Cardinality

\* The requests under way hold a slot each.
LEMMA UnderWayHolds ==
  ASSUME SlotInv
  PROVE  Abstract!UnderWay = InState({"connecting", "sent", "pausing"})
  BY DEF Abstract!UnderWay, InState, Begun, SlotInv, TypeOK

\* A slot is left for the one that begins.
LEMMA SlotLeft ==
  ASSUME SlotInv, free > 0 \/ InState({"granted"}) # {}
  PROVE  Abstract!Cardinality(Abstract!UnderWay) < Concurrency
<1> DEFINE U == InState({"connecting", "sent", "pausing"})
           H == InState(Holding)
<1>1. /\ IsFiniteSet(U) /\ IsFiniteSet(H) /\ Cardinality(U) \in Nat /\ Cardinality(H) \in Nat
      /\ U \in SUBSET H
  BY StatesFinite, FS_CardinalityType DEF InState, Holding
<1>2. free \in 0..Concurrency /\ Concurrency \in Nat /\ free + Cardinality(H) = Concurrency
  BY BenchAssumption DEF SlotInv, TypeOK, SlotsConserved
<1>3. Cardinality(U) <= Cardinality(H)
  BY <1>1, FS_Subset
<1>4. Cardinality(U) < Concurrency
  <2>1. CASE free > 0
    BY <1>1, <1>2, <1>3, <2>1
  <2>2. CASE InState({"granted"}) # {}
    <3>1. U # H
      BY <2>2 DEF InState, Holding
    <3>2. Cardinality(U) # Cardinality(H)
      BY <1>1, <3>1, FS_Subset
    <3> QED
      BY <1>1, <1>2, <1>3, <3>2
  <2> QED
    BY <2>1, <2>2
<1> QED
  BY <1>4, UnderWayHolds, SameCardinality

\* How the three abstract sets follow the state of one task.
LEMMA SetsFollow ==
  ASSUME SlotInv, NEW r \in Requests, chain' = chain,
         \A q \in Requests : q # r =>
            pc'[q] = pc[q] \/ (pc[q] = "queued" /\ pc'[q] = "granted")
  PROVE  /\ InState(Begun)' = IF pc'[r] \in Begun THEN InState(Begun) \cup {r}
                                                 ELSE InState(Begun) \ {r}
         /\ InState({"done"})' = IF pc'[r] = "done" THEN InState({"done"}) \cup {r}
                                                   ELSE InState({"done"}) \ {r}
         /\ InState({"failed"})' = IF pc'[r] = "failed" THEN InState({"failed"}) \cup {r}
                                                       ELSE InState({"failed"}) \ {r}
<1>1. \A S : "queued" \notin S /\ "granted" \notin S =>
         InState(S)' = IF pc'[r] \in S THEN InState(S) \cup {r} ELSE InState(S) \ {r}
  BY DEF InState
<1> QED
  BY <1>1 DEF Begun

LEMMA ReplayStep == ReplayInv /\ [Next]_vars => [Abstract!RNext]_(Abstract!rvars)
<1> SUFFICES ASSUME ReplayInv, [Next]_vars PROVE Abstract!RNext \/ UNCHANGED Abstract!rvars
  OBVIOUS
<1>0. SlotInv /\ TypeOK /\ OrderInv /\ pc \in [Requests -> States]
  BY DEF ReplayInv, SlotInv, TypeOK, States
<1>1. ASSUME NEW r \in Requests, TaskStep(r)
      PROVE  Abstract!RNext \/ UNCHANGED Abstract!rvars
  <2>1. /\ chain' = chain
        /\ \A q \in Requests : q # r =>
              pc'[q] = pc[q] \/ (pc[q] = "queued" /\ pc'[q] = "granted")
    BY <1>0, <1>1, TaskEffect
  <2>2. /\ InState(Begun)' = IF pc'[r] \in Begun THEN InState(Begun) \cup {r}
                                                ELSE InState(Begun) \ {r}
        /\ InState({"done"})' = IF pc'[r] = "done" THEN InState({"done"}) \cup {r}
                                                  ELSE InState({"done"}) \ {r}
        /\ InState({"failed"})' = IF pc'[r] = "failed" THEN InState({"failed"}) \cup {r}
                                                      ELSE InState({"failed"}) \ {r}
    BY <1>0, <2>1, SetsFollow
  <2>3. r \in InState(Begun) <=> pc[r] \in Begun
    BY DEF InState
  <2>4. chain.before[r] \subseteq Requests
    <3>1. chain \in ChainType
      BY <1>0, BenchAssumption DEF TypeOK
    <3> QED
      BY <3>1 DEF ChainType
  \* The task begins its request.
  <2>5. ASSUME pc[r] \notin Begun, pc'[r] = "connecting",
               \A q \in chain.before[r] : pc[q] = "done",
               free > 0 \/ InState({"granted"}) # {}
        PROVE  Abstract!Begin(r)
    <3>1. Abstract!Cardinality(Abstract!UnderWay) < Concurrency
      BY <1>0, <2>5, SlotLeft
    <3>2. chain.before[r] \subseteq InState({"done"})
      BY <2>4, <2>5 DEF InState
    <3>3. /\ r \notin InState(Begun) /\ InState(Begun)' = InState(Begun) \cup {r}
          /\ InState({"done"})' = InState({"done"}) /\ InState({"failed"})' = InState({"failed"})
      BY <2>2, <2>5 DEF Begun, InState
    <3> QED
      BY <2>1, <3>1, <3>2, <3>3 DEF Abstract!Begin
  \* The task changes nothing that can be seen.
  <2>6. ASSUME pc[r] \in Begun <=> pc'[r] \in Begun,
               pc[r] \notin {"done", "failed"}, pc'[r] \notin {"done", "failed"}
        PROVE  UNCHANGED Abstract!rvars
    <3>1. /\ InState(Begun)' = InState(Begun) /\ InState({"done"})' = InState({"done"})
          /\ InState({"failed"})' = InState({"failed"})
      BY <2>2, <2>6 DEF InState
    <3> QED
      BY <2>1, <3>1 DEF Abstract!rvars
  \* The task gives its slot up.
  <2>7. ASSUME pc[r] \in {"connecting", "sent", "pausing"}, pc'[r] \in {"done", "failed"}
        PROVE  Abstract!End(r) \/ Abstract!Lose(r)
    <3>1. r \in Abstract!UnderWay
      BY <1>0, <2>7, UnderWayHolds DEF InState
    <3>2. InState(Begun)' = InState(Begun)
      BY <2>2, <2>7 DEF Begun, InState
    <3>3. CASE pc'[r] = "done"
      <4>1. /\ InState({"done"})' = InState({"done"}) \cup {r}
            /\ InState({"failed"})' = InState({"failed"})
        BY <2>2, <2>7, <3>3 DEF InState
      <4> QED
        BY <2>1, <3>1, <3>2, <4>1 DEF Abstract!End
    <3>4. CASE pc'[r] = "failed"
      <4>1. /\ InState({"failed"})' = InState({"failed"}) \cup {r}
            /\ InState({"done"})' = InState({"done"})
        BY <2>2, <2>7, <3>4 DEF InState
      <4> QED
        BY <2>1, <3>1, <3>2, <4>1 DEF Abstract!Lose
    <3> QED
      BY <2>7, <3>3, <3>4
  <2>8. ASSUME pc[r] \in {"asleep", "awaiting"}, Ready(r), Acquire(r)
        PROVE  Abstract!Begin(r) \/ UNCHANGED Abstract!rvars
    <3>1. CASE free > 0 /\ queue = <<>> /\ InState({"granted"}) = {}
      <4>1. pc'[r] = "connecting" /\ pc[r] \notin Begun
        BY <1>0, <2>8, <3>1 DEF Acquire, Begun
      <4>2. \A q \in chain.before[r] : pc[q] = "done"
        BY <1>0, <2>8, ReadyMeansOrdered
      <4> QED
        BY <2>5, <3>1, <4>1, <4>2
    <3>2. CASE ~(free > 0 /\ queue = <<>> /\ InState({"granted"}) = {})
      <4>1. pc'[r] = "queued"
        BY <1>0, <3>2, <2>8 DEF Acquire
      <4> QED
        BY <2>6, <2>8, <4>1 DEF Begun
    <3> QED
      BY <3>1, <3>2
  <2>9. ASSUME NEW value, NEW s, WakeNext(value, r, s), pc[r] \in Holding PROVE pc'[r] = s
    <3>1. ASSUME queue # <<>> PROVE Head(queue) \in Requests /\ pc[Head(queue)] = "queued"
      <4>1. Head(queue) \in ToSet(queue) /\ ToSet(queue) = InState({"queued"})
        BY <1>0, <3>1, LeaveLine DEF SlotInv, TypeOK, QueueExact
      <4> QED
        BY <4>1 DEF InState
    <3> QED
      BY <1>0, <2>9, <3>1 DEF WakeNext, Holding
  <2>10. CASE NextTurn(r) \/ Arrive(r) \/ PredecessorDone(r)
    <3>1. pc[r] \in {"asleep", "awaiting"} /\ Ready(r) /\ Acquire(r)
      BY <2>10 DEF NextTurn, Arrive, Due, PredecessorDone
    <3> QED
      BY <2>8, <3>1 DEF Abstract!RNext
  <2>11. CASE ArriveEarly(r) \/ PredecessorRaised(r)
    <3>1. pc[r] \in {"asleep", "awaiting"} /\ pc'[r] \in {"awaiting", "poisoned"}
      BY <1>0, <2>11 DEF ArriveEarly, Due, PredecessorRaised
    <3> QED
      BY <2>6, <3>1 DEF Begun
  <2>12. CASE Resume(r)
    <3>1. pc[r] = "granted" /\ pc'[r] = "connecting"
      BY <2>9, <2>12 DEF Resume, Holding
    <3>2. \A q \in chain.before[r] : pc[q] = "done"
      BY <1>0, <3>1 DEF OrderInv, Holding
    <3>3. InState({"granted"}) # {}
      BY <3>1 DEF InState
    <3>4. Abstract!Begin(r)
      BY <2>5, <3>1, <3>2, <3>3 DEF Begun
    <3> QED
      BY <3>4 DEF Abstract!RNext
  <2>13. CASE Connect(r)
    <3>1. pc[r] = "connecting" /\ pc'[r] = "sent"
      BY <1>0, <2>13 DEF Connect
    <3> QED
      BY <2>6, <3>1 DEF Begun
  <2>14. CASE Result(r)
    <3>1. pc[r] \in {"connecting", "sent"} /\ pc[r] \in Holding
      BY <2>14 DEF Result, Holding
    <3>2. CASE Pause[mode]
      <4>1. pc'[r] = "pausing"
        BY <1>0, <2>14, <3>2 DEF Result
      <4> QED
        BY <2>6, <3>1, <4>1 DEF Begun
    <3>3. CASE ~Pause[mode]
      <4>1. pc'[r] = "done"
        BY <2>9, <2>14, <3>1, <3>3 DEF Result, Release
      <4> QED
        BY <2>7, <3>1, <4>1 DEF Abstract!RNext
    <3> QED
      BY <3>2, <3>3
  <2>15. CASE PauseEnds(r) \/ Raise(r)
    <3>1. pc[r] \in {"sent", "pausing"} /\ pc'[r] \in {"done", "failed"}
      BY <2>9, <2>15 DEF PauseEnds, Raise, Release, Holding
    <3> QED
      BY <2>7, <3>1 DEF Abstract!RNext
  <2> QED
    BY <1>1, <2>10, <2>11, <2>12, <2>13, <2>14, <2>15 DEF TaskStep
<1>2. CASE UNCHANGED vars \/ RunCrashes \/ RunWrites \/ Finished
  BY <1>2 DEF vars, RunCrashes, RunWrites, Finished, Abstract!rvars, InState
<1> QED
  BY <1>1, <1>2 DEF Next

\* The tasks, the chain of predecessors and the semaphore implement the ordered
\* and bounded replay (run_benchmark.py 234-299).
THEOREM BenchImplementsReplay == Spec => RefinesReplay
<1>1. Init => Abstract!RInit
  <2> SUFFICES ASSUME Init PROVE Abstract!RInit
    OBVIOUS
  <2>1. InState(Begun) = {} /\ InState({"done"}) = {} /\ InState({"failed"}) = {}
    BY DEF Init, InState, Begun
  <2>2. chain \in ChainType
    BY BenchAssumption DEF Init
  <2> QED
    BY <2>1, <2>2 DEF Abstract!RInit, ChainType
<1>2. Init => OrderInv
  BY DEF Init, OrderInv, Holding
<1> QED
  BY <1>1, <1>2, SlotInit, SlotStep, OrderStep, ReplayStep, PTL
  DEF Spec, ReplayInv, RefinesReplay, Abstract!RSpec
=============================================================================
