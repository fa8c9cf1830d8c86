------------------------------- MODULE Bench -------------------------------
(***************************************************************************)
(* The load generator, benchmarks/run_benchmark.py: a task per session     *)
(* (closed_loop) or per request (poisson) on one asyncio loop, a semaphore *)
(* of Concurrency slots, a connection pool of Connections, and a run that  *)
(* writes its results only when every task has ended well.                 *)
(*                                                                         *)
(* A request is                                                            *)
(*    asleep      its task has not come to it                              *)
(*    awaiting    its arrival time has come, its predecessor is not done   *)
(*    queued      in the semaphore's line of waiters                       *)
(*    granted     handed a slot, its task has not resumed yet              *)
(*    connecting  in _request, without a connection                        *)
(*    sent        in _request, on a connection                             *)
(*    pausing     its result is kept, inter_request_delay_s is running     *)
(*    done        issue returned                                           *)
(*    failed      issue raised; poisoned: its predecessor raised           *)
(***************************************************************************)
EXTENDS Integers, Sequences, FiniteSets, SequencesExt

CONSTANTS
    Requests,       \* the requests of the workload
    None,           \* no predecessor
    Modes,          \* the values of --mode that are explored
    ClosedChains,   \* the order of turns the workload gives (see Chain)
    OpenChains,     \* the orders of turns the arrival traces give
    Concurrency,    \* --concurrency
    Connections,    \* max_in_flight of the configuration
    Pause           \* per mode, TRUE when --inter-request-delay-s is positive

\* A chain orders the requests of each session: pred is the request whose task
\* is awaited (or whose issue precedes in the loop), before all earlier ones,
\* offset its arrival time.
ChainType == [pred : [Requests -> Requests \cup {None}],
              before : [Requests -> SUBSET Requests],
              offset : [Requests -> Nat]]

ASSUME BenchAssumption ==
    /\ IsFiniteSet(Requests) /\ None \notin Requests
    /\ Modes \subseteq {"closed_loop", "poisson"}
    /\ ClosedChains \subseteq ChainType /\ OpenChains \subseteq ChainType
    /\ \A c \in ClosedChains \cup OpenChains, r \in Requests :
          c.before[r] = IF c.pred[r] = None THEN {}
                        ELSE c.before[c.pred[r]] \cup {c.pred[r]}
    /\ Concurrency \in Nat \ {0} /\ Connections \in Nat \ {0}
    /\ Pause \in [Modes -> BOOLEAN]

\* The loop that creates the tasks: previous holds the last task of a session.
Chain(schedule, offsets, sessionOf) ==
    LET Earlier(i) == {j \in 1..(i - 1) : sessionOf[schedule[j]] = sessionOf[schedule[i]]}
        At(r) == CHOOSE i \in 1..Len(schedule) : schedule[i] = r
        Previous(i) == IF Earlier(i) = {} THEN None
                       ELSE schedule[CHOOSE j \in Earlier(i) : \A k \in Earlier(i) : k <= j]
    IN  [pred |-> [r \in Requests |-> Previous(At(r))],
         before |-> [r \in Requests |-> {schedule[j] : j \in Earlier(At(r))}],
         offset |-> [r \in Requests |-> offsets[At(r)]]]

VARIABLES
    mode, chain,
    pc,        \* see above
    free,      \* Semaphore._value
    queue,     \* Semaphore._waiters that are not granted yet
    results,   \* how many results each request has in the list
    status     \* running, crashed, or written: requests.jsonl exists

vars == <<mode, chain, pc, free, queue, results, status>>

Holding == {"granted", "connecting", "sent", "pausing"}
Begun == {"connecting", "sent", "pausing", "done", "failed"}
InState(S) == {r \in Requests : pc[r] \in S}

Init ==
    /\ mode \in Modes
    /\ chain \in IF mode = "closed_loop" THEN ClosedChains ELSE OpenChains
    /\ pc = [r \in Requests |-> "asleep"]
    /\ free = Concurrency
    /\ queue = <<>>
    /\ results = [r \in Requests |-> 0]
    /\ status = "running"

PredecessorIs(r, states) == chain.pred[r] # None /\ pc[chain.pred[r]] \in states
ReadyWhenOffered(r) == chain.pred[r] # None => pc[chain.pred[r]] # "asleep"   \* mutant
Ready(r) == chain.pred[r] # None => pc[chain.pred[r]] = "done"

----------------------------------------------------------------------------
(* The semaphore (asyncio.Semaphore, external). *)

\* acquire: locked() is also true while a waiter that was woken has not resumed.
Acquire(r) ==
    IF free > 0 /\ queue = <<>> /\ InState({"granted"}) = {}
    THEN /\ free' = free - 1
         /\ pc' = [pc EXCEPT ![r] = "connecting"]
         /\ UNCHANGED queue
    ELSE /\ queue' = Append(queue, r)
         /\ pc' = [pc EXCEPT ![r] = "queued"]
         /\ UNCHANGED free

\* _wake_up_next, with the value that is left after r moved to state s.
WakeNext(value, r, s) ==
    IF value > 0 /\ queue # <<>>
    THEN /\ free' = value - 1
         /\ queue' = Tail(queue)
         /\ pc' = [pc EXCEPT ![r] = s, ![Head(queue)] = "granted"]
    ELSE /\ free' = value
         /\ pc' = [pc EXCEPT ![r] = s]
         /\ UNCHANGED queue

\* release, by the task of r, which goes to state s.
Release(r, s) == WakeNext(free + 1, r, s)

----------------------------------------------------------------------------
(* The tasks. *)

\* closed_loop: run_session comes to its next request.
NextTurn(r) ==
    /\ mode = "closed_loop" /\ status = "running"
    /\ pc[r] = "asleep" /\ Ready(r)
    /\ Acquire(r)
    /\ UNCHANGED <<mode, chain, results, status>>

\* poisson: the arrival time has come; times are only reached in order.
Due(r) ==
    /\ mode = "poisson" /\ status = "running"
    /\ pc[r] = "asleep"
    /\ \A q \in Requests : chain.offset[q] < chain.offset[r] => pc[q] # "asleep"

Arrive(r) ==
    /\ Due(r) /\ Ready(r)
    /\ Acquire(r)
    /\ UNCHANGED <<mode, chain, results, status>>

\* Mutant: the slot is taken before the predecessor is awaited.
ArriveEarlyHolding(r) ==
    /\ Due(r) /\ ~Ready(r)
    /\ free > 0 /\ free' = free - 1
    /\ pc' = [pc EXCEPT ![r] = "awaiting"]
    /\ UNCHANGED <<mode, chain, queue, results, status>>

ArriveEarly(r) ==
    /\ Due(r) /\ ~Ready(r)
    /\ pc' = [pc EXCEPT ![r] = "awaiting"]
    /\ UNCHANGED <<mode, chain, free, queue, results, status>>

\* await predecessor returns before the semaphore is asked for ...
PredecessorDone(r) ==
    /\ status = "running"
    /\ pc[r] = "awaiting" /\ Ready(r)
    /\ Acquire(r)
    /\ UNCHANGED <<mode, chain, results, status>>

\* ... or raises what the predecessor raised.
PredecessorRaised(r) ==
    /\ status = "running"
    /\ pc[r] = "awaiting" /\ PredecessorIs(r, {"failed", "poisoned"})
    /\ pc' = [pc EXCEPT ![r] = "poisoned"]
    /\ UNCHANGED <<mode, chain, free, queue, results, status>>

\* The task that was woken resumes; it wakes another if slots are left.
Resume(r) ==
    /\ status = "running"
    /\ pc[r] = "granted"
    /\ WakeNext(free, r, "connecting")
    /\ UNCHANGED <<mode, chain, results, status>>

\* The connection pool gives a connection (aiohttp, external).
Connect(r) ==
    /\ status = "running"
    /\ pc[r] = "connecting"
    /\ Cardinality(InState({"sent"})) < Connections
    /\ pc' = [pc EXCEPT ![r] = "sent"]
    /\ UNCHANGED <<mode, chain, free, queue, results, status>>

\* _request returns: an answer, an error answer, a connection error, or the
\* total timeout, which also runs while the request waits for a connection.
Result(r) ==
    /\ status = "running"
    /\ pc[r] \in {"connecting", "sent"}
    /\ results' = [results EXCEPT ![r] = @ + 1]
    /\ IF Pause[mode] THEN /\ pc' = [pc EXCEPT ![r] = "pausing"]
                     /\ UNCHANGED <<free, queue>>
                ELSE Release(r, "done")
    /\ UNCHANGED <<mode, chain, status>>

PauseEnds(r) ==
    /\ status = "running"
    /\ pc[r] = "pausing"
    /\ Release(r, "done")
    /\ UNCHANGED <<mode, chain, results, status>>

\* Mutant: the slot is not released on an exception.
RaiseLeaks(r) ==
    /\ status = "running"
    /\ pc[r] = "sent"
    /\ pc' = [pc EXCEPT ![r] = "failed"]
    /\ UNCHANGED <<mode, chain, free, queue, results, status>>

\* _request raises what it does not catch (a malformed answer header).
Raise(r) ==
    /\ status = "running"
    /\ pc[r] = "sent"
    /\ Release(r, "failed")
    /\ UNCHANGED <<mode, chain, results, status>>

(* The main task. *)

\* gather raises what the first task raised: the other tasks are cancelled and
\* nothing is written.
RunCrashes ==
    /\ status = "running"
    /\ InState({"failed", "poisoned"}) # {}
    /\ status' = "crashed"
    /\ UNCHANGED <<mode, chain, pc, free, queue, results>>

\* Mutant: gather collects the exceptions.
RunWritesPartial ==
    /\ status = "running"
    /\ \A r \in Requests : pc[r] \in {"done", "failed", "poisoned"}
    /\ status' = "written"
    /\ UNCHANGED <<mode, chain, pc, free, queue, results>>

RunWrites ==
    /\ status = "running"
    /\ \A r \in Requests : pc[r] = "done"
    /\ status' = "written"
    /\ UNCHANGED <<mode, chain, pc, free, queue, results>>

Finished == status # "running" /\ UNCHANGED vars

TaskStep(r) ==
    \/ NextTurn(r) \/ Arrive(r) \/ ArriveEarly(r)
    \/ PredecessorDone(r) \/ PredecessorRaised(r)
    \/ Resume(r) \/ Connect(r)
    \/ Result(r) \/ PauseEnds(r) \/ Raise(r)

Next ==
    \/ \E r \in Requests : TaskStep(r)
    \/ RunCrashes \/ RunWrites
    \/ Finished

Spec == Init /\ [][Next]_vars

\* The event loop runs every task that can run, and the total timeout ends
\* every request, answered or not.
FairSpec == Spec /\ (\A r \in Requests : WF_vars(TaskStep(r)))
                 /\ WF_vars(RunCrashes) /\ WF_vars(RunWrites)

----------------------------------------------------------------------------
(* Correctness. *)

TypeOK ==
    /\ mode \in {"closed_loop", "poisson"}
    /\ chain \in ClosedChains \cup OpenChains
    /\ pc \in [Requests -> Holding \cup {"asleep", "awaiting", "queued", "done",
                                         "failed", "poisoned"}]
    /\ free \in 0..Concurrency
    /\ queue \in Seq(Requests)
    /\ results \in [Requests -> Nat]
    /\ status \in {"running", "crashed", "written"}

\* Every slot of the semaphore is free or held by exactly one task, whether the
\* task ended, paused or raised: slots neither leak nor multiply.
SlotsConserved == free + Cardinality(InState(Holding)) = Concurrency

\* The line of waiters holds exactly the queued requests, each once. (Part of
\* the inductive invariant of BenchProofs.)
QueueExact ==
    /\ ToSet(queue) = InState({"queued"})
    /\ IsInjective(queue)

\* requests.jsonl, if it is written, holds one result for every request of the
\* workload; a run that lost a request writes nothing.
AllOrNothing == status = "written" => \A r \in Requests : results[r] = 1

\* The tasks and the semaphore implement the ordered, bounded replay.
Abstract == INSTANCE Replay WITH
    before <- chain.before,
    begun <- InState(Begun),
    ended <- InState({"done"}),
    lost <- InState({"failed"})

\* A turn begins only after every earlier turn of its session has ended, never
\* after a lost one, and at most Concurrency turns are under way.
RefinesReplay == Abstract!RSpec

\* A run ends: no task waits for a slot that its own successor holds.
RunEnds == <>(status # "running")
=============================================================================
