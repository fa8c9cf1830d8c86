----------------------------- MODULE TraceJoin -----------------------------
(***************************************************************************)
(* What an experiment believes of its requests: benchmarks/join_traces.py  *)
(* and validate_trace.py put together the client's result, the router's    *)
(* decision and completion of every attempt and the worker's events.       *)
(*                                                                         *)
(* Requests, router and workers are external: an attempt that fails is     *)
(* followed by another one, up to MaxAttempts.  A worker event is in the   *)
(* trace some time after it happened, maybe twice, or not yet when the     *)
(* traces are joined; a row of the router may be missing, late or doubled. *)
(* A decision id stands for the request, attempt and backend it names.     *)
(***************************************************************************)
EXTENDS Integers, Sequences, FiniteSets, SequencesExt

CONSTANTS
    Requests,
    LocalPaths,      \* local_hbm, recompute
    ExternalPaths,   \* lmcache_l1, mooncake_l2
    NoPath,
    MaxAttempts, MaxFaults   \* bounds

Paths == LocalPaths \cup ExternalPaths

ASSUME TraceJoinAssumption ==
    /\ LocalPaths \cap ExternalPaths = {} /\ NoPath \notin Paths
    /\ MaxAttempts \in Nat \ {0} /\ MaxFaults \in Nat

VARIABLES
    life,     \* of a request: its attempts as they really were
    client,   \* its result: none, success, failed
    trace,    \* the router's rows
    pending, log, doubled,   \* worker events: not flushed, in the traces,
              \* and there twice
    verdict,  \* none, refused, joined
    joined,   \* the attempt each request is joined with, or 0
    lost,     \* history: the rows of the router that were lost
    faults

joinVars == <<life, client, trace, pending, log, doubled, verdict, joined, lost, faults>>

JoinInit ==
    /\ life = [q \in Requests |-> <<>>]
    /\ client = [q \in Requests |-> "none"]
    /\ trace = <<>> /\ pending = {} /\ log = {} /\ doubled = {}
    /\ verdict = "none" /\ joined = [q \in Requests |-> 0]
    /\ lost = 0 /\ faults = 0

----------------------------------------------------------------------------
(* What happens to a request. *)

Now(q) == Last(life[q])
Id(q) == <<q, Len(life[q])>>
Open(q) == life[q] # <<>> /\ Now(q).state # "done"

Decide(q, path) ==
    /\ client[q] = "none"
    /\ Len(life[q]) < MaxAttempts /\ (life[q] # <<>> => ~Open(q) /\ ~Now(q).ok)
    /\ life' = [life EXCEPT ![q] = Append(@,
                  [state |-> "sent", ok |-> FALSE, selected |-> path, actual |-> NoPath])]
    /\ trace' = Append(trace, [event |-> "decision", id |-> Id(q)', selected |-> path, ok |-> FALSE])
    /\ UNCHANGED <<client, pending, log, doubled, verdict, joined, lost, faults>>

\* The worker of the current attempt goes on, and tells of it.  What happens
\* after the join does not matter to it.
Worker(q, from, to, actual, phase, reason) ==
    /\ verdict # "joined" /\ Open(q) /\ Now(q).state \in from
    /\ life' = [life EXCEPT ![q][Len(life[q])].state = to, ![q][Len(life[q])].actual = actual]
    /\ pending' = pending \cup {[id |-> Id(q), phase |-> phase, actual |-> actual, reason |-> reason]}
    /\ UNCHANGED <<client, trace, log, doubled, verdict, joined, lost, faults>>

Seen(q) == Worker(q, {"sent"}, "seen", NoPath, "scheduler_seen", FALSE)

Loads(q) == \E path \in Paths :
                Worker(q, {"seen"}, "loaded", path, "load_completed", FALSE)

\* Without a load the worker has used what it had, or computed.
Ends(q) ==
    \/ Worker(q, {"loaded"}, "ended", Now(q).actual, "request_finished", FALSE)
    \/ \E path \in LocalPaths, reason \in BOOLEAN :
        Worker(q, {"seen"}, "ended", path, "request_finished", reason)

Complete(q, ok) ==
    /\ verdict # "joined" /\ Open(q) /\ (ok => Now(q).state = "ended")
    /\ life' = [life EXCEPT ![q][Len(life[q])].state = "done", ![q][Len(life[q])].ok = ok]
    /\ trace' = Append(trace, [event |-> "completion", id |-> Id(q),
                               selected |-> Now(q).selected, ok |-> ok])
    /\ UNCHANGED <<client, pending, log, doubled, verdict, joined, lost, faults>>

\* The client fails when the answer does, or it gives up at any time; the
\* router makes no other attempt then.
ClientEnds(q, result) ==
    /\ client[q] = "none"
    /\ result = "success" => life[q] # <<>> /\ ~Open(q) /\ Now(q).ok
    /\ client' = [client EXCEPT ![q] = result]
    /\ UNCHANGED <<life, trace, pending, log, doubled, verdict, joined, lost, faults>>

----------------------------------------------------------------------------
(* What happens to the traces. *)

Flush(e) ==
    /\ verdict # "joined"
    /\ pending' = pending \ {e} /\ log' = log \cup {e}
    /\ UNCHANGED <<life, client, trace, doubled, verdict, joined, lost, faults>>

Fault ==
    /\ verdict # "joined"
    /\ faults < MaxFaults /\ faults' = faults + 1
    /\ UNCHANGED <<life, client, pending, log, verdict, joined>>

FlushedTwice(e) == Fault /\ doubled' = doubled \cup {e} /\ UNCHANGED <<trace, lost>>
RowLost(i) ==
    /\ Fault /\ trace' = RemoveAt(trace, i) /\ lost' = lost + 1
    /\ UNCHANGED doubled
RowDoubled(i) ==
    Fault /\ trace' = Append(trace, trace[i]) /\ UNCHANGED <<doubled, lost>>
RowLate(i) ==
    /\ Fault /\ i < Len(trace)
    /\ trace' = Append(RemoveAt(trace, i), trace[i]) /\ UNCHANGED <<doubled, lost>>

----------------------------------------------------------------------------
(* validate *)

At(event, id) == {i \in DOMAIN trace : trace[i].event = event /\ trace[i].id = id}
Ids == {trace[i].id : i \in DOMAIN trace}

Valid ==
    \A id \in Ids :
        /\ Cardinality(At("decision", id)) = 1 /\ Cardinality(At("completion", id)) = 1
        /\ \A i \in At("decision", id), j \in At("completion", id) : i < j

(* join *)

Row(event, id) == trace[CHOOSE i \in At(event, id) : TRUE]
AttemptsOf(q) == {k \in 1 .. MaxAttempts : <<q, k>> \in Ids}

\* attempts[-1].  Mutant: the first attempt.
FirstAttempt(q) == CHOOSE k \in AttemptsOf(q) : \A l \in AttemptsOf(q) : k <= l
FinalAttempt(q) == CHOOSE k \in AttemptsOf(q) : \A l \in AttemptsOf(q) : l <= k

EventsOf(id, phase) == {e \in log : e.id = id /\ e.phase = phase}

(* _validate_successful_final_attempt *)

LifecycleComplete(id) ==
    EventsOf(id, "scheduler_seen") # {} /\ EventsOf(id, "request_finished") # {}

PathAsSelected(id) ==
    LET selected == Row("decision", id).selected
        loads == EventsOf(id, "load_completed")
    IN IF selected \in ExternalPaths
       THEN /\ \A e \in loads : e.actual = selected
            /\ loads = {} => \E e \in EventsOf(id, "request_finished") :
                                 e.actual \notin ExternalPaths /\ e.reason
       ELSE \A e \in loads : e.actual \notin ExternalPaths

Joinable ==
    /\ Valid /\ doubled = {}
    /\ \A q \in Requests :
        /\ AttemptsOf(q) # {}
        /\ LET id == <<q, FinalAttempt(q)>> IN
           client[q] = "success" /\ Row("completion", id).ok =>
               LifecycleComplete(id) /\ PathAsSelected(id)

Join ==
    /\ verdict # "joined"
    /\ \A q \in Requests : client[q] # "none"
    /\ IF Joinable
       THEN verdict' = "joined" /\ joined' = [q \in Requests |-> FinalAttempt(q)]
       ELSE verdict' = "refused" /\ UNCHANGED joined
    /\ UNCHANGED <<life, client, trace, pending, log, doubled, lost, faults>>

----------------------------------------------------------------------------
JoinNext ==
    \/ \E q \in Requests :
        \/ \E path \in Paths : Decide(q, path)
        \/ Seen(q) \/ Loads(q) \/ Ends(q)
        \/ \E ok \in BOOLEAN : Complete(q, ok)
        \/ \E result \in {"success", "failed"} : ClientEnds(q, result)
    \/ \E e \in pending : Flush(e)
    \/ \E e \in log : FlushedTwice(e)
    \/ \E i \in DOMAIN trace : RowLost(i) \/ RowDoubled(i) \/ RowLate(i)
    \/ Join

JoinSpec == JoinInit /\ [][JoinNext]_joinVars
----------------------------------------------------------------------------
(* Correctness. *)

\* What is joined is what happened: each request with its last attempt, the
\* router's verdict on it, and, if client and router call it a success, with a
\* worker that saw it, ended it, and took the path that was selected or said
\* why not.  The exception is a path other than the selected one that only a
\* load_completed event tells of, which was not in the traces yet.  All of it
\* holds only while no more than one row of the router is missing, and none of
\* an attempt that the client gave up and the router has not completed yet:
\* without both rows of an attempt nothing tells that there was one.
JoinTellsTruth ==
    verdict = "joined" /\ lost <= 1 =>
        \A q \in {q \in Requests : ~Open(q)} :
            LET k == joined[q]
                last == Now(q)
                late == {e \in pending : e.id = <<q, k>>}
            IN /\ k = Len(life[q])
               /\ Row("completion", <<q, k>>).ok = last.ok
               /\ client[q] = "success" =>
                    /\ last.ok
                    /\ \A e \in late : e.phase = "load_completed"
                    /\ \/ last.selected = last.actual
                       \/ {last.selected, last.actual} \cap ExternalPaths = {}
                       \/ late # {}
                       \/ \E e \in log : e.id = <<q, k>> /\ e.reason
=============================================================================
