------------------------------- MODULE Stage -------------------------------
(***************************************************************************)
(* One measured run, scripts/run_four_h20_stage.sh: the stage script, the  *)
(* client it starts (benchmarks/run_benchmark.py) and holds back behind a  *)
(* gate until the router has been probed                                   *)
(* (benchmarks/refresh_v2_1_router_tier.py), the sampler of the metrics,   *)
(* the router and the workers, which write their traces in their own time, *)
(* and the join of those traces (benchmarks/join_traces.py).               *)
(*                                                                         *)
(* The run is made up to MaxRuns times under one name, as a window that is *)
(* resumed does, with the same request ids; what an earlier invocation     *)
(* left behind may meet the next one.  A request is routed once (failover  *)
(* is not modelled) and to one backend, so that events of two invocations  *)
(* have the same key.  Rows of the probe, which the join filters out, are  *)
(* left out.  Router and workers are external: a row or an event reaches   *)
(* its file some time after it happened.                                   *)
(*                                                                         *)
(* The lifecycle of the workers is required, as both windows require it.   *)
(* The rows and events of a request also tell the KV path it was sent and  *)
(* the one it took; of that, only what the join and the validation make of *)
(* it is kept, as its way, see Ways.                                       *)
(***************************************************************************)
EXTENDS Integers, Sequences, FiniteSets, SequencesExt

CONSTANTS
    Requests,     \* the workload
    Tries,        \* attempts to join (40 and one)
    MinSuccess,   \* the successes that MIN_SUCCESS_RATE asks for
    Required,     \* the paths and modes that REQUIRE_..._KV_PATHS and _MODES name
    MaxRuns       \* bound on the invocations; the last one is not killed

ASSUME StageAssumption ==
    /\ IsFiniteSet(Requests)
    /\ Tries \in Nat \ {0} /\ MaxRuns \in Nat
    /\ MinSuccess \in 0..Cardinality(Requests)
    /\ Required \cap {"unseen", "other", "astray", "mismatched"} = {}

Runs == 1..MaxRuns
Phases == {"scheduler_seen", "request_finished"}
Events == [run : Runs, request : Requests, phase : Phases]
Rows == [run : Runs, request : Requests, kind : {"decision", "completion"}, ok : BOOLEAN]
Nothing == [run |-> 0, ok |-> {}]   \* no requests.jsonl

\* The ways of a request: a required path, selected and taken; another; events
\* that contradict the selected path and that the join refuses, or that only the
\* validation does (as it does an order of events that V2.3 requires).
Ways == Required \cup {"other", "astray", "mismatched"}
Unseen == [r \in Requests |-> "unseen"]

VARIABLES
    probe,      \* ROUTER_REFRESH_EXPECTED_PATH is set
    n,          \* the invocation under way, or the last one
    stage,      \* how far the script is: see TypeOK
    tries,      \* attempts to join that are left
    sampler,    \* the invocations whose sampler is alive
    client,     \* per invocation: none, starting, waiting, sending, done, gone
    request,    \* per invocation and request: unsent, sent, succeeded, failed
    dir,        \* the run directory exists
    results,    \* requests.jsonl in it: whose, and the requests that succeeded
    ready, gate,  \* START_READY and START_GATE exist
    prober,       \* the invocations whose probe is alive
    trace,      \* RAW_TRACE
    unwritten,  \* completions the router has not appended yet
    unflushed, flushed,  \* worker events: in a worker's buffer, in its file
    marked,     \* what was in the files when the offsets were taken
    slice,      \* the connector traces cut out for this run
    way,        \* what results and slice tell of the way of each request
    joined,     \* what the join was made from
    probed,     \* history: <<b, c>> if the probe of b opened the gate while c was under way
    killed,     \* history: invocations killed with SIGKILL
    fault       \* history: the environment failed this invocation

scriptVars == <<probe, n, stage, tries, sampler>>
clientVars == <<client, request, dir, results>>
gateVars == <<ready, gate, prober>>
traceVars == <<trace, unwritten>>
workerVars == <<unflushed, flushed>>
evidenceVars == <<marked, slice, way, joined>>
historyVars == <<probed, killed, fault>>
vars == <<scriptVars, clientVars, gateVars, traceVars, workerVars, evidenceVars, historyVars>>

NoJoin == [results |-> Nothing, trace |-> <<>>, slice |-> {}]
Alive == {"starting", "waiting", "sending"}
Over == {"off", "passed", "failed"}

Init ==
    /\ probe \in BOOLEAN
    /\ n = 0 /\ stage = "off" /\ tries = 0 /\ sampler = {}
    /\ client = [c \in Runs |-> "none"]
    /\ request = [c \in Runs |-> [r \in Requests |-> "unsent"]]
    /\ dir = FALSE /\ results = Nothing
    /\ ready = FALSE /\ gate = FALSE /\ prober = {}
    /\ trace = <<>> /\ unwritten = {}
    /\ unflushed = {} /\ flushed = {}
    /\ marked = {} /\ slice = {} /\ way = Unseen /\ joined = NoJoin
    /\ probed = {} /\ killed = {} /\ fault = FALSE

----------------------------------------------------------------------------
(* The stage script, up to the client. *)

\* Mutants: the old directory stays, the files of the handshake stay.
PrepareKeepsDir ==
    /\ stage \in Over /\ n < MaxRuns
    /\ n' = n + 1 /\ stage' = "prepared"
    /\ trace' = <<>>
    /\ ready' = FALSE /\ gate' = FALSE
    /\ slice' = {} /\ way' = Unseen /\ joined' = NoJoin /\ fault' = FALSE
    /\ UNCHANGED <<probe, tries, sampler, clientVars, prober, unwritten, workerVars,
                   marked, probed, killed>>

PrepareKeepsGate ==
    /\ stage \in Over /\ n < MaxRuns
    /\ n' = n + 1 /\ stage' = "prepared"
    /\ dir' = FALSE /\ results' = Nothing
    /\ trace' = <<>>
    /\ slice' = {} /\ way' = Unseen /\ joined' = NoJoin /\ fault' = FALSE
    /\ UNCHANGED <<probe, tries, sampler, client, request, gateVars, unwritten, workerVars,
                   marked, probed, killed>>

\* The old directory is moved aside; old traces and handshake files go.
Prepare ==
    /\ stage \in Over /\ n < MaxRuns
    /\ n' = n + 1 /\ stage' = "prepared"
    /\ dir' = FALSE /\ results' = Nothing
    /\ trace' = <<>>
    /\ ready' = FALSE /\ gate' = FALSE
    /\ slice' = {} /\ way' = Unseen /\ joined' = NoJoin /\ fault' = FALSE
    /\ UNCHANGED <<probe, tries, sampler, client, request, prober, unwritten, workerVars,
                   marked, probed, killed>>

\* The old router is stopped, with what it had to write and to answer.
StartRouter ==
    /\ stage = "prepared"
    /\ stage' = "routed"
    /\ unwritten' = {}
    /\ request' = [c \in Runs |-> [r \in Requests |->
                      IF request[c][r] = "sent" THEN "failed" ELSE request[c][r]]]
    /\ UNCHANGED <<probe, n, tries, sampler, client, dir, results, gateVars, trace,
                   workerVars, evidenceVars, historyVars>>

\* The caches are reset, the offsets taken, sampler and client started.
Launch ==
    /\ stage = "routed"
    /\ stage' = IF probe THEN "waiting" ELSE "running"
    /\ marked' = flushed
    /\ sampler' = sampler \cup {n}
    /\ client' = [client EXCEPT ![n] = "starting"]
    /\ UNCHANGED <<probe, n, tries, request, dir, results, gateVars, traceVars,
                   workerVars, slice, way, joined, historyVars>>

(* The client. *)

\* mkdir(exist_ok=False), and the first half of the handshake.
ClientStarts(c) ==
    /\ client[c] = "starting"
    /\ IF dir THEN client' = [client EXCEPT ![c] = "gone"] /\ UNCHANGED <<dir, ready>>
       ELSE /\ dir' = TRUE
            /\ ready' = (ready \/ probe)
            /\ client' = [client EXCEPT ![c] = IF probe THEN "waiting" ELSE "sending"]
    /\ UNCHANGED <<scriptVars, request, results, gate, prober, traceVars, workerVars,
                   evidenceVars, historyVars>>

ClientReleased(c) ==
    /\ client[c] = "waiting" /\ gate
    /\ client' = [client EXCEPT ![c] = "sending"]
    /\ UNCHANGED <<scriptVars, request, dir, results, gateVars, traceVars, workerVars,
                   evidenceVars, historyVars>>

\* TimeoutError: the gate was not there when it was looked for; it may be now.
ClientTimesOut(c) ==
    /\ client[c] = "waiting"
    /\ client' = [client EXCEPT ![c] = "gone"]
    /\ fault' = TRUE
    /\ UNCHANGED <<scriptVars, request, dir, results, gateVars, traceVars, workerVars,
                   evidenceVars, probed, killed>>

\* The router appends its decision before it passes the request on.
Send(c, r) ==
    /\ client[c] = "sending" /\ request[c][r] = "unsent"
    /\ request' = [request EXCEPT ![c][r] = "sent"]
    /\ trace' = Append(trace, [run |-> c, request |-> r, kind |-> "decision", ok |-> TRUE])
    /\ UNCHANGED <<scriptVars, client, dir, results, gateVars, unwritten, workerVars,
                   evidenceVars, historyVars>>

\* The request ends, well or not (a client that is gone has aborted it); its
\* completion is on its way, and so are its events: those that are never flushed
\* stand for those that never happened.
RequestEnds(c, r, ok) ==
    /\ request[c][r] = "sent"
    /\ client[c] = "sending" \/ (client[c] = "gone" /\ ~ok)
    /\ request' = [request EXCEPT ![c][r] = IF ok THEN "succeeded" ELSE "failed"]
    /\ unwritten' = unwritten \cup
          {[run |-> c, request |-> r, kind |-> "completion", ok |-> ok]}
    /\ unflushed' = unflushed \cup {[run |-> c, request |-> r, phase |-> p] : p \in Phases}
    /\ fault' = (fault \/ (~ok /\ c = n))
    /\ UNCHANGED <<scriptVars, client, dir, results, gateVars, trace, flushed,
                   evidenceVars, probed, killed>>

\* Every request has a result: requests.jsonl is written, by path, wherever the
\* directory of this client is by now.
ClientWrites(c) ==
    /\ client[c] = "sending" /\ \A r \in Requests : request[c][r] \in {"succeeded", "failed"}
    /\ client' = [client EXCEPT ![c] = "done"]
    /\ dir' = TRUE
    /\ results' = [run |-> c, ok |-> {r \in Requests : request[c][r] = "succeeded"}]
    /\ UNCHANGED <<scriptVars, request, gateVars, traceVars, workerVars,
                   evidenceVars, historyVars>>

(* Router and workers write (external). *)

\* Bound: what the last invocation has no more use for is not written.
Read(after) == n < MaxRuns \/ stage \notin Over \cup after

WriteRow(row) ==
    /\ row \in unwritten /\ Read({})
    /\ unwritten' = unwritten \ {row}
    /\ trace' = Append(trace, row)
    /\ fault' = (fault \/ row.run # n)
    /\ UNCHANGED <<scriptVars, clientVars, gateVars, workerVars, evidenceVars, probed, killed>>

\* The scheduler of a worker appends the events of a request in their order.
Flush(e) ==
    /\ e \in unflushed /\ Read({"joining", "joined"})
    /\ e.phase = "request_finished" => [e EXCEPT !.phase = "scheduler_seen"] \notin unflushed
    /\ unflushed' = unflushed \ {e}
    /\ flushed' = flushed \cup {e}
    /\ fault' = (fault \/ e.run # n)
    /\ UNCHANGED <<scriptVars, clientVars, gateVars, traceVars, evidenceVars, probed, killed>>

----------------------------------------------------------------------------
(* The stage script, with and after the client. *)

NotTerminated == client   \* mutant: the trap forgets the client

\* The trap: sampler and background client are terminated, if they are alive.
\* In the foreground (no probe) the client is over before the script goes on.
Terminated == [client EXCEPT ![n] = IF probe /\ @ \in Alive THEN "gone" ELSE @]

\* exit 1, or a command that failed under set -e.
Exit ==
    /\ stage' = "failed"
    /\ client' = Terminated
    /\ sampler' = sampler \ {n}

SeesReady ==
    /\ stage = "waiting" /\ ready
    /\ stage' = "probing"
    /\ prober' = prober \cup {n}
    /\ UNCHANGED <<probe, n, tries, sampler, clientVars, ready, gate, traceVars, workerVars,
                   evidenceVars, historyVars>>

SeesExit ==
    /\ stage = "waiting" /\ ~ready /\ client[n] \notin Alive
    /\ Exit
    /\ UNCHANGED <<probe, n, tries, request, dir, results, gateVars, traceVars, workerVars,
                   evidenceVars, historyVars>>

\* The second half of the handshake.  The probe is a process of its own: one that
\* outlives its killed script opens whatever gate is shut by then.
ProbeSucceeds(c) ==
    /\ c \in prober
    /\ prober' = prober \ {c}
    /\ gate' = TRUE
    /\ probed' = probed \cup {<<c, n>>}
    /\ stage' = IF c = n /\ stage = "probing" THEN "running" ELSE stage
    /\ UNCHANGED <<probe, n, tries, sampler, clientVars, ready, traceVars, workerVars,
                   evidenceVars, killed, fault>>

\* A command fails: the router, a reset, the 600 looks for START_READY, the
\* probe, the last sample, the cutting, the copies.
CommandFails ==
    /\ stage \in {"prepared", "routed", "waiting", "probing", "sampled", "joined"}
    /\ stage = "waiting" => ~ready
    /\ Exit
    /\ prober' = prober \ {n}
    /\ fault' = TRUE
    /\ UNCHANGED <<probe, n, tries, request, dir, results, ready, gate, traceVars, workerVars,
                   evidenceVars, probed, killed>>

ClientSucceeded ==
    /\ stage = "running" /\ client[n] = "done"
    /\ stage' = "sampled"
    /\ sampler' = sampler \ {n}
    /\ UNCHANGED <<probe, n, tries, clientVars, gateVars, traceVars, workerVars,
                   evidenceVars, historyVars>>

ClientFailed ==
    /\ stage = "running" /\ client[n] = "gone"
    /\ Exit
    /\ UNCHANGED <<probe, n, tries, request, dir, results, gateVars, traceVars, workerVars,
                   evidenceVars, historyVars>>

\* The connector traces are cut out once, before the first attempt to join.  The
\* ways of the requests are looked at from here on, and become known here.
Cut ==
    /\ stage = "sampled"
    /\ stage' = "joining"
    /\ tries' = Tries
    /\ slice' = flushed \ marked
    /\ way' \in [Requests -> Ways]
    /\ fault' = (fault \/ \E e \in unflushed : e.run = n)
    /\ UNCHANGED <<probe, n, sampler, clientVars, gateVars, traceVars, workerVars,
                   marked, joined, probed, killed>>

(* The join, and the validation of the route trace it begins with. *)

Positions(r, kind) == {i \in DOMAIN trace : trace[i].request = r /\ trace[i].kind = kind}

\* Mutant: only what is missing is looked for.
RoutedSome(r) == Positions(r, "decision") # {} /\ Positions(r, "completion") # {}

\* One decision, one completion, in that order.
RoutedOnce(r) ==
    \E d, c \in DOMAIN trace :
        /\ Positions(r, "decision") = {d} /\ Positions(r, "completion") = {c}
        /\ d < c

Unambiguous ==
    \A e, f \in slice : e.request = f.request /\ e.phase = f.phase => e = f

LifecycleComplete(r) ==
    \A p \in Phases : \E e \in slice : e.request = r /\ e.phase = p

CompletedWell(r) == \E i \in Positions(r, "completion") : trace[i].ok

\* The path it took is the one that was selected, or was given up for a reason.
AsSelected(r) == way[r] # "astray"

Joinable ==
    /\ results # Nothing
    /\ \A r \in Requests : RoutedOnce(r)
    /\ Unambiguous
    /\ \A r \in results.ok : CompletedWell(r) => LifecycleComplete(r) /\ AsSelected(r)

\* Mutant: the loop has no bound.
JoinFailsForEver ==
    /\ stage = "joining" /\ ~Joinable
    /\ UNCHANGED vars

JoinFails ==
    /\ stage = "joining" /\ ~Joinable
    /\ tries' = tries - 1
    /\ IF tries = 1 THEN /\ Exit
                         /\ fault' = (fault \/ unwritten # {})
       ELSE UNCHANGED <<stage, client, sampler, fault>>
    /\ UNCHANGED <<probe, n, request, dir, results, gateVars, traceVars, workerVars,
                   evidenceVars, probed, killed>>

Join ==
    /\ stage = "joining" /\ Joinable
    /\ stage' = "joined"
    /\ joined' = [results |-> results, trace |-> trace, slice |-> slice]
    /\ UNCHANGED <<probe, n, tries, sampler, clientVars, gateVars, traceVars, workerVars,
                   marked, slice, way, historyVars>>

\* Client results and worker events both show the path.
Evident(path) ==
    /\ \E r \in results.ok : way[r] = path
    /\ \E e \in slice : way[e.request] = path

Valid ==
    /\ Cardinality(results.ok) >= MinSuccess
    /\ \A r \in results.ok : CompletedWell(r) => way[r] # "mismatched"
    /\ \A path \in Required : Evident(path)

Validate ==
    /\ stage = "joined"
    /\ stage' = IF Valid THEN "passed" ELSE "failed"
    /\ UNCHANGED <<probe, n, tries, sampler, clientVars, gateVars, traceVars, workerVars,
                   evidenceVars, historyVars>>

(* Signals. *)

\* TERM runs the trap, which does not exit: the script goes on where it was.
\* (The trap waits for what is in the foreground, the probe or the client.)
Terminate ==
    /\ stage \in {"waiting", "running"} /\ probe
    /\ client' = Terminated
    /\ sampler' = sampler \ {n}
    /\ fault' = TRUE
    /\ UNCHANGED <<probe, n, stage, tries, request, dir, results, gateVars, traceVars,
                   workerVars, evidenceVars, probed, killed>>

\* KILL: no trap; sampler, client and probe live on.  (Not in the last
\* invocation, a bound: nothing follows that they could disturb.)
Kill ==
    /\ stage \notin Over /\ n < MaxRuns
    /\ stage' = "off"
    /\ killed' = killed \cup {n}
    /\ UNCHANGED <<probe, n, tries, sampler, clientVars, gateVars, traceVars, workerVars,
                   evidenceVars, probed, fault>>

ClientStep(c) ==
    \/ ClientStarts(c) \/ ClientReleased(c) \/ ClientTimesOut(c) \/ ClientWrites(c)
    \/ \E r \in Requests : Send(c, r) \/ \E ok \in BOOLEAN : RequestEnds(c, r, ok)

ScriptStep ==
    \/ StartRouter \/ Launch \/ SeesReady \/ SeesExit \/ ProbeSucceeds(n) \/ CommandFails
    \/ ClientSucceeded \/ ClientFailed \/ Cut \/ JoinFails \/ Join \/ Validate

Next ==
    \/ Prepare \/ ScriptStep \/ Terminate \/ Kill
    \/ \E c \in Runs : ClientStep(c) \/ ProbeSucceeds(c)
    \/ \E row \in unwritten : WriteRow(row)
    \/ \E e \in unflushed : Flush(e)

Spec == Init /\ [][Next]_vars

\* The script runs on, and so does the client: its waits for the gate and for
\* every answer have a timeout.
FairSpec == Spec /\ WF_vars(ScriptStep) /\ (\A c \in Runs : WF_vars(ClientStep(c)))

----------------------------------------------------------------------------
(* Correctness. *)

TypeOK ==
    /\ n \in 0..MaxRuns
    /\ stage \in {"off", "prepared", "routed", "waiting", "probing", "running", "sampled",
                  "joining", "joined", "passed", "failed"}
    /\ tries \in 0..Tries
    /\ sampler \subseteq Runs
    /\ client \in [Runs -> Alive \cup {"none", "done", "gone"}]
    /\ request \in [Runs -> [Requests -> {"unsent", "sent", "succeeded", "failed"}]]
    /\ results \in [run : 0..MaxRuns, ok : SUBSET Requests]
    /\ trace \in Seq(Rows) /\ unwritten \subseteq Rows
    /\ unflushed \subseteq Events /\ flushed \subseteq Events
    /\ marked \subseteq flushed /\ slice \subseteq flushed \ marked
    /\ probe \in BOOLEAN /\ dir \in BOOLEAN /\ fault \in BOOLEAN
    /\ ready \in BOOLEAN /\ gate \in BOOLEAN
    /\ prober \subseteq Runs /\ probed \subseteq Runs \X Runs
    /\ way \in [Requests -> Ways \cup {"unseen"}]

\* Behind a gate a client only sends once the router was seen to choose the
\* expected path while its own invocation was under way, by its own probe or by
\* one that outlived its killed stage.  Only a client that itself outlived its
\* killed stage may slip through the gate of the next one.
ProbedBeforeSent ==
    \A c \in Runs : probe /\ (\E r \in Requests : request[c][r] # "unsent") =>
        c \in killed \/ \E b \in killed \cup {c} : <<b, c>> \in probed

\* Whichever way the stage ends, no client, no sampler and no probe outlives it,
\* unless it was killed.
NoOrphans ==
    \A c \in Runs :
        (client[c] \in Alive \/ c \in sampler \cup prober) /\ (c # n \/ stage \in Over)
            => c \in killed

\* What is joined is the results, the decisions and the completions of this
\* invocation, unless an earlier one was killed; and the worker events of this
\* invocation, unless one of it, or of an earlier one, was late.
EvidenceIsOwn ==
    joined # NoJoin /\ killed = {} =>
        /\ joined.results.run = n
        /\ \A i \in DOMAIN joined.trace : joined.trace[i].run = n
        /\ fault \/ \A e \in joined.slice : e.run = n

\* A stage does not fail by itself: if it fails, a command, a request, a
\* timeout, a late row or a signal is to blame, in this or in a killed run, or
\* some request went a way that is not accepted, or none went one that is
\* required.
Wayward == \E r \in Requests : way[r] \in {"astray", "mismatched"}
PathsMissing ==
    /\ \A r \in Requests : way[r] # "unseen"
    /\ \E path \in Required : \A r \in Requests : way[r] # path
FailsForAReason == stage = "failed" => fault \/ killed # {} \/ Wayward \/ PathsMissing

\* Every wait of the stage is bounded: once begun, it ends.
StageEnds == [](stage \notin Over => <>(stage \in Over))
=============================================================================
