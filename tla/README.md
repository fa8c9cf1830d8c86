# A verification development for workload-aware-kv-cache

The repository measures how the placement of LLM requests interacts with the KV caches of
several vLLM backends. It has a small affinity router with mock backends (`router/`), a load
generator (`benchmarks/run_benchmark.py`), shell scripts that run long experiments on a four-GPU
stack (`scripts/`), and tools that join, validate, select and analyse what the experiments leave
behind (`benchmarks/`). A wrong interleaving here rarely crashes anything: it silently biases a
measurement, or pairs two runs that may not be compared. That is what the properties are about.

Everything is in this directory. `PROJECT.json` has the machine-readable part: the components,
the TLC runs, the map from every definition to the lines it stands for, the hazards with the
properties that cover them, and the theorems.

Contents: [1 Inventory](#1-inventory) - [2 Modules](#2-modules) -
[3 How the models correspond to the code](#3-how-the-models-correspond-to-the-code) -
[4 What the runs check](#4-what-the-runs-check) - [5 What is proved](#5-what-is-proved) -
[6 What is not modelled](#6-what-is-not-modelled) - [7 A divergence](#7-a-divergence) -
[8 Plan](#8-plan)

## 1. Inventory

| component | state | operations | interacts with |
|---|---|---|---|
| affinity router (`router/app.py`, `cache_registry.py`, `routing_policy.py`) | two TTL maps (prefix, session -> backend), `active_requests` per backend, the trace file | `completions` (choose, post, stream, commit, trace), `reset`, lazy expiry | clients and backends over HTTP |
| mock backend (`router/mock_backend.py`) | the prefixes it has seen, the position of its seeded random numbers, `active_requests` | serve (hit or miss, drawn failure, a generator per stream), `reset` | router |
| load generator (`benchmarks/run_benchmark.py`) | a task per session or request, a semaphore, a connection pool, the result list | `issue`, `run_session`, `scheduled`, `gather`, the start gate | router; stage runner (ready and gate files) |
| experiment windows (`scripts/run_four_h20_kv_v2_1.sh`, `_v2_2.sh`, `_v2_3.sh`, recorders) | completion markers, attempt of the formal pair, frozen configurations, project record, active seconds | begin, record and mark a stage; the `finish` trap; resume | stage runner, selectors |
| stage runner (`scripts/run_four_h20_stage.sh`, `refresh_v2_1_router_tier.py`, `sample_backend_metrics.py`) | run directory, logs, background processes, the probe, gate | start router and client, probe, open the gate, cut traces, join, validate | client, router, workers (files) |
| four-H20 stack (`scripts/four_h20_stack.sh`) | pid files, processes, cache tiers, the controller's view | start, stop, reset, clear a tier | vLLM, LMCache, Mooncake |
| trace join (`join_traces.py`, `filter_router_trace.py`, `validate_trace.py`, `validate_four_h20_run.py`) | files in, files out | match client, router and worker rows | stage runner |
| single-H20 experiments (`single_h20_v2_1.py` and relatives) | phases of a run over the cache tiers | prime, evict, refresh, measure | stack |
| calibration and selection (`select_*.py`, `freeze_*.py`, `fit_*.py`) | reports, frozen configurations | choose from measured runs | windows |
| arrival traces and profiles (`generate_arrival_traces.py`, `generate_v2_2_arrival_traces.py`, builders of profiles) | the index of sessions and turns, the clock of the process | select a profile, order it in cohorts and waves, draw the times | load generator, session LRU |
| SSE accumulator (`benchmarks/sse.py`) | the buffer of one stream, its contents and `done` | `feed`, `validation_error` | load generator |
| session LRU analysis (`analyze_v2_2_cache_working_set.py`) | a simulated cache of sessions, its counts | use a session, evict | arrival traces |
| repository snapshots and workloads (`repo_context.py`, `prefetch_repos.py`) | archives and bare git repositories on disk, a manifest | `ensure_archive`, `ensure_repo`, `ensure_commit` in a pool of workers | curl, git |
| older windows, analysis, readiness, installation | - | superseded, or statistics over finished files | - |

Where the hard behaviour is, and what makes each component right:

* **Router.** Handlers interleave at every `await`. `reset` empties the registry and then one
  backend after the other, while streams that began earlier still commit. A request has three ends
  (connection error, end of stream, client gone). Right means: counters and trace rows are exact
  whatever the end, affinity follows the last success within its lease, and an entry that leads to
  a cold cache has an explanation.
* **Load generator.** A turn waits for its predecessor and for a slot, and the order of these two
  waits decides whether the replay can deadlock. Right means: turns in order, never more than
  `--concurrency` under way, every slot comes back, all results or none.
* **Windows.** A run of hours is killed, fails and is resumed at any point. Right means: a marker
  vouches for runs that are really there, and the published comparison is of one attempt and one
  frozen configuration.
* **Stage runner.** Four processes meet through files: a handshake with time limits, traces that
  are written late, background processes that must not outlive the script, and the leavings of an
  invocation that was cut off under the same name. Right means: what is joined is the run's own.
* **Stack.** Pid files outlive processes and name whatever has the pid by now; the script is killed
  between a fork and the file that would remember it; the controller's view lags behind the
  stores. Right means: a process that can serve is one that `stop` finds, and a boundary is cold.
* **A stream.** Two connections cut it at different places, and two programs decide independently
  whether it was whole. Right means: they agree, and no cut changes what is read.
* **Join.** Three witnesses of one request, each with rows that may be missing, late or doubled.
  Right means: what is joined is what happened.
* **Arrival traces.** What is compared is as good as the order and the times of the requests. Right
  means: turns in order and nothing lost whatever is shuffled, a rate that alternates as announced,
  sessions of one cohort together, so that a cache that holds a cohort can be of use.
* **Snapshots.** Downloads are killed, fail, and live on behind the back of their invocation. Right
  means: what has the name of an archive is a whole archive.

## 2. Modules

| module | role |
|---|---|
| `Placement` | abstract: where requests go - affinity to the last success within the TTL, otherwise the backend with the fewest requests in flight |
| `Router` | the router, its registry and policies, and the backends' prefix caches; implements `Placement` |
| `Replay` | abstract: the turns of a session in order, at most `Concurrency` at once, none after a lost one |
| `Bench` | the tasks, the semaphore, the connection pool, the end of a run; implements `Replay` |
| `Window` | the windows V2.1, V2.2 and V2.3: markers, attempts, records, configurations, runs |
| `Stage` | one measured run: script, client behind the gate, sampler, late traces, join |
| `Stack` | the stack script, its pid files and processes; caches and the controller across a reset |
| `SSE` | the client's reader of a stream, as operators over abstract bytes |
| `Streaming` | one answer on its way through mock backend, router and client; uses `SSE` |
| `Snapshots` | the pool that fetches archives and commits, its files, its kills |
| `TraceJoin` | requests with several attempts, their traces, validation and join |
| `ArrivalTrace` | both generators: profile, order and times of the requests |
| `WorkingSet` | the simulated cache of whole sessions |
| `Screening` | `WorkingSet` on the traces of `ArrivalTrace` |
| `MCRouter`, `MCBench`, `MCStack`, `MCStreaming`, `MCSnapshots`, `MCTraceJoin`, `MCScreening` | constants for TLC (`Window` and `Stage` take theirs from the .cfg files) |
| `RouterProofs`, `BenchProofs`, `StageProofs`, `StackProofs`, `SnapshotsProofs`, `StreamingProofs` | the theorems about one module each, and their proofs |
| `WindowProofs` | those about `Window` and about `TraceJoin` |
| `ArrivalTraceProofs` | those about `WorkingSet`, `ArrivalTrace` and `Screening`, in this order |

`Bench` and `Stage` meet in the client: `Bench` has its tasks and takes the gate as open, `Stage`
has its gate and takes its requests as independent. `Stage` and `Window` meet in the run:
`Stage` shows what one run may leave behind, `Window` takes a run as four steps (begun, served,
joined, validated) that may be cut off between any two.

`Router` and `Streaming` share the router. `Router` has many requests, the choice of a backend and
the registry, and knows of an answer only whether its end marker came whole, in halves or not at all
(`RelayDone`, `RelayHalf`). `Streaming` opens that step up: every byte of one answer, both
connections, and the client behind them. `Stage` and `TraceJoin` share the join. `Stage` has
one attempt per request and two invocations whose rows may be mixed up; `TraceJoin` has one invocation
and several attempts per request, and the rules on paths, of which `Stage` has only the outcome
(`Ways`).

`ArrivalTrace` ends where `Bench` begins: `TurnsInOrder` is what the chains of `Bench` take for granted
(and `Bench` is also checked on a trace that lacks it). `Screening` extends it and `WorkingSet`: the
simulation reads a trace that is finished, and the one run of `Screening` checks all three. `ArrivalTrace`
and `WorkingSet` share no variable, so a step of either leaves the other where it is.

Names ending in the sense of a fault (`NotLowered`, `PrepareKeepsGate`, ...) are mutants: variants
of the definition below them, with a bug the code could plausibly have. Every property is violated
by at least one of them.

## 3. How the models correspond to the code

**Router.** One action per stretch of code between two `await`s; asyncio runs nothing else in
between. `Place` is `choose` and the increment of `active_requests`; `PostFails` the `except
ClientError`; `RelayDone` and `RelayHalf` the two ways `[DONE]` can arrive (whole, or cut by the
transport, in which case `completed` is never set); `ClientLeaves` and `StreamCloses` the
suspended generator and its `finally`. `ResetRegistry` and `ResetBackend` are the two halves of
`/reset`. Expired entries are popped by the lookup only, as in `_get`. `outlived` is a history
variable.

**Bench.** `Acquire`, `WakeNext` and `Release` are asyncio's semaphore (external), including the
window in which a woken task has not resumed (`granted`). `Chain` is the loop that links a task
to the last task of its session *in the order of the arrival trace*. `Connect` is the connector's
limit; `Result` may end a request that never got a connection, as the total timeout does.
`RunCrashes` is `gather` re-raising.

**Window.** A stage is a script of steps; `Begin`, `Check`, `Freeze`, `Publish` and the
`Run*` actions execute it, `RecordPass` and `Mark` end it in the order of the version (V2.1
records first, V2.2 marks first). `Fails` is how the trap `finish` begins: it writes down the active
seconds first; `RecordFail`, `Unmark`, `Bump` are the rest of it, one command at a time; `Die` can cut in
before each, and may lose the seconds. `Fail` is a command that fails anywhere. `Tick` lets time pass while
the script is at work: `spent` is `elapsed_active`, `HasTime` the guard of `remaining_seconds`, and
`RunOutOfTime` is both a run that is refused and one that `timeout` ends. `RunBegins` moves an old directory
aside; `RunServes` is the client, which fails if there is one. `logs` stands for a run's router trace and
metrics in the log root, `copied` for their copies in its directory.

**Stage.** `Prepare` to `Launch` are lines 158-187 of the script, `ClientStarts` to `ClientWrites`
the client (its directory, the handshake, its requests, `requests.jsonl`), `SeesReady`,
`SeesExit`, `ProbeSucceeds` the other side of the handshake, `Cut` the copying of what the workers
wrote since the offsets, `JoinFails`/`Join` the forty attempts, `Joinable` what `join_traces.py`
and `validate_trace.py` accept, `Valid` what `validate_four_h20_run.py` does. `Terminate` is a TERM: the
trap runs but does not exit, so the script goes on; bash runs it only when no command is in the foreground,
so not while the probe runs. `Kill` is a KILL: no trap, and client, sampler and probe live on. `prober` has
the probes that are alive: one whose script was killed opens whatever gate is shut when it succeeds, that of
the next invocation too. Router and workers are external; a row or an event reaches its file at any later
time, the events of one request in their order. Decision ids are taken to be `<request>:<attempt>`, as every
trace in `tests/` has them, so they do not tell invocations apart.

The rows and events also tell the path a request was sent and the one it took. `Stage` keeps what the checks
make of that, its *way* (`Ways`): a path that the run must show; another one, or one that was given up for a
reason; `astray`, what the join refuses (`join_traces.py:67-88`); `mismatched`, what only the validation
refuses (`path_mismatches`, and the order of the events of V2.3, `validate_four_h20_run.py:112-153`). The
checks are `AsSelected` and `Valid`, and `Evident` is the evidence on required paths and modes
(lines 154-160). Ways become known in `Cut`; nothing looks at them before.

**Stack.** `step` is the next command of the script, `rest` the services it still has to visit.
`RefusesToStart`, `Fork` and `WritePid` are `start_process`, the fork and the `echo $!` apart;
`WaitReady` and `WaitFails` are `wait_http`, which asks the port before it asks for the process;
`NoPidFile`, `Term`, `Kill` and `RemoveFile` are `stop_one`. `ClearCaches`, `Forget` and `ClearL1` are
the calls of `reset_caches` and `clear_l1`, each of which may fail under `set -e` (`CurlFails`).
Processes are external: `Bind`, `BindFails`, `Leaves`, `Crash`, and `Stranger`, which takes a free
pid. `Dies` ends the script between any two commands, `Reboot` everything but the files. `news` is
the ordered stream of a backend to the controller, `view` what the controller has heard.

**Streaming** and **SSE.** Bytes are abstract: the tokens that somebody looks for (`data:`, `[DONE]`,
the JSON around a content), two halves of one character, a line end of one or two bytes, and a
character that `splitlines` takes for a line end. `Answer` is the handler of the mock up to its
`StreamingResponse`, with the draw from `rng`; `Begin` and `Finished` are the two ends of its
generator's `try`. `Relay` is one turn of `iter_any` in the router and looks for the marker
in that chunk alone, `Receive` one of the client and is `Feed` of the reader. `Symbol` is
`decode(errors="replace")` and the replacement of CRLF, byte by byte; `ReadCharacter` is `splitlines`
with the loop over the lines, character by character; `ReadSymbol` is the loop over the events. What the
code does to a whole text is done there from left to right, which comes to the same, since no buffer
holds a blank line between two chunks. An empty piece of content is read and skipped, as
`if content:` does.

**Snapshots.** `Items` is the set of futures, `Take` a worker that begins one. `LookFinds` to
`Rename` are `ensure_archive`: a curl opens `.part` when its first bytes arrive and keeps writing to
that file under whatever name it has by then (`Moved`). `is_tarfile` is what it does - it looks at
the first bytes. `MakeDir` to `FetchFails` are `ensure_repo` and `ensure_commit`, `Collect`,
`Conclude` and `Raise` the loop over `as_completed` and the exit of the pool, which waits.

**TraceJoin.** `life` is what really happened to a request, attempt by attempt; `trace` and `log` are what
the files say of it, `lost` counts the rows of the router that were lost. A client may give up at any time
(`ClientEnds`): its attempt may then still be open, and the router makes no other. `Decide` and `Complete` write the
router's rows, `Worker` an event that is flushed later; the faults lose, delay or double one row. `Valid`,
`FinalAttempt`, `LifecycleComplete` and `PathAsSelected` are the checks in the order of the code; a join
that is refused may be tried again, as `Stage` does.

**ArrivalTrace.** A request is the place of its row. `Select` to `AllRead` are the profiles and the index,
in which the last row of a session and turn stands for it; `NextCohort`, `NextTurn`, `Emit` are the three
loops with their shuffles as arbitrary choices, `EmitSorted` the order of the older program. `Draw`,
`Cross`, `Arrive` are `_piecewise_offsets`, one pass of its `while True` each, in units of time in which
every quotient is whole (`drawn` keeps, as a history, the hazards drawn so far, added up); the rescaling at
the end is by one factor and left out, but `Finish` divides by the last offset as the code does.

**WorkingSet.** `Renewed` is the pop and the insertion of the `OrderedDict`, `Evicted` the number of
sessions that the `while` pops, `Refilled` the running sum. `log` is a history of the uses, and what an
ideal LRU cache holds is said of it alone: a session is there as long as the sessions used since, each in
its last size, never needed more than the capacity (`Footprint`). Sums are running sums, a recursive
function of the position.

**Screening.** `RowFor` is the dictionary from request ids to rows, which keeps the last row of an id.
`CohortsHit` supposes that a request id is that of one session (`RequestsOfOneSession`), as
`workload_generator.py` builds them: `f"{session_id}-t{turn}"` (lines 121, 175, 247, 292).

## 4. What the runs check

| run | instance | what it shows |
|---|---|---|
| `router_races` | 2 requests, 2 backends, TTL 1, clock to 2, one reset, all policies and an unknown one, symmetric requests | `Router` implements `Placement` (`RefinesPlacement`); `ActiveCountsInFlight`; `OneRowPerFinish`; `ColdAffinityExplained` |
| `router_quiet` | 3 requests of one prefix, reset only when idle | `AffinityIsWarm` - what `run_simulated_experiment.sh` relies on when it resets between policies; `PlacedIsTraced` |
| `bench` | 6 requests of 4 sessions, 2 slots, 1 connection, both modes, 3 arrival traces (one with two turns swapped), with and without a pause | `Bench` implements `Replay`; `SlotsConserved`; `AllOrNothing`; `RunEnds` |
| `window_v21` | all 7 stages and their 15 run names, any 2 failures or deaths, a limit of 1 unit of time | `CompletedIntact`, `PairIsFair`, `RecordedBeforeNext`, `NoChangeOfGear`, `Concludes` |
| `window_v22` | the V2.2 stages with the replicate pair of V2.3, any 2, a limit of 2 units | `CompletedIntact`, `PairIsFair`, `Concludes` where the record is written after the marker |
| `window_evidence` | V2.1, one failure, a limit of 2 units | a violation: see section 7 |
| `stage_races` | one request, 2 invocations of one name, 2 attempts to join, one required path, gate and no gate | `ProbedBeforeSent`, `NoOrphans`, `EvidenceIsOwn`, `FailsForAReason`, `StageEnds` |
| `stack` | 2 backends and a router, 3 pids, any 3 actions of the script, 2 faults, 1 request | `Tracked`, `StopClears`, `BoundaryIsCold` |
| `streaming` | 2 requests to the mock with one prefix, or 1 to a foreign server with one of 4 answers; 1 reset, 1 fault | `StreamsCounted`, `RoundsAlike`, `ReadAsMeant`, `RouterAgrees` |
| `snapshots` | 3 tasks, two of them the same, of one repository; 2 workers, 2 attempts, 3 invocations, 1 kill | `SnapshotsWhole`, `RefusesOnlyCutOff` |
| `trace_join` | 1 request, 2 attempts, 3 paths, 1 fault of a row | `JoinTellsTruth` |
| `screening` | both generators and the simulation on 7 workloads of 2 to 4 sessions, cohorts of 2, draws of 0 and 5 at the rates 2 and 1, a cache of 6 | `TurnsInOrder`, `NothingLost`, `CohortStaysActive`, `ArrivalsFollowRate`, `SimulatesLRU`, `CohortsHit`, `ScreeningEnds` |

The type invariants (`TypeOK`) are theorems, section 5, and no run repeats them.

*Bounds.* Two requests and one reset give every order of place, serve, commit and reset; the TTL
of 1 within a clock of 2 gives an entry that is live, one at its last instant, one that lapsed and
was taught again. The third request of `router_quiet` is there for the two that find a home
taught by a first, the reset in between. In `bench` the sessions outnumber the slots, one session has three
turns, and there are fewer connections than slots. Two ends of a window are enough for the trap to be
cut off by a death, and for a failure after a resumption; `Start` allows one invocation beyond them, so that
every window is resumed after the last of these ends, and one that is out of time then fails once more. A
unit of time is as long as one likes, since `Tick` may come anywhere: with one unit the time is either left
or used up, before or during any run; with two, some of it is used up in one invocation and the rest in
another. In `stage_races` everything that can be confused has one key, (request, phase), so one request meets
its own past; two requests would only repeat it. A second attempt to join is what separates a row that is
late from one that never comes. A third invocation would meet what two killed ones left, which has the same
keys again; for the same reason the last one is not killed, and what it has no more use for is not
written (`Read`, a bound, as all of it could only matter to an invocation after it). The theorems
are for any number of invocations and requests.

In `stack` three actions are enough for start, stop and start, or for a start that fails, a stop and
a reset; two faults for a script that is killed and a machine that restarts, or two crashes; three pids
for the three services, or for a stray, a stranger and one more. A foreign stream is cut anywhere on
both connections; what is there of a mock's stream arrives in one piece, since its cuts
would add nothing to those of the foreign one. In `snapshots` the repeated task is what two workers
could fetch at once, and the third invocation is the one that meets an orphan of the first and the
archive of the second. One fault of a row in `trace_join` is what the checks of the code are made
for; when *both* rows of the last attempt are lost, nothing in the files tells that it existed, and
the attempt before it passes for the last one: with `MaxFaults = 2` TLC finds that, and `JoinTellsTruth`
speaks of traces that miss at most one row. An attempt that is open because its client gave up has only one
row as yet; with that row lost it is not seen either, and the property leaves out requests whose attempt was
open when the traces were joined. The theorem needs no bound on the other faults.
In `screening` a segment of the high rate makes up a hazard of 4 and one of the low rate 2, so a
draw of 5 spans two or three segments, and the second of two such draws ends exactly at a boundary;
the workloads have sessions that grow, that skip a turn and that stand in the file with a later turn
first. Of all but the last any two sessions fit into the cache of 6; the last has a session that is
larger than the cache and evicts itself, and others that shrink to nothing, grow and are evicted in
between.

*What the exceptions say.* These properties name the cases in which the code does less than one would like;
TLC finds a violation when an exception is taken out. `ReadAsMeant`: a character that is cut is replaced by
two; a CRLF cut at the very end of the stream loses the `[DONE]`, and the client counts an answer that was
whole as failed; a content with a character like U+2028 is dropped, since `splitlines` ends the line there.
`RouterAgrees`: a cut `data: [DONE]` is a success for the client and not for the router. `NothingLost`: a
row whose session and turn occur again later is replaced without a word. `SnapshotsWhole`: a curl that
outlived its invocation and had not opened its output shares the `.part` with the next one.
`Concludes`: a window whose active time is used up while a stage with runs is not done fails at
every later resumption; one that has only the analysis to make still makes it. `ProbedBeforeSent`: a client
that outlived its killed stage may slip through the gate of the next one; and the probe that saw the router
may be that of a killed stage, which opened the gate while the client's own invocation held it (it saw the
router that serves the client, or the one before). `EvidenceIsOwn`: worker events are the run's own
only if none was late, since ids and keys of two invocations are the same. `RefusesOnlyCutOff`: a repository
whose creation was cut off is refused for ever. `BoundaryIsCold`: the controller may name a place of a store that it heard of too late, until the removal
that follows is heard as well, or for good if the backend ended in between; and a backend with a request
running keeps what is in use. `Tracked`: a script that is killed between fork and `echo` leaves a process
that no file knows.

*Fairness.* Router: weak fairness on the answer of a backend (or the break of the connection) and on the end
of a stream; the router itself sets no upstream timeout, so this is an assumption on backends. Bench: weak
fairness of each task, which the event loop gives, and of the total timeout that ends every request. Window:
the shell goes on, and someone resumes a window that is not complete; failures are bounded by `MaxEnds`,
except those of a limit that is used up. Time may pass at any step and has no fairness.
Stage: the script and the clients go on; every wait of theirs has a limit. Router and workers need no
fairness there, which is the point of `StageEnds`. Screening: two sequential programs, one after the other,
which go on. The probe and the curls of `"$STACK" reset` are commands of the script and taken to end;
the probe has a time limit of its own, two of those curls (`four_h20_stack.sh:239`, `255`) have none, so for
them that is an assumption on the stack. Runs without a temporal property use the specification without fairness.

*Deadlock* is checked where stopping would be a fault (`bench`, where the end is an explicit
stuttering step). It is not
checked where the bound on requests or invocations makes the model stop (`router_*`, `window_*`,
`stage_races`, `stack`, `streaming`, `snapshots`, `trace_join`), nor where a program is over at its end (`screening`).

## 5. What is proved

By TLAPS, for every value of the constants that satisfies the named assumptions (`ConstantsAssumption`,
`BenchAssumption`, `StageAssumption`, `StackAssumption`, `SnapshotsAssumption`, `WindowAssumption`,
`TraceJoinAssumption`, `ArrivalAssumption`, `WorkingSetAssumption`, `StreamingAssumption`: finite sets,
naturals, headers over the declared keys, predecessors that form chains, lists of tasks and of rows, a
success rate of at most 1). The bounds of the models (numbers of requests, ends, kills, faults,
invocations) are constants as well, so a theorem holds for all of them.

* **`RouterProofs`.** `TypeCorrect`; `CountersExact` and `RowsExact` (via `CountInv`: a request
  that is in flight has a backend, and the counters equal the sets of requests they count);
  `ColdEntries` (via `AffinityInv`: every entry was taught by a request that a backend served, and
  either that backend still holds the prefix or the request outlived a reset); `WarmAffinity` (via
  `QuietInv`: with quiet resets no request is in flight while one runs, so none outlives it);
  `RouterImplementsPlacement`, a step-by-step simulation.
* **`BenchProofs`.** `BenchTypeCorrect` and `SlotsNeverLeak` (via `SlotInv`: free slots and holders
  add up, and the line of waiters is exactly the queued requests, each once, without which `Release`
  could hand a slot to a request that does not wait); `BenchImplementsReplay` (via `OrderInv`: a
  request that holds a slot has a predecessor that is done); `ResultsAreWhole` (via `ResultInv`: a
  request has its one result from the moment it was answered, and the results are written when all are).
* **`StageProofs`.** `StageTypeCorrect`; `NothingOutlives` (via `OrphanInv`: what the script knows
  of its client at each of its steps - it exits after `wait` only when the client is over, and
  before only when the trap can terminate it; a probe is that of the stage while it waits for it, or of a
killed one); `GateHolds` (via `GateInv`: an open gate was opened
  while the invocation under way was, and no client has sent anything before it was let through). `GateHolds`
  rests on `NothingOutlives`: a client that waits and is not the stage's own belongs to a killed one.
  `EvidenceHolds` (via `OwnInv`: a new router knows no request of an earlier invocation; a completion
  that the old one appends stands before every decision, which is why the order of the two is checked;
  an event flushed late is a fault) and `FailuresHaveReasons` (via `SmoothInv`: as long as nothing goes wrong,
  the trace has the rows of this invocation, each request that succeeded has its events, and what
  is not in the trace yet is on its way, so that the last attempt to join can only meet rows that are late, or ways that are not accepted).
* **`StackProofs`.** `StackTypeCorrect`; `PidFilesTrack` (via `PidInv`: `Tracked`, and what the script knows
  of the pid it has forked or is about to kill); `StopEndsAll` (via `StopInv`: while `stop_all` runs, a
  service whose file is still there is on its list, and, by `OrderFacts`, its list begins with all);
  `BoundaryStaysCold` (via `ClearInv`: what the calls of `reset_caches` have emptied so far; `NewsInv`: what
  a backend has stored and lost again, it tells of losing after it tells of storing; `BusyInv` and
  `ColdInv`: only a backend marked as warm has filled a store since).
* **`SnapshotsProofs`.** `SnapshotsTypeCorrect`; `GitRefusesOnlyCutOff` (via `DistinctInv` and `CutInv`: the
  items of a pool are distinct, so no worker meets what another one is making); `ArchivesAreWhole` (via
  `DiskInv`: a worker or an orphan is the only writer of an unraced snapshot, so what it checks is what it
  renames; `ResultsInv`, `RowsInv` and `CoverInv` for the manifest).
* **`WindowProofs`**, for both versions and any number of ends. `WindowTypeCorrect`; `MarkersVouch` (via
  `DoneInv`: a step that the script has passed left its run there; `OneOwner`: no other stage has
  a run of that name, so no later step touches it); `GearStays` (via `GearInv`: a paired run exists only after
  the calibrations are marked, and a marked one is never frozen again); `AnalysisIsFair`;
  `RecordsComeFirst` (via `RecordInv`). And, for any number of requests, attempts and faults,
  `JoinsAreTrue`: what `TraceJoin` joins is what happened (via `RowsInv`: how often each row was
  written, lost and doubled, so that an attempt of which nothing is left has lost two; `LifeInv` and
  `EventsInv`: a worker's events are flushed or on their way, and tell what its attempt really did;
  `JoinedAtEnd`: when the traces are joined every client has ended, and `FinalIsLast`: a request that has no
  open attempt is joined with its last one).
* **`ArrivalTraceProofs`**, for every workload, every shuffle, any draws and any capacity.
  `ArrivalTypeCorrect`; `TurnsArriveInOrder` (via `IndexInv`: the index has a session and turn once,
  `WaveInv`: what is left of a wave comes after all that its sessions have sent and before the turns to
  come, `SortedInv`); `CohortsStayTogether` (via `CohortInv`: since the first request of an active session
  only its cohort has sent any); `EveryRequestArrives` (via `ReadInv` and `CoverInv`: what is in the index
  has been sent, or is in the wave, a turn to come or a session that no cohort has taken).
  `ArrivalsAreOfTheRate` (via `RateInv`: the hazard that the clock has behind it and what is left of the
  draw add up to what was drawn; `SegmentFacts` to `HazardGoesOn` are the arithmetic of the segments of the
  two rates). `SimulationIsLRU` (via `LRUInv`: each entry of the cache is the last use of its session, in
  the order of these uses and in its size, and what is not in the cache was once pushed out: `Mirrors`,
  `Complete`; `Rest` is what an entry and all behind it take, which is the footprint since its use, and so
  the evictions of a `while` are those of the definition). `CohortsAlwaysHit` (via `RunsInv`: between two
  turns of a session only its own cohort sends; `LogInv`: the simulation reads the trace in its order;
  `FootprintBound`: the footprint of a part of the log is at most what its sessions take in their largest
  sizes).
* **`StreamingProofs`**, for any number of requests and resets, any prefixes and seed. `EveryStreamCounted`
  (via `CountInv`: only the server that is up has handlers, and each runs once); `ResetsRestart` (via
  `DrawInv`: every round has read a prefix of the same numbers; `SeenInv`: the cache holds the prefixes that
  the round under way has served). `BothAgree` (via `FlowInv`: bytes only leave from where they arrived, the
  end is passed on only behind all bytes, and a router that relayed the marker uncut saw it).
  `StreamsAreRead`, for all replies with any number of pieces of any text and all cuts (via `ReadInv`: after
  every chunk the reader stands at one place of one event of its stream - `Placed` - where its buffer holds
  what was told of that event and its contents the pieces of the events before). A buffer is what its lines
  were, so `Standing`, the reader that had read them already, is what a step of the proof moves: the end of
  an event closes the line under way and changes nothing else. `TailAt` is the same for the last event,
  whose line end a cut may spoil.

Induction over data is done with sets: `NatMin` and `NatInd` come from the minimum of a set of naturals
(`WFMin`), and a recursive function is the `CHOOSE` of its equation, which has a solution, and only one.

*Only model-checked*: the liveness properties (`PlacedIsTraced`, `RunEnds`, `Concludes`, `StageEnds`,
`ScreeningEnds`), which rest on fairness and `ENABLED` and are out of the prover's reach. Every safety
property of the runs that pass is a theorem.

## 6. What is not modelled

* *Router*: health changes (`healthy` is fixed in the code too); a response whose body the server
  never starts to send, whose `finally` would not run; a reset that failed for the router and
  reaches the backend later; delays, metrics.
* *Bench*: the arithmetic of the summary; the writing of `requests.jsonl` is one step.
* *Window*: torn writes (an active-seconds file left empty by a kill would count as 0), dry runs, `--from`;
  the stage script dies with its window (that it may not is the subject of `Stage`). How long the time
  limit is in runs is left open: `Tick` may use it up anywhere.
* *Stage*: other commands in the foreground than the probe that survive a SIGKILL of the script: `"$STACK"
  router` or `reset`, the join and the copies of a killed invocation may overlap with the next one.
  Failover attempts of the join; a path that was given up for a reason is `other`, so that the
  selected path of a request and the one it took are not required one without the other; rows of the probe (filtered before the
  join), several backends (events of two invocations are given the same key, the worst case); that the
  background subshell is replaced by the client, as bash does with the last command of a subshell.
* *Stack*: two invocations at once; `start-pd` and `preflight`; the processes that `start_kv` starts
  before the backends (Mooncake, controller), which go through the same functions; `RESET_EXTERNAL=false`;
  the renaming of old traces. That a stale pid file makes `stop` signal a stranger is in the model,
  and no property speaks of it: the script has no means to tell.
* *Streaming*: delays; several mocks; a router that restarts; JSON that is malformed in other ways
  than by a cut. The mock and the foreign server are not up together.
* *Snapshots*: two invocations at once (`run_guarded.sh` has a lock); the loss of what was not
  yet on disk; the choice between download modes, which is folded into `Attempts`; partial effects
  of one git command; the reading of an archive.
* *TraceJoin*: several loads in one attempt, timestamps, the numbers in the rows; a decision id is taken to name
  its request and attempt; `filter_router_trace.py` and the statistics of `validate_four_h20_run.py`.
* *Single-H20 experiments*: one sequential program per experiment, which asks a real stack to be in a state
  and raises otherwise. Its waits on the controller rest on the same lag as `Stack`.
* *Arrival traces*: the rescaling of the offsets to a mean rate, the arithmetic of floating point, the
  builders of profiles, which select rows of one file into another.
* *Selection*: functions from files to files, with arithmetic on measured numbers; neither several actors
  nor steps that can be cut off. When they run, and whether their result is frozen, is in `Window`.
* *Rest*: see the components with status `not_modelled` and their notes. Installation, readiness
  checks and statistics keep no state that steps of several actors share.

## 7. A divergence

`window_evidence` checks what the FAIL record of `run_four_h20_kv_v2_1.sh:212` says: the original run
and its logs are kept. TLC finds the run of a failed stage whose router trace and metrics are removed
when the window is resumed (`run_four_h20_stage.sh:162`): only K04 and K05 have the attempt in
their run names, and the logs are copied into the run directory only after the join succeeded. The
directory is moved aside; the logs are gone.

## 8. Plan

1. `Bench` on the traces of `ArrivalTrace`, with the times as well as the order.
2. The rules of `select_v2_1_formal_rps.py` and `select_v2_2_thresholds.py`, with what `Window` freezes.
