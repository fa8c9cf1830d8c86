------------------------------- MODULE Stack -------------------------------
(***************************************************************************)
(* The four-H20 stack, scripts/four_h20_stack.sh: the script starts and    *)
(* stops long-lived processes that it knows by their pid files only, and   *)
(* makes the boundary of an experiment by clearing the caches of the       *)
(* backends, and what the cache controller says of them.                   *)
(*                                                                         *)
(* One invocation of the script runs at a time.  It may be killed between  *)
(* any two commands; a process may end by itself; the machine may restart, *)
(* which leaves the pid files behind.  A pid that is free may be given to  *)
(* a process that has nothing to do with the stack.                        *)
(*                                                                         *)
(* Processes, caches and controller are external.  A backend keeps one     *)
(* prefix in the tiers hbm, l1 (LocalCPUBackend) and l2 (RemoteBackend);   *)
(* it tells the controller of what it stored and removed in l1 and l2, in  *)
(* order and some time later.                                              *)
(***************************************************************************)
EXTENDS Integers, Sequences, FiniteSets, SequencesExt

CONSTANTS
    Backends, Router,
    StartOrder,    \* the backends in the order of start_kv
    Pids, NoPid,
    MaxOps, MaxFaults, MaxRequests   \* bounds

Services == Backends \cup {Router}

ASSUME StackAssumption ==
    /\ Router \notin Backends
    /\ StartOrder \in Seq(Backends) /\ StartOrder # <<>>
    /\ \A b \in Backends : \E i \in DOMAIN StartOrder : StartOrder[i] = b
    /\ NoPid \notin Pids /\ {"nothing", "stranger"} \cap Services = {}
    /\ MaxOps \in Nat /\ MaxFaults \in Nat /\ MaxRequests \in Nat

External == {"l1", "l2"}
Tiers == External \cup {"hbm"}
Actions == {"start-kv", "router", "stop", "reset", "clear-l1"}

VARIABLES
    op, step,   \* what the script was asked to do, and its next command
    rest,       \* the services that are left, the current one first
    pid,        \* $! or $(<"$pid_file")
    file,       \* the pid file of a service
    runs,       \* what a pid names: a service, nothing, a stranger
    mode,       \* starting, serving, dying (killed, not gone yet), ended
    termed,     \* the pids that were sent a TERM
    busy,       \* a backend has a request running
    holds,      \* the tiers that hold the prefix
    news,       \* what a backend has yet to tell the controller
    view,       \* the locations the controller names
    result,     \* the last action that exited with 0, or failed, or none
    strays,     \* history: pids whose file a killed script did not write
    warm,       \* history: backends with a request since they were cleared
    unheard,    \* history: backends that had stores to tell when forgotten
    hushed,     \* history: backends that ended since with something to tell
    ops, faults, requests

scriptVars == <<op, step, rest, pid, result, ops>>
processVars == <<file, runs, mode, termed, strays>>
cacheVars == <<busy, holds, news, view, warm, unheard, hushed, requests>>
vars == <<scriptVars, processVars, cacheVars, faults>>

Init ==
    /\ op = "none" /\ step = "idle" /\ rest = <<>> /\ pid = NoPid
    /\ file = [s \in Services |-> NoPid]
    /\ runs = [p \in Pids |-> "nothing"]
    /\ mode = [p \in Pids |-> "ended"]
    /\ termed = {}
    /\ busy = [b \in Backends |-> FALSE]
    /\ holds = [b \in Backends |-> {}]
    /\ news = [b \in Backends |-> <<>>]
    /\ view = [b \in Backends |-> {}]
    /\ result = "none" /\ strays = {} /\ warm = {} /\ unheard = {} /\ hushed = {}
    /\ ops = 0 /\ faults = 0 /\ requests = 0

----------------------------------------------------------------------------
(* What the script sees. *)

Current == Head(rest)

\* kill -0
Alive(p) == p # NoPid /\ runs[p] # "nothing"

\* curl of the health URL: whoever has the port answers.
Answers(s) == \E p \in Pids : runs[p] = s /\ mode[p] = "serving"

(* What happens to processes and caches. *)

\* p is no more, and what it had in memory is lost with it.
Ended(p) ==
    /\ runs' = [runs EXCEPT ![p] = "nothing"]
    /\ mode' = [mode EXCEPT ![p] = "ended"]
    /\ termed' = termed \ {p}
    /\ strays' = strays \ {p}

Loses(lost) ==
    /\ busy' = [b \in Backends |-> IF b \in lost THEN FALSE ELSE busy[b]]
    /\ holds' = [b \in Backends |-> IF b \in lost THEN holds[b] \cap {"l2"} ELSE holds[b]]
    /\ news' = [b \in Backends |-> IF b \in lost THEN <<>> ELSE news[b]]
    /\ hushed' = hushed \cup {b \in lost : news[b] # <<>>}

Serving(p) == IF mode[p] = "serving" THEN {runs[p]} \cap Backends ELSE {}

(* The course of the script. *)

ServicesOf(o) ==
    CASE o = "start-kv" -> Append(StartOrder, Router)
      [] o = "router" -> <<Router>>
      [] o = "stop" -> <<Router>> \o Reverse(StartOrder)
      [] OTHER -> StartOrder

\* The router is stopped before it is started, a backend is not.
FirstStep(o, s) ==
    CASE o = "stop" -> "term"
      [] o \in {"start-kv", "router"} -> IF s = Router THEN "term" ELSE "check"
      [] o = "reset" -> "clear caches"
      [] OTHER -> "clear l1"

Exit(r) ==
    /\ op' = "none" /\ step' = "idle" /\ rest' = <<>> /\ pid' = NoPid
    /\ result' = r

\* RESET_EXTERNAL: the controller forgets the places once every cache is clear.
ForgetsNothing == Exit(op)   \* mutant
Forgets ==
    /\ step' = "forget" /\ rest' = StartOrder
    /\ UNCHANGED <<op, pid, result>>

\* The current service is done.
Advance ==
    IF Len(rest) > 1
    THEN /\ rest' = Tail(rest) /\ pid' = NoPid
         /\ step' = IF step = "forget" THEN step ELSE FirstStep(op, rest[2])
         /\ UNCHANGED <<op, result>>
    ELSE IF step = "clear caches" THEN Forgets ELSE Exit(op)

Invoke(o) ==
    /\ op = "none" /\ ops < MaxOps
    /\ op' = o /\ rest' = ServicesOf(o) /\ step' = FirstStep(o, ServicesOf(o)[1])
    /\ result' = "none" /\ ops' = ops + 1
    /\ UNCHANGED <<pid, processVars, cacheVars, faults>>

(* start_process *)

RefusesToStart ==
    /\ step = "check" /\ Alive(file[Current])
    /\ Exit("failed")
    /\ UNCHANGED <<ops, processVars, cacheVars, faults>>

Fork(p) ==
    /\ step = "check" /\ ~Alive(file[Current]) /\ runs[p] = "nothing"
    /\ runs' = [runs EXCEPT ![p] = Current]
    /\ mode' = [mode EXCEPT ![p] = "starting"]
    /\ pid' = p /\ step' = "write"
    /\ UNCHANGED <<op, rest, result, ops, file, termed, strays, cacheVars, faults>>

WritePid ==
    /\ step = "write"
    /\ file' = [file EXCEPT ![Current] = pid]
    /\ step' = "wait"
    /\ UNCHANGED <<op, rest, pid, result, ops, runs, mode, termed, strays, cacheVars, faults>>

(* wait_http: an answer is looked for before the process is. *)

WaitReady ==
    /\ step = "wait" /\ Answers(Current)
    /\ Advance
    /\ UNCHANGED <<ops, processVars, cacheVars, faults>>

\* The process is gone, or START_TIMEOUT is over.
WaitFails ==
    /\ step = "wait" /\ ~Answers(Current)
    /\ Exit("failed")
    /\ UNCHANGED <<ops, processVars, cacheVars, faults>>

(* stop_one *)

\* start_router goes on with start_process.
Stopped ==
    IF op = "stop" THEN Advance
    ELSE /\ step' = "check" /\ pid' = NoPid
         /\ UNCHANGED <<op, rest, result>>

NoPidFile ==
    /\ step = "term" /\ file[Current] = NoPid
    /\ Stopped
    /\ UNCHANGED <<ops, processVars, cacheVars, faults>>

\* Mutant: a process that is gone is not worth a look at its file.
TermOrLeave ==
    /\ step = "term" /\ file[Current] # NoPid
    /\ IF Alive(file[Current])
       THEN /\ termed' = termed \cup {file[Current]}
            /\ pid' = file[Current] /\ step' = "grace"
            /\ UNCHANGED <<op, rest, result>>
       ELSE Stopped /\ UNCHANGED termed
    /\ UNCHANGED <<ops, file, runs, mode, strays, cacheVars, faults>>

Term ==
    /\ step = "term" /\ file[Current] # NoPid
    /\ pid' = file[Current]
    /\ IF Alive(pid')
       THEN termed' = termed \cup {pid'} /\ step' = "grace"
       ELSE step' = "remove" /\ UNCHANGED termed
    /\ UNCHANGED <<op, rest, result, ops, file, runs, mode, strays, cacheVars, faults>>

\* Mutant: the KILL that follows the grace period is left out.
GraceEnds ==
    /\ step = "grace" /\ step' = "remove"
    /\ UNCHANGED <<op, rest, pid, result, ops, processVars, cacheVars, faults>>

\* The pid is gone, or forty tries are over.  Whatever has the pid is killed.
Kill ==
    /\ step = "grace" /\ step' = "remove"
    /\ mode' = [mode EXCEPT ![pid] = IF Alive(pid) THEN "dying" ELSE "ended"]
    /\ Loses(Serving(pid))
    /\ UNCHANGED <<op, rest, pid, result, ops, file, runs, termed, strays,
                   view, warm, unheard, requests, faults>>

RemoveFile ==
    /\ step = "remove"
    /\ file' = [file EXCEPT ![Current] = NoPid]
    /\ Stopped
    /\ UNCHANGED <<ops, runs, mode, termed, strays, cacheVars, faults>>

(* reset_caches, clear_l1 *)

\* What is left of b when its caches are cleared: a backend that has a request
\* running answers as well, but keeps what is in use.
Kept(b, asked) == IF busy[b] THEN SUBSET holds[b] ELSE {holds[b] \ asked}

\* Stores that are not told yet may follow.
NewsOf(b, there, tiers) ==
    IF tiers \cap External = {} THEN news[b]
    ELSE Append(news[b], [there |-> there, tiers |-> tiers \cap External])

Cleared(b, asked) ==
    \E kept \in Kept(b, asked) :
        /\ holds' = [holds EXCEPT ![b] = kept]
        /\ news' = [news EXCEPT ![b] = NewsOf(b, FALSE, holds[b] \ kept)]

MarkCleared(b) ==
    warm' = IF busy[b] THEN warm \cup {b} ELSE warm \ {b}

Forgotten(b, locations) ==
    /\ view' = [view EXCEPT ![b] = @ \ locations]
    /\ unheard' = IF \E i \in DOMAIN news[b] : news[b][i].there
                  THEN unheard \cup {b} ELSE unheard \ {b}
    /\ hushed' = hushed \ {b}

ClearCaches ==
    /\ step = "clear caches" /\ Answers(Current)
    /\ Cleared(Current, Tiers) /\ MarkCleared(Current)
    /\ Advance
    /\ UNCHANGED <<ops, processVars, busy, view, unheard, hushed, requests, faults>>

\* /clear of the controller: one call per location.
Forget ==
    /\ step = "forget" /\ Answers(Current)
    /\ Cleared(Current, External) /\ Forgotten(Current, External)
    /\ Advance
    /\ UNCHANGED <<ops, processVars, busy, warm, requests, faults>>

ClearL1 ==
    /\ step = "clear l1" /\ Answers(Current)
    /\ Cleared(Current, {"l1"}) /\ Forgotten(Current, {"l1"}) /\ MarkCleared(Current)
    /\ Advance
    /\ UNCHANGED <<ops, processVars, busy, requests, faults>>

\* curl --fail, under set -e.
CurlFails ==
    /\ step \in {"clear caches", "forget", "clear l1"}
    /\ Exit("failed")
    /\ UNCHANGED <<ops, processVars, cacheVars, faults>>

----------------------------------------------------------------------------
(* Processes. *)

\* The port is free, or it is not and the process gives up.
Bind(p) ==
    /\ mode[p] = "starting"
    /\ ~ Answers(runs[p])
    /\ mode' = [mode EXCEPT ![p] = "serving"]
    /\ UNCHANGED <<scriptVars, file, runs, termed, strays, cacheVars, faults>>

BindFails(p) ==
    /\ mode[p] = "starting"
    /\ \E q \in Pids : runs[q] = runs[p] /\ mode[q] \in {"serving", "dying"}
    /\ Ended(p)
    /\ UNCHANGED <<scriptVars, file, cacheVars, faults>>

\* A process that was asked to terminate, or was killed, is gone at last.
Leaves(p) ==
    /\ p \in termed \/ mode[p] = "dying"
    /\ Ended(p) /\ Loses(Serving(p))
    /\ UNCHANGED <<scriptVars, file, view, warm, unheard, requests, faults>>

Crash(p) ==
    /\ faults < MaxFaults /\ faults' = faults + 1
    /\ mode[p] \in {"starting", "serving"}
    /\ Ended(p) /\ Loses(Serving(p))
    /\ UNCHANGED <<scriptVars, file, view, warm, unheard, requests>>

\* A free pid is taken by a process of somebody else.
Stranger(p) ==
    /\ runs[p] = "nothing" /\ \A q \in Pids : runs[q] # "stranger"
    /\ runs' = [runs EXCEPT ![p] = "stranger"]
    /\ UNCHANGED <<scriptVars, file, mode, termed, strays, cacheVars, faults>>

\* The script is killed.
Dies ==
    /\ faults < MaxFaults /\ faults' = faults + 1
    /\ op # "none"
    /\ Exit("failed")
    /\ strays' = IF step = "write" THEN strays \cup {pid} ELSE strays
    /\ UNCHANGED <<ops, file, runs, mode, termed, cacheVars>>

Reboot ==
    /\ faults < MaxFaults /\ faults' = faults + 1
    /\ Exit("failed")
    /\ runs' = [p \in Pids |-> "nothing"] /\ mode' = [p \in Pids |-> "ended"]
    /\ termed' = {} /\ strays' = {}
    /\ busy' = [b \in Backends |-> FALSE] /\ holds' = [b \in Backends |-> {}]
    /\ news' = [b \in Backends |-> <<>>] /\ view' = [b \in Backends |-> {}]
    /\ UNCHANGED <<ops, file, warm, unheard, hushed, requests>>

(* Requests. *)

RequestStarts(b) ==
    /\ requests < MaxRequests /\ requests' = requests + 1
    /\ Answers(b) /\ ~busy[b]
    /\ busy' = [busy EXCEPT ![b] = TRUE]
    /\ warm' = warm \cup {b}
    /\ UNCHANGED <<scriptVars, processVars, holds, news, view, unheard, hushed, faults>>

RequestEnds(b) ==
    /\ busy[b]
    /\ busy' = [busy EXCEPT ![b] = FALSE]
    /\ holds' = [holds EXCEPT ![b] = Tiers]
    /\ news' = [news EXCEPT ![b] = NewsOf(b, TRUE, Tiers)]
    /\ UNCHANGED <<scriptVars, processVars, view, warm, unheard, hushed, requests, faults>>

\* The controller catches up with what a backend told it.
Hears(b) ==
    /\ news[b] # <<>>
    /\ LET told == Head(news[b]) IN
       view' = [view EXCEPT ![b] = IF told.there THEN @ \cup told.tiers ELSE @ \ told.tiers]
    /\ news' = [news EXCEPT ![b] = Tail(@)]
    /\ UNCHANGED <<scriptVars, processVars, busy, holds, warm, unheard, hushed, requests, faults>>

----------------------------------------------------------------------------
ScriptStep ==
    \/ RefusesToStart \/ (\E p \in Pids : Fork(p)) \/ WritePid
    \/ WaitReady \/ WaitFails
    \/ NoPidFile \/ Term \/ Kill \/ RemoveFile
    \/ ClearCaches \/ Forget \/ ClearL1 \/ CurlFails

ProcessStep(p) == Bind(p) \/ BindFails(p) \/ Leaves(p) \/ Crash(p) \/ Stranger(p)

Next ==
    \/ \E o \in Actions : Invoke(o)
    \/ ScriptStep
    \/ \E p \in Pids : ProcessStep(p)
    \/ \E b \in Backends : RequestStarts(b) \/ RequestEnds(b) \/ Hears(b)
    \/ Dies \/ Reboot

Spec == Init /\ [][Next]_vars
----------------------------------------------------------------------------
(* Correctness. *)

Steps == {"idle", "check", "write", "wait", "term", "grace", "remove",
          "clear caches", "forget", "clear l1"}

\* Every variable of the stack keeps its type, and a script that has work to
\* do knows the service it works on.
TypeOK ==
    /\ op \in Actions \cup {"none"} /\ step \in Steps
    /\ op = "none" <=> step = "idle"
    /\ rest \in Seq(Services) /\ (step # "idle" => rest # <<>>)
    /\ pid \in Pids \cup {NoPid} /\ (step \in {"write", "grace"} => pid # NoPid)
    /\ file \in [Services -> Pids \cup {NoPid}]
    /\ runs \in [Pids -> Services \cup {"nothing", "stranger"}]
    /\ mode \in [Pids -> {"starting", "serving", "dying", "ended"}]
    /\ termed \in SUBSET Pids /\ strays \in SUBSET Pids
    /\ busy \in [Backends -> BOOLEAN]
    /\ holds \in [Backends -> SUBSET Tiers]
    /\ news \in [Backends -> Seq([there : BOOLEAN, tiers : SUBSET External])]
    /\ view \in [Backends -> SUBSET External]
    /\ result \in Actions \cup {"none", "failed"}
    /\ warm \in SUBSET Backends /\ unheard \in SUBSET Backends /\ hushed \in SUBSET Backends
    /\ ops \in Nat /\ faults \in Nat /\ requests \in Nat

\* A process of the stack that can serve is known by the pid file of its
\* service, so that stop finds it: whatever start, router, stop, crashes,
\* restarts and recycled pids come before, the only exception is a process
\* whose script was killed between the fork and the echo of $!.
Tracked ==
    \A p \in Pids :
        mode[p] \in {"starting", "serving"} =>
            \/ file[runs[p]] = p
            \/ step = "write" /\ pid = p
            \/ p \in strays

\* After stop_all has returned, no pid file is left for a start to be refused
\* by, and nothing of the stack serves, the strays excepted.
StopClears ==
    result = "stop" =>
        /\ \A s \in Services : file[s] = NoPid
        /\ \A p \in Pids : mode[p] \in {"starting", "serving"} => p \in strays

\* After reset_caches has returned, a backend without a request running then
\* or since holds nothing in any tier, and the controller names no place of
\* its, unless stores had not been told when it forgot them and the removals
\* that follow them have not been told either, or never will be because the
\* backend ended.  After clear_l1, the same of l1.
BoundaryIsCold ==
    \A b \in Backends \ warm :
        /\ result = "reset" =>
            /\ holds[b] = {}
            /\ view[b] = {} \/ (b \in unheard /\ (news[b] # <<>> \/ b \in hushed))
        /\ result = "clear-l1" =>
            /\ "l1" \notin holds[b]
            /\ "l1" \notin view[b] \/ (b \in unheard /\ (news[b] # <<>> \/ b \in hushed))
=============================================================================
