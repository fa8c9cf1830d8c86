------------------------------- MODULE Router -------------------------------
(***************************************************************************)
(* The affinity router (router/app.py) with its registry                   *)
(* (router/cache_registry.py), its policy engine                           *)
(* (router/routing_policy.py) and the mock backends it is tested against   *)
(* (router/mock_backend.py).                                               *)
(*                                                                         *)
(* The router is one asyncio thread: a handler runs without interruption   *)
(* between two awaits, so every action below is the code between two       *)
(* awaits.  A request is                                                   *)
(*    idle       its body is not read yet                                  *)
(*    posted     placed on a backend, the router awaits http.post          *)
(*    answered   the backend has answered, the router has not resumed      *)
(*    streaming  stream() relays the backend's chunks                      *)
(*    closing    the client is gone, the suspended generator of stream()   *)
(*               is not closed yet                                         *)
(*    finished / rejected                                                  *)
(*                                                                         *)
(* outlived is a history variable: the requests a backend accepted before  *)
(* its latest cache reset.  The rest is the state of the program.          *)
(***************************************************************************)
EXTENDS Integers, FiniteSets

CONSTANTS
    Requests, Backends, Healthy, Prefixes, Sessions, NoKey, NoBackend, Headers,
    TTL,
    Resets,        \* calls of POST /reset
    MaxClock,      \* bound on the clock
    QuietResets    \* TRUE: /reset is called only while nothing is in flight,
                   \* and nothing is sent until it returns

Policies == {"random", "prefix_affinity", "session_affinity"}

ASSUME ConstantsAssumption ==
    /\ IsFiniteSet(Requests)
    /\ Backends \subseteq Nat /\ Healthy \subseteq Backends
    /\ NoBackend \notin Backends
    /\ NoKey \notin Prefixes \cup Sessions
    /\ Headers \subseteq [prefix : Prefixes \cup {NoKey},
                          session : Sessions \cup {NoKey}, policy : STRING]
    /\ TTL \in Nat \ {0} /\ MaxClock \in Nat
    /\ QuietResets \in BOOLEAN

VARIABLES
    phase,      \* see above
    header,     \* X-Prefix-Hash, X-Session-ID and X-Route-Policy of a request
    placed,     \* decision.backend_id
    status,     \* upstream.status: 200 or 503, 0 before the answer
    marker,     \* how much of "data: [DONE]" was relayed: none, half, whole
    completed,  \* the local of stream()
    rows,       \* trace rows written for a request
    active,     \* Backend.active_requests
    prefixes,   \* AffinityRegistry.prefixes; an absent entry is NoEntry
    sessions,   \* AffinityRegistry.sessions
    clock,      \* AffinityRegistry.clock()
    seen,       \* seen_prefix_hashes of each backend
    resetting,  \* idle, running or returned, per call of /reset
    todo,       \* backends the call has not reset yet
    outlived

requestVars == <<phase, header, placed, status, marker, completed, rows>>
registryVars == <<prefixes, sessions>>
resetVars == <<resetting, todo, outlived>>
vars == <<requestVars, active, registryVars, clock, seen, resetVars>>

NoEntry == [backend |-> NoBackend, expires |-> 0]
PrefixKeys == Prefixes \cup {NoKey}
SessionKeys == Sessions \cup {NoKey}
InFlight == {"posted", "answered", "streaming", "closing"}

----------------------------------------------------------------------------
(* The registry. *)

LiveAtExpiry(entry) == entry.expires >= clock   \* mutant: off by one
Live(entry) == entry.expires > clock

\* What _get returns ...
Lookup(entries, k) == IF Live(entries[k]) THEN entries[k].backend ELSE NoBackend

\* ... and what it leaves behind: an expired entry is popped.
Popped(entries, k) ==
    IF Live(entries[k]) THEN entries ELSE [entries EXCEPT ![k] = NoEntry]

\* commit, for one of the two maps: an empty key is never stored.
Committed(entries, k, b) ==
    IF k = NoKey THEN entries
    ELSE [entries EXCEPT ![k] = [backend |-> b, expires |-> clock + TTL]]

\* clear, for one of the two maps.
NotCleared(entries) == entries   \* mutant: a map is forgotten
Cleared(entries) == [k \in DOMAIN entries |-> NoEntry]

(* The policy engine. *)

\* The backend that affinity names, whatever its health.
Home(h) ==
    CASE h.policy = "prefix_affinity" -> Lookup(prefixes, h.prefix)
      [] h.policy = "session_affinity" -> Lookup(sessions, h.session)
      [] OTHER -> NoBackend

\* min(healthy, key=(active_requests, id))
LeastActive(b) ==
    /\ b \in Healthy
    /\ \A c \in Healthy :
          active[b] < active[c] \/ (active[b] = active[c] /\ b <= c)

\* The decisions choose may take.
Decision(h, b) ==
    /\ Healthy # {} /\ h.policy \in Policies
    /\ \/ h.policy = "random" /\ b \in Healthy
       \/ h.policy # "random" /\ Home(h) \in Healthy /\ b = Home(h)
       \/ h.policy # "random" /\ Home(h) \notin Healthy /\ LeastActive(b)

(* The end of a request. *)

SuccessUnchecked(r) == TRUE   \* mutant: the check is dropped
Success(r) == status[r] < 300 /\ completed[r]

\* active_requests of b, lowered.
NotLowered(b) == active   \* mutant: a path that forgets the decrement
Lowered(b) == [active EXCEPT ![b] = @ - 1]

\* _append_trace
TracedIfSuccess(r) == IF Success(r) THEN [rows EXCEPT ![r] = @ + 1] ELSE rows   \* mutant
Traced(r) == [rows EXCEPT ![r] = @ + 1]

----------------------------------------------------------------------------
Init ==
    /\ phase = [r \in Requests |-> "idle"]
    /\ header \in [Requests -> Headers]
    /\ placed = [r \in Requests |-> NoBackend]
    /\ status = [r \in Requests |-> 0]
    /\ marker = [r \in Requests |-> "none"]
    /\ completed = [r \in Requests |-> FALSE]
    /\ rows = [r \in Requests |-> 0]
    /\ active = [b \in Backends |-> 0]
    /\ prefixes = [k \in PrefixKeys |-> NoEntry]
    /\ sessions = [k \in SessionKeys |-> NoEntry]
    /\ clock = 0
    /\ seen = [b \in Backends |-> {}]
    /\ resetting = [z \in Resets |-> "idle"]
    /\ todo = [z \in Resets |-> {}]
    /\ outlived = {}

(* completions, up to the await of http.post. *)

Reject(r) ==
    /\ phase[r] = "idle"
    /\ Healthy = {} \/ header[r].policy \notin Policies
    /\ phase' = [phase EXCEPT ![r] = "rejected"]
    /\ UNCHANGED <<header, placed, status, marker, completed, rows, active,
                   registryVars, clock, seen, resetVars>>

\* choose and the increment of active_requests are not separated by an await.
Place(r, b) ==
    LET h == header[r] IN
    /\ phase[r] = "idle"
    /\ QuietResets => \A z \in Resets : resetting[z] # "running"
    /\ Decision(h, b)
    /\ phase' = [phase EXCEPT ![r] = "posted"]
    /\ placed' = [placed EXCEPT ![r] = b]
    /\ active' = [active EXCEPT ![b] = @ + 1]
    /\ prefixes' = IF h.policy = "prefix_affinity"
                   THEN Popped(prefixes, h.prefix) ELSE prefixes
    /\ sessions' = IF h.policy = "session_affinity"
                   THEN Popped(sessions, h.session) ELSE sessions
    /\ UNCHANGED <<header, status, marker, completed, rows, clock, seen, resetVars>>

(* The backend's handler: a hit or a miss, either way the prefix is cached
   from here on; or the configured failure, drawn before the prefix is added. *)

BackendServes(r) ==
    /\ phase[r] = "posted"
    /\ phase' = [phase EXCEPT ![r] = "answered"]
    /\ status' = [status EXCEPT ![r] = 200]
    /\ seen' = [seen EXCEPT ![placed[r]] = @ \cup {header[r].prefix}]
    /\ UNCHANGED <<header, placed, marker, completed, rows, active, registryVars,
                   clock, resetVars>>

BackendFails(r) ==
    /\ phase[r] = "posted"
    /\ phase' = [phase EXCEPT ![r] = "answered"]
    /\ status' = [status EXCEPT ![r] = 503]
    /\ UNCHANGED <<header, placed, marker, completed, rows, active, registryVars,
                   clock, seen, resetVars>>

\* ClientError: the backend is unreachable, or the connection is lost before
\* or after it handled the request.
PostFails(r) ==
    /\ phase[r] \in {"posted", "answered"}
    /\ phase' = [phase EXCEPT ![r] = "finished"]
    /\ active' = Lowered(placed[r])
    /\ rows' = Traced(r)
    /\ UNCHANGED <<header, placed, status, marker, completed, registryVars, clock,
                   seen, resetVars>>

PostReturns(r) ==
    /\ phase[r] = "answered"
    /\ phase' = [phase EXCEPT ![r] = "streaming"]
    /\ UNCHANGED <<header, placed, status, marker, completed, rows, active,
                   registryVars, clock, seen, resetVars>>

(* stream: the transport cuts the backend's bytes where it likes. *)

\* One chunk holds the whole marker.
RelayDone(r) ==
    /\ phase[r] = "streaming" /\ status[r] = 200 /\ marker[r] = "none"
    /\ marker' = [marker EXCEPT ![r] = "whole"]
    /\ completed' = [completed EXCEPT ![r] = TRUE]
    /\ UNCHANGED <<phase, header, placed, status, rows, active, registryVars,
                   clock, seen, resetVars>>

\* The marker is cut in two: neither chunk holds it.
RelayHalf(r) ==
    /\ phase[r] = "streaming" /\ status[r] = 200 /\ marker[r] # "whole"
    /\ marker' = [marker EXCEPT ![r] = IF @ = "none" THEN "half" ELSE "whole"]
    /\ UNCHANGED <<phase, header, placed, status, completed, rows, active,
                   registryVars, clock, seen, resetVars>>

\* The client goes away while stream() is suspended at its yield: the
\* generator is closed later, by the event loop's finaliser.
ClientLeaves(r) ==
    /\ phase[r] = "streaming"
    /\ phase' = [phase EXCEPT ![r] = "closing"]
    /\ UNCHANGED <<header, placed, status, marker, completed, rows, active,
                   registryVars, clock, seen, resetVars>>

\* The finally block: the stream ended, broke, or is closed.
StreamCloses(r) ==
    LET h == header[r] IN
    /\ phase[r] \in {"streaming", "closing"}
    /\ phase' = [phase EXCEPT ![r] = "finished"]
    /\ active' = Lowered(placed[r])
    /\ prefixes' = IF Success(r) THEN Committed(prefixes, h.prefix, placed[r])
                                 ELSE prefixes
    /\ sessions' = IF Success(r) THEN Committed(sessions, h.session, placed[r])
                                 ELSE sessions
    /\ rows' = Traced(r)
    \* the locals of the generator die with it
    /\ marker' = [marker EXCEPT ![r] = "none"]
    /\ completed' = [completed EXCEPT ![r] = FALSE]
    /\ UNCHANGED <<header, placed, status, clock, seen, resetVars>>

(* POST /reset: the registry first, then one backend after the other. *)

ResetRegistry(z) ==
    /\ resetting[z] = "idle"
    /\ QuietResets => \A r \in Requests : phase[r] \notin InFlight
    /\ prefixes' = Cleared(prefixes)
    /\ sessions' = Cleared(sessions)
    /\ resetting' = [resetting EXCEPT ![z] = "running"]
    /\ todo' = [todo EXCEPT ![z] = Backends]
    /\ UNCHANGED <<requestVars, active, clock, seen, outlived>>

NextToReset(z, b) ==
    /\ resetting[z] = "running"
    /\ b \in todo[z] /\ \A c \in todo[z] : b <= c

\* The backend drops its cache; its answer may still be lost.
ResetBackend(z, b) ==
    /\ NextToReset(z, b)
    /\ seen' = [seen EXCEPT ![b] = {}]
    /\ outlived' = outlived \cup {r \in Requests : placed[r] = b /\ status[r] = 200}
    /\ todo' = [todo EXCEPT ![z] = @ \ {b}]
    /\ UNCHANGED <<requestVars, active, registryVars, clock, resetting>>

\* ClientError: the backend is passed over.
ResetSkips(z, b) ==
    /\ NextToReset(z, b)
    /\ todo' = [todo EXCEPT ![z] = @ \ {b}]
    /\ UNCHANGED <<requestVars, active, registryVars, clock, seen, resetting, outlived>>

\* The loop is over, or a timeout (not a ClientError) ends the handler early.
ResetReturns(z) ==
    /\ resetting[z] = "running"
    /\ resetting' = [resetting EXCEPT ![z] = "returned"]
    /\ todo' = [todo EXCEPT ![z] = {}]
    /\ UNCHANGED <<requestVars, active, registryVars, clock, seen, outlived>>

Tick ==
    /\ clock < MaxClock
    /\ clock' = clock + 1
    /\ UNCHANGED <<requestVars, active, registryVars, seen, resetVars>>

RequestStep(r) ==
    \/ Reject(r)
    \/ \E b \in Backends : Place(r, b)
    \/ BackendServes(r) \/ BackendFails(r)
    \/ PostFails(r) \/ PostReturns(r)
    \/ RelayDone(r) \/ RelayHalf(r)
    \/ ClientLeaves(r) \/ StreamCloses(r)

ResetStep(z) ==
    \/ ResetRegistry(z)
    \/ \E b \in Backends : ResetBackend(z, b) \/ ResetSkips(z, b)
    \/ ResetReturns(z)

Next ==
    \/ \E r \in Requests : RequestStep(r)
    \/ \E z \in Resets : ResetStep(z)
    \/ Tick

Spec == Init /\ [][Next]_vars

(* The router's own steps are taken by its event loop; a backend answers or
   its connection breaks, and a stream ends or breaks (upstream requests have
   no timeout, so this is an assumption on the backend). *)
Fairness ==
    /\ \A r \in Requests :
          WF_vars(BackendServes(r) \/ BackendFails(r) \/ PostFails(r) \/ PostReturns(r))
    /\ \A r \in Requests : WF_vars(StreamCloses(r))

FairSpec == Spec /\ Fairness
----------------------------------------------------------------------------
(* Correctness. *)

Entry == [backend : Backends \cup {NoBackend}, expires : Nat]

\* Every variable of the router keeps its type.
TypeOK ==
    /\ phase \in [Requests -> InFlight \cup {"idle", "rejected", "finished"}]
    /\ header \in [Requests -> Headers]
    /\ placed \in [Requests -> Backends \cup {NoBackend}]
    /\ status \in [Requests -> {0, 200, 503}]
    /\ marker \in [Requests -> {"none", "half", "whole"}]
    /\ completed \in [Requests -> BOOLEAN]
    /\ rows \in [Requests -> Nat]
    /\ active \in [Backends -> Int]
    /\ prefixes \in [PrefixKeys -> Entry]
    /\ sessions \in [SessionKeys -> Entry]
    /\ clock \in Nat
    /\ seen \in [Backends -> SUBSET PrefixKeys]
    /\ resetting \in [Resets -> {"idle", "running", "returned"}]
    /\ todo \in [Resets -> SUBSET Backends]
    /\ outlived \in SUBSET Requests

Assigned(b) == {r \in Requests : phase[r] \in InFlight /\ placed[r] = b}

\* active_requests, which app.py raises in one place and lowers in two, always
\* equals the number of requests the backend really has in flight: it never
\* leaks, never goes negative, and so the least-active choice is what it says.
ActiveCountsInFlight == \A b \in Backends : active[b] = Cardinality(Assigned(b))

\* A request leaves a trace row when it finishes, exactly one, whichever of the
\* three ends it meets (connection error, end of the stream, client gone).
OneRowPerFinish ==
    \A r \in Requests : rows[r] = IF phase[r] = "finished" THEN 1 ELSE 0

\* An affinity entry may point to a backend whose cache does not hold the
\* prefix (POST /reset races with a stream that commits later), but only after
\* a request with that prefix which that backend served before its own reset.
ColdAffinityExplained ==
    \A p \in Prefixes :
        LET b == prefixes[p].backend IN
        b # NoBackend /\ p \notin seen[b] =>
            \E r \in outlived : header[r].prefix = p /\ placed[r] = b

\* If /reset is only called while the router is idle, as
\* run_simulated_experiment.sh does between two policies, then an affinity hit
\* always finds its prefix in the cache of the backend.
AffinityIsWarm ==
    QuietResets =>
        \A p \in Prefixes :
            prefixes[p].backend # NoBackend => p \in seen[prefixes[p].backend]

\* Counters, lazy expiry and phases implement the placement promise.
StageOf(f) ==
    CASE f = "idle" -> "waiting"
      [] f = "rejected" -> "refused"
      [] f = "finished" -> "done"
      [] OTHER -> "inflight"

Unexpired(entries) ==
    [k \in DOMAIN entries |-> IF Live(entries[k]) THEN entries[k] ELSE NoEntry]

Abstract == INSTANCE Placement WITH
    now <- clock,
    stage <- [r \in Requests |-> StageOf(phase[r])],
    at <- placed,
    prefixHome <- Unexpired(prefixes),
    sessionHome <- Unexpired(sessions)

\* Every behaviour of the router is one of Placement: affinity follows the last
\* success within the TTL, and the fallback is the backend with the fewest
\* requests in flight, although choose reads a counter and expires lazily.
RefinesPlacement == Abstract!PSpec

\* A request that was placed on a backend ends in the trace.
PlacedIsTraced == \A r \in Requests : phase[r] = "posted" ~> rows[r] > 0
=============================================================================
