---------------------------- MODULE ArrivalTrace ----------------------------
(***************************************************************************)
(* The order and the times at which the requests of a workload arrive:     *)
(* benchmarks/generate_v2_2_arrival_traces.py, which sends the sessions in *)
(* cohorts and waves, at a rate that alternates, and                       *)
(* benchmarks/generate_arrival_traces.py, which sorts them and draws one   *)
(* Poisson process.  What they write is what Bench replays.                *)
(*                                                                         *)
(* A workload is a sequence of rows, and a request is known by its place   *)
(* in it.  Sessions, turns and request ids are ordered as numbers are.     *)
(* shuffle is an arbitrary order, expovariate an arbitrary member of       *)
(* Hazards.  Times are counted in units of 1/(High*Low) seconds, in which  *)
(* all of them are whole; rescaling them by one factor is left out.        *)
(***************************************************************************)
EXTENDS Integers, Sequences, FiniteSets, SequencesExt

CONSTANTS
    Workloads,         \* the rows a workload may have
    Short, Middle,     \* the longest prefix that is called 8k, and 16k
    PerBucket,         \* sessions of each length for a calibration
    EarlyTurns,        \* turns of a session for a calibration
    CohortSize,
    High, Low, Period, \* the rates, and the seconds each lasts
    Hazards            \* the draws of expovariate(1)

Rows == [request : Nat, session : Nat, turn : Nat, tokens : Nat]
Plans == {"sorted", "formal", "calibration"}

ASSUME ArrivalAssumption ==
    /\ Workloads \subseteq Seq(Rows)
    /\ Short \in Nat /\ Middle \in Nat /\ PerBucket \in Nat /\ EarlyTurns \in Nat
    /\ CohortSize \in Nat \ {0}
    /\ High \in Nat \ {0} /\ Low \in Nat \ {0} /\ Period \in Nat \ {0}
    /\ Hazards \subseteq Nat

VARIABLES
    workload, plan,
    step,     \* select, read, order, draw, cross, done, refused
    read,     \* rows read so far
    kept,     \* the rows that are in the index of sessions and turns
    left,     \* sessions that no cohort has taken yet
    cohort,   \* the sessions of the current cohort
    turns,    \* its turns that are still to come
    wave,     \* what is left of its current turn
    trace,    \* the requests in their order
    now, hazard, offsets,   \* the clock of the process
    drawn     \* history: the hazards drawn so far, added up

planned == <<workload, plan>>
ordering == <<read, kept, left, cohort, turns, wave, trace>>
timing == <<now, hazard, drawn, offsets>>
vars == <<planned, step, ordering, timing>>

Init ==
    /\ workload \in Workloads /\ plan \in Plans
    /\ step = "select" /\ read = 0 /\ kept = {} /\ left = {}
    /\ cohort = {} /\ turns = {} /\ wave = {} /\ trace = <<>>
    /\ now = 0 /\ hazard = 0 /\ drawn = <<>> /\ offsets = <<>>

----------------------------------------------------------------------------
(* Which rows: select_calibration_sessions, and the profiles of generate.  *)

Places == DOMAIN workload
SessionOf(i) == workload[i].session
TurnOf(i) == workload[i].turn
SessionsOf(S) == {SessionOf(i) : i \in S}

Buckets == {"8k", "16k", "32k"}
Bucket(tokens) ==
    IF tokens <= Short THEN "8k" ELSE IF tokens <= Middle THEN "16k" ELSE "32k"

\* The first row of the session's lowest turn.
FirstRow(s) ==
    CHOOSE i \in Places :
        /\ SessionOf(i) = s
        /\ \A j \in Places : SessionOf(j) = s =>
              TurnOf(i) < TurnOf(j) \/ (TurnOf(i) = TurnOf(j) /\ i <= j)

InBucket(b) == {s \in SessionsOf(Places) : Bucket(workload[FirstRow(s)].tokens) = b}
Calibration ==
    {s \in SessionsOf(Places) :
        \E b \in Buckets : s \in InBucket(b)
            /\ Cardinality({t \in InBucket(b) : t < s}) < PerBucket}

Profile ==
    IF plan = "calibration"
    THEN {i \in Places : SessionOf(i) \in Calibration /\ TurnOf(i) < EarlyTurns}
    ELSE Places

\* generate selects the calibration first: it refuses every profile of a
\* workload without enough sessions of each length.
Select ==
    /\ step = "select" /\ plan # "sorted"
    /\ step' = IF \A b \in Buckets : Cardinality(InBucket(b)) >= PerBucket
                THEN "read" ELSE "refused"
    /\ UNCHANGED <<planned, ordering, timing>>

\* generate of the older program keeps every row.
KeepAll ==
    /\ step = "select" /\ plan = "sorted"
    /\ step' = "order" /\ kept' = Places
    /\ UNCHANGED <<planned, read, left, cohort, turns, wave, trace, timing>>

----------------------------------------------------------------------------
(* In which order: the first half of generate_trace. *)

\* Mutant: the first row of a turn stands for it.
IndexedFirst(i) ==
    kept \cup (IF \E j \in kept : SessionOf(j) = SessionOf(i) /\ TurnOf(j) = TurnOf(i)
               THEN {} ELSE {i})

\* sessions[session][turn] = request: the last row of a turn stands for it.
Indexed(i) == {j \in kept : SessionOf(j) # SessionOf(i) \/ TurnOf(j) # TurnOf(i)} \cup {i}

Seen == {workload[j].request : j \in {j \in Profile : j <= read}}

ReadRow ==
    /\ step = "read" /\ read < Len(workload)
    /\ LET i == read + 1 IN
        /\ read' = i
        /\ IF i \in Profile /\ workload[i].request \in Seen
           THEN step' = "refused" /\ kept' = kept
           ELSE step' = step /\ kept' = IF i \in Profile THEN Indexed(i) ELSE kept
    /\ UNCHANGED <<planned, left, cohort, turns, wave, trace, timing>>

AllRead ==
    /\ step = "read" /\ read = Len(workload)
    /\ step' = "order" /\ left' = SessionsOf(kept)
    /\ UNCHANGED <<planned, read, kept, cohort, turns, wave, trace, timing>>

\* Mutant: the slice ends one late.
SliceOneMore == {C \in SUBSET left :
            \/ Cardinality(C) = CohortSize + 1
            \/ C = left /\ Cardinality(C) <= CohortSize}

\* A slice of the shuffled sessions.
Slice == {C \in SUBSET left :
            \/ Cardinality(C) = CohortSize
            \/ C = left /\ Cardinality(C) < CohortSize}

NextCohort ==
    /\ step = "order" /\ turns = {} /\ wave = {} /\ left # {}
    /\ cohort' \in Slice
    /\ left' = left \ cohort'
    /\ turns' = {TurnOf(i) : i \in {i \in kept : SessionOf(i) \in cohort'}}
    /\ UNCHANGED <<planned, step, read, kept, wave, trace, timing>>

\* Mutant: the turns are not sorted.
NextTurnAny ==
    /\ step = "order" /\ wave = {}
    /\ \E t \in turns :
        /\ turns' = turns \ {t}
        /\ wave' = {i \in kept : SessionOf(i) \in cohort /\ TurnOf(i) = t}
    /\ UNCHANGED <<planned, step, read, kept, left, cohort, trace, timing>>

NextTurn ==
    /\ step = "order" /\ wave = {}
    /\ \E t \in turns :
        /\ \A u \in turns : t <= u
        /\ turns' = turns \ {t}
        /\ wave' = {i \in kept : SessionOf(i) \in cohort /\ TurnOf(i) = t}
    /\ UNCHANGED <<planned, step, read, kept, left, cohort, trace, timing>>

Emit ==
    /\ step = "order"
    /\ \E i \in wave : trace' = Append(trace, i) /\ wave' = wave \ {i}
    /\ UNCHANGED <<planned, step, read, kept, left, cohort, turns, timing>>

\* sorted(items), by session, turn and request id.
Before(i, j) ==
    \/ SessionOf(i) < SessionOf(j)
    \/ SessionOf(i) = SessionOf(j) /\ TurnOf(i) < TurnOf(j)
    \/ SessionOf(i) = SessionOf(j) /\ TurnOf(i) = TurnOf(j)
        /\ workload[i].request <= workload[j].request

EmitSorted ==
    /\ step = "order" /\ plan = "sorted"
    /\ \E i \in kept \ ToSet(trace) :
        /\ \A j \in kept \ ToSet(trace) : Before(i, j)
        /\ trace' = Append(trace, i)
    /\ UNCHANGED <<planned, step, read, kept, left, cohort, turns, wave, timing>>

Ordered ==
    /\ step = "order" /\ turns = {} /\ wave = {} /\ left = {}
    /\ plan = "sorted" => kept \subseteq ToSet(trace)
    /\ step' = "draw"
    /\ UNCHANGED <<planned, ordering, timing>>

----------------------------------------------------------------------------
(* At which times: _piecewise_offsets; rng.expovariate(rate) of the older. *)

Segment == now \div (Period * High * Low)
\* Mutants: a segment is counted from now; the end is rounded up from now.
SegmentEndFromNow == now + Period * High * Low
SegmentEndCeiled == ((now + Period * High * Low - 1) \div (Period * High * Low)) * Period * High * Low
SegmentEnd == (Segment + 1) * Period * High * Low
\* The time a hazard of one takes.
Pace == IF plan = "sorted" \/ Segment % 2 = 0 THEN Low ELSE High

Drawn == IF drawn = <<>> THEN 0 ELSE Last(drawn)

Draw ==
    /\ step = "draw" /\ Len(offsets) < Len(trace)
    /\ hazard' \in Hazards /\ drawn' = Append(drawn, Drawn + hazard')
    /\ step' = "cross"
    /\ UNCHANGED <<planned, ordering, now, offsets>>

\* The older program knows no segments.
Reached == plan = "sorted" \/ hazard * Pace <= SegmentEnd - now

Cross ==
    /\ step = "cross" /\ ~Reached
    /\ hazard' = hazard - (SegmentEnd - now) \div Pace
    /\ now' = SegmentEnd
    /\ UNCHANGED <<planned, step, ordering, drawn, offsets>>

Arrive ==
    /\ step = "cross" /\ Reached
    /\ now' = now + hazard * Pace /\ offsets' = Append(offsets, now')
    /\ hazard' = 0 /\ step' = "draw"
    /\ UNCHANGED <<planned, ordering, drawn>>

\* The last offset is divided by, so it must not be zero.
Finish ==
    /\ step = "draw" /\ Len(offsets) = Len(trace)
    /\ step' = IF plan # "sorted" /\ offsets # <<>> /\ Last(offsets) = 0
                THEN "refused" ELSE "done"
    /\ UNCHANGED <<planned, ordering, timing>>

Next ==
    \/ Select \/ KeepAll \/ ReadRow \/ AllRead
    \/ NextCohort \/ NextTurn \/ Emit \/ EmitSorted \/ Ordered
    \/ Draw \/ Cross \/ Arrive \/ Finish

Spec == Init /\ [][Next]_vars

----------------------------------------------------------------------------
(* What is right. *)

TypeOK ==
    /\ workload \in Workloads /\ plan \in Plans
    /\ step \in {"select", "read", "order", "draw", "cross", "done", "refused"}
    /\ read \in 0 .. Len(workload)
    /\ kept \subseteq Places /\ wave \subseteq kept /\ trace \in Seq(kept)
    /\ left \subseteq SessionsOf(Places) /\ cohort \subseteq SessionsOf(Places)
    /\ turns \subseteq Nat
    /\ now \in Nat /\ hazard \in Nat /\ drawn \in Seq(Nat) /\ offsets \in Seq(Nat)

\* The turns of a session arrive in their order, which run_benchmark takes
\* for granted when it chains a task to the last one of its session; cohorts
\* and waves also never send two requests of one turn.
TurnsInOrder ==
    \A k, l \in DOMAIN trace :
        k < l /\ SessionOf(trace[k]) = SessionOf(trace[l]) =>
            \/ TurnOf(trace[k]) < TurnOf(trace[l])
            \/ plan = "sorted" /\ TurnOf(trace[k]) = TurnOf(trace[l])

\* Every request of the profile arrives exactly once, unless a later row has
\* the same session and turn: the index of generate_trace keeps only that one,
\* and nothing is said of the other.
Arrivals(i) == Cardinality({k \in DOMAIN trace : trace[k] = i})
NothingLost ==
    step \in {"draw", "cross", "done"} =>
        \A i \in Profile :
            \/ Arrivals(i) = 1
            \/ plan # "sorted" /\ Arrivals(i) = 0
                /\ \E j \in Profile :
                      i < j /\ SessionOf(i) = SessionOf(j) /\ TurnOf(i) = TurnOf(j)

\* "active cohorts", as the manifest says: from the first to the last request
\* of a session, at most CohortSize sessions have requests.
CohortStaysActive ==
    plan # "sorted" =>
        \A k, l \in DOMAIN trace :
            k < l /\ SessionOf(trace[k]) = SessionOf(trace[l]) =>
                Cardinality({SessionOf(trace[m]) : m \in k .. l}) <= CohortSize

\* The hazard that the alternating rate makes up to the time t.
Integral(t) ==
    LET length == Period * High * Low
        full == t \div length
    IN  IF plan = "sorted" THEN t \div Low
        ELSE ((full + 1) \div 2) * (length \div Low) + (full \div 2) * (length \div High)
              + (t % length) \div (IF full % 2 = 0 THEN Low ELSE High)

\* The arrivals are a Poisson process of the alternating rate: an offset is
\* where the rate makes up the draws so far, however many segments a draw
\* spans, and also where it ends at a boundary.
ArrivalsFollowRate ==
    \A k \in DOMAIN offsets :
        /\ Integral(offsets[k]) = drawn[k]
        /\ k > 1 => offsets[k - 1] <= offsets[k]
=============================================================================
