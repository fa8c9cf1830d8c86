---------------------------- MODULE StageProofs ----------------------------
(***************************************************************************)
(* Proofs about Stage, for every workload, number of invocations and       *)
(* number of attempts to join.                                             *)
(***************************************************************************)
EXTENDS Stage, FiniteSetTheorems, TLAPS

----------------------------------------------------------------------------
(* Types. *)

\* What the types of the script need: while it joins, an attempt is left, and
\* while it runs, it is one of the invocations.
TypeInv ==
    /\ TypeOK
    /\ stage = "joining" => tries > 0
    /\ stage \notin Over \/ prober # {} => n \in Runs
    /\ stage \in {"prepared", "routed"} => slice = {}
    /\ stage \in {"prepared", "routed", "waiting", "probing", "running", "sampled"} => way = Unseen
    /\ stage \in {"joining", "joined"} => way \in [Requests -> Ways]

\* A probe succeeds, that of this invocation or an earlier one.
SomeProbe == \E c \in Runs \cup {n} : ProbeSucceeds(c)

LEMMA EmptyTypes ==
  /\ Nothing \in [run : 0..MaxRuns, ok : SUBSET Requests]
  /\ <<>> \in Seq(Rows)
  /\ Unseen \in [Requests -> Ways \cup {"unseen"}]
<1>1. Nothing \in [run : 0..MaxRuns, ok : SUBSET Requests]
  BY StageAssumption DEF Nothing
<1>2. <<>> \in Seq(Rows)
  OBVIOUS
<1>3. Unseen \in [Requests -> Ways \cup {"unseen"}]
  BY DEF Unseen
<1> QED
  BY <1>1, <1>2, <1>3

LEMMA TypeInit == Init => TypeInv
<1> SUFFICES ASSUME Init PROVE TypeInv
  OBVIOUS
<1>1. tries \in 0..Tries /\ n \in 0..MaxRuns
  BY StageAssumption DEF Init
<1>2. client \in [Runs -> Alive \cup {"none", "done", "gone"}]
  BY DEF Init
<1>3. request \in [Runs -> [Requests -> {"unsent", "sent", "succeeded", "failed"}]]
  BY DEF Init
<1>4. results \in [run : 0..MaxRuns, ok : SUBSET Requests] /\ trace \in Seq(Rows)
  BY EmptyTypes DEF Init
<1>5. /\ probe \in BOOLEAN /\ dir \in BOOLEAN /\ fault \in BOOLEAN
      /\ ready \in BOOLEAN /\ gate \in BOOLEAN
  BY DEF Init
<1>6. way \in [Requests -> Ways \cup {"unseen"}]
  BY EmptyTypes DEF Init
<1> QED
  BY <1>1, <1>2, <1>3, <1>4, <1>5, <1>6 DEF Init, TypeInv, TypeOK, Over

\* The steps of the script keep the types.
LEMMA TypeScript ==
  TypeInv /\ (Prepare \/ ScriptStep \/ SomeProbe \/ Terminate \/ Kill) => TypeInv'
<1> SUFFICES ASSUME TypeInv, Prepare \/ ScriptStep \/ SomeProbe \/ Terminate \/ Kill
             PROVE  TypeInv'
  OBVIOUS
<1> USE StageAssumption
    DEF TypeInv, TypeOK, Runs, Over, scriptVars, clientVars, gateVars, traceVars, workerVars,
        evidenceVars, historyVars
<1>1. CASE Prepare
  <2>1. n' \in 0..MaxRuns /\ n' \in Runs
    BY <1>1 DEF Prepare
  <2>2. results' \in [run : 0..MaxRuns, ok : SUBSET Requests] /\ trace' \in Seq(Rows)
    BY <1>1, EmptyTypes DEF Prepare
  <2>3. fault' \in BOOLEAN /\ dir' \in BOOLEAN /\ ready' \in BOOLEAN /\ gate' \in BOOLEAN
    BY <1>1 DEF Prepare
  <2>4. way' = Unseen /\ way' \in [Requests -> Ways \cup {"unseen"}]
    BY <1>1, EmptyTypes DEF Prepare
  <2> QED
    BY <1>1, <2>1, <2>2, <2>3, <2>4 DEF Prepare
<1>2. CASE StartRouter
  BY <1>2 DEF StartRouter
<1>3. CASE Launch
  BY <1>3 DEF Launch, Alive
<1>4. CASE SeesReady
  BY <1>4 DEF SeesReady
<1>13. CASE SomeProbe
  <2>1. PICK c \in Runs \cup {n} : ProbeSucceeds(c)
    BY <1>13 DEF SomeProbe
  <2>2. /\ c \in Runs /\ n \in Runs
        /\ stage' = stage \/ (stage = "probing" /\ stage' = "running")
    BY <2>1 DEF ProbeSucceeds
  <2>3. probed' \subseteq Runs \X Runs /\ prober' \subseteq Runs
    BY <2>1, <2>2 DEF ProbeSucceeds
  <2> QED
    BY <2>1, <2>2, <2>3 DEF ProbeSucceeds
<1>5. ASSUME Exit, n \in Runs
      PROVE  /\ stage' = "failed" /\ sampler' \subseteq Runs
             /\ client' \in [Runs -> Alive \cup {"none", "done", "gone"}]
  BY <1>5 DEF Exit, Terminated
<1>6. CASE SeesExit \/ CommandFails \/ ClientFailed
  <2>1. n \in Runs /\ Exit
    BY <1>6 DEF SeesExit, CommandFails, ClientFailed
  <2> QED
    BY <1>5, <1>6, <2>1 DEF SeesExit, CommandFails, ClientFailed
<1>7. CASE ClientSucceeded
  BY <1>7 DEF ClientSucceeded
<1>8. CASE Cut
  <2>1. way' \in [Requests -> Ways] /\ way' \in [Requests -> Ways \cup {"unseen"}]
    BY <1>8 DEF Cut
  <2>2. tries' \in 0..Tries /\ tries' > 0
    BY <1>8 DEF Cut
  <2> QED
    BY <1>8, <2>1, <2>2 DEF Cut
<1>9. CASE JoinFails
  <2>1. tries \in Nat /\ tries > 0 /\ tries' = tries - 1 /\ tries' \in 0..Tries
    BY <1>9 DEF JoinFails
  <2>2. CASE tries = 1
    BY <1>5, <1>9, <2>1, <2>2 DEF JoinFails
  <2>3. CASE tries # 1
    <3>1. UNCHANGED <<stage, client, sampler, fault>> /\ tries' > 0
      BY <1>9, <2>1, <2>3 DEF JoinFails
    <3> QED
      BY <1>9, <2>1, <3>1 DEF JoinFails
  <2> QED
    BY <2>2, <2>3
<1>10. CASE Join \/ Validate
  BY <1>10 DEF Join, Validate
<1>11. CASE Terminate
  BY <1>11 DEF Terminate, Terminated
<1>12. CASE Kill
  BY <1>12 DEF Kill
<1> QED
  BY <1>1, <1>2, <1>3, <1>4, <1>6, <1>7, <1>8, <1>9, <1>10, <1>11, <1>12, <1>13
  DEF ScriptStep, SomeProbe

\* So do the steps of the clients, of the router and of the workers.
LEMMA TypeOthers ==
  ASSUME TypeInv,
         \/ \E c \in Runs : ClientStep(c)
         \/ \E row \in unwritten : WriteRow(row)
         \/ \E e \in unflushed : Flush(e)
  PROVE  TypeInv'
<1> USE StageAssumption
    DEF TypeInv, TypeOK, Runs, Over, scriptVars, clientVars, gateVars, traceVars, workerVars,
        evidenceVars, historyVars
<1>1. ASSUME NEW c \in Runs, ClientStarts(c) \/ ClientReleased(c) \/ ClientTimesOut(c)
      PROVE  TypeInv'
  <2>1. CASE ClientStarts(c)
    <3>1. ready' \in BOOLEAN /\ dir' \in BOOLEAN
      BY <2>1 DEF ClientStarts
    <3>2. client' \in [Runs -> Alive \cup {"none", "done", "gone"}]
      BY <2>1 DEF ClientStarts, Alive
    <3> QED
      BY <2>1, <3>1, <3>2 DEF ClientStarts
  <2>2. CASE ClientReleased(c) \/ ClientTimesOut(c)
    <3>1. fault' \in BOOLEAN /\ client' \in [Runs -> Alive \cup {"none", "done", "gone"}]
      BY <2>2 DEF ClientReleased, ClientTimesOut, Alive
    <3>2. UNCHANGED <<scriptVars, request, dir, results, gateVars, traceVars, workerVars,
                      evidenceVars, probed, killed>>
      BY <2>2 DEF ClientReleased, ClientTimesOut
    <3> QED
      BY <3>1, <3>2
  <2> QED
    BY <1>1, <2>1, <2>2
<1>2. ASSUME NEW c \in Runs, ClientWrites(c)
      PROVE  TypeInv'
  <2>1. results' \in [run : 0..MaxRuns, ok : SUBSET Requests]
    BY <1>2 DEF ClientWrites
  <2> QED
    BY <1>2, <2>1 DEF ClientWrites
<1>3. ASSUME NEW c \in Runs, NEW r \in Requests, Send(c, r)
      PROVE  TypeInv'
  <2>1. [run |-> c, request |-> r, kind |-> "decision", ok |-> TRUE] \in Rows
    BY DEF Rows
  <2>2. trace' \in Seq(Rows)
    BY <1>3, <2>1 DEF Send
  <2> QED
    BY <1>3, <2>2 DEF Send
<1>4. ASSUME NEW c \in Runs, NEW r \in Requests, NEW ok \in BOOLEAN, RequestEnds(c, r, ok)
      PROVE  TypeInv'
  <2>1. unwritten' \subseteq Rows /\ unflushed' \subseteq Events
    BY <1>4 DEF RequestEnds, Rows, Events
  <2>2. request' \in [Runs -> [Requests -> {"unsent", "sent", "succeeded", "failed"}]]
    BY <1>4 DEF RequestEnds
  <2>3. fault' \in BOOLEAN
    BY <1>4 DEF RequestEnds
  <2> QED
    BY <1>4, <2>1, <2>2, <2>3 DEF RequestEnds
<1>5. ASSUME NEW row \in unwritten, WriteRow(row)
      PROVE  TypeInv'
  <2>1. trace' \in Seq(Rows) /\ unwritten' \subseteq Rows
    BY <1>5 DEF WriteRow
  <2>2. fault' \in BOOLEAN
    BY <1>5 DEF WriteRow
  <2> QED
    BY <1>5, <2>1, <2>2 DEF WriteRow
<1>6. ASSUME NEW e \in unflushed, Flush(e)
      PROVE  TypeInv'
  <2>1. fault' \in BOOLEAN
    BY <1>6 DEF Flush
  <2> QED
    BY <1>6, <2>1 DEF Flush
<1> HIDE DEF TypeInv, TypeOK
<1> QED
  BY <1>1, <1>2, <1>3, <1>4, <1>5, <1>6 DEF ClientStep

LEMMA TypeStep == TypeInv /\ [Next]_vars => TypeInv'
<1>1. TypeInv /\ UNCHANGED vars => TypeInv'
  BY DEF TypeInv, TypeOK, vars, scriptVars, clientVars, gateVars, traceVars, workerVars,
         evidenceVars, historyVars
<1> QED
  BY <1>1, TypeScript, TypeOthers DEF Next, SomeProbe

\* Every variable of the stage keeps its type (run_four_h20_stage.sh).
THEOREM StageTypeCorrect == Spec => []TypeOK
<1>1. TypeInv => TypeOK
  BY DEF TypeInv
<1> QED
  BY <1>1, TypeInit, TypeStep, PTL DEF Spec

----------------------------------------------------------------------------
(* Nothing outlives a stage. *)

Lives(c) == client[c] \in Alive \/ c \in sampler \cup prober

\* NoOrphans, with what the script knows of its own client at each of its
\* steps: it starts one after the router, waits and probes only behind a gate,
\* and cuts, joins and validates only when the client is done.
OrphanInv ==
    /\ \A c \in Runs : c > n => ~Lives(c)
    /\ \A c \in Runs : c # n /\ Lives(c) => c \in killed
    /\ stage \in Over => \A c \in Runs : c = n /\ Lives(c) => c \in killed
    /\ stage \in {"prepared", "routed", "sampled", "joining", "joined"} => ~Lives(n)
    /\ stage \in {"waiting", "probing"} => probe
    /\ stage \notin Over \cup {"probing"} => n \notin prober

LEMMA OrphanInit == Init => OrphanInv
  BY DEF Init, OrphanInv, Lives, Alive, Over

LEMMA OrphanStep == TypeInv /\ OrphanInv /\ [Next]_vars => OrphanInv'
<1> SUFFICES ASSUME TypeInv, OrphanInv, [Next]_vars PROVE OrphanInv'
  OBVIOUS
<1> USE DEF scriptVars, clientVars, gateVars, traceVars, workerVars, evidenceVars, historyVars
<1>1. /\ n \in 0..MaxRuns /\ MaxRuns \in Nat /\ Runs = 1..MaxRuns
      /\ client \in [Runs -> Alive \cup {"none", "done", "gone"}]
      /\ stage \notin Over => n \in Runs
  BY StageAssumption DEF TypeInv, TypeOK, Runs
<1>2. CASE Prepare
  <2>1. /\ n' = n + 1 /\ stage' = "prepared" /\ n' \in Runs /\ stage \in Over
        /\ prober' = prober
    BY <1>1, <1>2 DEF Prepare
  <2>2. \A c \in Runs : Lives(c)' <=> Lives(c)
    BY <1>2 DEF Prepare, Lives
  <2>3. n' \notin prober'
    BY <1>1, <2>1 DEF OrphanInv, Lives
  <2> QED
    BY <1>1, <1>2, <2>1, <2>2, <2>3 DEF Prepare, OrphanInv, Over
<1>3. CASE StartRouter \/ Cut \/ Join \/ Validate \/ Kill
  <2>1. /\ n' = n /\ probe' = probe /\ prober' = prober
        /\ \A c \in Runs : Lives(c)' <=> Lives(c)
    BY <1>3 DEF StartRouter, Cut, Join, Validate, Kill, Lives
  <2>2. CASE Kill
    BY <1>1, <2>1, <2>2 DEF Kill, OrphanInv, Over
  <2>3. CASE ~Kill
    BY <1>1, <1>3, <2>1, <2>3
    DEF StartRouter, Cut, Join, Validate, OrphanInv, Over
  <2> QED
    BY <2>2, <2>3
<1>4. CASE Launch
  <2>1. /\ n' = n /\ probe' = probe /\ killed' = killed
        /\ \A c \in Runs : c # n => (Lives(c)' <=> Lives(c))
        /\ stage = "routed" /\ stage' \in {"waiting", "running"}
        /\ stage' = "waiting" => probe
        /\ prober' = prober
    BY <1>1, <1>4 DEF Launch, Lives
  <2> QED
    BY <1>1, <2>1 DEF OrphanInv, Over
<1>5. ASSUME Exit, stage \notin Over, probe \/ client[n] \notin Alive,
             n \notin prober', prober' = prober \/ prober' = prober \ {n}
      PROVE  stage' = "failed" /\ (n' = n => \A c \in Runs :
                IF c = n THEN ~Lives(c)' ELSE (Lives(c)' <=> Lives(c)))
  BY <1>1, <1>5 DEF Exit, Terminated, Lives, Alive
<1>6. CASE SeesExit \/ CommandFails \/ ClientFailed \/ JoinFails
  <2>1. n' = n /\ probe' = probe /\ killed' = killed
    BY <1>6 DEF SeesExit, CommandFails, ClientFailed, JoinFails
  <2>2. CASE stage' = stage /\ client' = client /\ sampler' = sampler /\ prober' = prober
    BY <2>1, <2>2 DEF OrphanInv, Lives
  <2>3. CASE ~(stage' = stage /\ client' = client /\ sampler' = sampler /\ prober' = prober)
    <3>1. /\ Exit /\ stage \notin Over /\ (probe \/ client[n] \notin Alive)
          /\ n \notin prober' /\ (prober' = prober \/ prober' = prober \ {n})
      BY <1>6, <2>3
      DEF SeesExit, CommandFails, ClientFailed, JoinFails, OrphanInv, Lives, Over, Alive
    <3> QED
      BY <1>1, <1>5, <2>1, <3>1 DEF OrphanInv, Over
  <2> QED
    BY <2>2, <2>3
<1>7. CASE ClientSucceeded
  <2>1. /\ n' = n /\ probe' = probe /\ killed' = killed /\ stage' = "sampled"
        /\ stage = "running" /\ prober' = prober /\ ~Lives(n)'
        /\ \A c \in Runs : c # n => (Lives(c)' <=> Lives(c))
    BY <1>1, <1>7 DEF ClientSucceeded, Lives, Alive, OrphanInv, Over
  <2> QED
    BY <1>1, <2>1 DEF OrphanInv, Over
<1>8. CASE Terminate
  <2>1. /\ n' = n /\ probe' = probe /\ killed' = killed /\ stage' = stage
        /\ stage \in {"waiting", "running"} /\ prober' = prober
        /\ \A c \in Runs : Lives(c)' => Lives(c)
    BY <1>1, <1>8 DEF Terminate, Terminated, Lives, Alive
  <2> QED
    BY <1>1, <2>1 DEF OrphanInv, Over
<1>11. CASE SeesReady
  <2>1. /\ UNCHANGED <<n, probe, killed>> /\ stage = "waiting" /\ stage' = "probing"
        /\ \A c \in Runs : c # n => (Lives(c)' <=> Lives(c))
    BY <1>1, <1>11 DEF SeesReady, Lives
  <2> QED
    BY <1>1, <2>1 DEF OrphanInv, Over
<1>12. CASE SomeProbe
  <2>1. PICK c \in Runs \cup {n} : ProbeSucceeds(c)
    BY <1>12 DEF SomeProbe
  <2>2. /\ UNCHANGED <<n, probe, killed>> /\ prober' = prober \ {c} /\ c \in prober
        /\ stage' = IF c = n /\ stage = "probing" THEN "running" ELSE stage
        /\ \A d \in Runs : Lives(d)' => Lives(d)
    BY <2>1 DEF ProbeSucceeds, Lives
  <2> QED
    BY <1>1, <2>2 DEF OrphanInv, Over
<1>9. ASSUME NEW c \in Runs, ClientStep(c)
      PROVE  OrphanInv'
  <2>1. UNCHANGED <<n, probe, killed, stage, prober>>
    BY <1>9 DEF ClientStep, ClientStarts, ClientReleased, ClientTimesOut, ClientWrites, Send,
                RequestEnds
  <2>2. \A d \in Runs : Lives(d)' => Lives(d)
    BY <1>1, <1>9 DEF ClientStep, ClientStarts, ClientReleased, ClientTimesOut, ClientWrites,
                Send, RequestEnds, Lives, Alive
  <2> QED
    BY <1>1, <2>1, <2>2 DEF OrphanInv, Over
<1>10. CASE \/ UNCHANGED vars
            \/ \E row \in unwritten : WriteRow(row)
            \/ \E e \in unflushed : Flush(e)
  <2>1. UNCHANGED <<n, probe, killed, stage, client, sampler, prober>>
    BY <1>10 DEF vars, WriteRow, Flush
  <2> QED
    BY <2>1 DEF OrphanInv, Lives
<1> QED
  BY <1>2, <1>3, <1>4, <1>6, <1>7, <1>8, <1>9, <1>10, <1>11, <1>12
  DEF Next, ScriptStep, SomeProbe

\* No client, no sampler and no probe outlives its stage, unless it was killed
\* (the trap of run_four_h20_stage.sh, lines 96-106).
THEOREM NothingOutlives == Spec => []NoOrphans
<1>1. OrphanInv => NoOrphans
  BY DEF OrphanInv, NoOrphans, Lives
<1> QED
  BY <1>1, TypeInit, TypeStep, OrphanInit, OrphanStep, PTL DEF Spec

----------------------------------------------------------------------------
(* The gate. *)

\* Invocations whose client is not started yet.
Ahead(c) == c > n \/ (c = n /\ stage \in {"prepared", "routed"})

\* A client that may send behind a gate.
Released(c) == c \in killed \/ \E b \in killed \cup {c} : <<b, c>> \in probed

\* An open gate was opened while this invocation was under way, and a client has
\* sent nothing before it was let through.
GateInv ==
    /\ \A c \in Runs : Ahead(c) => client[c] = "none"
    /\ gate => Released(n)
    /\ \A c \in Runs : client[c] \in {"none", "starting", "waiting"} =>
          \A r \in Requests : request[c][r] = "unsent"
    /\ \A c \in Runs : probe /\ client[c] \in {"sending", "done"} => Released(c)
    /\ ProbedBeforeSent

LEMMA GateInit == Init => GateInv
  BY DEF Init, GateInv, ProbedBeforeSent

\* ProbedBeforeSent, before and after a step.
LEMMA ReleasedBefore ==
  /\ ProbedBeforeSent <=>
        \A c \in Runs : probe /\ (\E r \in Requests : request[c][r] # "unsent") => Released(c)
  /\ ProbedBeforeSent' <=>
        \A c \in Runs : probe' /\ (\E r \in Requests : request'[c][r] # "unsent") => Released(c)'
  BY DEF ProbedBeforeSent, Released

\* What was probed or killed stays so.
LEMMA ReleasedKept ==
  ASSUME probed \subseteq probed', killed \subseteq killed', NEW c, Released(c)
  PROVE  Released(c)'
  BY DEF Released

\* A step of the script that at most ends a client keeps the invariant.
LEMMA GateKept ==
  ASSUME TypeInv, GateInv,
         probe' = probe, request' = request, probed \subseteq probed', killed \subseteq killed',
         gate' => Released(n)',
         \A c \in Runs : Ahead(c)' => Ahead(c),
         \A c \in Runs : client'[c] = client[c] \/ (client'[c] = "gone" /\ client[c] \in Alive)
  PROVE  GateInv'
<1>1. \A c \in Runs : Ahead(c)' => client'[c] = "none"
  BY DEF GateInv, Alive
<1>2. \A c \in Runs : client'[c] \in {"none", "starting", "waiting"} =>
         \A r \in Requests : request'[c][r] = "unsent"
  BY DEF GateInv
<1>3. \A c \in Runs : probe' /\ client'[c] \in {"sending", "done"} => Released(c)'
  BY ReleasedKept DEF GateInv
<1>4. ProbedBeforeSent'
  BY DEF GateInv, ProbedBeforeSent
<1> QED
  BY <1>1, <1>2, <1>3, <1>4 DEF GateInv

LEMMA GateScript ==
  ASSUME TypeInv, OrphanInv, GateInv,
         Prepare \/ ScriptStep \/ SomeProbe \/ Terminate \/ Kill
  PROVE  GateInv'
<1> USE DEF scriptVars, clientVars, gateVars, traceVars, workerVars, evidenceVars, historyVars
<1>1. /\ n \in 0..MaxRuns /\ MaxRuns \in Nat /\ Runs = 1..MaxRuns
      /\ client \in [Runs -> Alive \cup {"none", "done", "gone"}]
      /\ request \in [Runs -> [Requests -> {"unsent", "sent", "succeeded", "failed"}]]
      /\ stage \notin Over => n \in Runs
  BY StageAssumption DEF TypeInv, TypeOK, Runs
<1>2. CASE Prepare
  <2>1. \A c \in Runs : Ahead(c)' => Ahead(c)
    BY <1>1, <1>2 DEF Prepare, Ahead
  <2> QED
    BY <1>2, <2>1, GateKept DEF Prepare
<1>3. CASE SeesReady \/ SomeProbe \/ ClientSucceeded \/ Cut \/ Join \/ Validate \/ Kill
  <2>1. \A c \in Runs : Ahead(c)' => Ahead(c)
    BY <1>3 DEF SeesReady, SomeProbe, ProbeSucceeds, ClientSucceeded, Cut, Join, Validate, Kill, Ahead
  <2>2. gate' => Released(n)'
    <3>1. CASE SomeProbe
      <4>1. PICK b \in Runs \cup {n} : ProbeSucceeds(b)
        BY <3>1 DEF SomeProbe
      <4>2. b \in prober /\ <<b, n>> \in probed' /\ n' = n /\ killed' = killed
        BY <4>1 DEF ProbeSucceeds
      <4>3. b = n \/ b \in killed
        BY <1>1, <4>2 DEF OrphanInv, Lives, TypeInv, TypeOK
      <4> QED
        BY <4>2, <4>3 DEF Released
    <3>2. CASE ~SomeProbe
      <4>1. UNCHANGED <<n, gate, probed>>
        BY <1>3, <3>2 DEF SeesReady, ClientSucceeded, Cut, Join, Validate, Kill
      <4> QED
        <5>1. killed \subseteq killed'
          BY <1>3, <3>2 DEF SeesReady, ClientSucceeded, Cut, Join, Validate, Kill
        <5> QED
          BY <4>1, <5>1 DEF GateInv, Released
    <3> QED
      BY <3>1, <3>2
  <2> QED
    BY <1>3, <2>1, <2>2, GateKept
    DEF SeesReady, SomeProbe, ProbeSucceeds, ClientSucceeded, Cut, Join, Validate, Kill
<1>4. CASE StartRouter
  <2>1. \A c \in Runs, r \in Requests : request'[c][r] = "unsent" <=> request[c][r] = "unsent"
    BY <1>1, <1>4 DEF StartRouter
  <2>2. UNCHANGED <<probe, client, gate, n, probed, killed>> /\ \A c \in Runs : Ahead(c)' => Ahead(c)
    BY <1>4 DEF StartRouter, Ahead
  <2>3. \A c \in Runs : Released(c)' <=> Released(c)
    BY <2>2 DEF Released
  <2>4. gate' => Released(n)'
    BY <2>2 DEF GateInv, Released
  <2> QED
    BY <2>1, <2>2, <2>3, <2>4, ReleasedBefore DEF GateInv
<1>5. CASE Launch
  <2>1. /\ UNCHANGED <<probe, request, gate, n, probed, killed>> /\ n \in Runs
        /\ client[n] = "none" /\ client' = [client EXCEPT ![n] = "starting"]
    BY <1>1, <1>5 DEF Launch, GateInv, Ahead, Over
  <2>2. \A c \in Runs : Ahead(c)' => c # n /\ Ahead(c)
    BY <1>1, <1>5 DEF Launch, Ahead
  <2>3. (\A c \in Runs : Released(c)' <=> Released(c)) /\ (gate' => Released(n)')
    BY <2>1 DEF Released, GateInv
  <2> QED
    BY <1>1, <2>1, <2>2, <2>3, ReleasedBefore DEF GateInv
<1>6. CASE SeesExit \/ CommandFails \/ ClientFailed \/ JoinFails \/ Terminate
  <2>1. UNCHANGED <<probe, request, gate, n, probed, killed>> /\ gate' => Released(n)'
    BY <1>6 DEF SeesExit, CommandFails, ClientFailed, JoinFails, Terminate, GateInv, Released
  <2>2. \A c \in Runs : client'[c] = client[c] \/ (client'[c] = "gone" /\ client[c] \in Alive)
    BY <1>1, <1>6
    DEF SeesExit, CommandFails, ClientFailed, JoinFails, Terminate, Exit, Terminated
  <2>3. stage' = "failed" \/ stage' = stage
    BY <1>6 DEF SeesExit, CommandFails, ClientFailed, JoinFails, Terminate, Exit
  <2>4. \A c \in Runs : Ahead(c)' => Ahead(c)
    <3>1. n' = n
      BY <1>6 DEF SeesExit, CommandFails, ClientFailed, JoinFails, Terminate
    <3> QED
      BY <2>3, <3>1 DEF Ahead
  <2> QED
    BY <2>1, <2>2, <2>4, GateKept, <1>6
    DEF SeesExit, CommandFails, ClientFailed, JoinFails, Terminate
<1> QED
  BY <1>2, <1>3, <1>4, <1>5, <1>6 DEF ScriptStep, SomeProbe

LEMMA GateClient ==
  ASSUME TypeInv, OrphanInv, GateInv, NEW c \in Runs, ClientStep(c)
  PROVE  GateInv'
<1> USE DEF scriptVars, clientVars, gateVars, traceVars, workerVars, evidenceVars, historyVars
<1>1. /\ client \in [Runs -> Alive \cup {"none", "done", "gone"}]
      /\ request \in [Runs -> [Requests -> {"unsent", "sent", "succeeded", "failed"}]]
  BY DEF TypeInv, TypeOK
<1>2. UNCHANGED <<n, probe, stage, gate, probed, killed>>
      /\ client[c] # "none" /\ \A d \in Runs : Ahead(d)' <=> Ahead(d)
  <2>1. UNCHANGED <<n, probe, stage, gate, probed, killed>>
    BY DEF ClientStep, ClientStarts, ClientReleased, ClientTimesOut, ClientWrites, Send,
           RequestEnds
  <2>2. client[c] # "none"
    BY DEF ClientStep, ClientStarts, ClientReleased, ClientTimesOut, ClientWrites, Send,
           RequestEnds
  <2> QED
    BY <2>1, <2>2 DEF Ahead
<1>3. ~Ahead(c)
  BY <1>2 DEF GateInv
<1>9. (\A d \in Runs : Released(d)' <=> Released(d)) /\ (gate' => Released(n)')
  BY <1>2 DEF Released, GateInv
<1>4. CASE ClientStarts(c)
  <2>1. /\ request' = request /\ client[c] = "starting"
        /\ client'[c] \in {"gone", "waiting", "sending"}
        /\ client'[c] = "sending" => ~probe
        /\ \A d \in Runs : d # c => client'[d] = client[d]
    BY <1>1, <1>4 DEF ClientStarts
  <2> QED
    BY <1>1, <1>2, <1>3, <1>9, <2>1, ReleasedBefore DEF GateInv
<1>5. CASE ClientReleased(c)
  <2>1. Released(c)
    BY <1>5 DEF ClientReleased, GateInv, OrphanInv, Lives, Alive, Released
  <2>2. /\ request' = request
        /\ client'[c] = "sending"
        /\ \A d \in Runs : d # c => client'[d] = client[d]
    BY <1>1, <1>5 DEF ClientReleased
  <2> QED
    BY <1>1, <1>2, <1>3, <1>9, <2>1, <2>2, ReleasedBefore DEF GateInv
<1>6. CASE ClientTimesOut(c)
  <2>1. /\ request' = request
        /\ client'[c] = "gone" /\ client[c] \in Alive
        /\ \A d \in Runs : d # c => client'[d] = client[d]
    BY <1>1, <1>6 DEF ClientTimesOut, Alive
  <2> QED
    BY <1>2, <2>1, GateKept DEF GateInv, Released
<1>7. CASE ClientWrites(c)
  <2>1. /\ request' = request /\ client[c] = "sending" /\ client'[c] = "done"
        /\ \A d \in Runs : d # c => client'[d] = client[d]
    BY <1>1, <1>7 DEF ClientWrites
  <2> QED
    BY <1>2, <1>3, <1>9, <2>1, ReleasedBefore DEF GateInv
<1>8. ASSUME NEW r \in Requests, NEW ok \in BOOLEAN, Send(c, r) \/ RequestEnds(c, r, ok)
      PROVE  GateInv'
  <2>1. /\ client' = client
        /\ client[c] \in {"sending", "gone"}
        /\ \A d \in Runs : d # c => request'[d] = request[d]
    BY <1>1, <1>8 DEF Send, RequestEnds
  <2>2. probe => Released(c)
    BY <1>8 DEF Send, RequestEnds, GateInv, ProbedBeforeSent, Released
  <2> QED
    BY <1>1, <1>2, <1>3, <1>9, <2>1, <2>2, ReleasedBefore DEF GateInv
<1> QED
  BY <1>4, <1>5, <1>6, <1>7, <1>8 DEF ClientStep

LEMMA GateStep == TypeInv /\ OrphanInv /\ GateInv /\ [Next]_vars => GateInv'
<1>1. ASSUME GateInv,
             \/ UNCHANGED vars
             \/ \E row \in unwritten : WriteRow(row)
             \/ \E e \in unflushed : Flush(e)
      PROVE  GateInv'
  <2>1. UNCHANGED <<n, stage, probe, probed, killed, gate, client, request>>
    BY <1>1 DEF vars, WriteRow, Flush, scriptVars, clientVars, gateVars, historyVars
  <2> QED
    BY <1>1, <2>1 DEF GateInv, ProbedBeforeSent, Released, Ahead
<1> QED
  BY <1>1, GateScript, GateClient DEF Next, SomeProbe

\* Behind a gate a client sends nothing before the router's choice was probed
\* while its own invocation was under way, by the probe of that invocation or by
\* one that a killed stage left behind; only a client that a killed stage left
\* behind may (run_four_h20_stage.sh 160-206, run_benchmark.py 186-201,
\* single_h20_v2_1_multitier.py 198-235).
THEOREM GateHolds == Spec => []ProbedBeforeSent
<1>1. GateInv => ProbedBeforeSent
  BY DEF GateInv
<1> QED
  BY <1>1, TypeInit, TypeStep, OrphanInit, OrphanStep, GateInit, GateStep, PTL DEF Spec

----------------------------------------------------------------------------
(* What is joined is the run's own. *)

\* The client of this invocation was started.
Launched == n \in Runs /\ client[n] # "none"

\* The router was restarted in this invocation, and no client ran in between.
Fresh == Launched \/ stage = "routed"

\* The steps of the script after the launch.
Late == {"waiting", "probing", "running", "sampled", "joining", "joined"}

\* A new router knows no request of an earlier invocation.
FreshInv ==
    /\ \A c \in Runs : Fresh /\ c # n => \A r \in Requests : request[c][r] # "sent"
    /\ \A row \in unwritten : row.kind = "completion" /\ (Fresh => row.run = n)

\* A decision is this client's own, and a completion that is not stands before
\* all decisions.
TraceInv ==
    \A i \in DOMAIN trace :
        /\ trace[i].kind = "decision" => trace[i].run = n /\ Launched
        /\ trace[i].run # n => \A j \in DOMAIN trace : j < i => trace[j].kind # "decision"

\* Events of an earlier invocation that are flushed after the offsets were
\* taken are a fault.
SliceInv ==
    /\ Launched => fault \/ \A e \in flushed \ marked : e.run = n
    /\ fault \/ \A e \in slice : e.run = n

\* As long as no invocation was killed.
OwnInv ==
    killed = {} =>
        /\ stage \in Late => Launched
        /\ FreshInv /\ TraceInv /\ SliceInv
        /\ results # Nothing => results.run = n
        /\ EvidenceIsOwn

LEMMA OwnInit == Init => OwnInv
  BY DEF Init, OwnInv, Late, FreshInv, TraceInv, SliceInv, EvidenceIsOwn, Fresh, Launched

\* A step that only moves the script or ends a client keeps the invariant.
LEMMA OwnKept ==
  ASSUME OwnInv, UNCHANGED <<n, request, results, traceVars, flushed, evidenceVars>>,
         killed' = {} => killed = {}, fault => fault',
         Launched' <=> Launched,
         stage' \in Late => stage \in Late, stage' = "routed" => stage = "routed"
  PROVE  OwnInv'
<1> SUFFICES ASSUME killed' = {}
             PROVE  /\ stage' \in Late => Launched'
                    /\ FreshInv' /\ TraceInv' /\ SliceInv'
                    /\ results' # Nothing => results'.run = n'
                    /\ EvidenceIsOwn'
  BY DEF OwnInv
<1> USE DEF traceVars, evidenceVars
<1>1. /\ stage \in Late => Launched
      /\ FreshInv /\ TraceInv /\ SliceInv
      /\ results # Nothing => results.run = n
      /\ EvidenceIsOwn /\ killed = {}
  BY DEF OwnInv
<1>2. FreshInv'
  BY <1>1 DEF FreshInv, Fresh
<1>3. TraceInv'
  BY <1>1 DEF TraceInv
<1>4. SliceInv'
  BY <1>1 DEF SliceInv
<1>5. EvidenceIsOwn'
  BY <1>1 DEF EvidenceIsOwn
<1> QED
  BY <1>1, <1>2, <1>3, <1>4, <1>5

\* Rows that join well are the run's own.
LEMMA RowsAreOwn ==
  ASSUME TypeInv, TraceInv, Joinable, NEW i \in DOMAIN trace
  PROVE  trace[i].run = n
<1>1. trace[i] \in Rows
  BY DEF TypeInv, TypeOK
<1>2. trace[i].request \in Requests /\ trace[i].kind \in {"decision", "completion"}
  BY <1>1 DEF Rows
<1>3. CASE trace[i].kind = "decision"
  BY <1>3 DEF TraceInv
<1>4. CASE trace[i].kind = "completion"
  <2>1. PICK d, c \in DOMAIN trace :
            /\ Positions(trace[i].request, "decision") = {d}
            /\ Positions(trace[i].request, "completion") = {c}
            /\ d < c
    BY <1>2 DEF Joinable, RoutedOnce
  <2>2. i = c /\ trace[d].kind = "decision"
    BY <1>4, <2>1 DEF Positions
  <2> QED
    BY <2>1, <2>2 DEF TraceInv
<1> QED
  BY <1>2, <1>3, <1>4

LEMMA OwnScript ==
  ASSUME TypeInv, OrphanInv, GateInv, OwnInv,
         Prepare \/ ScriptStep \/ SomeProbe \/ Terminate \/ Kill
  PROVE  OwnInv'
<1> USE DEF scriptVars, clientVars, gateVars, traceVars, workerVars, evidenceVars, historyVars
<1>1. /\ n \in 0..MaxRuns /\ MaxRuns \in Nat /\ Runs = 1..MaxRuns
      /\ client \in [Runs -> Alive \cup {"none", "done", "gone"}]
      /\ request \in [Runs -> [Requests -> {"unsent", "sent", "succeeded", "failed"}]]
      /\ stage \notin Over => n \in Runs
  BY StageAssumption DEF TypeInv, TypeOK, Runs
<1>2. killed \subseteq killed'
  BY DEF Prepare, ScriptStep, Terminate, Kill, StartRouter, Launch, SeesReady, SeesExit,
         SomeProbe, ProbeSucceeds, CommandFails, ClientSucceeded, ClientFailed, Cut, JoinFails, Join, Validate
<1> SUFFICES ASSUME killed' = {} PROVE OwnInv'
  BY DEF OwnInv
<1>3. killed = {} /\ killed' = {}
  BY <1>2
<1>4. /\ stage \in Late => Launched
      /\ FreshInv /\ TraceInv /\ SliceInv
      /\ results # Nothing => results.run = n
      /\ EvidenceIsOwn
  BY <1>3 DEF OwnInv
<1>5. CASE Prepare
  <2>1. /\ n' = n + 1 /\ n' \in Runs /\ stage' = "prepared" /\ client' = client
        /\ trace' = <<>> /\ results' = Nothing /\ slice' = {} /\ joined' = NoJoin
        /\ unwritten' = unwritten
    BY <1>1, <1>5 DEF Prepare
  <2>2. ~Launched' /\ ~Fresh'
    BY <1>1, <2>1 DEF Launched, Fresh, GateInv, Ahead
  <2>3. FreshInv'
    BY <1>4, <2>1, <2>2 DEF FreshInv
  <2>4. TraceInv' /\ SliceInv' /\ EvidenceIsOwn' /\ stage' \notin Late
    BY <2>1, <2>2 DEF TraceInv, SliceInv, EvidenceIsOwn, Late
  <2> QED
    BY <2>1, <2>3, <2>4 DEF OwnInv
<1>6. CASE StartRouter
  <2>1. UNCHANGED <<n, client, results, trace, flushed, marked, slice, joined, fault, killed>>
        /\ stage' = "routed" /\ unwritten' = {}
    BY <1>6 DEF StartRouter
  <2>2. \A c \in Runs, r \in Requests : request'[c][r] # "sent"
    BY <1>1, <1>6 DEF StartRouter
  <2>3. FreshInv'
    BY <2>1, <2>2 DEF FreshInv
  <2>4. Launched' <=> Launched
    BY <2>1 DEF Launched
  <2>5. TraceInv' /\ SliceInv' /\ EvidenceIsOwn' /\ stage' \notin Late
    BY <1>4, <2>1, <2>4 DEF TraceInv, SliceInv, EvidenceIsOwn, Late
  <2> QED
    BY <1>4, <2>1, <2>3, <2>5 DEF OwnInv
<1>7. CASE Launch
  <2>1. UNCHANGED <<n, request, results, trace, unwritten, flushed, slice, joined, fault, killed>>
        /\ stage = "routed" /\ n \in Runs /\ marked' = flushed
        /\ client' = [client EXCEPT ![n] = "starting"]
    BY <1>1, <1>7 DEF Launch, Over
  <2>2. Launched' /\ Fresh
    BY <1>1, <2>1 DEF Launched, Fresh
  <2>3. FreshInv'
    BY <1>4, <2>1, <2>2 DEF FreshInv
  <2>4. TraceInv' /\ SliceInv' /\ EvidenceIsOwn'
    BY <1>4, <2>1, <2>2 DEF TraceInv, SliceInv, EvidenceIsOwn
  <2> QED
    BY <1>4, <2>1, <2>2, <2>3, <2>4 DEF OwnInv
<1>8. CASE SeesReady \/ SomeProbe \/ ClientSucceeded \/ Validate \/ Kill
  <2>1. Launched' <=> Launched
    BY <1>8 DEF SeesReady, SomeProbe, ProbeSucceeds, ClientSucceeded, Validate, Kill, Launched
  <2>2. (stage' \in Late => stage \in Late) /\ (stage' = "routed" => stage = "routed")
    BY <1>8 DEF SeesReady, SomeProbe, ProbeSucceeds, ClientSucceeded, Validate, Kill, Late
  <2> QED
    BY <1>3, <1>8, <2>1, <2>2, OwnKept
    DEF SeesReady, SomeProbe, ProbeSucceeds, ClientSucceeded, Validate, Kill
<1>9. CASE SeesExit \/ CommandFails \/ ClientFailed \/ JoinFails \/ Terminate
  <2>0. fault => fault'
    <3>1. CASE SeesExit \/ CommandFails \/ ClientFailed \/ Terminate
      BY <3>1 DEF SeesExit, CommandFails, ClientFailed, Terminate
    <3>2. CASE JoinFails
      <4>1. CASE tries = 1
        BY <3>2, <4>1 DEF JoinFails
      <4>2. CASE tries # 1
        BY <3>2, <4>2 DEF JoinFails
      <4> QED
        BY <4>1, <4>2
    <3> QED
      BY <1>9, <3>1, <3>2
  <2>1. UNCHANGED <<n, request, results, traceVars, flushed, evidenceVars>> /\ (fault => fault')
    BY <1>9, <2>0 DEF SeesExit, CommandFails, ClientFailed, JoinFails, Terminate
  <2>2. \A c \in Runs : client'[c] = client[c] \/ (client'[c] = "gone" /\ client[c] \in Alive)
    BY <1>1, <1>9
    DEF SeesExit, CommandFails, ClientFailed, JoinFails, Terminate, Exit, Terminated
  <2>3. Launched' <=> Launched
    BY <2>1, <2>2 DEF Launched, Alive
  <2>4. stage' = stage \/ stage' = "failed"
    BY <1>9 DEF SeesExit, CommandFails, ClientFailed, JoinFails, Terminate, Exit
  <2> QED
    BY <1>3, <2>1, <2>3, <2>4, OwnKept DEF Late
<1>10. CASE Cut
  <2>1. UNCHANGED <<n, client, request, results, trace, unwritten, flushed, marked, joined, killed>>
        /\ stage = "sampled" /\ stage' = "joining" /\ slice' = flushed \ marked
        /\ (fault => fault')
    BY <1>10 DEF Cut
  <2>2. Launched /\ Launched'
    BY <1>4, <2>1 DEF Late, Launched
  <2>3. FreshInv'
    BY <1>4, <2>1, <2>2 DEF FreshInv, Fresh
  <2>4. TraceInv' /\ SliceInv' /\ EvidenceIsOwn'
    BY <1>4, <2>1, <2>2 DEF TraceInv, SliceInv, EvidenceIsOwn
  <2> QED
    BY <1>4, <2>1, <2>2, <2>3, <2>4 DEF OwnInv
<1>11. CASE Join
  <2>1. UNCHANGED <<n, client, request, results, trace, unwritten, flushed, marked, slice, fault,
                    killed>>
        /\ stage = "joining" /\ stage' = "joined" /\ Joinable
        /\ joined' = [results |-> results, trace |-> trace, slice |-> slice]
    BY <1>11 DEF Join
  <2>2. Launched /\ Launched'
    BY <1>4, <2>1 DEF Late, Launched
  <2>3. results.run = n
    BY <1>4, <2>1 DEF Joinable
  <2>4. \A i \in DOMAIN trace : trace[i].run = n
    BY <1>4, <2>1, RowsAreOwn
  <2>5. EvidenceIsOwn'
    BY <1>4, <2>1, <2>3, <2>4 DEF EvidenceIsOwn, SliceInv
  <2>6. FreshInv'
    BY <1>4, <2>1, <2>2 DEF FreshInv, Fresh
  <2>7. TraceInv' /\ SliceInv'
    BY <1>4, <2>1, <2>2 DEF TraceInv, SliceInv
  <2> QED
    BY <1>4, <2>1, <2>2, <2>5, <2>6, <2>7 DEF OwnInv
<1> QED
  BY <1>5, <1>6, <1>7, <1>8, <1>9, <1>10, <1>11 DEF ScriptStep, SomeProbe

LEMMA OwnOthers ==
  ASSUME TypeInv, OrphanInv, GateInv, OwnInv,
         \/ \E c \in Runs : ClientStep(c)
         \/ \E row \in unwritten : WriteRow(row)
         \/ \E e \in unflushed : Flush(e)
  PROVE  OwnInv'
<1> USE DEF scriptVars, clientVars, gateVars, traceVars, workerVars, evidenceVars, historyVars
<1>1. /\ n \in 0..MaxRuns /\ MaxRuns \in Nat /\ Runs = 1..MaxRuns
      /\ client \in [Runs -> Alive \cup {"none", "done", "gone"}]
      /\ request \in [Runs -> [Requests -> {"unsent", "sent", "succeeded", "failed"}]]
      /\ trace \in Seq(Rows)
  BY StageAssumption DEF TypeInv, TypeOK, Runs
<1>2. killed' = killed /\ n' = n /\ stage' = stage /\ joined' = joined /\ slice' = slice
      /\ marked' = marked
  BY DEF ClientStep, ClientStarts, ClientReleased, ClientTimesOut, ClientWrites, Send,
         RequestEnds, WriteRow, Flush
<1> SUFFICES ASSUME killed = {} PROVE OwnInv'
  BY <1>2 DEF OwnInv
<1>4. /\ stage \in Late => Launched
      /\ FreshInv /\ TraceInv /\ SliceInv
      /\ results # Nothing => results.run = n
      /\ EvidenceIsOwn
  BY DEF OwnInv
<1>5. \A c \in Runs : client[c] \in Alive => c = n
  BY DEF OrphanInv, Lives
<1>6. ASSUME NEW c \in Runs, ClientStarts(c) \/ ClientReleased(c) \/ ClientTimesOut(c)
      PROVE  OwnInv'
  <2>1. UNCHANGED <<n, request, results, traceVars, flushed, evidenceVars>> /\ (fault => fault')
    BY <1>6 DEF ClientStarts, ClientReleased, ClientTimesOut
  <2>2. \A d \in Runs : client'[d] # "none" <=> client[d] # "none"
    BY <1>1, <1>6 DEF ClientStarts, ClientReleased, ClientTimesOut
  <2>3. Launched' <=> Launched
    BY <1>2, <2>2 DEF Launched
  <2> QED
    BY <1>2, <2>1, <2>3, OwnKept
<1>7. ASSUME NEW c \in Runs, ClientWrites(c)
      PROVE  OwnInv'
  <2>1. /\ UNCHANGED <<request, trace, unwritten, flushed, fault>> /\ results'.run = c /\ c = n
        /\ client[c] = "sending" /\ client' = [client EXCEPT ![c] = "done"]
    BY <1>5, <1>7 DEF ClientWrites, Alive
  <2>2. Launched /\ Launched'
    BY <1>1, <1>2, <2>1 DEF Launched
  <2>3. FreshInv'
    BY <1>2, <1>4, <2>1, <2>2 DEF FreshInv, Fresh
  <2>4. TraceInv' /\ SliceInv' /\ EvidenceIsOwn'
    BY <1>2, <1>4, <2>1, <2>2 DEF TraceInv, SliceInv, EvidenceIsOwn
  <2> QED
    BY <1>2, <2>1, <2>2, <2>3, <2>4 DEF OwnInv
<1>8. ASSUME NEW c \in Runs, NEW r \in Requests, Send(c, r)
      PROVE  OwnInv'
  <2>1. /\ UNCHANGED <<client, results, unwritten, flushed, fault>> /\ c = n
        /\ client[c] = "sending"
        /\ request' = [request EXCEPT ![c][r] = "sent"]
    BY <1>5, <1>8 DEF Send, Alive
  <2> DEFINE row == [run |-> c, request |-> r, kind |-> "decision", ok |-> TRUE]
  <2>2. trace' = Append(trace, row) /\ row.run = n /\ row.kind = "decision"
    BY <1>8, <2>1 DEF Send
  <2>3. Launched /\ Launched'
    BY <1>1, <1>2, <2>1 DEF Launched
  <2>4. FreshInv'
    <3>1. \A d \in Runs : d # n => request'[d] = request[d]
      BY <1>1, <2>1
    <3> QED
      BY <1>2, <1>4, <2>1, <2>3, <3>1 DEF FreshInv, Fresh
  <2>5. /\ DOMAIN trace = 1..Len(trace) /\ DOMAIN trace' = 1..(Len(trace) + 1)
        /\ Len(trace) \in Nat /\ trace'[Len(trace) + 1] = row
        /\ \A i \in 1..Len(trace) : trace'[i] = trace[i]
    BY <1>1, <2>2
  <2> HIDE DEF row
  <2>6. TraceInv'
    BY <1>2, <1>4, <2>2, <2>3, <2>5 DEF TraceInv
  <2>7. SliceInv' /\ EvidenceIsOwn'
    BY <1>2, <1>4, <2>1, <2>3 DEF SliceInv, EvidenceIsOwn
  <2> QED
    BY <1>2, <1>4, <2>1, <2>3, <2>4, <2>6, <2>7 DEF OwnInv
<1>9. ASSUME NEW c \in Runs, NEW r \in Requests, NEW ok \in BOOLEAN, RequestEnds(c, r, ok)
      PROVE  OwnInv'
  <2> DEFINE row == [run |-> c, request |-> r, kind |-> "completion", ok |-> ok]
  <2>1. /\ UNCHANGED <<client, results, trace, flushed>> /\ request[c][r] = "sent"
        /\ (fault => fault')
        /\ request' = [request EXCEPT ![c][r] = IF ok THEN "succeeded" ELSE "failed"]
        /\ unwritten' = unwritten \cup {row} /\ row.kind = "completion" /\ row.run = c
    BY <1>9 DEF RequestEnds
  <2> HIDE DEF row
  <2>2. Fresh => c = n
    BY <1>4, <2>1 DEF FreshInv
  <2>3. (Launched' <=> Launched) /\ (Fresh' <=> Fresh)
    BY <1>2, <2>1 DEF Launched, Fresh
  <2>4. \A d \in Runs, q \in Requests : request'[d][q] = "sent" => request[d][q] = "sent"
    BY <1>1, <2>1
  <2>5. FreshInv'
    BY <1>2, <1>4, <2>1, <2>2, <2>3, <2>4 DEF FreshInv
  <2>6. TraceInv' /\ SliceInv' /\ EvidenceIsOwn'
    BY <1>2, <1>4, <2>1, <2>3 DEF TraceInv, SliceInv, EvidenceIsOwn
  <2> QED
    BY <1>2, <1>4, <2>1, <2>3, <2>5, <2>6 DEF OwnInv
<1>10. ASSUME NEW row \in unwritten, WriteRow(row)
       PROVE  OwnInv'
  <2>1. /\ UNCHANGED <<client, request, results, flushed>> /\ unwritten' \subseteq unwritten
        /\ trace' = Append(trace, row) /\ (fault => fault')
    BY <1>10 DEF WriteRow
  <2>2. (Launched' <=> Launched) /\ (Fresh' <=> Fresh)
    BY <1>2, <2>1 DEF Launched, Fresh
  <2>3. row.kind = "completion" /\ (row.run # n => ~Launched)
    BY <1>4 DEF FreshInv, Fresh
  <2>4. FreshInv'
    BY <1>2, <1>4, <2>1, <2>2 DEF FreshInv
  <2>5. /\ DOMAIN trace = 1..Len(trace) /\ DOMAIN trace' = 1..(Len(trace) + 1)
        /\ Len(trace) \in Nat /\ trace'[Len(trace) + 1] = row
        /\ \A i \in 1..Len(trace) : trace'[i] = trace[i]
    <3>1. row \in Rows
      BY DEF TypeInv, TypeOK
    <3> QED
      BY <1>1, <2>1, <3>1
  <2>6. TraceInv'
    BY <1>2, <1>4, <2>2, <2>3, <2>5 DEF TraceInv
  <2>7. SliceInv' /\ EvidenceIsOwn'
    BY <1>2, <1>4, <2>1, <2>2 DEF SliceInv, EvidenceIsOwn
  <2> QED
    BY <1>2, <1>4, <2>1, <2>2, <2>4, <2>6, <2>7 DEF OwnInv
<1>11. ASSUME NEW e \in unflushed, Flush(e)
       PROVE  OwnInv'
  <2>1. /\ UNCHANGED <<client, request, results, trace, unwritten>>
        /\ flushed' = flushed \cup {e} /\ fault' = (fault \/ e.run # n)
    BY <1>11 DEF Flush
  <2>2. (Launched' <=> Launched) /\ (Fresh' <=> Fresh)
    BY <1>2, <2>1 DEF Launched, Fresh
  <2>3. FreshInv' /\ TraceInv'
    BY <1>2, <1>4, <2>1, <2>2 DEF FreshInv, TraceInv
  <2>4. SliceInv' /\ EvidenceIsOwn'
    BY <1>2, <1>4, <2>1, <2>2 DEF SliceInv, EvidenceIsOwn
  <2> QED
    BY <1>2, <1>4, <2>1, <2>2, <2>3, <2>4 DEF OwnInv
<1> QED
  BY <1>6, <1>7, <1>8, <1>9, <1>10, <1>11 DEF ClientStep

LEMMA OwnStep == TypeInv /\ OrphanInv /\ GateInv /\ OwnInv /\ [Next]_vars => OwnInv'
<1>1. ASSUME OwnInv, UNCHANGED vars PROVE OwnInv'
  <2>1. Launched' <=> Launched
    BY <1>1 DEF vars, scriptVars, clientVars, Launched
  <2> QED
    BY <1>1, <2>1, OwnKept DEF vars, scriptVars, clientVars, traceVars, workerVars,
       evidenceVars, historyVars
<1> QED
  BY <1>1, OwnScript, OwnOthers DEF Next, SomeProbe

\* What is joined is the results, decisions, completions and, unless one was
\* late, the worker events of the very invocation that joins it, unless an
\* earlier one was killed (run_four_h20_stage.sh 158-241, join_traces.py).
THEOREM EvidenceHolds == Spec => []EvidenceIsOwn
<1>1. OwnInv => EvidenceIsOwn
  BY DEF OwnInv, EvidenceIsOwn
<1> QED
  BY <1>1, TypeInit, TypeStep, OrphanInit, OrphanStep, GateInit, GateStep, OwnInit, OwnStep, PTL
  DEF Spec

----------------------------------------------------------------------------
(* A stage to which nothing happens passes. *)

Completion(c, r, ok) == [run |-> c, request |-> r, kind |-> "completion", ok |-> ok]
Event(c, r, p) == [run |-> c, request |-> r, phase |-> p]

\* Only an invocation whose client was started has rows to write and events.
BirthInv ==
    /\ \A row \in unwritten : client[row.run] # "none"
    /\ \A e \in unflushed \cup flushed : client[e.run] # "none"
    /\ Launched => \A e \in marked : e.run # n

\* No invocation was killed, nothing has gone wrong in this one, and its
\* requests go accepted ways, among them those that are required.
Smooth == n \in Runs /\ killed = {} /\ ~fault /\ ~Wayward /\ ~PathsMissing

\* The trace has the rows of this invocation, but for the completions that the
\* router has not appended yet.
RowsInv ==
    /\ \A i \in DOMAIN trace : trace[i].run = n
    /\ \A r \in Requests :
        /\ Completion(n, r, FALSE) \notin unwritten
        /\ request[n][r] = "unsent" => Positions(r, "decision") = {}
        /\ request[n][r] # "unsent" => \E d \in DOMAIN trace : Positions(r, "decision") = {d}
        /\ request[n][r] # "succeeded" =>
            Positions(r, "completion") = {} /\ Completion(n, r, TRUE) \notin unwritten
        /\ request[n][r] = "succeeded" =>
            IF Completion(n, r, TRUE) \in unwritten THEN Positions(r, "completion") = {}
            ELSE RoutedOnce(r)

\* Every request that succeeded has its events, and they were cut out.
EventsInv ==
    \A r \in Requests, p \in Phases :
        /\ request[n][r] = "succeeded" => Event(n, r, p) \in unflushed \cup flushed
        /\ stage \in {"joining", "joined"} => Event(n, r, p) \in slice

\* The client is on its way to its results, and the script waits for it.
ClientInv ==
    /\ client[n] # "gone"
    /\ client[n] \in {"none", "starting"} => ~dir
    /\ probe /\ client[n] \in {"waiting", "sending", "done"} => ready
    /\ \A r \in Requests : request[n][r] # "failed"
    /\ client[n] = "done" =>
        /\ results = [run |-> n, ok |-> Requests]
        /\ \A r \in Requests : request[n][r] = "succeeded"
    /\ stage \in {"sampled", "joining", "joined"} => client[n] = "done"
    /\ stage # "failed"

SmoothInv == Smooth => RowsInv /\ EventsInv /\ ClientInv

Known == TypeInv /\ OrphanInv /\ GateInv /\ OwnInv /\ BirthInv /\ SmoothInv

LEMMA BirthStep == TypeInv /\ OrphanInv /\ GateInv /\ BirthInv /\ [Next]_vars => BirthInv'
<1> SUFFICES ASSUME TypeInv, OrphanInv, GateInv, BirthInv, [Next]_vars PROVE BirthInv'
  OBVIOUS
<1> USE DEF scriptVars, clientVars, gateVars, traceVars, workerVars, evidenceVars, historyVars
<1>1. /\ n \in 0..MaxRuns /\ MaxRuns \in Nat /\ Runs = 1..MaxRuns
      /\ client \in [Runs -> Alive \cup {"none", "done", "gone"}]
      /\ request \in [Runs -> [Requests -> {"unsent", "sent", "succeeded", "failed"}]]
      /\ stage \notin Over => n \in Runs
      /\ \A row \in unwritten : row.run \in Runs
      /\ \A e \in unflushed \cup flushed : e.run \in Runs
      /\ marked \subseteq flushed
  BY StageAssumption DEF TypeInv, TypeOK, Runs, Rows, Events
<1>2. CASE Prepare
  <2>1. n' = n + 1 /\ n' \in Runs /\ UNCHANGED <<client, unwritten, unflushed, flushed, marked>>
    BY <1>1, <1>2 DEF Prepare
  <2>2. ~Launched'
    BY <1>1, <2>1 DEF Launched, GateInv, Ahead
  <2> QED
    BY <2>1, <2>2 DEF BirthInv
<1>3. CASE Launch
  <2>1. n \in Runs /\ client[n] = "none"
    BY <1>1, <1>3 DEF Launch, Over, GateInv, Ahead
  <2>2. /\ UNCHANGED <<n, unwritten, unflushed, flushed>> /\ marked' = flushed
        /\ client' = [client EXCEPT ![n] = "starting"]
    BY <1>3 DEF Launch
  <2>3. \A e \in marked' : e.run # n
    BY <2>1, <2>2 DEF BirthInv
  <2>4. \A c \in Runs : client[c] # "none" => client'[c] # "none"
    BY <1>1, <2>2
  <2> QED
    BY <1>1, <2>2, <2>3, <2>4 DEF BirthInv
<1>4. ASSUME UNCHANGED <<n, unflushed, flushed, marked>>, unwritten' \subseteq unwritten,
             \A c \in Runs : client'[c] # "none" <=> client[c] # "none"
      PROVE  BirthInv'
  BY <1>1, <1>4 DEF BirthInv, Launched
<1>5. CASE StartRouter \/ SeesReady \/ SomeProbe \/ ClientSucceeded \/ Cut \/ Join \/ Validate
           \/ Kill \/ UNCHANGED vars
  BY <1>4, <1>5 DEF StartRouter, SeesReady, SomeProbe, ProbeSucceeds, ClientSucceeded, Cut, Join, Validate,
                    Kill, vars
<1>6. CASE SeesExit \/ CommandFails \/ ClientFailed \/ JoinFails \/ Terminate
  <2>1. \A c \in Runs : client'[c] = client[c] \/ (client'[c] = "gone" /\ client[c] \in Alive)
    BY <1>1, <1>6
    DEF SeesExit, CommandFails, ClientFailed, JoinFails, Terminate, Exit, Terminated
  <2>2. UNCHANGED <<n, unwritten, unflushed, flushed, marked>>
    BY <1>6 DEF SeesExit, CommandFails, ClientFailed, JoinFails, Terminate
  <2> QED
    BY <1>4, <2>1, <2>2 DEF Alive
<1>7. ASSUME NEW c \in Runs,
             ClientStarts(c) \/ ClientReleased(c) \/ ClientTimesOut(c) \/ ClientWrites(c)
             \/ \E r \in Requests : Send(c, r)
      PROVE  BirthInv'
  <2>1. \A d \in Runs : client'[d] # "none" <=> client[d] # "none"
    BY <1>1, <1>7 DEF ClientStarts, ClientReleased, ClientTimesOut, ClientWrites, Send
  <2>2. UNCHANGED <<n, unwritten, unflushed, flushed, marked>>
    BY <1>7 DEF ClientStarts, ClientReleased, ClientTimesOut, ClientWrites, Send
  <2> QED
    BY <1>4, <2>1, <2>2
<1>8. ASSUME NEW c \in Runs, NEW r \in Requests, NEW ok \in BOOLEAN, RequestEnds(c, r, ok)
      PROVE  BirthInv'
  <2>1. /\ UNCHANGED <<n, client, flushed, marked>> /\ client[c] # "none"
        /\ unwritten' = unwritten \cup {Completion(c, r, ok)}
        /\ unflushed' = unflushed \cup {Event(c, r, p) : p \in Phases}
    BY <1>8 DEF RequestEnds, Completion, Event
  <2>2. Completion(c, r, ok).run = c /\ \A p \in Phases : Event(c, r, p).run = c
    BY DEF Completion, Event
  <2> QED
    BY <2>1, <2>2 DEF BirthInv, Launched
<1>9. ASSUME NEW row \in unwritten, WriteRow(row) PROVE BirthInv'
  BY <1>4, <1>9 DEF WriteRow
<1>10. ASSUME NEW e \in unflushed, Flush(e) PROVE BirthInv'
  <2>1. UNCHANGED <<n, client, unwritten, marked>> /\ unflushed' \subseteq unflushed
        /\ flushed' = flushed \cup {e}
    BY <1>10 DEF Flush
  <2> QED
    BY <2>1 DEF BirthInv, Launched
<1> QED
  BY <1>2, <1>3, <1>5, <1>6, <1>7, <1>8, <1>9, <1>10 DEF Next, ScriptStep, SomeProbe, ClientStep

\* What the lemmas below take from the invariants, in a smooth state.
LEMMA SmoothFacts ==
  ASSUME Known, Smooth
  PROVE  /\ n \in Runs /\ client \in [Runs -> Alive \cup {"none", "done", "gone"}]
         /\ request \in [Runs -> [Requests -> {"unsent", "sent", "succeeded", "failed"}]]
         /\ trace \in Seq(Rows)
         /\ RowsInv /\ EventsInv /\ ClientInv
         /\ \A c \in Runs : client[c] \in Alive => c = n
         /\ client[n] \in {"none", "starting", "waiting"} =>
                \A r \in Requests : request[n][r] = "unsent"
         /\ stage \in {"prepared", "routed"} => client[n] = "none"
         /\ stage \in Late => client[n] # "none"
<1>1. TypeInv /\ OrphanInv /\ GateInv /\ OwnInv /\ SmoothInv
  BY DEF Known
<1>2. \A c \in Runs : client[c] \in Alive => c = n
  BY <1>1 DEF OrphanInv, Lives, Smooth
<1>3. stage \in Late => client[n] # "none"
  BY <1>1 DEF OwnInv, Smooth, Launched
<1>4. /\ client[n] \in {"none", "starting", "waiting"} =>
            \A r \in Requests : request[n][r] = "unsent"
      /\ stage \in {"prepared", "routed"} => client[n] = "none"
  BY <1>1 DEF GateInv, Ahead, Smooth
<1> QED
  BY <1>1, <1>2, <1>3, <1>4 DEF Smooth, SmoothInv, TypeInv, TypeOK

\* Nothing is mended: a smooth state comes from a smooth one, or is new.
LEMMA SmoothBefore ==
  ASSUME Known, [Next]_vars, ~Prepare, Smooth'
  PROVE  Smooth /\ n' = n /\ UNCHANGED killed
<1> USE DEF scriptVars, clientVars, gateVars, traceVars, workerVars, evidenceVars, historyVars
<1>1. n' = n /\ killed \subseteq killed' /\ (fault => fault')
  <2>1. CASE JoinFails
    <3>1. CASE tries = 1
      BY <2>1, <3>1 DEF JoinFails
    <3>2. CASE tries # 1
      BY <2>1, <3>2 DEF JoinFails
    <3> QED
      BY <3>1, <3>2
  <2>2. CASE StartRouter \/ Launch \/ SeesReady \/ SeesExit \/ SomeProbe
             \/ ClientSucceeded \/ ClientFailed \/ Join \/ Validate \/ Kill \/ UNCHANGED vars
    <3>1. n' = n /\ killed \subseteq killed'
      BY <2>2 DEF StartRouter, Launch, SeesReady, SeesExit, SomeProbe, ProbeSucceeds, ClientSucceeded,
                  ClientFailed, Join, Validate, Kill, vars
    <3>2. UNCHANGED fault
      BY <2>2 DEF StartRouter, Launch, SeesReady, SeesExit, SomeProbe, ProbeSucceeds, ClientSucceeded,
                  ClientFailed, Join, Validate, Kill, vars
    <3> QED
      BY <3>1, <3>2
  <2>3. CASE CommandFails \/ Terminate
    BY <2>3 DEF CommandFails, Terminate
  <2>4. CASE Cut
    BY <2>4 DEF Cut
  <2>5. ASSUME NEW c \in Runs, ClientStep(c) PROVE n' = n /\ killed \subseteq killed' /\ (fault => fault')
    <3>1. CASE ClientStarts(c) \/ ClientReleased(c) \/ ClientTimesOut(c) \/ ClientWrites(c)
      BY <3>1 DEF ClientStarts, ClientReleased, ClientTimesOut, ClientWrites
    <3>2. ASSUME NEW r \in Requests, Send(c, r)
          PROVE  n' = n /\ killed \subseteq killed' /\ (fault => fault')
      BY <3>2 DEF Send
    <3>3. ASSUME NEW r \in Requests, NEW ok \in BOOLEAN, RequestEnds(c, r, ok)
          PROVE  n' = n /\ killed \subseteq killed' /\ (fault => fault')
      BY <3>3 DEF RequestEnds
    <3> QED
      BY <2>5, <3>1, <3>2, <3>3 DEF ClientStep
  <2>6. ASSUME NEW row \in unwritten, WriteRow(row)
        PROVE  n' = n /\ killed \subseteq killed' /\ (fault => fault')
    BY <2>6 DEF WriteRow
  <2>7. ASSUME NEW e \in unflushed, Flush(e)
        PROVE  n' = n /\ killed \subseteq killed' /\ (fault => fault')
    BY <2>7 DEF Flush
  <2> QED
    BY <2>1, <2>2, <2>3, <2>4, <2>5, <2>6, <2>7 DEF Next, ScriptStep, SomeProbe
<1>2. ~Wayward /\ ~PathsMissing
  <2>1. CASE way' = way
    BY <2>1 DEF Smooth, Wayward, PathsMissing
  <2>2. CASE Cut
    <3>1. \A r \in Requests : way[r] = "unseen"
      BY <2>2 DEF Cut, Known, TypeInv, Unseen
    <3>2. ~Wayward
      BY <3>1 DEF Wayward
    <3>3. PathsMissing => Requests = {}
      BY <3>1 DEF PathsMissing
    <3> QED
      BY <3>2, <3>3 DEF Smooth, PathsMissing
  <2>3. way' = way \/ Cut
    BY DEF Next, ScriptStep, StartRouter, Launch, SeesReady, SeesExit, ProbeSucceeds,
           CommandFails, ClientSucceeded, ClientFailed, JoinFails, Join, Validate, Terminate,
           Kill, ClientStep, ClientStarts, ClientReleased, ClientTimesOut, ClientWrites, Send,
           RequestEnds, WriteRow, Flush, vars
  <2> QED
    BY <2>1, <2>2, <2>3
<1> QED
  BY <1>1, <1>2 DEF Smooth

\* A new invocation.
LEMMA SmoothPrepare ==
  ASSUME Known, Prepare, Smooth'
  PROVE  RowsInv' /\ EventsInv' /\ ClientInv'
<1>1. /\ n \in 0..MaxRuns /\ MaxRuns \in Nat /\ Runs = 1..MaxRuns
      /\ request \in [Runs -> [Requests -> {"unsent", "sent", "succeeded", "failed"}]]
  BY StageAssumption DEF Known, TypeInv, TypeOK, Runs
<1>2. /\ n' = n + 1 /\ n' \in Runs /\ stage' = "prepared" /\ trace' = <<>> /\ dir' = FALSE
      /\ UNCHANGED <<client, request, unwritten>>
  BY <1>1 DEF Prepare
<1>3. client[n'] = "none"
  BY <1>1, <1>2 DEF Known, GateInv, Ahead
<1>4. \A r \in Requests : request[n'][r] = "unsent"
  BY <1>2, <1>3 DEF Known, GateInv
<1>5. \A r, ok : Completion(n', r, ok) \notin unwritten
  BY <1>3 DEF Known, BirthInv, Completion
<1>6. \A r, kind : Positions(r, kind)' = {}
  BY <1>2 DEF Positions
<1>7. RowsInv'
  BY <1>2, <1>4, <1>5, <1>6 DEF RowsInv, Completion
<1>8. EventsInv'
  BY <1>2, <1>4 DEF EventsInv
<1>9. ClientInv'
  BY <1>2, <1>3, <1>4 DEF ClientInv
<1> QED
  BY <1>7, <1>8, <1>9

\* A row at the end of the trace.
LEMMA PositionsAppend ==
  ASSUME trace \in Seq(Rows), NEW row \in Rows, trace' = Append(trace, row)
  PROVE  /\ DOMAIN trace' = DOMAIN trace \cup {Len(trace) + 1}
         /\ \A i \in DOMAIN trace : i < Len(trace) + 1 /\ trace'[i] = trace[i]
         /\ trace'[Len(trace) + 1] = row
         /\ \A r, kind : Positions(r, kind)' =
                Positions(r, kind) \cup
                    (IF row.request = r /\ row.kind = kind THEN {Len(trace) + 1} ELSE {})
<1>1. /\ Len(trace) \in Nat /\ DOMAIN trace = 1 .. Len(trace)
      /\ DOMAIN trace' = 1 .. Len(trace) + 1 /\ trace'[Len(trace) + 1] = row
      /\ \A i \in 1 .. Len(trace) : trace'[i] = trace[i]
  OBVIOUS
<1>2. DOMAIN trace' = DOMAIN trace \cup {Len(trace) + 1}
  BY <1>1
<1>3. \A i \in DOMAIN trace : i < Len(trace) + 1 /\ trace'[i] = trace[i]
  BY <1>1
<1>4. ASSUME NEW r, NEW kind
      PROVE  Positions(r, kind)' =
                 Positions(r, kind) \cup
                     (IF row.request = r /\ row.kind = kind THEN {Len(trace) + 1} ELSE {})
  BY <1>1, <1>2, <1>3 DEF Positions
<1> QED
  BY <1>1, <1>2, <1>3, <1>4

LEMMA SmoothSend ==
  ASSUME Known, Smooth, NEW c \in Runs, NEW r \in Requests, Send(c, r)
  PROVE  RowsInv'
<1> DEFINE row == [run |-> c, request |-> r, kind |-> "decision", ok |-> TRUE]
<1>1. /\ UNCHANGED <<n, unwritten>> /\ c = n
      /\ request[n][r] = "unsent" /\ request' = [request EXCEPT ![n][r] = "sent"]
      /\ trace' = Append(trace, row)
  BY SmoothFacts DEF Send, Alive, scriptVars
<1>2. /\ row \in Rows /\ row.run = n /\ row.request = r /\ row.kind = "decision"
  BY <1>1 DEF Rows
<1> HIDE DEF row
<1>3. /\ DOMAIN trace' = DOMAIN trace \cup {Len(trace) + 1}
      /\ \A i \in DOMAIN trace : i < Len(trace) + 1 /\ trace'[i] = trace[i]
      /\ trace'[Len(trace) + 1] = row
      /\ \A q, kind : Positions(q, kind)' =
            Positions(q, kind) \cup
                (IF r = q /\ "decision" = kind THEN {Len(trace) + 1} ELSE {})
  BY <1>1, <1>2, SmoothFacts, PositionsAppend
<1>4. \A i \in DOMAIN trace' : trace'[i].run = n'
  BY <1>1, <1>2, <1>3, SmoothFacts DEF RowsInv
<1>5. ASSUME NEW q \in Requests
      PROVE  /\ Completion(n, q, FALSE) \notin unwritten
             /\ request'[n][q] = "unsent" => Positions(q, "decision")' = {}
             /\ request'[n][q] # "unsent" =>
                    \E d \in DOMAIN trace' : Positions(q, "decision")' = {d}
             /\ request'[n][q] # "succeeded" =>
                    Positions(q, "completion")' = {} /\ Completion(n, q, TRUE) \notin unwritten
             /\ request'[n][q] = "succeeded" =>
                    IF Completion(n, q, TRUE) \in unwritten THEN Positions(q, "completion")' = {}
                    ELSE RoutedOnce(q)'
  <2>1. Positions(q, "completion")' = Positions(q, "completion")
    BY <1>3
  <2>2. CASE q = r
    <3>1. request'[n][q] = "sent" /\ Positions(q, "decision")' = {Len(trace) + 1}
      BY <1>1, <1>3, <2>2, SmoothFacts DEF RowsInv
    <3> QED
      BY <1>1, <1>3, <2>1, <2>2, <3>1, SmoothFacts DEF RowsInv
  <2>3. CASE q # r
    <3>1. request'[n][q] = request[n][q] /\ Positions(q, "decision")' = Positions(q, "decision")
      BY <1>1, <1>3, <2>3, SmoothFacts
    <3>2. RoutedOnce(q) => RoutedOnce(q)'
      BY <1>3, <2>1, <3>1 DEF RoutedOnce
    <3> QED
      BY <1>3, <2>1, <3>1, <3>2, SmoothFacts DEF RowsInv
  <2> QED
    BY <2>2, <2>3
<1> QED
  BY <1>1, <1>4, <1>5 DEF RowsInv, Completion

LEMMA SmoothEnds ==
  ASSUME Known, Smooth, NEW c \in Runs, NEW r \in Requests, NEW ok \in BOOLEAN,
         RequestEnds(c, r, ok), Smooth'
  PROVE  RowsInv'
<1>1. /\ UNCHANGED <<n, trace>> /\ request[c][r] = "sent"
      /\ request' = [request EXCEPT ![c][r] = IF ok THEN "succeeded" ELSE "failed"]
      /\ unwritten' = unwritten \cup {Completion(c, r, ok)}
      /\ c = n => ok = TRUE
  BY DEF RequestEnds, Completion, scriptVars, Smooth
<1>2. \A q, k : Positions(q, k)' = Positions(q, k)
  BY <1>1 DEF Positions
<1>3. \A q : RoutedOnce(q)' <=> RoutedOnce(q)
  BY <1>1, <1>2 DEF RoutedOnce
<1>4. \A q, b : Completion(n, q, b) = Completion(c, r, ok) => c = n /\ q = r /\ b = ok
  BY DEF Completion
<1>5. ASSUME NEW q \in Requests
      PROVE  /\ Completion(n, q, FALSE) \notin unwritten'
             /\ request'[n][q] = "unsent" => Positions(q, "decision") = {}
             /\ request'[n][q] # "unsent" =>
                    \E d \in DOMAIN trace : Positions(q, "decision") = {d}
             /\ request'[n][q] # "succeeded" =>
                    Positions(q, "completion") = {} /\ Completion(n, q, TRUE) \notin unwritten'
             /\ request'[n][q] = "succeeded" =>
                    IF Completion(n, q, TRUE) \in unwritten' THEN Positions(q, "completion") = {}
                    ELSE RoutedOnce(q)
  <2>1. CASE c = n /\ q = r
    <3>1. request'[n][q] = "succeeded" /\ Completion(n, q, TRUE) \in unwritten'
      BY <1>1, <2>1, SmoothFacts
    <3> QED
      BY <1>1, <1>4, <2>1, <3>1, SmoothFacts DEF RowsInv
  <2>2. CASE ~(c = n /\ q = r)
    <3>1. request'[n][q] = request[n][q]
      BY <1>1, <2>2, SmoothFacts
    <3>2. \A b : Completion(n, q, b) \in unwritten' <=> Completion(n, q, b) \in unwritten
      BY <1>1, <1>4, <2>2
    <3> QED
      BY <3>1, <3>2, SmoothFacts DEF RowsInv
  <2> QED
    BY <2>1, <2>2
<1> QED
  BY <1>1, <1>2, <1>3, <1>5, SmoothFacts DEF RowsInv, Completion

LEMMA SmoothWrite ==
  ASSUME Known, Smooth, NEW row \in unwritten, WriteRow(row), Smooth'
  PROVE  RowsInv'
<1>1. /\ UNCHANGED <<n, request>> /\ row.run = n
      /\ unwritten' = unwritten \ {row} /\ trace' = Append(trace, row)
  BY DEF WriteRow, scriptVars, clientVars, Smooth
<1>2. row \in Rows /\ row.kind = "completion"
  BY DEF Known, TypeInv, TypeOK, OwnInv, FreshInv, Smooth
<1>3. PICK r \in Requests, ok \in BOOLEAN : row = Completion(n, r, ok)
  BY <1>1, <1>2 DEF Rows, Completion
<1>4. row = Completion(n, r, TRUE) /\ row.request = r
  BY <1>3, SmoothFacts DEF RowsInv, Completion
<1>5. /\ DOMAIN trace' = DOMAIN trace \cup {Len(trace) + 1}
      /\ \A i \in DOMAIN trace : i < Len(trace) + 1 /\ trace'[i] = trace[i]
      /\ trace'[Len(trace) + 1] = row
      /\ \A q, kind : Positions(q, kind)' =
            Positions(q, kind) \cup
                (IF r = q /\ "completion" = kind THEN {Len(trace) + 1} ELSE {})
  <2>1. trace \in Seq(Rows) /\ row \in Rows /\ trace' = Append(trace, row)
    BY <1>1, <1>2, SmoothFacts
  <2>2. /\ DOMAIN trace' = DOMAIN trace \cup {Len(trace) + 1}
        /\ \A i \in DOMAIN trace : i < Len(trace) + 1 /\ trace'[i] = trace[i]
        /\ trace'[Len(trace) + 1] = row
        /\ \A q, kind : Positions(q, kind)' =
              Positions(q, kind) \cup
                  (IF row.request = q /\ row.kind = kind THEN {Len(trace) + 1} ELSE {})
    BY <2>1, PositionsAppend
  <2>3. row.request = r /\ row.kind = "completion"
    BY <1>2, <1>4
  <2> QED
    BY <2>2, <2>3
<1>6. \A i \in DOMAIN trace' : trace'[i].run = n'
  BY <1>1, <1>5, SmoothFacts DEF RowsInv
<1>7. \A q, b : Completion(n, q, b) = row => q = r
  BY <1>4 DEF Completion
<1>8. ASSUME NEW q \in Requests
      PROVE  /\ Completion(n, q, FALSE) \notin unwritten'
             /\ request[n][q] = "unsent" => Positions(q, "decision")' = {}
             /\ request[n][q] # "unsent" =>
                    \E d \in DOMAIN trace' : Positions(q, "decision")' = {d}
             /\ request[n][q] # "succeeded" =>
                    Positions(q, "completion")' = {} /\ Completion(n, q, TRUE) \notin unwritten'
             /\ request[n][q] = "succeeded" =>
                    IF Completion(n, q, TRUE) \in unwritten' THEN Positions(q, "completion")' = {}
                    ELSE RoutedOnce(q)'
  <2>1. Positions(q, "decision")' = Positions(q, "decision")
    BY <1>5
  <2>2. CASE q = r
    <3>1. /\ request[n][q] = "succeeded" /\ Positions(q, "completion") = {}
          /\ Completion(n, q, TRUE) \notin unwritten' /\ Completion(n, q, FALSE) \notin unwritten'
      BY <1>1, <1>4, <2>2, SmoothFacts DEF RowsInv
    <3>2. PICK d \in DOMAIN trace : Positions(q, "decision") = {d}
      BY <3>1, SmoothFacts DEF RowsInv
    <3>3. Positions(q, "completion")' = {Len(trace) + 1} /\ Len(trace) + 1 \in DOMAIN trace'
      BY <1>5, <2>2, <3>1
    <3>4. RoutedOnce(q)'
      BY <1>5, <2>1, <3>2, <3>3 DEF RoutedOnce
    <3> QED
      BY <1>5, <2>1, <3>1, <3>2, <3>4
  <2>3. CASE q # r
    <3>1. Positions(q, "completion")' = Positions(q, "completion")
      BY <1>5, <2>3
    <3>2. RoutedOnce(q) => RoutedOnce(q)'
      BY <1>5, <2>1, <3>1 DEF RoutedOnce
    <3>3. \A b : Completion(n, q, b) \in unwritten' <=> Completion(n, q, b) \in unwritten
      BY <1>1, <1>7, <2>3
    <3> QED
      BY <1>5, <2>1, <3>1, <3>2, <3>3, SmoothFacts DEF RowsInv
  <2> QED
    BY <2>2, <2>3
<1> QED
  BY <1>1, <1>6, <1>8 DEF RowsInv, Completion

\* Before the client is launched, there is nothing to cut off.
LEMMA SmoothRestart ==
  ASSUME Known, Smooth, StartRouter
  PROVE  /\ n' = n /\ \A r \in Requests : request'[n][r] = "unsent" /\ request[n][r] = "unsent"
         /\ client[n] = "none"
<1>1. client[n] = "none" /\ \A r \in Requests : request[n][r] = "unsent"
  BY SmoothFacts DEF StartRouter
<1> QED
  BY <1>1, SmoothFacts DEF StartRouter

LEMMA RowsStep ==
  ASSUME Known, Smooth, ~Prepare, [Next]_vars, Smooth'
  PROVE  RowsInv'
<1> USE DEF scriptVars, clientVars, gateVars, traceVars, workerVars, evidenceVars, historyVars
<1>1. ASSUME UNCHANGED <<n, trace, unwritten, request>> PROVE RowsInv'
  BY <1>1, SmoothFacts DEF RowsInv, Positions, RoutedOnce, Completion
<1>2. CASE StartRouter
  <2>1. UNCHANGED <<n, trace>> /\ unwritten' = {}
    BY <1>2 DEF StartRouter
  <2>2. \A r \in Requests : request'[n][r] = "unsent" /\ request[n][r] = "unsent"
    BY <1>2, SmoothRestart
  <2>3. \A r, k : Positions(r, k)' = Positions(r, k)
    BY <2>1 DEF Positions
  <2> QED
    BY <2>1, <2>2, <2>3, SmoothFacts DEF RowsInv
<1>3. CASE Launch \/ SeesReady \/ SeesExit \/ SomeProbe \/ CommandFails \/ ClientSucceeded
           \/ ClientFailed \/ Cut \/ JoinFails \/ Join \/ Validate \/ Terminate \/ Kill
           \/ UNCHANGED vars
  <2>1. UNCHANGED <<n, trace, unwritten, request>>
    BY <1>3 DEF Launch, SeesReady, SeesExit, SomeProbe, ProbeSucceeds, CommandFails, ClientSucceeded,
                ClientFailed, Cut, JoinFails, Join, Validate, Terminate, Kill, vars
  <2> QED
    BY <1>1, <2>1
<1>4. ASSUME NEW c \in Runs,
             ClientStarts(c) \/ ClientReleased(c) \/ ClientTimesOut(c) \/ ClientWrites(c)
      PROVE  RowsInv'
  BY <1>1, <1>4 DEF ClientStarts, ClientReleased, ClientTimesOut, ClientWrites
<1>5. ASSUME NEW c \in Runs, NEW r \in Requests, Send(c, r) PROVE RowsInv'
  BY <1>5, SmoothSend
<1>6. ASSUME NEW c \in Runs, NEW r \in Requests, NEW ok \in BOOLEAN, RequestEnds(c, r, ok)
      PROVE  RowsInv'
  BY <1>6, SmoothEnds
<1>7. ASSUME NEW row \in unwritten, WriteRow(row) PROVE RowsInv'
  BY <1>7, SmoothWrite
<1>8. ASSUME NEW e \in unflushed, Flush(e) PROVE RowsInv'
  BY <1>1, <1>8 DEF Flush
<1> QED
  BY <1>2, <1>3, <1>4, <1>5, <1>6, <1>7, <1>8 DEF Next, ScriptStep, SomeProbe, ClientStep

LEMMA EventsStep ==
  ASSUME Known, Smooth, ~Prepare, [Next]_vars, Smooth'
  PROVE  EventsInv'
<1> USE DEF scriptVars, clientVars, gateVars, traceVars, workerVars, evidenceVars, historyVars
<1>1. ASSUME UNCHANGED <<n, slice>>, unflushed \cup flushed \subseteq unflushed' \cup flushed',
             \A r \in Requests : request'[n][r] = "succeeded" => request[n][r] = "succeeded",
             stage' \in {"joining", "joined"} => stage \in {"joining", "joined"}
      PROVE  EventsInv'
  BY <1>1, SmoothFacts DEF EventsInv, Event
<1>2. CASE StartRouter
  <2>1. UNCHANGED <<slice, unflushed, flushed>> /\ stage' = "routed"
    BY <1>2 DEF StartRouter
  <2> QED
    BY <1>1, <1>2, <2>1, SmoothRestart
<1>3. CASE Launch \/ SeesReady \/ SeesExit \/ SomeProbe \/ CommandFails \/ ClientSucceeded
           \/ ClientFailed \/ JoinFails \/ Join \/ Validate \/ Terminate \/ Kill
           \/ UNCHANGED vars
  <2>1. UNCHANGED <<n, slice, unflushed, flushed, request>>
    BY <1>3 DEF Launch, SeesReady, SeesExit, SomeProbe, ProbeSucceeds, CommandFails, ClientSucceeded,
                ClientFailed, JoinFails, Join, Validate, Terminate, Kill, vars
  <2>2. stage' \in {"joining", "joined"} => stage \in {"joining", "joined"}
    BY <1>3 DEF Launch, SeesReady, SeesExit, SomeProbe, ProbeSucceeds, CommandFails, ClientSucceeded,
                ClientFailed, JoinFails, Join, Validate, Terminate, Kill, Exit, vars
  <2> QED
    BY <1>1, <2>1, <2>2
<1>4. CASE Cut
  <2>1. /\ UNCHANGED <<n, request, unflushed, flushed>> /\ stage = "sampled"
        /\ slice' = flushed \ marked
        /\ \A e \in unflushed : e.run # n
    BY <1>4 DEF Cut, Smooth
  <2>2. \A r \in Requests : request[n][r] = "succeeded"
    BY <2>1, SmoothFacts DEF ClientInv
  <2>3. ASSUME NEW r \in Requests, NEW p \in Phases PROVE Event(n, r, p) \in flushed \ marked
    <3>1. Event(n, r, p).run = n
      BY DEF Event
    <3>2. Event(n, r, p) \in flushed
      BY <2>1, <2>2, <3>1, SmoothFacts DEF EventsInv
    <3>3. Launched
      BY <2>1, SmoothFacts DEF Launched, Late
    <3> QED
      BY <3>1, <3>2, <3>3 DEF Known, BirthInv
  <2> QED
    BY <2>1, <2>3, SmoothFacts DEF EventsInv, Event
<1>5. ASSUME NEW c \in Runs,
             ClientStarts(c) \/ ClientReleased(c) \/ ClientTimesOut(c) \/ ClientWrites(c)
      PROVE  EventsInv'
  BY <1>1, <1>5 DEF ClientStarts, ClientReleased, ClientTimesOut, ClientWrites
<1>6. ASSUME NEW c \in Runs, NEW r \in Requests, Send(c, r) PROVE EventsInv'
  <2>1. UNCHANGED <<n, slice, unflushed, flushed, stage>>
        /\ request' = [request EXCEPT ![c][r] = "sent"]
    BY <1>6 DEF Send
  <2>2. \A q \in Requests : request'[n][q] = "succeeded" => request[n][q] = "succeeded"
    BY <2>1, SmoothFacts
  <2> QED
    BY <1>1, <2>1, <2>2
<1>7. ASSUME NEW c \in Runs, NEW r \in Requests, NEW ok \in BOOLEAN, RequestEnds(c, r, ok)
      PROVE  EventsInv'
  <2>1. /\ UNCHANGED <<n, slice, flushed, stage>>
        /\ request' = [request EXCEPT ![c][r] = IF ok THEN "succeeded" ELSE "failed"]
        /\ unflushed' = unflushed \cup {Event(c, r, p) : p \in Phases}
    BY <1>7 DEF RequestEnds, Event
  <2>2. CASE c = n
    <3>1. \A q \in Requests : q # r => request'[n][q] = request[n][q]
      BY <2>1, <2>2, SmoothFacts
    <3>2. \A p \in Phases : Event(n, r, p) \in unflushed' \cup flushed'
      BY <2>1, <2>2
    <3> QED
      BY <2>1, <3>1, <3>2, SmoothFacts DEF EventsInv, Event
  <2>3. CASE c # n
    <3>1. request'[n] = request[n]
      BY <2>1, <2>3, SmoothFacts
    <3> QED
      BY <1>1, <2>1, <3>1
  <2> QED
    BY <2>2, <2>3
<1>8. ASSUME NEW row \in unwritten, WriteRow(row) PROVE EventsInv'
  BY <1>1, <1>8 DEF WriteRow
<1>9. ASSUME NEW e \in unflushed, Flush(e) PROVE EventsInv'
  <2>1. UNCHANGED <<n, slice, stage, request>>
        /\ unflushed' = unflushed \ {e} /\ flushed' = flushed \cup {e}
    BY <1>9 DEF Flush
  <2> QED
    BY <1>1, <2>1
<1> QED
  BY <1>2, <1>3, <1>4, <1>5, <1>6, <1>7, <1>8, <1>9 DEF Next, ScriptStep, SomeProbe, ClientStep

\* When the router has written all it has to write, the traces can be joined.
LEMMA SmoothJoins ==
  ASSUME Known, Smooth, stage = "joining", unwritten = {}
  PROVE  Joinable
<1>1. client[n] = "done" /\ results = [run |-> n, ok |-> Requests]
      /\ \A r \in Requests : request[n][r] = "succeeded"
  BY SmoothFacts DEF ClientInv
<1>2. results # Nothing
  <2>1. n # 0
    BY StageAssumption, SmoothFacts DEF Runs
  <2> QED
    BY <1>1, <2>1 DEF Nothing
<1>3. \A r \in Requests : RoutedOnce(r)
  BY <1>1, SmoothFacts DEF RowsInv
<1>4. Unambiguous
  <2>1. slice \subseteq Events /\ \A e \in slice : e.run = n
    BY DEF Known, TypeInv, TypeOK, OwnInv, SliceInv, Smooth
  <2>2. \A e \in slice : e = [run |-> e.run, request |-> e.request, phase |-> e.phase]
    BY <2>1 DEF Events
  <2> QED
    BY <2>1, <2>2 DEF Unambiguous
<1>5. \A r \in Requests : LifecycleComplete(r)
  <2>1. ASSUME NEW r \in Requests, NEW p \in Phases
        PROVE  \E e \in slice : e.request = r /\ e.phase = p
    <3>1. Event(n, r, p) \in slice
      BY SmoothFacts DEF EventsInv
    <3> QED
      BY <3>1 DEF Event
  <2> QED
    BY <2>1 DEF LifecycleComplete
<1>6. results.ok = Requests
  BY <1>1
<1>7. \A r \in Requests : AsSelected(r)
  BY DEF Smooth, Wayward, AsSelected
<1> QED
  BY <1>2, <1>3, <1>4, <1>5, <1>6, <1>7 DEF Joinable

LEMMA ClientInvStep ==
  ASSUME Known, Smooth, ~Prepare, [Next]_vars, Smooth'
  PROVE  ClientInv'
<1> USE DEF scriptVars, clientVars, gateVars, traceVars, workerVars, evidenceVars, historyVars
<1>0. n' = n
  BY SmoothBefore
<1>1. ASSUME UNCHANGED <<probe, client, request, results, dir>>, ready => ready',
             stage' \in {"sampled", "joining", "joined"} =>
                 stage \in {"sampled", "joining", "joined"} \/ client[n] = "done",
             stage' # "failed"
      PROVE  ClientInv'
  BY <1>0, <1>1, SmoothFacts DEF ClientInv
<1>2. CASE StartRouter
  <2>1. UNCHANGED <<n, client, probe, dir, ready>> /\ stage' = "routed"
    BY <1>2 DEF StartRouter
  <2> QED
    BY <1>2, <2>1, SmoothRestart, SmoothFacts DEF ClientInv
<1>3. CASE Launch
  <2>1. /\ UNCHANGED <<probe, request, results, dir, ready>> /\ stage = "routed"
        /\ stage' \in {"waiting", "running"}
        /\ client' = [client EXCEPT ![n] = "starting"]
    BY <1>3 DEF Launch
  <2>2. client'[n] = "starting" /\ client[n] = "none"
    BY <2>1, SmoothFacts
  <2> QED
    BY <1>0, <2>1, <2>2, SmoothFacts DEF ClientInv
<1>4. CASE SeesReady \/ ClientSucceeded \/ Cut \/ Join
  BY <1>1, <1>4 DEF SeesReady, ClientSucceeded, Cut, Join
<1>18. CASE SomeProbe
  <2>1. /\ UNCHANGED <<probe, client, request, results, dir, ready>>
        /\ stage' = stage \/ stage' = "running"
    BY <1>18 DEF SomeProbe, ProbeSucceeds
  <2> QED
    BY <1>1, <2>1, SmoothFacts DEF ClientInv
<1>5. CASE CommandFails \/ Terminate
  BY <1>5 DEF CommandFails, Terminate, Smooth
<1>6. CASE SeesExit
  <2>1. client[n] \in {"none", "done", "gone"} /\ ~ready /\ stage = "waiting"
    BY <1>6, SmoothFacts DEF SeesExit
  <2>2. probe /\ client[n] # "none" /\ client[n] # "gone"
    BY <2>1, SmoothFacts DEF Known, OrphanInv, ClientInv, Late
  <2> QED
    BY <2>1, <2>2, SmoothFacts DEF ClientInv
<1>7. CASE ClientFailed
  BY <1>7, SmoothFacts DEF ClientFailed, ClientInv
<1>8. CASE JoinFails
  <2>1. CASE tries = 1
    <3>1. unwritten = {} /\ stage = "joining" /\ ~Joinable
      BY <1>8, <2>1 DEF JoinFails, Smooth
    <3> QED
      BY <3>1, SmoothJoins
  <2>2. CASE tries # 1
    <3>1. UNCHANGED <<probe, client, request, results, dir, ready, stage>> /\ stage = "joining"
      BY <1>8, <2>2 DEF JoinFails
    <3> QED
      BY <1>1, <3>1
  <2> QED
    BY <2>1, <2>2
<1>9. CASE Validate
  <2>1. results.ok = Requests
    BY <1>9, SmoothFacts DEF Validate, ClientInv
  <2>2. Cardinality(results.ok) >= MinSuccess
    <3>1. Cardinality(Requests) \in Nat
      BY StageAssumption, FS_CardinalityType
    <3> QED
      BY <2>1, <3>1, StageAssumption
  <2>3. \A r \in Requests : way[r] \in Ways /\ way[r] # "unseen" /\ way[r] # "mismatched"
    BY <1>9, StageAssumption DEF Validate, Known, TypeInv, Ways, Smooth, Wayward
  <2>4. ASSUME NEW path \in Required PROVE Evident(path)
    <3>1. PICK r \in Requests : way[r] = path
      BY <2>3 DEF Smooth, PathsMissing
    <3>2. Event(n, r, "scheduler_seen") \in slice
      BY <1>9, SmoothFacts DEF Validate, EventsInv, Phases
    <3> QED
      BY <2>1, <3>1, <3>2 DEF Evident, Event
  <2>5. Valid
    BY <2>1, <2>2, <2>3, <2>4 DEF Valid
  <2>6. stage' = "passed" /\ UNCHANGED <<probe, client, request, results, dir, ready>>
    BY <1>9, <2>5 DEF Validate
  <2> QED
    BY <1>1, <2>6
<1>10. CASE Kill
  BY <1>10 DEF Kill, Smooth
<1>11. CASE \/ UNCHANGED vars \/ \E row \in unwritten : WriteRow(row)
            \/ \E e \in unflushed : Flush(e)
  <2>1. UNCHANGED <<probe, client, request, results, dir, ready, stage>>
    BY <1>11 DEF vars, WriteRow, Flush
  <2> QED
    BY <1>1, <2>1, SmoothFacts DEF ClientInv
<1>12. ASSUME NEW c \in Runs, ClientStarts(c) PROVE ClientInv'
  <2>1. c = n /\ client[n] = "starting" /\ ~dir
    BY <1>12, SmoothFacts DEF ClientStarts, ClientInv, Alive
  <2>2. /\ UNCHANGED <<probe, request, results, stage>>
        /\ ready' = (ready \/ probe)
        /\ client' = [client EXCEPT ![n] = IF probe THEN "waiting" ELSE "sending"]
    BY <1>12, <2>1 DEF ClientStarts
  <2>3. client'[n] = IF probe THEN "waiting" ELSE "sending"
    BY <2>2, SmoothFacts
  <2> QED
    BY <1>0, <2>1, <2>2, <2>3, SmoothFacts DEF ClientInv
<1>13. ASSUME NEW c \in Runs, ClientReleased(c) PROVE ClientInv'
  <2>1. c = n /\ client[n] = "waiting"
    BY <1>13, SmoothFacts DEF ClientReleased, Alive
  <2>2. /\ UNCHANGED <<probe, request, results, stage, dir, ready>>
        /\ client'[n] = "sending"
    BY <1>13, <2>1, SmoothFacts DEF ClientReleased
  <2> QED
    BY <1>0, <2>1, <2>2, SmoothFacts DEF ClientInv
<1>14. ASSUME NEW c \in Runs, ClientTimesOut(c) PROVE ClientInv'
  BY <1>14 DEF ClientTimesOut, Smooth
<1>15. ASSUME NEW c \in Runs, NEW r \in Requests, Send(c, r) PROVE ClientInv'
  <2>1. c = n /\ client[n] = "sending" /\ request' = [request EXCEPT ![n][r] = "sent"]
        /\ UNCHANGED <<probe, client, results, stage, dir, ready>>
    BY <1>15, SmoothFacts DEF Send, Alive
  <2>2. \A q \in Requests : request'[n][q] = request[n][q] \/ request'[n][q] = "sent"
    BY <2>1, SmoothFacts
  <2> QED
    BY <1>0, <2>1, <2>2, SmoothFacts DEF ClientInv
<1>16. ASSUME NEW c \in Runs, NEW r \in Requests, NEW ok \in BOOLEAN, RequestEnds(c, r, ok)
       PROVE  ClientInv'
  <2>1. /\ UNCHANGED <<probe, client, results, stage, dir, ready>>
        /\ request' = [request EXCEPT ![c][r] = IF ok THEN "succeeded" ELSE "failed"]
        /\ c = n => ok = TRUE
    BY <1>16 DEF RequestEnds, Smooth
  <2>2. \A q \in Requests : request'[n][q] = request[n][q] \/ request'[n][q] = "succeeded"
    <3>1. CASE c = n
      BY <2>1, <3>1, SmoothFacts
    <3>2. CASE c # n
      BY <2>1, <3>2, SmoothFacts
    <3> QED
      BY <3>1, <3>2
  <2> QED
    BY <1>0, <2>1, <2>2, SmoothFacts DEF ClientInv
<1>17. ASSUME NEW c \in Runs, ClientWrites(c) PROVE ClientInv'
  <2>1. c = n /\ client[n] = "sending"
    BY <1>17, SmoothFacts DEF ClientWrites, Alive
  <2>2. /\ UNCHANGED <<probe, request, stage, ready>> /\ client'[n] = "done"
        /\ \A r \in Requests : request[n][r] \in {"succeeded", "failed"}
        /\ results' = [run |-> n, ok |-> {r \in Requests : request[n][r] = "succeeded"}]
    BY <1>17, <2>1, SmoothFacts DEF ClientWrites
  <2>3. \A r \in Requests : request[n][r] = "succeeded"
    BY <2>2, SmoothFacts DEF ClientInv
  <2>4. results' = [run |-> n, ok |-> Requests]
    BY <2>2, <2>3
  <2> QED
    BY <1>0, <2>1, <2>2, <2>3, <2>4, SmoothFacts DEF ClientInv
<1> QED
  BY <1>2, <1>3, <1>4, <1>5, <1>6, <1>7, <1>8, <1>9, <1>10, <1>11, <1>12, <1>13, <1>14, <1>15,
     <1>16, <1>17, <1>18 DEF Next, ScriptStep, SomeProbe, ClientStep

LEMMA SmoothStep == Known /\ [Next]_vars => SmoothInv'
<1> SUFFICES ASSUME Known, [Next]_vars, Smooth' PROVE RowsInv' /\ EventsInv' /\ ClientInv'
  BY DEF SmoothInv
<1>1. CASE Prepare
  BY <1>1, SmoothPrepare
<1>2. CASE ~Prepare
  BY <1>2, SmoothBefore, RowsStep, EventsStep, ClientInvStep
<1> QED
  BY <1>1, <1>2

LEMMA SmoothInit == Init => BirthInv /\ SmoothInv
<1> SUFFICES ASSUME Init PROVE BirthInv /\ SmoothInv
  OBVIOUS
<1>1. ~Smooth
  BY StageAssumption DEF Init, Smooth, Runs
<1>2. BirthInv
  BY DEF Init, BirthInv
<1> QED
  BY <1>1, <1>2 DEF SmoothInv

\* What ends was begun.
BegunInv == stage # "off" => n \in Runs

LEMMA BegunStep == TypeInv /\ BegunInv /\ [Next]_vars => BegunInv'
<1> SUFFICES ASSUME TypeInv, BegunInv, [Next]_vars PROVE BegunInv'
  OBVIOUS
<1> USE DEF scriptVars, clientVars, gateVars, traceVars, workerVars, evidenceVars, historyVars
<1>1. CASE Prepare
  BY <1>1, StageAssumption DEF Prepare, TypeInv, TypeOK, Runs, BegunInv
<1>2. CASE (ScriptStep /\ ~SomeProbe) \/ Terminate \/ Kill
  <2>1. n' = n /\ stage # "off"
    BY <1>2 DEF ScriptStep, StartRouter, Launch, SeesReady, SeesExit, CommandFails,
           ClientSucceeded, ClientFailed, Cut, JoinFails, Join, Validate, Terminate, Kill, Over, SomeProbe
  <2> QED
    BY <2>1 DEF BegunInv
<1>3. CASE \/ UNCHANGED vars \/ \E c \in Runs : ClientStep(c)
           \/ \E row \in unwritten : WriteRow(row)
           \/ \E e \in unflushed : Flush(e)
  <2>1. UNCHANGED <<n, stage>>
    BY <1>3 DEF vars, ClientStep, ClientStarts, ClientReleased, ClientTimesOut, ClientWrites,
           Send, RequestEnds, WriteRow, Flush
  <2> QED
    BY <2>1 DEF BegunInv
<1>4. CASE SomeProbe
  <2>1. n' = n /\ (stage' = stage \/ stage = "probing")
    BY <1>4 DEF SomeProbe, ProbeSucceeds
  <2> QED
    BY <2>1 DEF BegunInv
<1> QED
  BY <1>1, <1>2, <1>3, <1>4 DEF Next, SomeProbe

\* A stage fails only if a command, a request, a timeout, a late row or a
\* signal is to blame, or the ways that its requests went, one that the join or
\* the validation refuses or none that is required: what is left of earlier
\* invocations never is, unless one was killed (run_four_h20_stage.sh 154-250,
\* join_traces.py 58-88, validate_four_h20_run.py 112-160).
THEOREM FailuresHaveReasons == Spec => []FailsForAReason
<1>1. BegunInv /\ SmoothInv => FailsForAReason
  BY DEF BegunInv, FailsForAReason, SmoothInv, Smooth, ClientInv
<1>2. Init => BegunInv
  BY DEF Init, BegunInv
<1> QED
  BY <1>1, <1>2, TypeInit, TypeStep, OrphanInit, OrphanStep, GateInit, GateStep, OwnInit, OwnStep,
     SmoothInit, BirthStep, SmoothStep, BegunStep, PTL DEF Spec, Known
=============================================================================
