---------------------------- MODULE WindowProofs ----------------------------
(***************************************************************************)
(* Proofs about Window, for both versions, with and without a replicate,   *)
(* for any number of invocations that fail or die and any limit of time;   *)
(* and about the join that ends each of its runs, TraceJoin, for any       *)
(* number of requests, attempts, and faults.                               *)
(***************************************************************************)
EXTENDS Window, TraceJoin, SequenceTheorems, FiniteSetTheorems, TLAPS

----------------------------------------------------------------------------
(* The stages and their scripts. *)

NoRuns == {"check", "freeze", "publish"}

\* The stage that makes a run.
Owner(name) ==
    IF name \in {"A", "B", "C", "D", "E1", "E2", "F", "G", "default", "recalibrated"} THEN "K01"
    ELSE IF name \in {"recompute", "l1", "l2"} THEN "K02"
    ELSE IF name \in {"capacity", "confirm"} THEN "K03"
    ELSE name

AllSteps ==
    {"check", "freeze", "publish", "A", "B", "C", "D", "E1", "E2", "F", "G", "default",
     "recalibrated", "recompute", "l1", "l2", "capacity", "confirm",
     "F00", "K01", "K02", "K03", "K04", "K05", "K05R", "K04R", "K07"}

LEMMA StepNames ==
  /\ "check" \in AllSteps /\ "freeze" \in AllSteps /\ "publish" \in AllSteps /\ "A" \in AllSteps
  /\ "B" \in AllSteps /\ "C" \in AllSteps /\ "D" \in AllSteps /\ "E1" \in AllSteps
  /\ "E2" \in AllSteps /\ "F" \in AllSteps /\ "G" \in AllSteps /\ "default" \in AllSteps
  /\ "recalibrated" \in AllSteps /\ "recompute" \in AllSteps /\ "l1" \in AllSteps /\ "l2" \in AllSteps
  /\ "capacity" \in AllSteps /\ "confirm" \in AllSteps /\ "F00" \in AllSteps /\ "K01" \in AllSteps
  /\ "K02" \in AllSteps /\ "K03" \in AllSteps /\ "K04" \in AllSteps /\ "K05" \in AllSteps
  /\ "K05R" \in AllSteps /\ "K04R" \in AllSteps /\ "K07" \in AllSteps
BY DEF AllSteps

\* A step that a script of s may have.
StepOf(step, s) ==
    \/ step = "check"
    \/ step = "freeze" /\ s \in Freezers
    \/ step = "publish" /\ s = "K07"
    \/ step \notin NoRuns /\ Owner(step) = s

LEMMA StageFacts ==
  /\ Stages \in Seq(AllSteps) /\ DOMAIN Stages = 1..Len(Stages) /\ Len(Stages) \in Nat
  /\ \A s \in StageSet : s # "none"
  /\ Freezers \cap PairedStages = {} /\ "K07" \notin PairedStages
<1> USE WindowAssumption
<1>1. Stages \in Seq(AllSteps)
  BY StepNames DEF Stages
<1>2. DOMAIN Stages = 1..Len(Stages) /\ Len(Stages) \in Nat
  BY <1>1, LenProperties
<1>3. StageSet \subseteq {"F00", "K01", "K02", "K03", "K04", "K05", "K05R", "K04R", "K07"}
  BY DEF StageSet, ToSet, Stages
<1> QED
  BY <1>1, <1>2, <1>3 DEF Freezers, PairedStages

\* The calibrations come before every paired stage, and those before K07.
LEMMA StageOrder ==
  /\ \A f \in Freezers : \A i \in 1..Len(Stages) : Stages[i] \in PairedStages =>
       \E j \in 1..(i - 1) : Stages[j] = f
  /\ \A s \in PairedStages \cap StageSet : \A i \in 1..Len(Stages) : Stages[i] = "K07" =>
       \E j \in 1..(i - 1) : Stages[j] = s
  /\ \A i, j \in 1..Len(Stages) : Stages[i] = Stages[j] => i = j
<1> USE WindowAssumption
<1>1. CASE Version = "V2.1"
  <2>1. Stages = <<"F00", "K01", "K02", "K03", "K04", "K05", "K07">> /\ Len(Stages) = 7
    BY <1>1 DEF Stages
  <2> QED
    BY <1>1, <2>1 DEF Freezers, PairedStages, StageSet, ToSet
<1>2. CASE Version = "V2.2" /\ Replicate
  <2>1. Stages = <<"F00", "K01", "K04", "K05", "K05R", "K04R", "K07">> /\ Len(Stages) = 7
    BY <1>2 DEF Stages
  <2> QED
    BY <1>2, <2>1 DEF Freezers, PairedStages, StageSet, ToSet
<1>3. CASE Version = "V2.2" /\ ~Replicate
  <2>1. Stages = <<"F00", "K01", "K04", "K05", "K07">> /\ Len(Stages) = 5
    BY <1>3 DEF Stages
  <2> QED
    BY <1>3, <2>1 DEF Freezers, PairedStages, StageSet, ToSet
<1> QED
  BY <1>1, <1>2, <1>3

\* Every step of a script belongs to its stage.
LEMMA ScriptFacts ==
  ASSUME NEW s \in StageSet, NEW p \in Scripts(s)
  PROVE  /\ p \in Seq(AllSteps)
         /\ \A i \in 1..Len(p) : StepOf(p[i], s)
<1> USE WindowAssumption
<1>1. s \in {"F00", "K01", "K02", "K03", "K04", "K05", "K05R", "K04R", "K07"}
  BY DEF StageSet, ToSet, Stages
<1>2. s \in {"K02", "K03"} => Version = "V2.1"
  BY DEF StageSet, ToSet, Stages
<1>3. CASE s = "F00"
  <2> DEFINE q0 == <<"check">>
  <2>1. Scripts("F00") = {q0}
    BY <1>3 DEF Scripts, ScriptsV21, ScriptsV22
  <2>2. q0 \in Seq(AllSteps) /\ Len(q0) = 1
    BY StepNames
  <2>3. \A i \in 1..1 : StepOf(q0[i], "F00")
    BY DEF StepOf, Owner, NoRuns, Freezers
  <2> HIDE DEF q0
  <2>4. CASE p = q0
    BY <1>3, <2>2, <2>3, <2>4
  <2> QED
    BY <1>3, <2>1, <2>4
<1>4. CASE s = "K01" /\ Version = "V2.1"
  <2> DEFINE q0 == <<"A", "B", "check", "C", "D", "E1", "E2", "F", "G", "check">>
  <2>1. Scripts("K01") = {q0}
    BY <1>4 DEF Scripts, ScriptsV21, ScriptsV22
  <2>2. q0 \in Seq(AllSteps) /\ Len(q0) = 10
    BY StepNames
  <2>3. \A i \in 1..10 : StepOf(q0[i], "K01")
    BY DEF StepOf, Owner, NoRuns, Freezers
  <2> HIDE DEF q0
  <2>4. CASE p = q0
    BY <1>4, <2>2, <2>3, <2>4
  <2> QED
    BY <1>4, <2>1, <2>4
<1>5. CASE s = "K01" /\ Version = "V2.2"
  <2> DEFINE q0 == <<"default", "freeze", "check">>
  <2> DEFINE q1 == <<"default", "freeze", "recalibrated", "check">>
  <2>1. Scripts("K01") = {q0, q1}
    BY <1>5 DEF Scripts, ScriptsV21, ScriptsV22
  <2>2. q0 \in Seq(AllSteps) /\ Len(q0) = 3
    BY StepNames
  <2>3. \A i \in 1..3 : StepOf(q0[i], "K01")
    BY <1>5 DEF StepOf, Owner, NoRuns, Freezers
  <2>4. q1 \in Seq(AllSteps) /\ Len(q1) = 4
    BY StepNames
  <2>5. \A i \in 1..4 : StepOf(q1[i], "K01")
    BY <1>5 DEF StepOf, Owner, NoRuns, Freezers
  <2> HIDE DEF q0, q1
  <2>6. CASE p = q0
    BY <1>5, <2>2, <2>3, <2>6
  <2>7. CASE p = q1
    BY <1>5, <2>4, <2>5, <2>7
  <2> QED
    BY <1>5, <2>1, <2>6, <2>7
<1>6. CASE s = "K02"
  <2> DEFINE q0 == <<"recompute", "l1", "check", "l2", "freeze">>
  <2>1. Scripts("K02") = {q0}
    BY <1>2, <1>6 DEF Scripts, ScriptsV21, ScriptsV22
  <2>2. q0 \in Seq(AllSteps) /\ Len(q0) = 5
    BY StepNames
  <2>3. \A i \in 1..5 : StepOf(q0[i], "K02")
    BY <1>2, <1>6 DEF StepOf, Owner, NoRuns, Freezers
  <2> HIDE DEF q0
  <2>4. CASE p = q0
    BY <1>6, <2>2, <2>3, <2>4
  <2> QED
    BY <1>6, <2>1, <2>4
<1>7. CASE s = "K03"
  <2> DEFINE q0 == <<"capacity", "freeze">>
  <2> DEFINE q1 == <<"capacity", "freeze", "confirm", "freeze">>
  <2>1. Scripts("K03") = {q0, q1}
    BY <1>2, <1>7 DEF Scripts, ScriptsV21, ScriptsV22
  <2>2. q0 \in Seq(AllSteps) /\ Len(q0) = 2
    BY StepNames
  <2>3. \A i \in 1..2 : StepOf(q0[i], "K03")
    BY <1>2, <1>7 DEF StepOf, Owner, NoRuns, Freezers
  <2>4. q1 \in Seq(AllSteps) /\ Len(q1) = 4
    BY StepNames
  <2>5. \A i \in 1..4 : StepOf(q1[i], "K03")
    BY <1>2, <1>7 DEF StepOf, Owner, NoRuns, Freezers
  <2> HIDE DEF q0, q1
  <2>6. CASE p = q0
    BY <1>7, <2>2, <2>3, <2>6
  <2>7. CASE p = q1
    BY <1>7, <2>4, <2>5, <2>7
  <2> QED
    BY <1>7, <2>1, <2>6, <2>7
<1>8. CASE s = "K07"
  <2> DEFINE q0 == <<"publish">>
  <2>1. Scripts("K07") = {q0}
    BY <1>8 DEF Scripts, ScriptsV21, ScriptsV22
  <2>2. q0 \in Seq(AllSteps) /\ Len(q0) = 1
    BY StepNames
  <2>3. \A i \in 1..1 : StepOf(q0[i], "K07")
    BY DEF StepOf, Owner, NoRuns, Freezers
  <2> HIDE DEF q0
  <2>4. CASE p = q0
    BY <1>8, <2>2, <2>3, <2>4
  <2> QED
    BY <1>8, <2>1, <2>4
<1>9. CASE s \in PairedStages
  <2>1. p = <<s>> /\ s \in AllSteps
    BY <1>9, StepNames DEF Scripts, ScriptsV21, ScriptsV22, PairedStages
  <2>2. p \in Seq(AllSteps) /\ Len(p) = 1 /\ p[1] = s
    BY <2>1
  <2>3. StepOf(s, s)
    BY <1>9 DEF StepOf, Owner, NoRuns, PairedStages
  <2> QED
    BY <2>2, <2>3
<1> QED
  BY <1>1, <1>3, <1>4, <1>5, <1>6, <1>7, <1>8, <1>9, WindowAssumption DEF PairedStages

\* What the runs of a stage are, and whose.
LEMMA RunFacts ==
  /\ \A n \in RunNames : n \notin NoRuns
  /\ \A s \in StageSet : \A n \in Mandatory(s) :
       n \in RunNames /\ \A p \in Scripts(s) : \E i \in 1..Len(p) : p[i] = n
  /\ \A s \in StageSet \cap PairedStages : s \in Mandatory(s)
<1>1. \A n \in RunNames : n \notin NoRuns
  <2> DEFINE X == UNION {ToSet(p) : p \in UNION {Scripts(s) : s \in StageSet}}
  <2>1. RunNames = X \ {"check", "freeze", "publish"}
    BY DEF RunNames
  <2> HIDE DEF X
  <2> QED
    BY <2>1 DEF NoRuns
<1>2. ASSUME NEW s \in StageSet, NEW n \in Mandatory(s)
      PROVE  n \in RunNames /\ \A p \in Scripts(s) : \E i \in 1..Len(p) : p[i] = n
  <2>1. n \in RunNames /\ \A p \in Scripts(s) : n \in ToSet(p)
    BY DEF Mandatory
  <2>2. \A p \in Scripts(s) : DOMAIN p = 1..Len(p)
    BY ScriptFacts, LenProperties
  <2> QED
    BY <2>1, <2>2 DEF ToSet
<1>3. ASSUME NEW s \in StageSet \cap PairedStages PROVE s \in Mandatory(s)
  <2>1. Scripts(s) = {<<s>>}
    BY DEF Scripts, ScriptsV21, ScriptsV22, PairedStages
  <2>2. ToSet(<<s>>) = {s}
    BY DEF ToSet
  <2>3. s \in RunNames
    <3>1. <<s>> \in UNION {Scripts(t) : t \in StageSet}
      BY <2>1
    <3>2. s \in UNION {ToSet(p) : p \in UNION {Scripts(t) : t \in StageSet}}
      BY <2>2, <3>1
    <3>3. s \notin {"check", "freeze", "publish"}
      BY DEF PairedStages
    <3> DEFINE X == UNION {ToSet(p) : p \in UNION {Scripts(t) : t \in StageSet}}
    <3>4. RunNames = X \ {"check", "freeze", "publish"}
      BY DEF RunNames
    <3>5. s \in X
      BY <3>2
    <3> HIDE DEF X
    <3> QED
      BY <3>3, <3>4, <3>5
  <2> QED
    BY <2>1, <2>2, <2>3 DEF Mandatory
<1> QED
  BY <1>1, <1>2, <1>3

----------------------------------------------------------------------------
(* Types. *)

\* A run that the client serves; what it refuses, and what has no time left,
\* ends the invocation.
RunServed(n) == RunServes(n) /\ dirs[RunId(n)].state = "none"
RunMoves(n) == RunBegins(n) \/ RunServed(n) \/ RunJoins(n) \/ RunValidates(n)

Working == {"between", "steps", "first", "second"}
Failing == pc \in Working /\ Fails

LEMMA NextCases ==
  ASSUME Next
  PROVE  \/ Start \/ Tick \/ Failing \/ Die
         \/ \E s \in StageSet : Begin(s)
         \/ Check \/ Freeze \/ Publish
         \/ \E n \in RunNames : RunMoves(n)
         \/ StepsDone \/ RecordPass \/ Mark
         \/ RecordFail \/ Unmark \/ Bump \/ End
<1>1. ASSUME NEW n \in RunNames, RunServes(n) PROVE RunServed(n) \/ Failing
  BY <1>1 DEF RunServes, RunServed, RunStep, AtStep, Failing, Working
<1>2. ASSUME NEW n \in RunNames, RunOutOfTime(n) PROVE Failing
  BY <1>2 DEF RunOutOfTime, RunStep, AtStep, Failing, Working
<1>3. Fail => Failing
  BY DEF Fail, Failing, Working
<1> QED
  BY <1>1, <1>2, <1>3 DEF Next, Proceed, RunMoves

\* What a step of a run leaves alone.
LEMMA MoveFrame ==
  ASSUME NEW n, RunMoves(n)
  PROVE  /\ pc = "steps" /\ script # <<>> /\ Head(script) = n
         /\ UNCHANGED <<completed, attempt, records, frozen, conclusion, active,
                        pc, current, recorded, spent, ends>>
BY DEF RunMoves, RunBegins, RunServed, RunServes, RunJoins, RunValidates, RunStep, AtStep

Used == [Freezers -> Nat]
Dirs == [state : {"none", "partial", "passed"}, used : Used]

DiskTypes ==
    /\ completed \subseteq StageSet
    /\ attempt \in Nat /\ attempt >= 1 /\ attempt <= ends + 1
    /\ pc \in {"record", "unmark", "bump"} => attempt <= ends
    /\ records \subseteq (StageSet \X Attempts) \X {"PASS", "FAIL"}
    /\ frozen \in Used /\ dirs \in [RunIds -> Dirs]
    /\ logs \subseteq RunIds /\ copied \subseteq RunIds /\ destroyed \subseteq RunIds
    /\ \A c \in conclusion : c.run \in RunIds
    /\ ends \in 0..(MaxEnds + 1) /\ (pc \in Working => ends <= MaxEnds)
    /\ active \in 0..HardLimit /\ spent \in 0..HardLimit

\* While a stage is under way it is the first without a marker, its steps are
\* its own, and a run that has begun is its next step.
ShellTypes ==
    /\ pc \in {"off", "between", "steps", "first", "second", "record", "unmark", "bump"}
    /\ current \in StageSet \cup {"none"}
    /\ progress \in {"none", "begun", "served", "joined"}
    /\ recorded \in BOOLEAN
    /\ pc \in {"steps", "first", "second"} => current \in StageSet
    /\ pc = "steps" =>
        /\ IsNext(current)
        /\ script \in Seq(AllSteps) /\ \A i \in 1..Len(script) : StepOf(script[i], current)
        /\ progress # "none" => script # <<>> /\ Head(script) \in RunNames

TypeInv == DiskTypes /\ ShellTypes

LEMMA IdFacts ==
  ASSUME DiskTypes
  PROVE  /\ attempt \in Attempts /\ 1 \in Attempts
         /\ \A n \in RunNames : RunId(n) \in RunIds
         /\ \A s \in StageSet : Label(s) \in StageSet \X Attempts
<1>1. attempt \in Attempts /\ 1 \in Attempts
  BY WindowAssumption DEF DiskTypes, Attempts
<1> QED
  BY <1>1 DEF RunId, RunIds, Label

\* The step at the head of a script belongs to its stage.
LEMMA HeadFacts ==
  ASSUME ShellTypes, pc = "steps", script # <<>>
  PROVE  /\ Head(script) = script[1] /\ StepOf(Head(script), current)
         /\ Tail(script) \in Seq(AllSteps) /\ Len(Tail(script)) = Len(script) - 1
         /\ Len(script) \in Nat \ {0}
         /\ \A i \in 1..Len(Tail(script)) :
              Tail(script)[i] = script[i + 1] /\ StepOf(Tail(script)[i], current)
<1>1. script \in Seq(AllSteps) /\ \A i \in 1..Len(script) : StepOf(script[i], current)
  BY DEF ShellTypes
<1>2. Len(script) \in Nat \ {0}
  BY <1>1, EmptySeq
<1>3. Head(script) = script[1]
  BY <1>1
<1>4. /\ Tail(script) \in Seq(AllSteps) /\ Len(Tail(script)) = Len(script) - 1
      /\ \A i \in 1..Len(Tail(script)) : Tail(script)[i] = script[i + 1]
  BY <1>1, HeadTailProperties
<1>5. \A i \in 1..Len(Tail(script)) : i + 1 \in 1..Len(script)
  BY <1>2, <1>4
<1> QED
  BY <1>1, <1>2, <1>3, <1>4, <1>5

\* A step of a script that is no run leaves the disk's types to the freeze.
LEMMA NoRunTypes ==
  ASSUME ShellTypes, AtStep("check") \/ AtStep("freeze") \/ AtStep("publish"),
         script' = Tail(script), UNCHANGED <<completed, pc, current, progress, recorded>>
  PROVE  ShellTypes'
<1>1. pc = "steps" /\ script # <<>> /\ Head(script) \in NoRuns
  BY DEF AtStep, NoRuns
<1>2. Head(script) \notin RunNames
  BY <1>1, RunFacts
<1>3. progress = "none"
  BY <1>1, <1>2 DEF ShellTypes
<1>4. IsNext(current)'
  BY <1>1 DEF ShellTypes, IsNext
<1> QED
  BY <1>1, <1>3, <1>4, HeadFacts DEF ShellTypes

LEMMA RunTypes ==
  ASSUME TypeInv, NEW n \in RunNames, RunMoves(n)
  PROVE  TypeInv'
<1> USE DEF TypeInv
<1>1. pc = "steps" /\ script # <<>> /\ Head(script) = n /\ pc' = pc /\ current' = current
  BY MoveFrame
<1>2. RunId(n) \in RunIds
  BY IdFacts
<1>3. UNCHANGED <<completed, attempt, records, frozen, conclusion, active, spent, ends, recorded>>
  BY MoveFrame
<1>4. IsNext(current)'
  BY <1>1, <1>3 DEF ShellTypes, IsNext
<1>5. NoDir \in Dirs /\ [state |-> "partial", used |-> frozen] \in Dirs
  BY DEF NoDir, Dirs, Used, DiskTypes
<1>6. DiskTypes'
  <2>1. CASE RunBegins(n)
    BY <1>1, <1>2, <1>3, <1>5, <2>1 DEF RunBegins, DiskTypes
  <2>2. CASE RunServed(n)
    BY <1>1, <1>2, <1>3, <1>5, <2>2 DEF RunServed, RunServes, DiskTypes
  <2>3. CASE RunJoins(n)
    BY <1>1, <1>2, <1>3, <2>3 DEF RunJoins, DiskTypes
  <2>4. CASE RunValidates(n)
    <3>1. dirs' \in [RunIds -> Dirs]
      BY <1>2, <2>4 DEF RunValidates, DiskTypes, Dirs
    <3> QED
      BY <1>1, <1>3, <2>4, <3>1 DEF RunValidates, DiskTypes
  <2> QED
    BY <2>1, <2>2, <2>3, <2>4 DEF RunMoves
<1>7. ShellTypes'
  <2>1. CASE RunBegins(n) \/ RunServed(n) \/ RunJoins(n)
    <3>1. script' = script /\ progress' \in {"begun", "served", "joined"}
      BY <2>1 DEF RunBegins, RunServed, RunServes, RunJoins
    <3> QED
      BY <1>1, <1>3, <1>4, <3>1 DEF ShellTypes
  <2>2. CASE RunValidates(n)
    <3>1. script' = Tail(script) /\ progress' = "none"
      BY <2>2 DEF RunValidates
    <3> QED
      BY <1>1, <1>3, <1>4, <3>1, HeadFacts DEF ShellTypes
  <2> QED
    BY <2>1, <2>2 DEF RunMoves
<1> QED
  BY <1>6, <1>7

LEMMA TypeStep == ASSUME TypeInv, [Next]_vars PROVE TypeInv'
<1> USE DEF TypeInv
<1>1. CASE UNCHANGED vars
  BY <1>1 DEF vars, disk, shell, DiskTypes, ShellTypes, IsNext
<1>2. ASSUME NEW t \in 0..HardLimit,
             FreshShell("off", t) \/ (FreshShell("between", t) /\ ends' <= MaxEnds),
             UNCHANGED <<completed, records, frozen, dirs, logs, copied, conclusion, destroyed>>,
             active' \in 0..HardLimit, attempt' \in Nat, attempt' >= 1,
             attempt' <= ends' + 1, ends' \in 0..(MaxEnds + 1)
      PROVE  TypeInv'
  <2>1. /\ pc' = "off" \/ (pc' = "between" /\ ends' <= MaxEnds)
        /\ current' = "none" /\ progress' = "none" /\ recorded' = FALSE /\ spent' = t
    BY <1>2 DEF FreshShell
  <2>2. DiskTypes'
    BY <1>2, <2>1 DEF DiskTypes, Working
  <2>3. ShellTypes'
    BY <2>1 DEF ShellTypes
  <2> QED
    BY <2>2, <2>3
<1>3. /\ attempt \in Nat /\ attempt >= 1 /\ attempt <= ends + 1 /\ ends \in 0..(MaxEnds + 1)
      /\ pc = "bump" => attempt <= ends
      /\ active \in 0..HardLimit /\ spent \in 0..HardLimit /\ 0 \in 0..HardLimit
      /\ MaxEnds \in Nat
  BY WindowAssumption DEF DiskTypes
<1>31. CASE Start
  <2>1. FreshShell("between", active) /\ ends <= MaxEnds /\ UNCHANGED <<disk, ends, destroyed>>
    BY <1>31 DEF Start
  <2> QED
    BY <1>2, <1>3, <2>1 DEF disk
<1>32. CASE End
  <2>1. /\ FreshShell("off", 0) /\ active' = spent
        /\ UNCHANGED <<completed, attempt, records, frozen, dirs, logs, copied, conclusion,
                       ends, destroyed>>
    BY <1>32 DEF End
  <2> QED
    BY <1>2, <1>3, <2>1
<1>33. CASE Bump
  <2>1. /\ FreshShell("off", 0) /\ attempt' = attempt + 1 /\ attempt <= ends
        /\ UNCHANGED <<completed, records, frozen, dirs, logs, copied, conclusion, active,
                       ends, destroyed>>
    BY <1>3, <1>33 DEF Bump
  <2>2. attempt' \in Nat /\ attempt' >= 1 /\ attempt' <= ends' + 1
    BY <1>3, <2>1
  <2> QED
    BY <1>2, <1>3, <2>1, <2>2
<1>34. CASE Tick
  <2>1. /\ spent' \in 0..HardLimit
        /\ UNCHANGED <<disk, pc, current, script, progress, recorded, ends, destroyed>>
    BY <1>3, <1>34, WindowAssumption DEF Tick
  <2>2. DiskTypes'
    BY <2>1 DEF DiskTypes, disk
  <2>3. ShellTypes'
    BY <2>1 DEF ShellTypes, IsNext, disk
  <2> QED
    BY <2>2, <2>3
<1>4. CASE Die
  <2>1. /\ FreshShell("off", 0) /\ ends < MaxEnds /\ ends' = ends + 1 /\ active' \in {active, spent}
        /\ UNCHANGED <<completed, attempt, records, frozen, dirs, logs, copied, conclusion,
                       destroyed>>
    BY <1>4 DEF Die
  <2>2. attempt' <= ends' + 1 /\ ends' \in 0..(MaxEnds + 1)
    BY <1>3, <2>1
  <2> QED
    BY <1>2, <1>3, <2>1, <2>2
<1>5. ASSUME NEW s \in StageSet, Begin(s) PROVE TypeInv'
  <2>1. /\ pc' = "steps" /\ current' = s /\ script' \in Scripts(s) /\ progress' = "none"
        /\ recorded' = FALSE /\ IsNext(s) /\ UNCHANGED <<disk, spent, ends, destroyed>>
        /\ pc = "between"
    BY <1>5 DEF Begin
  <2>2. script' \in Seq(AllSteps) /\ \A i \in 1..Len(script') : StepOf(script'[i], s)
    BY <2>1, ScriptFacts
  <2>3. IsNext(s)'
    BY <2>1 DEF IsNext, disk
  <2>4. DiskTypes'
    BY <2>1 DEF DiskTypes, Working, disk
  <2>5. ShellTypes'
    BY <2>1, <2>2, <2>3 DEF ShellTypes
  <2> QED
    BY <2>4, <2>5
<1>6. CASE Check
  <2>1. ShellTypes'
    BY <1>6, NoRunTypes DEF Check, disk
  <2> QED
    BY <1>6, <2>1 DEF Check, DiskTypes, disk
<1>7. CASE Freeze
  <2>1. ShellTypes'
    BY <1>7, NoRunTypes DEF Freeze
  <2>2. frozen' \in Used
    <3>1. frozen \in [Freezers -> Nat] /\ frozen' = [frozen EXCEPT ![current] = frozen[current] + 1]
      BY <1>7 DEF Freeze, DiskTypes, Used
    <3>2. \A f \in Freezers : frozen'[f] \in Nat
      BY <3>1
    <3> QED
      BY <3>1, <3>2 DEF Used
  <2> QED
    BY <1>7, <2>1, <2>2 DEF Freeze, DiskTypes
<1>8. CASE Publish
  <2>1. ShellTypes'
    BY <1>8, NoRunTypes DEF Publish
  <2>2. \A s \in PairedStages \cap StageSet : RunId(s) \in RunIds
    BY RunFacts, IdFacts
  <2>3. \A c \in conclusion' : c.run \in RunIds
    BY <1>8, <2>2 DEF Publish
  <2> QED
    BY <1>8, <2>1, <2>3 DEF Publish, DiskTypes
<1>9. ASSUME NEW n \in RunNames, RunMoves(n) PROVE TypeInv'
  BY <1>9, RunTypes
<1>10. CASE StepsDone
  BY <1>10 DEF StepsDone, DiskTypes, Working, ShellTypes, disk
<1>11. CASE RecordPass
  <2>1. pc \in {"first", "second"} /\ current \in StageSet
    BY <1>11 DEF RecordPass, RecordsFirst, ShellTypes
  <2>2. records' \subseteq (StageSet \X Attempts) \X {"PASS", "FAIL"}
    BY <1>11, <2>1, IdFacts DEF RecordPass, Recorded, DiskTypes
  <2> QED
    BY <1>11, <2>1, <2>2 DEF RecordPass, RecordsFirst, DiskTypes, Working, ShellTypes
<1>12. CASE Mark
  <2>1. pc \in {"first", "second"} /\ current \in StageSet
    BY <1>12 DEF Mark, RecordsFirst, ShellTypes
  <2> QED
    BY <1>12, <2>1 DEF Mark, RecordsFirst, DiskTypes, Working, ShellTypes
<1>13. CASE Failing
  <2>1. /\ pc \in Working /\ ends' = ends + 1 /\ pc' = "record" /\ active' = spent
        /\ UNCHANGED <<completed, attempt, records, frozen, dirs, logs, copied, conclusion,
                       current, script, progress, recorded, spent, destroyed>>
    BY <1>13 DEF Failing, Fails
  <2>2. ends <= MaxEnds
    BY <2>1 DEF DiskTypes
  <2>3. attempt <= ends' /\ attempt <= ends' + 1 /\ ends' \in 0..(MaxEnds + 1)
    BY <1>3, <2>1, <2>2
  <2>4. DiskTypes'
    BY <1>3, <2>1, <2>3 DEF DiskTypes, Working
  <2>5. ShellTypes'
    BY <2>1 DEF ShellTypes
  <2> QED
    BY <2>4, <2>5
<1>14. CASE RecordFail
  <2>1. records' \subseteq (StageSet \X Attempts) \X {"PASS", "FAIL"}
    BY <1>14, IdFacts DEF RecordFail, Recorded, DiskTypes, ShellTypes
  <2> QED
    BY <1>3, <1>14, <2>1 DEF RecordFail, FreshShell, DiskTypes, Working, ShellTypes
<1>15. CASE Unmark
  BY <1>15 DEF Unmark, Unmarked, DiskTypes, Working, ShellTypes
<1> QED
  BY <1>1, <1>31, <1>32, <1>33, <1>34, <1>4, <1>5, <1>6, <1>7, <1>8, <1>9, <1>10, <1>11, <1>12,
     <1>13, <1>14, <1>15, NextCases

LEMMA InitTypes == ASSUME Init PROVE TypeInv
<1>1. NoDir \in Dirs /\ [f \in Freezers |-> 0] \in Used
  BY DEF NoDir, Dirs, Used
<1>2. dirs \in [RunIds -> Dirs] /\ frozen \in Used
  BY <1>1 DEF Init
<1>3. DiskTypes
  BY <1>2, WindowAssumption DEF Init, DiskTypes, Working
<1>4. ShellTypes
  BY DEF Init, ShellTypes
<1> QED
  BY <1>3, <1>4 DEF TypeInv

\* The disk and the shell keep their types (TypeOK), wherever an invocation ends.
THEOREM WindowTypeCorrect == Spec => []TypeOK
<1>1. Init => TypeInv
  BY InitTypes
<1>2. TypeInv /\ [Next]_vars => TypeInv'
  BY TypeStep
<1>3. TypeInv => TypeOK
  BY IdFacts DEF TypeInv, DiskTypes, ShellTypes, Dirs, Used, TypeOK
<1> QED
  BY <1>1, <1>2, <1>3, PTL DEF Spec

----------------------------------------------------------------------------
(* Markers.  What a stage must make is made, or is still in its script; and *)
(* no other stage makes a run of that name.                                 *)

Passed(n) == dirs[RunId(n)].state = "passed" /\ RunId(n) \in copied
Ahead(n) == \E i \in 1..Len(script) : script[i] = n

DoneInv ==
    /\ pc = "steps" => \A n \in Mandatory(current) : Ahead(n) \/ Passed(n)
    /\ pc = "steps" /\ progress = "joined" => RunId(Head(script)) \in copied
    /\ pc \in {"first", "second"} => \A n \in Mandatory(current) : Passed(n)
    /\ \A s \in completed : \A n \in Mandatory(s) : Passed(n)
    /\ pc = "bump" => completed \cap PairedStages = {}

LEMMA ScriptsExist == \A s \in StageSet : Scripts(s) # {}
<1> SUFFICES ASSUME NEW s \in StageSet PROVE Scripts(s) # {}
  OBVIOUS
<1>1. CASE s = "F00"
  BY <1>1 DEF Scripts, ScriptsV21, ScriptsV22
<1>2. CASE s = "K01"
  <2>1. CASE Version = "V2.1"
    BY <1>2, <2>1 DEF Scripts, ScriptsV21, ScriptsV22
  <2>2. CASE Version = "V2.2"
    BY <1>2, <2>2 DEF Scripts, ScriptsV21, ScriptsV22
  <2> QED
    BY <2>1, <2>2, WindowAssumption
<1>3. CASE s \in {"K02", "K03", "K07"}
  BY <1>3 DEF Scripts, ScriptsV21, ScriptsV22
<1>4. CASE s \notin {"F00", "K01", "K02", "K03", "K07"}
  BY <1>4 DEF Scripts, ScriptsV21, ScriptsV22
<1> QED
  BY <1>1, <1>2, <1>3, <1>4

\* A run belongs to one stage, and a paired run to a paired stage.
LEMMA OneOwner ==
  ASSUME NEW t \in StageSet, NEW n \in Mandatory(t)
  PROVE  /\ n \in RunNames
         /\ \A s \in StageSet : StepOf(n, s) => s = t
         /\ t \notin PairedStages => n \notin PairedStages
<1>1. PICK p \in Scripts(t) : TRUE
  BY ScriptsExist
<1>2. n \in RunNames /\ n \notin NoRuns /\ \E i \in 1..Len(p) : p[i] = n
  BY RunFacts
<1>3. StepOf(n, t)
  BY <1>2, ScriptFacts
<1>4. \A s \in StageSet : StepOf(n, s) => s = Owner(n)
  BY <1>2 DEF StepOf, NoRuns
<1>5. n \in PairedStages => Owner(n) = n
  BY DEF Owner, PairedStages
<1> QED
  BY <1>2, <1>3, <1>4, <1>5

LEMMA FirstIsNew == ASSUME NEW s, IsNext(s) PROVE s \notin completed
BY DEF IsNext

LEMMA RunDone ==
  ASSUME TypeInv, DoneInv, NEW n \in RunNames, RunMoves(n)
  PROVE  DoneInv'
<1> USE DEF DoneInv
<1>1. /\ pc = "steps" /\ script # <<>> /\ Head(script) = n
      /\ UNCHANGED <<pc, current, completed, attempt>>
  BY MoveFrame
<1>2. /\ StepOf(n, current) /\ n = script[1] /\ Len(script) \in Nat \ {0} /\ current \in StageSet
      /\ current \notin completed /\ completed \subseteq StageSet
  BY <1>1, HeadFacts, FirstIsNew DEF TypeInv, ShellTypes, DiskTypes
<1>3. \A m \in RunNames : RunId(m)' = RunId(m) /\ RunId(m) \in RunIds /\ (m # n => RunId(m) # RunId(n))
  BY <1>1, IdFacts DEF RunId, TypeInv
<1>4. dirs \in [RunIds -> Dirs]
  BY DEF TypeInv, DiskTypes
<1>5. ASSUME NEW m \in RunNames, m # n, Passed(m) PROVE Passed(m)'
  <2>1. RunId(m)' = RunId(m) /\ RunId(m) \in RunIds /\ RunId(m) # RunId(n)
    BY <1>3, <1>5
  <2>2. CASE RunBegins(n)
    BY <1>4, <1>5, <2>1, <2>2 DEF RunBegins, Passed
  <2>3. CASE RunServed(n)
    BY <1>4, <1>5, <2>1, <2>3 DEF RunServed, RunServes, Passed
  <2>4. CASE RunJoins(n)
    BY <1>4, <1>5, <2>1, <2>4 DEF RunJoins, Passed
  <2>5. CASE RunValidates(n)
    BY <1>4, <1>5, <2>1, <2>5 DEF RunValidates, Passed
  <2> QED
    BY <2>2, <2>3, <2>4, <2>5 DEF RunMoves
<1>6. ASSUME NEW s \in completed, NEW m \in Mandatory(s) PROVE Passed(m)'
  <2>1. s \in StageSet /\ s # current
    BY <1>2
  <2>2. m \in RunNames /\ m # n
    BY <1>2, <2>1, OneOwner
  <2> QED
    BY <1>5, <2>2
<1>7. \A m \in Mandatory(current) : m \in RunNames
  BY <1>2, RunFacts
<1>8. CASE RunBegins(n) \/ RunServed(n) \/ RunJoins(n)
  <2>1. script' = script
    BY <1>8 DEF RunBegins, RunServed, RunServes, RunJoins
  <2>2. ASSUME NEW m \in Mandatory(current) PROVE Ahead(m)' \/ Passed(m)'
    <3>1. CASE Ahead(m)
      BY <2>1, <3>1 DEF Ahead
    <3>2. CASE ~Ahead(m)
      <4>1. m # n
        BY <1>2, <3>2 DEF Ahead
      <4> QED
        BY <1>1, <1>5, <1>7, <3>2, <4>1
    <3> QED
      BY <3>1, <3>2
  <2>3. progress' = "joined" => n \in RunNames /\ RunId(n) \in copied'
    BY <1>8 DEF RunBegins, RunServed, RunServes, RunJoins
  <2>4. progress' = "joined" => (RunId(Head(script)) \in copied)'
    BY <1>1, <2>1, <2>3 DEF RunId
  <2> QED
    BY <1>1, <1>6, <2>2, <2>4
<1>9. CASE RunValidates(n)
  <2>1. /\ progress = "joined" /\ progress' = "none" /\ script' = Tail(script)
        /\ dirs' = [dirs EXCEPT ![RunId(n)].state = "passed"] /\ copied' = copied
    BY <1>9 DEF RunValidates
  <2>2. Passed(n)'
    <3>1. RunId(n) \in copied
      BY <1>1, <2>1
    <3>2. dirs'[RunId(n)].state = "passed"
      BY <1>3, <1>4, <2>1 DEF Dirs
    <3> QED
      BY <1>3, <2>1, <3>1, <3>2 DEF Passed
  <2>3. ASSUME NEW m \in Mandatory(current) PROVE Ahead(m)' \/ Passed(m)'
    <3>1. CASE m = n
      BY <2>2, <3>1
    <3>2. ASSUME m # n, NEW i \in 1..Len(script), script[i] = m PROVE Ahead(m)'
      <4>1. i - 1 \in 1..Len(Tail(script)) /\ Tail(script)[i - 1] = script[i]
        BY <1>1, <1>2, <3>2, HeadFacts DEF TypeInv
      <4> QED
        BY <2>1, <3>2, <4>1 DEF Ahead
    <3>3. CASE m # n /\ Passed(m)
      BY <1>5, <1>7, <3>3
    <3> QED
      BY <1>1, <3>1, <3>2, <3>3 DEF Ahead
  <2> QED
    BY <1>1, <1>6, <2>1, <2>3
<1> QED
  BY <1>8, <1>9 DEF RunMoves

LEMMA DoneStep == ASSUME TypeInv, DoneInv, [Next]_vars PROVE DoneInv'
<1> USE DEF DoneInv
<1>1. CASE UNCHANGED vars
  BY <1>1 DEF vars, disk, shell, Passed, Ahead, RunId
<1>2. ASSUME UNCHANGED <<attempt, dirs, copied, completed>>,
             pc' \in {"off", "between", "record", "unmark"}
      PROVE  DoneInv'
  BY <1>2 DEF Passed, RunId
<1>3. CASE Start \/ End \/ Die \/ Failing \/ RecordFail
  BY <1>2, <1>3 DEF Start, End, Die, Failing, Fails, RecordFail, FreshShell, disk
<1>31. CASE Tick
  BY <1>31 DEF Tick, Passed, Ahead, RunId, disk
<1>4. ASSUME NEW s \in StageSet, Begin(s) PROVE DoneInv'
  <2>1. /\ pc' = "steps" /\ current' = s /\ script' \in Scripts(s) /\ progress' = "none"
        /\ UNCHANGED <<attempt, dirs, copied, completed>>
    BY <1>4 DEF Begin, disk
  <2>2. \A n \in Mandatory(s) : Ahead(n)'
    BY <2>1, RunFacts DEF Ahead
  <2> QED
    BY <2>1, <2>2 DEF Passed, RunId
<1>5. CASE Check \/ Freeze \/ Publish
  <2>1. /\ pc = "steps" /\ script # <<>> /\ Head(script) \in NoRuns /\ script' = Tail(script)
        /\ UNCHANGED <<pc, current, progress, attempt, dirs, copied, completed>>
    BY <1>5 DEF Check, Freeze, Publish, AtStep, NoRuns, disk
  <2>2. progress = "none" /\ current \in StageSet
    BY <2>1, RunFacts DEF TypeInv, ShellTypes
  <2>3. ASSUME NEW m \in Mandatory(current), NEW i \in 1..Len(script), script[i] = m
        PROVE  Ahead(m)'
    <3>1. m # script[1] /\ Len(script) \in Nat \ {0}
      BY <2>1, <2>2, RunFacts, HeadFacts DEF TypeInv
    <3>2. i - 1 \in 1..Len(Tail(script)) /\ Tail(script)[i - 1] = script[i]
      BY <2>1, <2>3, <3>1, HeadFacts DEF TypeInv
    <3> QED
      BY <2>1, <2>3, <3>2 DEF Ahead
  <2>4. \A m : Passed(m)' <=> Passed(m)
    BY <2>1 DEF Passed, RunId
  <2> QED
    BY <2>1, <2>2, <2>3, <2>4 DEF Ahead
<1>6. CASE StepsDone
  <2>1. /\ pc = "steps" /\ script = <<>> /\ pc' = "first"
        /\ UNCHANGED <<current, attempt, dirs, copied, completed>>
    BY <1>6 DEF StepsDone, disk
  <2>2. Len(<<>>) = 0
    BY EmptySeq
  <2>3. \A n \in Mandatory(current) : Passed(n)
    BY <2>1, <2>2 DEF Ahead
  <2>4. \A m : Passed(m)' <=> Passed(m)
    BY <2>1 DEF Passed, RunId
  <2> QED
    BY <2>1, <2>3, <2>4
<1>7. CASE RecordPass
  <2>1. /\ pc \in {"first", "second"} /\ pc' \in {"second", "between"}
        /\ UNCHANGED <<current, attempt, dirs, copied, completed>>
    BY <1>7 DEF RecordPass
  <2> QED
    BY <2>1 DEF Passed, RunId
<1>8. CASE Mark
  <2>1. /\ pc \in {"first", "second"} /\ pc' \in {"second", "between"}
        /\ completed' = completed \cup {current}
        /\ UNCHANGED <<current, attempt, dirs, copied>>
    BY <1>8 DEF Mark
  <2> QED
    BY <2>1 DEF Passed, RunId
<1>9. CASE Unmark
  <2>1. /\ pc' = "bump" /\ completed' = completed \ PairedStages
        /\ UNCHANGED <<attempt, dirs, copied>>
    BY <1>9 DEF Unmark, Unmarked
  <2> QED
    BY <2>1 DEF Passed, RunId
<1>10. CASE Bump
  <2>1. pc = "bump" /\ pc' = "off" /\ UNCHANGED <<dirs, copied, completed>>
    BY <1>10 DEF Bump, FreshShell
  <2>2. ASSUME NEW s \in completed, NEW n \in Mandatory(s) PROVE Passed(n)'
    <3>1. s \in StageSet /\ s \notin PairedStages
      BY <2>1 DEF TypeInv, DiskTypes
    <3>2. n \notin PairedStages
      BY <3>1, OneOwner
    <3> QED
      BY <2>1, <3>2 DEF Passed, RunId
  <2> QED
    BY <2>1, <2>2
<1> QED
  BY <1>1, <1>3, <1>31, <1>4, <1>5, <1>6, <1>7, <1>8, <1>9, <1>10, RunDone, NextCases

LEMMA Vouched == Spec => [](TypeInv /\ DoneInv)
<1>1. Init => TypeInv /\ DoneInv
  BY InitTypes DEF Init, DoneInv
<1>2. TypeInv /\ DoneInv /\ [Next]_vars => (TypeInv /\ DoneInv)'
  BY TypeStep, DoneStep
<1> QED
  BY <1>1, <1>2, PTL DEF Spec

\* Every marker vouches for its stage, for ever (CompletedIntact): the runs it
\* must make are there under the names in force, validated, with their logs.
THEOREM MarkersVouch == Spec => []CompletedIntact
<1>1. DoneInv => CompletedIntact
  BY DEF DoneInv, Passed, CompletedIntact
<1> QED
  BY <1>1, Vouched, PTL

----------------------------------------------------------------------------
(* Frozen configurations.  A formal run is made with what is frozen, when  *)
(* every calibration has its marker; a stage that may freeze has none.     *)

GearInv ==
    /\ \A r \in RunIds : r[1] \in PairedStages /\ dirs[r].state # "none" =>
          dirs[r].used = frozen /\ Freezers \subseteq completed
    /\ pc = "steps" /\ progress \in {"served", "joined"} =>
          dirs[RunId(Head(script))].state # "none"

\* What precedes the stage under way is complete.
LEMMA Before ==
  ASSUME TypeInv, pc = "steps"
  PROVE  /\ \A i, j \in 1..Len(Stages) : i < j /\ Stages[j] = current => Stages[i] \in completed
         /\ current \in PairedStages => Freezers \subseteq completed
         /\ current = "K07" => PairedStages \cap StageSet \subseteq completed
<1>1. PICK k \in 1..Len(Stages) :
        Stages[k] = current /\ \A j \in 1..(k - 1) : Stages[j] \in completed
  BY StageFacts DEF TypeInv, ShellTypes, IsNext
<1>2. \A i, j \in 1..Len(Stages) : i < j /\ Stages[j] = current => Stages[i] \in completed
  <2> SUFFICES ASSUME NEW i \in 1..Len(Stages), NEW j \in 1..Len(Stages), i < j, Stages[j] = current
               PROVE  Stages[i] \in completed
    OBVIOUS
  <2>1. j = k
    BY <1>1, StageOrder
  <2>2. i \in 1..(k - 1)
    BY <2>1, StageFacts
  <2> QED
    BY <1>1, <2>2
<1>3. current \in PairedStages => Freezers \subseteq completed
  BY <1>1, StageOrder
<1>4. current = "K07" => PairedStages \cap StageSet \subseteq completed
  BY <1>1, StageOrder
<1> QED
  BY <1>2, <1>3, <1>4

LEMMA FreezeMeetsNone ==
  ASSUME TypeInv, GearInv, Freeze
  PROVE  \A r \in RunIds : r[1] \in PairedStages => dirs[r].state = "none"
<1>1. pc = "steps" /\ script # <<>> /\ Head(script) = "freeze"
  BY DEF Freeze, AtStep
<1>2. current \in Freezers
  BY <1>1, HeadFacts DEF TypeInv, StepOf, NoRuns
<1>3. current \notin completed
  BY <1>1, FirstIsNew DEF TypeInv, ShellTypes
<1> QED
  BY <1>2, <1>3 DEF GearInv

LEMMA GearStep == ASSUME TypeInv, GearInv, [Next]_vars PROVE GearInv'
<1> USE DEF GearInv
<1>1. dirs \in [RunIds -> Dirs]
  BY DEF TypeInv, DiskTypes
<1>2. ASSUME UNCHANGED <<dirs, frozen>>, completed \subseteq completed' \/ completed' = Unmarked,
             pc' # "steps" \/ progress' = "none"
      PROVE  GearInv'
  <2>1. Freezers \subseteq completed => Freezers \subseteq completed'
    BY <1>2, StageFacts DEF Unmarked
  <2> QED
    BY <1>2, <2>1
<1>3. CASE UNCHANGED vars
  BY <1>3 DEF vars, disk, shell, RunId
<1>4. CASE Start \/ End \/ Die \/ Failing \/ RecordFail \/ Unmark \/ Bump \/ \E s \in StageSet : Begin(s)
  BY <1>2, <1>4 DEF Start, End, Die, Failing, Fails, RecordFail, Unmark, Bump, Begin, FreshShell, disk
<1>41. CASE Tick
  BY <1>41 DEF Tick, RunId, disk
<1>5. CASE StepsDone \/ RecordPass \/ Mark
  BY <1>2, <1>5 DEF StepsDone, RecordPass, Mark, RecordsFirst, disk
<1>6. CASE Check \/ Freeze \/ Publish
  <2>1. /\ pc = "steps" /\ script # <<>> /\ Head(script) \in NoRuns
        /\ UNCHANGED <<pc, progress, dirs, completed>>
        /\ Freeze \/ frozen' = frozen
    BY <1>6 DEF Check, Freeze, Publish, AtStep, NoRuns, disk
  <2>2. progress = "none"
    BY <2>1, RunFacts DEF TypeInv, ShellTypes
  <2>3. CASE frozen' = frozen
    BY <1>2, <2>1, <2>2, <2>3
  <2>4. CASE Freeze
    BY <2>1, <2>2, <2>4, FreezeMeetsNone
  <2> QED
    BY <2>1, <2>3, <2>4
<1>7. ASSUME NEW n \in RunNames, RunMoves(n) PROVE GearInv'
  <2>1. /\ pc = "steps" /\ script # <<>> /\ Head(script) = n
        /\ UNCHANGED <<pc, current, completed, attempt, frozen>>
    BY <1>7, MoveFrame
  <2>2. PICK r \in RunIds : r = RunId(n)
    BY IdFacts DEF TypeInv
  <2>3. RunId(n)' = r /\ r[1] = n
    BY <2>1, <2>2 DEF RunId
  <2>4. n \in PairedStages => Freezers \subseteq completed
    <3>1. StepOf(n, current) /\ n \notin NoRuns
      BY <2>1, HeadFacts, RunFacts DEF TypeInv
    <3>2. n \in PairedStages => current = n
      BY <3>1 DEF StepOf, Owner, NoRuns, PairedStages
    <3> QED
      BY <2>1, <3>2, Before
  <2>5. CASE RunBegins(n)
    <3>1. dirs' = [dirs EXCEPT ![r] = NoDir] /\ progress' = "begun"
      BY <2>2, <2>5 DEF RunBegins
    <3> QED
      BY <1>1, <2>1, <3>1 DEF NoDir
  <2>6. CASE RunServed(n)
    <3>1. dirs' = [dirs EXCEPT ![r] = [state |-> "partial", used |-> frozen]] /\ script' = script
      BY <2>2, <2>6 DEF RunServed, RunServes
    <3>2. RunId(Head(script))' = r
      BY <2>1, <2>3, <3>1
    <3>3. dirs'[r].state = "partial" /\ dirs'[r].used = frozen /\ \A q \in RunIds : q # r => dirs'[q] = dirs[q]
      BY <1>1, <3>1
    <3>4. \A q \in RunIds : q[1] \in PairedStages /\ dirs'[q].state # "none" =>
            dirs'[q].used = frozen /\ Freezers \subseteq completed
      BY <2>3, <2>4, <3>3
    <3> QED
      BY <2>1, <3>2, <3>3, <3>4
  <2>7. CASE RunJoins(n)
    BY <2>1, <2>7 DEF RunJoins, RunId
  <2>8. CASE RunValidates(n)
    <3>1. /\ dirs' = [dirs EXCEPT ![r].state = "passed"] /\ progress' = "none"
          /\ progress = "joined"
      BY <2>2, <2>8 DEF RunValidates
    <3>2. dirs[r].state # "none"
      BY <2>1, <2>2, <3>1
    <3>3. dirs'[r].used = dirs[r].used /\ \A q \in RunIds : q # r => dirs'[q] = dirs[q]
      BY <1>1, <3>1 DEF Dirs
    <3>4. \A q \in RunIds : q[1] \in PairedStages /\ dirs'[q].state # "none" =>
            dirs'[q].used = frozen /\ Freezers \subseteq completed
      BY <3>2, <3>3
    <3> QED
      BY <2>1, <3>1, <3>4
  <2> QED
    BY <1>7, <2>5, <2>6, <2>7, <2>8 DEF RunMoves
<1> QED
  BY <1>3, <1>4, <1>41, <1>5, <1>6, <1>7, NextCases

LEMMA Geared == Spec => [](TypeInv /\ GearInv)
<1>1. Init => TypeInv /\ GearInv
  <2>1. ASSUME Init PROVE GearInv
    BY <2>1 DEF Init, GearInv, NoDir
  <2> QED
    BY <2>1, InitTypes
<1>2. TypeInv /\ GearInv /\ [Next]_vars => (TypeInv /\ GearInv)'
  BY TypeStep, GearStep
<1> QED
  BY <1>1, <1>2, PTL DEF Spec

\* Once a formal run has a directory, nothing is frozen again (NoChangeOfGear).
THEOREM GearStays == Spec => NoChangeOfGear
<1> DEFINE A == (\E r \in RunIds : r[1] \in PairedStages /\ dirs[r].state # "none")
                  => frozen' = frozen
<1>1. TypeInv /\ GearInv /\ [Next]_vars => [A]_vars
  <2> SUFFICES ASSUME TypeInv, GearInv, Next, frozen' # frozen
               PROVE  \A r \in RunIds : r[1] \in PairedStages => dirs[r].state = "none"
    BY DEF vars
  <2>1. Freeze
    BY NextCases, MoveFrame
       DEF Start, Tick, Failing, Fails, Die, Begin, Check, Publish, StepsDone, RecordPass, Mark,
       RecordFail, Unmark, Bump, End, disk
  <2> QED
    BY <2>1, FreezeMeetsNone
<1> QED
  BY <1>1, Geared, PTL DEF Spec, NoChangeOfGear

\* The analysis is only made of runs that passed, of one attempt, with one
\* frozen configuration (PairIsFair).
THEOREM AnalysisIsFair == Spec => []PairIsFair
<1>1. Init => PairIsFair
  BY DEF Init, PairIsFair
<1>2. TypeInv /\ DoneInv /\ GearInv /\ PairIsFair /\ [Next]_vars => PairIsFair'
  <2> SUFFICES ASSUME TypeInv, DoneInv, GearInv, PairIsFair, [Next]_vars PROVE PairIsFair'
    OBVIOUS
  <2>1. CASE Publish
    <3>1. pc = "steps" /\ script # <<>> /\ Head(script) = "publish"
      BY <2>1 DEF Publish, AtStep
    <3>2. current = "K07"
      BY <3>1, HeadFacts DEF TypeInv, StepOf, NoRuns
    <3>3. ASSUME NEW s \in PairedStages \cap StageSet
          PROVE  /\ dirs[RunId(s)].state = "passed" /\ dirs[RunId(s)].used = frozen
                 /\ RunId(s)[2] = attempt
      <4>1. s \in completed /\ s \in Mandatory(s) /\ s \in RunNames
        BY <3>1, <3>2, Before, RunFacts
      <4>2. dirs[RunId(s)].state = "passed"
        BY <4>1 DEF DoneInv, Passed
      <4>3. RunId(s) \in RunIds /\ RunId(s)[1] = s /\ RunId(s)[2] = attempt
        BY <4>1, IdFacts DEF RunId, TypeInv
      <4> QED
        BY <4>2, <4>3 DEF GearInv
    <3>4. \A c \in conclusion' : c.dir.state = "passed" /\ c.dir.used = frozen /\ c.run[2] = attempt
      BY <2>1, <3>3 DEF Publish
    <3> QED
      BY <3>4 DEF PairIsFair
  <2>2. CASE ~Publish
    <3>1. conclusion' = conclusion
      BY <2>2, NextCases, MoveFrame
         DEF Start, Tick, Failing, Fails, Die, Begin, Check, Freeze, StepsDone, RecordPass, Mark,
         RecordFail, Unmark, Bump, End, disk, vars
    <3> QED
      BY <3>1 DEF PairIsFair
  <2> QED
    BY <2>1, <2>2
<1> QED
  BY <1>1, <1>2, Vouched, Geared, PTL DEF Spec

----------------------------------------------------------------------------
(* The project record.  In V2.1 a stage is recorded before it is marked.   *)

RecordInv ==
    Version = "V2.1" =>
        /\ \A s \in completed : <<Label(s), "PASS">> \in records
        /\ pc = "second" => <<Label(current), "PASS">> \in records

LEMMA RecordStep == ASSUME TypeInv, DoneInv, RecordInv, [Next]_vars PROVE RecordInv'
<1> SUFFICES ASSUME Version = "V2.1" PROVE RecordInv'
  BY DEF RecordInv
<1> USE DEF RecordInv
<1>1. ASSUME UNCHANGED attempt, records \subseteq records', completed' \subseteq completed, pc' # "second"
      PROVE  RecordInv'
  BY <1>1 DEF Label
<1>2. CASE UNCHANGED vars
  BY <1>2 DEF vars, disk, shell, Label
<1>3. CASE Start \/ End \/ Die \/ Failing \/ RecordFail \/ Unmark \/ \E s \in StageSet : Begin(s)
  BY <1>1, <1>3 DEF Start, End, Die, Failing, Fails, RecordFail, Recorded, Unmark, Unmarked, Begin,
     FreshShell, disk
<1>31. CASE Tick
  BY <1>31 DEF Tick, Label, disk
<1>4. CASE Check \/ Freeze \/ Publish \/ StepsDone
  BY <1>1, <1>4 DEF Check, Freeze, Publish, AtStep, StepsDone, disk
<1>5. ASSUME NEW n \in RunNames, RunMoves(n) PROVE RecordInv'
  BY <1>1, <1>5, MoveFrame
<1>6. CASE RecordPass
  BY <1>6 DEF RecordPass, RecordsFirst, Recorded, Label
<1>7. CASE Mark
  BY <1>7 DEF Mark, RecordsFirst, Label
<1>8. CASE Bump
  <2>1. /\ completed' = completed /\ records' = records /\ pc' = "off"
        /\ \A s \in completed : s \notin {"K04", "K05"}
    BY <1>8 DEF Bump, FreshShell, DoneInv, PairedStages
  <2> QED
    BY <2>1 DEF Label
<1> QED
  BY <1>2, <1>3, <1>31, <1>4, <1>5, <1>6, <1>7, <1>8, NextCases

\* No stage of V2.1 is under way while an earlier one has no PASS record for
\* the attempt in force (RecordedBeforeNext).
THEOREM RecordsComeFirst == Spec => []RecordedBeforeNext
<1>1. Init => RecordInv
  BY DEF Init, RecordInv
<1>2. TypeInv /\ DoneInv /\ RecordInv /\ [Next]_vars => RecordInv'
  BY RecordStep
<1>3. TypeInv /\ RecordInv => RecordedBeforeNext
  BY Before, StageFacts DEF RecordInv, RecordedBeforeNext
<1> QED
  BY <1>1, <1>2, <1>3, Vouched, PTL DEF Spec

----------------------------------------------------------------------------
(* The join: what an attempt, a row and an event of a worker are.          *)

Numbers == Nat \ {0}
AttemptStates == {"sent", "seen", "loaded", "ended", "done"}
JoinAttempts ==
    [state : AttemptStates, ok : BOOLEAN, selected : Paths, actual : Paths \cup {NoPath}]
RowKinds == {"decision", "completion"}
TraceRows == [event : RowKinds, id : Requests \X Numbers, selected : Paths, ok : BOOLEAN]
WorkerPhases == {"scheduler_seen", "load_completed", "request_finished"}
WorkerEvents ==
    [id : Requests \X Numbers, phase : WorkerPhases, actual : Paths \cup {NoPath}, reason : BOOLEAN]

JoinTypeInv ==
    /\ life \in [Requests -> Seq(JoinAttempts)]
    /\ client \in [Requests -> {"none", "success", "failed"}]
    /\ trace \in Seq(TraceRows)
    /\ pending \subseteq WorkerEvents /\ log \subseteq WorkerEvents
    /\ verdict \in {"none", "refused", "joined"}
    /\ lost \in Nat /\ faults \in Nat

LEMMA NowFacts ==
  ASSUME JoinTypeInv, NEW q \in Requests
  PROVE  /\ Len(life[q]) \in Nat
         /\ \A k \in 1 .. Len(life[q]) : life[q][k] \in JoinAttempts
         /\ life[q] # <<>> => /\ Len(life[q]) \in Numbers /\ Len(life[q]) \in 1 .. Len(life[q])
                              /\ Now(q) = life[q][Len(life[q])]
                              /\ Now(q) \in JoinAttempts
<1>1. life[q] \in Seq(JoinAttempts)
  BY DEF JoinTypeInv
<1>2. life[q] # <<>> => Len(life[q]) # 0
  BY <1>1
<1> QED
  BY <1>1, <1>2 DEF Now, Last, Numbers

\* The current attempt of q becomes a.
Becomes(q, a) ==
    LET n == Len(life[q]) IN
    /\ life[q] # <<>> /\ n \in Numbers /\ n \in 1 .. n
    /\ life' \in [Requests -> Seq(JoinAttempts)]
    /\ \A p \in Requests \ {q} : life'[p] = life[p]
    /\ life'[q] # <<>> /\ Len(life'[q]) = n /\ life'[q][n] = a
    /\ \A k \in 1 .. n : k # n => life'[q][k] = life[q][k]

LEMMA AttemptReplaced ==
  ASSUME JoinTypeInv, NEW q \in Requests, life[q] # <<>>, NEW a \in JoinAttempts,
         life' = [life EXCEPT ![q] = [@ EXCEPT ![Len(life[q])] = a]]
  PROVE  Becomes(q, a)
<1>1. life[q] \in Seq(JoinAttempts) /\ life'[q] = [life[q] EXCEPT ![Len(life[q])] = a]
  BY DEF JoinTypeInv
<1>2. Len(life[q]) \in 1 .. Len(life[q]) /\ Len(life[q]) \in Numbers
  BY NowFacts
<1>3. life'[q] \in Seq(JoinAttempts) /\ Len(life'[q]) = Len(life[q])
  BY <1>1, <1>2, ExceptSeq
<1>4. life' \in [Requests -> Seq(JoinAttempts)] /\ \A p \in Requests \ {q} : life'[p] = life[p]
  BY <1>1, <1>3 DEF JoinTypeInv
<1> QED
  BY <1>1, <1>2, <1>3, <1>4 DEF Becomes

LEMMA AttemptAdded ==
  ASSUME JoinTypeInv, NEW q \in Requests, NEW a \in JoinAttempts,
         life' = [life EXCEPT ![q] = Append(@, a)]
  PROVE  /\ life' \in [Requests -> Seq(JoinAttempts)]
         /\ \A p \in Requests \ {q} : life'[p] = life[p]
         /\ Len(life'[q]) = Len(life[q]) + 1
         /\ life'[q][Len(life[q]) + 1] = a
         /\ \A k \in 1 .. Len(life[q]) : life'[q][k] = life[q][k]
<1>1. life[q] \in Seq(JoinAttempts) /\ life'[q] = Append(life[q], a)
  BY DEF JoinTypeInv
<1> QED
  BY <1>1 DEF JoinTypeInv

----------------------------------------------------------------------------
(* What a step does to a request. *)

LEMMA DecideDoes ==
  ASSUME JoinTypeInv, NEW q \in Requests, NEW path \in Paths, Decide(q, path)
  PROVE  LET n == Len(life[q]) + 1 IN
         /\ life' \in [Requests -> Seq(JoinAttempts)]
         /\ \A p \in Requests \ {q} : life'[p] = life[p]
         /\ Len(life'[q]) = n /\ n \in Numbers
         /\ life'[q][n] = [state |-> "sent", ok |-> FALSE, selected |-> path, actual |-> NoPath]
         /\ \A k \in 1 .. Len(life[q]) : life'[q][k] = life[q][k]
         /\ trace' = Append(trace, [event |-> "decision", id |-> <<q, n>>, selected |-> path, ok |-> FALSE])
<1> DEFINE a == [state |-> "sent", ok |-> FALSE, selected |-> path, actual |-> NoPath]
<1>1. a \in JoinAttempts
  BY DEF JoinAttempts, AttemptStates
<1>2. life' = [life EXCEPT ![q] = Append(@, a)]
  BY DEF Decide
<1>3. Len(life[q]) \in Nat
  BY NowFacts
<1> HIDE DEF a
<1>4. /\ life' \in [Requests -> Seq(JoinAttempts)]
      /\ \A p \in Requests \ {q} : life'[p] = life[p]
      /\ Len(life'[q]) = Len(life[q]) + 1
      /\ life'[q][Len(life[q]) + 1] = a
      /\ \A k \in 1 .. Len(life[q]) : life'[q][k] = life[q][k]
  BY <1>1, <1>2, AttemptAdded
<1>5. trace' = Append(trace, [event |-> "decision", id |-> <<q, Len(life[q]) + 1>>,
                              selected |-> path, ok |-> FALSE])
  BY <1>4 DEF Decide, Id
<1> QED
  BY <1>3, <1>4, <1>5 DEF Numbers, a

LEMMA AttemptFields ==
  ASSUME NEW a \in JoinAttempts, NEW to \in AttemptStates
  PROVE  /\ \A actual \in Paths \cup {NoPath} :
             [a EXCEPT !.state = to, !.actual = actual] =
             [state |-> to, ok |-> a.ok, selected |-> a.selected, actual |-> actual]
         /\ \A ok \in BOOLEAN :
             [a EXCEPT !.state = to, !.ok = ok] =
             [state |-> to, ok |-> ok, selected |-> a.selected, actual |-> a.actual]
<1> DEFINE b == [state |-> to, ok |-> a.ok, selected |-> a.selected, actual |-> a.actual]
<1>1. [a EXCEPT !.state = to] = b
  BY DEF JoinAttempts
<1>2. /\ \A actual : [b EXCEPT !.actual = actual] =
             [state |-> to, ok |-> a.ok, selected |-> a.selected, actual |-> actual]
      /\ \A ok : [b EXCEPT !.ok = ok] =
             [state |-> to, ok |-> ok, selected |-> a.selected, actual |-> a.actual]
  OBVIOUS
<1> HIDE DEF b
<1> QED
  BY <1>1, <1>2

LEMMA WorkerDoes ==
  ASSUME JoinTypeInv, NEW q \in Requests, NEW from, NEW to \in AttemptStates,
         NEW actual \in Paths \cup {NoPath}, NEW phase, NEW reason,
         Worker(q, from, to, actual, phase, reason)
  PROVE  LET n == Len(life[q]) IN
         /\ Becomes(q, [state |-> to, ok |-> life[q][n].ok, selected |-> life[q][n].selected, actual |-> actual])
         /\ life[q][n].state \in from /\ life[q][n].state # "done"
         /\ pending' = pending \cup {[id |-> <<q, n>>, phase |-> phase, actual |-> actual, reason |-> reason]}
<1> DEFINE n == Len(life[q])
           a == [state |-> to, ok |-> life[q][n].ok, selected |-> life[q][n].selected, actual |-> actual]
<1>1. /\ life[q] # <<>> /\ n \in Numbers /\ n \in 1 .. n /\ Now(q) = life[q][n]
      /\ life[q][n] \in JoinAttempts
  BY NowFacts DEF Worker, Open
<1>2. a \in JoinAttempts
  BY <1>1 DEF JoinAttempts, AttemptStates
<1>3. life[q] \in Seq(JoinAttempts)
  BY DEF JoinTypeInv
<1>4. life' = [life EXCEPT ![q] = [@ EXCEPT ![n] = a]]
  <2>1. a = [life[q][n] EXCEPT !.state = to, !.actual = actual]
    BY <1>1, AttemptFields
  <2>2. life' = [life EXCEPT ![q] = [@ EXCEPT ![n] = [life[q][n] EXCEPT !.state = to, !.actual = actual]]]
    BY <1>1, <1>3 DEF Worker, JoinTypeInv
  <2> HIDE DEF a
  <2> QED
    BY <2>1, <2>2
<1>5. /\ life[q][n].state \in from /\ life[q][n].state # "done"
      /\ pending' = pending \cup {[id |-> <<q, n>>, phase |-> phase, actual |-> actual, reason |-> reason]}
  BY <1>1 DEF Worker, Open, Id
<1>6. Becomes(q, a)
  <2> HIDE DEF a
  <2> QED
    BY <1>1, <1>2, <1>4, AttemptReplaced
<1> QED
  BY <1>5, <1>6

LEMMA CompleteDoes ==
  ASSUME JoinTypeInv, NEW q \in Requests, NEW ok \in BOOLEAN, Complete(q, ok)
  PROVE  LET n == Len(life[q]) IN
         /\ Becomes(q, [state |-> "done", ok |-> ok, selected |-> life[q][n].selected, actual |-> life[q][n].actual])
         /\ life[q][n].state # "done" /\ (ok => life[q][n].state = "ended")
         /\ trace' = Append(trace, [event |-> "completion", id |-> <<q, n>>,
                                     selected |-> life[q][n].selected, ok |-> ok])
<1> DEFINE n == Len(life[q])
           a == [state |-> "done", ok |-> ok, selected |-> life[q][n].selected, actual |-> life[q][n].actual]
<1>1. /\ life[q] # <<>> /\ n \in Numbers /\ n \in 1 .. n /\ Now(q) = life[q][n]
      /\ life[q][n] \in JoinAttempts
  BY NowFacts DEF Complete, Open
<1>2. a \in JoinAttempts
  BY <1>1 DEF JoinAttempts, AttemptStates
<1>3. life[q] \in Seq(JoinAttempts)
  BY DEF JoinTypeInv
<1>4. life' = [life EXCEPT ![q] = [@ EXCEPT ![n] = a]]
  <2>1. a = [life[q][n] EXCEPT !.state = "done", !.ok = ok]
    BY <1>1, AttemptFields DEF AttemptStates
  <2>2. life' = [life EXCEPT ![q] = [@ EXCEPT ![n] = [life[q][n] EXCEPT !.state = "done", !.ok = ok]]]
    BY <1>1, <1>3 DEF Complete, JoinTypeInv
  <2> HIDE DEF a
  <2> QED
    BY <2>1, <2>2
<1>5. /\ life[q][n].state # "done" /\ (ok => life[q][n].state = "ended")
      /\ trace' = Append(trace, [event |-> "completion", id |-> <<q, n>>,
                                  selected |-> life[q][n].selected, ok |-> ok])
  BY <1>1 DEF Complete, Open, Id
<1>6. Becomes(q, a)
  <2> HIDE DEF a
  <2> QED
    BY <1>1, <1>2, <1>4, AttemptReplaced
<1> QED
  BY <1>5, <1>6

\* What a worker may do.
LEMMA WorkerActs ==
  ASSUME JoinTypeInv, NEW q \in Requests, Seen(q) \/ Loads(q) \/ Ends(q)
  PROVE  \E from \in SUBSET AttemptStates, to \in AttemptStates, actual \in Paths \cup {NoPath},
            phase \in WorkerPhases, reason \in BOOLEAN :
            to # "done" /\ Worker(q, from, to, actual, phase, reason)
<1>1. CASE Seen(q)
  BY <1>1 DEF Seen, AttemptStates, WorkerPhases
<1>2. CASE Loads(q)
  BY <1>2 DEF Loads, AttemptStates, WorkerPhases
<1>3. CASE Ends(q)
  <2>1. CASE Worker(q, {"loaded"}, "ended", Now(q).actual, "request_finished", FALSE)
    <3>1. Now(q).actual \in Paths \cup {NoPath}
      BY <2>1, NowFacts DEF Worker, Open, JoinAttempts
    <3> QED
      BY <2>1, <3>1 DEF AttemptStates, WorkerPhases
  <2>2. ASSUME NEW path \in LocalPaths, NEW reason \in BOOLEAN,
               Worker(q, {"seen"}, "ended", path, "request_finished", reason)
        PROVE  \E from \in SUBSET AttemptStates, to \in AttemptStates, actual \in Paths \cup {NoPath},
                  phase \in WorkerPhases, r \in BOOLEAN :
                  to # "done" /\ Worker(q, from, to, actual, phase, r)
    BY <2>2 DEF AttemptStates, WorkerPhases, Paths
  <2> QED
    BY <1>3, <2>1, <2>2 DEF Ends
<1> QED
  BY <1>1, <1>2, <1>3

----------------------------------------------------------------------------
(* A request: its earlier attempts are over, and so are all of them when   *)
(* the client has its answer.                                              *)

LifeOf(q) ==
    /\ Len(life[q]) <= MaxAttempts
    /\ client[q] = "success" => life[q] # <<>> /\ Now(q).state = "done" /\ Now(q).ok
    /\ \A k \in 1 .. Len(life[q]) :
        /\ k < Len(life[q]) => life[q][k].state = "done"
        /\ life[q][k].ok => life[q][k].state = "done"

LifeInv == \A q \in Requests : LifeOf(q)

LEMMA LifeOfOthers ==
  ASSUME JoinTypeInv, LifeInv, NEW q \in Requests, LifeOf(q)',
         \A p \in Requests \ {q} : life'[p] = life[p] /\ client'[p] = client[p]
  PROVE  LifeInv'
<1>1. ASSUME NEW p \in Requests \ {q} PROVE LifeOf(p)'
  BY <1>1 DEF LifeInv, LifeOf, Now
<1> QED
  BY <1>1 DEF LifeInv, LifeOf

LEMMA LifeStep == ASSUME JoinTypeInv, LifeInv, [JoinNext]_joinVars PROVE LifeInv'
<1>1. ASSUME UNCHANGED <<life, client>> PROVE LifeInv'
  BY <1>1 DEF LifeInv, LifeOf, Now
<1>2. ASSUME NEW q \in Requests, NEW path \in Paths, Decide(q, path) PROVE LifeInv'
  <2> DEFINE n == Len(life[q]) + 1
  <2>1. /\ \A p \in Requests \ {q} : life'[p] = life[p]
        /\ Len(life'[q]) = n /\ n \in Numbers
        /\ life'[q][n] = [state |-> "sent", ok |-> FALSE, selected |-> path, actual |-> NoPath]
        /\ \A k \in 1 .. Len(life[q]) : life'[q][k] = life[q][k]
    BY <1>2, DecideDoes
  <2>2. client' = client /\ client[q] = "none" /\ Len(life[q]) < MaxAttempts
    BY <1>2 DEF Decide
  <2>3. life[q] # <<>> => life[q][Len(life[q])].state = "done"
    BY <1>2, NowFacts DEF Decide, Open
  <2>4. \A k \in 1 .. Len(life[q]) : life'[q][k].state = "done"
    <3>1. Len(life[q]) \in Nat
      BY NowFacts
    <3>2. ASSUME NEW k \in 1 .. Len(life[q]) PROVE life[q][k].state = "done"
      <4>1. life[q] # <<>>
        BY <3>1 DEF JoinTypeInv
      <4>2. CASE k = Len(life[q])
        BY <2>3, <4>1, <4>2
      <4>3. CASE k < Len(life[q])
        BY <4>3 DEF LifeInv, LifeOf
      <4> QED
        BY <3>1, <4>2, <4>3
    <3> QED
      BY <2>1, <3>2
  <2>5. LifeOf(q)'
    <3>1. Len(life[q]) \in Nat /\ MaxAttempts \in Nat
      BY NowFacts, TraceJoinAssumption
    <3> QED
      BY <3>1, <2>1, <2>2, <2>4 DEF LifeOf, LifeInv
  <2> QED
    BY <2>1, <2>2, <2>5, LifeOfOthers
<1>3. ASSUME NEW q \in Requests, NEW from, NEW to \in AttemptStates,
             to # "done", NEW actual \in Paths \cup {NoPath},
             NEW phase \in WorkerPhases, NEW reason \in BOOLEAN,
             Worker(q, from, to, actual, phase, reason)
      PROVE  LifeInv'
  <2> DEFINE n == Len(life[q])
           a == [state |-> to, ok |-> life[q][n].ok, selected |-> life[q][n].selected, actual |-> actual]
  <2>0. Becomes(q, a) /\ life[q][n].state # "done"
    BY <1>3, WorkerDoes
  <2>1. /\ \A p \in Requests \ {q} : life'[p] = life[p]
        /\ Len(life'[q]) = n /\ n \in Numbers /\ life[q] # <<>> /\ life'[q] # <<>>
        /\ life[q][n].state # "done"
        /\ life'[q][n].ok = life[q][n].ok
        /\ \A k \in 1 .. n : k # n => life'[q][k] = life[q][k]
    BY <2>0 DEF Becomes
  <2>2. client' = client
    BY <1>3 DEF Worker
  <2>3. n \in 1 .. n /\ life[q][n] \in JoinAttempts /\ Now(q) = life[q][n]
    BY <2>1, NowFacts
  <2>4. client[q] # "success" /\ ~life[q][n].ok
    BY <2>1, <2>3 DEF LifeInv, LifeOf, JoinTypeInv
  <2>5. life'[q][n].ok = life[q][n].ok
    BY <2>1, <2>3 DEF JoinAttempts
  <2>6. LifeOf(q)'
    <3>1. ASSUME NEW k \in 1 .. n
          PROVE  /\ k < n => life'[q][k].state = "done"
                 /\ life'[q][k].ok => life'[q][k].state = "done"
      <4>1. CASE k = n
        BY <2>1, <2>4, <2>5, <4>1 DEF Numbers
      <4>2. CASE k # n
        BY <2>1, <4>2 DEF LifeInv, LifeOf
      <4> QED
        BY <4>1, <4>2
    <3>2. n <= MaxAttempts
      BY DEF LifeInv, LifeOf
    <3> QED
      BY <2>1, <2>2, <2>4, <3>1, <3>2 DEF LifeOf
  <2> QED
    BY <2>1, <2>2, <2>6, LifeOfOthers
<1>4. ASSUME NEW q \in Requests, NEW ok \in BOOLEAN, Complete(q, ok) PROVE LifeInv'
  <2> DEFINE n == Len(life[q])
           a == [state |-> "done", ok |-> ok, selected |-> life[q][n].selected, actual |-> life[q][n].actual]
  <2>0. Becomes(q, a) /\ life[q][n].state # "done"
    BY <1>4, CompleteDoes
  <2>1. /\ \A p \in Requests \ {q} : life'[p] = life[p]
        /\ Len(life'[q]) = n /\ n \in Numbers /\ life[q] # <<>> /\ life'[q] # <<>>
        /\ life[q][n].state # "done"
        /\ life'[q][n].state = "done"
        /\ \A k \in 1 .. n : k # n => life'[q][k] = life[q][k]
    BY <2>0 DEF Becomes
  <2>2. client' = client
    BY <1>4 DEF Complete
  <2>3. n \in 1 .. n /\ life[q][n] \in JoinAttempts /\ Now(q) = life[q][n]
    BY <2>1, NowFacts
  <2>4. client[q] # "success"
    BY <2>1, <2>3 DEF LifeInv, LifeOf, JoinTypeInv
  <2>5. life'[q][n].state = "done"
    BY <2>1, <2>3 DEF JoinAttempts
  <2>6. LifeOf(q)'
    <3>1. ASSUME NEW k \in 1 .. n
          PROVE  /\ k < n => life'[q][k].state = "done"
                 /\ life'[q][k].ok => life'[q][k].state = "done"
      <4>1. CASE k = n
        BY <2>1, <2>4, <2>5, <4>1 DEF Numbers
      <4>2. CASE k # n
        BY <2>1, <4>2 DEF LifeInv, LifeOf
      <4> QED
        BY <4>1, <4>2
    <3>2. n <= MaxAttempts
      BY DEF LifeInv, LifeOf
    <3> QED
      BY <2>1, <2>2, <2>4, <3>1, <3>2 DEF LifeOf
  <2> QED
    BY <2>1, <2>2, <2>6, LifeOfOthers
<1>5. ASSUME NEW q \in Requests, NEW result \in {"success", "failed"}, ClientEnds(q, result) PROVE LifeInv'
  <2>1. /\ life' = life
        /\ result = "success" => life[q] # <<>> /\ Now(q).state = "done" /\ Now(q).ok
        /\ client' = [client EXCEPT ![q] = result]
    BY <1>5, NowFacts DEF ClientEnds, Open
  <2>2. LifeOf(q)'
    BY <2>1 DEF LifeInv, LifeOf, JoinTypeInv, Now
  <2>3. \A p \in Requests \ {q} : life'[p] = life[p] /\ client'[p] = client[p]
    BY <2>1 DEF JoinTypeInv
  <2> QED
    BY <2>2, <2>3, LifeOfOthers
<1>6. ASSUME NEW q \in Requests, Seen(q) \/ Loads(q) \/ Ends(q) PROVE LifeInv'
  BY <1>3, <1>6, WorkerActs
<1>7. ASSUME \/ \E e \in pending : Flush(e)
             \/ \E e \in log : FlushedTwice(e)
             \/ \E i \in DOMAIN trace : RowLost(i) \/ RowDoubled(i) \/ RowLate(i)
             \/ Join \/ UNCHANGED joinVars
      PROVE  UNCHANGED <<life, client>>
  BY <1>7 DEF Flush, FlushedTwice, RowLost, RowDoubled, RowLate, Fault, Join, joinVars
<1> QED
  BY <1>1, <1>2, <1>4, <1>5, <1>6, <1>7 DEF JoinNext

----------------------------------------------------------------------------
(* The rows of the router: each is true, and as many are missing as were   *)
(* lost.                                                                   *)

LEMMA AppendRows ==
  ASSUME NEW s \in Seq(TraceRows), NEW r \in TraceRows
  PROVE  Append(s, r) \in Seq(TraceRows) /\ ToSet(Append(s, r)) = ToSet(s) \cup {r}
<1>1. /\ Append(s, r) \in Seq(TraceRows) /\ Len(Append(s, r)) = Len(s) + 1 /\ Len(s) \in Nat
      /\ \A i \in 1 .. Len(s) : Append(s, r)[i] = s[i]
      /\ Append(s, r)[Len(s) + 1] = r
  OBVIOUS
<1>2. DOMAIN s = 1 .. Len(s) /\ DOMAIN Append(s, r) = 1 .. Len(s) + 1
  BY <1>1
<1> QED
  BY <1>1, <1>2 DEF ToSet

LEMMA RemoveRow ==
  ASSUME NEW s \in Seq(TraceRows), NEW i \in DOMAIN s
  PROVE  /\ RemoveAt(s, i) \in Seq(TraceRows)
         /\ ToSet(RemoveAt(s, i)) \subseteq ToSet(s)
         /\ ToSet(s) \subseteq ToSet(RemoveAt(s, i)) \cup {s[i]}
<1> DEFINE n == Len(s)
           front == SubSeq(s, 1, i - 1)
           rest == SubSeq(s, i + 1, n)
<1>1. n \in Nat /\ i \in 1 .. n
  OBVIOUS
<1>2. /\ front \in Seq(TraceRows) /\ Len(front) = i - 1
      /\ \A k \in 1 .. i - 1 : front[k] = s[k]
  BY <1>1
<1>3. /\ rest \in Seq(TraceRows) /\ Len(rest) = n - i
      /\ \A k \in 1 .. n - i : rest[k] = s[i + k]
  BY <1>1
<1>4. RemoveAt(s, i) = front \o rest
  BY DEF RemoveAt
<1> HIDE DEF front, rest
<1>5. /\ front \o rest \in Seq(TraceRows) /\ Len(front \o rest) = n - 1
      /\ \A k \in 1 .. i - 1 : (front \o rest)[k] = s[k]
      /\ \A k \in i .. n - 1 : (front \o rest)[k] = s[k + 1]
  <2>1. front \o rest \in Seq(TraceRows) /\ Len(front \o rest) = n - 1
    BY <1>1, <1>2, <1>3
  <2>2. ASSUME NEW k \in 1 .. i - 1 PROVE (front \o rest)[k] = s[k]
    BY <1>1, <1>2, <1>3
  <2>3. ASSUME NEW k \in i .. n - 1 PROVE (front \o rest)[k] = s[k + 1]
    <3>1. (front \o rest)[k] = rest[k - (i - 1)]
      BY <1>1, <1>2, <1>3
    <3>2. k - (i - 1) \in 1 .. n - i /\ i + (k - (i - 1)) = k + 1
      BY <1>1
    <3> QED
      BY <1>3, <3>1, <3>2
  <2> QED
    BY <2>1, <2>2, <2>3
<1> DEFINE t == front \o rest
<1>6. DOMAIN t = 1 .. n - 1 /\ DOMAIN s = 1 .. n
  BY <1>1, <1>5
<1>7. /\ \A k \in 1 .. i - 1 : t[k] = s[k]
      /\ \A k \in i .. n - 1 : t[k] = s[k + 1]
  BY <1>5
<1> HIDE DEF t
<1>8. ASSUME NEW k \in 1 .. n - 1 PROVE \E l \in 1 .. n : t[k] = s[l]
  BY <1>1, <1>7
<1>9. ASSUME NEW l \in 1 .. n, l # i PROVE \E k \in 1 .. n - 1 : s[l] = t[k]
  <2>1. CASE l < i
    BY <1>1, <1>7, <2>1
  <2>2. CASE l > i
    <3>1. l - 1 \in i .. n - 1 /\ (l - 1) + 1 = l /\ l - 1 \in 1 .. n - 1
      BY <1>1, <2>2
    <3> QED
      BY <1>7, <3>1
  <2> QED
    BY <1>1, <1>9, <2>1, <2>2
<1>10. ToSet(t) \subseteq ToSet(s)
  BY <1>6, <1>8 DEF ToSet
<1>11. ToSet(s) \subseteq ToSet(t) \cup {s[i]}
  BY <1>6, <1>9 DEF ToSet
<1> QED
  BY <1>4, <1>5, <1>10, <1>11 DEF t

Happened(event, q, k) ==
    k \in 1 .. Len(life[q]) /\ (event = "completion" => life[q][k].state = "done")

InTrace(event, q, k) == \E r \in ToSet(trace) : r.event = event /\ r.id = <<q, k>>

Missing(event, q, k) == Happened(event, q, k) /\ ~InTrace(event, q, k)

IsTrue(r) ==
    LET q == r.id[1]
        k == r.id[2]
    IN  /\ Happened(r.event, q, k)
        /\ r.selected = life[q][k].selected
        /\ r.event = "completion" => r.ok = life[q][k].ok

RowsInv ==
    /\ \A r \in ToSet(trace) : IsTrue(r)
    /\ lost = 0 => \A event \in RowKinds, q \in Requests, k \in Numbers : ~Missing(event, q, k)
    /\ lost = 1 =>
        \A e, f \in RowKinds, p, q \in Requests, k, l \in Numbers :
            Missing(e, p, k) /\ Missing(f, q, l) => e = f /\ p = q /\ k = l

\* A step that loses nothing keeps what the rows say.
LEMMA RowsGrow ==
  ASSUME RowsInv, lost' = lost,
         \A r \in ToSet(trace') : IsTrue(r)',
         \A event \in RowKinds, q \in Requests, k \in Numbers :
             Missing(event, q, k)' => Missing(event, q, k)
  PROVE  RowsInv'
  BY DEF RowsInv

LEMMA RowType ==
  ASSUME JoinTypeInv, NEW r \in ToSet(trace)
  PROVE  /\ r \in TraceRows /\ r.event \in RowKinds
         /\ r.id[1] \in Requests /\ r.id[2] \in Numbers /\ r.id = <<r.id[1], r.id[2]>>
<1>1. r \in TraceRows
  BY DEF JoinTypeInv, ToSet
<1> QED
  BY <1>1 DEF TraceRows

\* The old rows stay true while the current attempt goes on.
LEMMA RowsStayTrue ==
  ASSUME JoinTypeInv, RowsInv, NEW q \in Requests, NEW a, Becomes(q, a),
         life[q][Len(life[q])].state # "done", a.selected = life[q][Len(life[q])].selected,
         NEW r \in ToSet(trace)
  PROVE  IsTrue(r)'
<1> DEFINE n == Len(life[q])
           p == r.id[1]
           k == r.id[2]
<1>1. IsTrue(r) /\ r \in TraceRows /\ p \in Requests /\ k \in 1 .. Len(life[p])
  BY RowType DEF RowsInv, IsTrue, Happened
<1>2. CASE p # q
  BY <1>1, <1>2 DEF IsTrue, Happened, Becomes
<1>3. CASE p = q /\ k # n
  BY <1>1, <1>3 DEF IsTrue, Happened, Becomes
<1>4. CASE p = q /\ k = n
  BY <1>1, <1>4 DEF IsTrue, Happened, Becomes
<1> QED
  BY <1>2, <1>3, <1>4

LEMMA RowsWorker ==
  ASSUME JoinTypeInv, RowsInv, NEW q \in Requests, NEW from, NEW to \in AttemptStates,
         to # "done", NEW actual \in Paths \cup {NoPath}, NEW phase, NEW reason,
         Worker(q, from, to, actual, phase, reason)
  PROVE  RowsInv'
<1> DEFINE n == Len(life[q])
           a == [state |-> to, ok |-> life[q][n].ok, selected |-> life[q][n].selected, actual |-> actual]
<1>1. Becomes(q, a) /\ life[q][n].state # "done"
  BY WorkerDoes
<1>2. trace' = trace /\ lost' = lost
  BY DEF Worker
<1>3. a.selected = life[q][n].selected /\ a.state # "done"
  OBVIOUS
<1> HIDE DEF a
<1>4. \A r \in ToSet(trace') : IsTrue(r)'
  BY <1>1, <1>2, <1>3, RowsStayTrue
<1>5. ASSUME NEW event \in RowKinds, NEW p \in Requests, NEW k \in Numbers, Missing(event, p, k)'
      PROVE  Missing(event, p, k)
  <2>1. InTrace(event, p, k)' = InTrace(event, p, k)
    BY <1>2 DEF InTrace
  <2>2. Happened(event, p, k)
    <3>1. CASE p # q
      BY <1>1, <1>5, <3>1 DEF Missing, Happened, Becomes
    <3>2. CASE p = q /\ k # n
      BY <1>1, <1>5, <3>2 DEF Missing, Happened, Becomes
    <3>3. CASE p = q /\ k = n
      BY <1>1, <1>3, <1>5, <3>3 DEF Missing, Happened, Becomes
    <3> QED
      BY <3>1, <3>2, <3>3
  <2> QED
    BY <1>5, <2>1, <2>2 DEF Missing
<1> QED
  BY <1>2, <1>4, <1>5, RowsGrow

LEMMA RowsComplete ==
  ASSUME JoinTypeInv, RowsInv, NEW q \in Requests, NEW ok \in BOOLEAN, Complete(q, ok)
  PROVE  RowsInv'
<1> DEFINE n == Len(life[q])
           a == [state |-> "done", ok |-> ok, selected |-> life[q][n].selected, actual |-> life[q][n].actual]
<1>0. PICK row : row = [event |-> "completion", id |-> <<q, n>>, selected |-> life[q][n].selected, ok |-> ok]
  OBVIOUS
<1>1. Becomes(q, a) /\ life[q][n].state # "done" /\ trace' = Append(trace, row)
  BY <1>0, CompleteDoes
<1>2. lost' = lost
  BY DEF Complete
<1>3. a.selected = life[q][n].selected /\ a.state = "done" /\ a.ok = ok
  OBVIOUS
<1>4. n \in Numbers /\ n \in 1 .. n /\ life[q][n] \in JoinAttempts
  BY <1>1, NowFacts DEF Becomes
<1>5. row \in TraceRows
  BY <1>0, <1>4 DEF TraceRows, RowKinds, JoinAttempts
<1>6. row.event = "completion" /\ row.id = <<q, n>> /\ row.selected = life[q][n].selected /\ row.ok = ok
  BY <1>0
<1> HIDE DEF a
<1>7. ToSet(trace') = ToSet(trace) \cup {row}
  BY <1>1, <1>5, AppendRows DEF JoinTypeInv
<1>8. IsTrue(row)'
  BY <1>1, <1>3, <1>4, <1>6 DEF IsTrue, Happened, Becomes
<1>9. \A r \in ToSet(trace') : IsTrue(r)'
  BY <1>1, <1>3, <1>7, <1>8, RowsStayTrue
<1>10. ASSUME NEW event \in RowKinds, NEW p \in Requests, NEW k \in Numbers, Missing(event, p, k)'
       PROVE  Missing(event, p, k)
  <2>1. ~InTrace(event, p, k) /\ ~(event = "completion" /\ p = q /\ k = n)
    BY <1>6, <1>7, <1>10 DEF Missing, InTrace
  <2>2. Happened(event, p, k)
    <3>1. CASE p # q
      BY <1>1, <1>10, <3>1 DEF Missing, Happened, Becomes
    <3>2. CASE p = q /\ k # n
      BY <1>1, <1>10, <3>2 DEF Missing, Happened, Becomes
    <3>3. CASE p = q /\ k = n
      BY <1>4, <2>1, <3>3 DEF Happened
    <3> QED
      BY <3>1, <3>2, <3>3
  <2> QED
    BY <2>1, <2>2 DEF Missing
<1> QED
  BY <1>2, <1>9, <1>10, RowsGrow

LEMMA RowsDecide ==
  ASSUME JoinTypeInv, RowsInv, NEW q \in Requests, NEW path \in Paths, Decide(q, path)
  PROVE  RowsInv'
<1> DEFINE n == Len(life[q]) + 1
           a == [state |-> "sent", ok |-> FALSE, selected |-> path, actual |-> NoPath]
<1>0. PICK row : row = [event |-> "decision", id |-> <<q, n>>, selected |-> path, ok |-> FALSE]
  OBVIOUS
<1>1. /\ \A p \in Requests \ {q} : life'[p] = life[p]
      /\ Len(life'[q]) = n /\ n \in Numbers
      /\ life'[q][n] = a
      /\ \A k \in 1 .. Len(life[q]) : life'[q][k] = life[q][k]
      /\ trace' = Append(trace, row)
  BY <1>0, DecideDoes
<1>2. lost' = lost /\ Len(life[q]) \in Nat
  BY NowFacts DEF Decide
<1>3. row \in TraceRows
  BY <1>0, <1>1 DEF TraceRows, RowKinds
<1>4. /\ row.event = "decision" /\ row.id = <<q, n>> /\ row.selected = path
      /\ a.selected = path /\ a.state = "sent"
  BY <1>0
<1> HIDE DEF a
<1>5. ToSet(trace') = ToSet(trace) \cup {row}
  BY <1>1, <1>3, AppendRows DEF JoinTypeInv
<1>6. IsTrue(row)'
  BY <1>1, <1>4 DEF IsTrue, Happened, Numbers
<1>7. ASSUME NEW r \in ToSet(trace) PROVE IsTrue(r)'
  <2>1. IsTrue(r) /\ r \in TraceRows /\ r.id[1] \in Requests /\ r.id[2] \in 1 .. Len(life[r.id[1]])
    BY RowType DEF RowsInv, IsTrue, Happened
  <2>2. CASE r.id[1] # q
    BY <1>1, <2>1, <2>2 DEF IsTrue, Happened
  <2>3. CASE r.id[1] = q
    <3>1. r.id[2] \in 1 .. Len(life[q]) /\ r.id[2] \in 1 .. n
      BY <1>2, <2>1, <2>3
    <3> QED
      BY <1>1, <2>1, <2>3, <3>1 DEF IsTrue, Happened
  <2> QED
    BY <2>2, <2>3
<1>8. \A r \in ToSet(trace') : IsTrue(r)'
  BY <1>5, <1>6, <1>7
<1>9. ASSUME NEW event \in RowKinds, NEW p \in Requests, NEW k \in Numbers, Missing(event, p, k)'
      PROVE  Missing(event, p, k)
  <2>1. ~InTrace(event, p, k) /\ ~(event = "decision" /\ p = q /\ k = n)
    BY <1>4, <1>5, <1>9 DEF Missing, InTrace
  <2>2. Happened(event, p, k)
    <3>1. CASE p # q
      BY <1>1, <1>9, <3>1 DEF Missing, Happened
    <3>2. CASE p = q /\ k # n
      <4>1. k \in 1 .. Len(life[q])
        BY <1>1, <1>2, <1>9, <3>2 DEF Missing, Happened
      <4> QED
        BY <1>1, <1>9, <3>2, <4>1 DEF Missing, Happened
    <3>3. CASE p = q /\ k = n
      BY <1>1, <1>4, <1>9, <2>1, <3>3 DEF Missing, Happened, RowKinds
    <3> QED
      BY <3>1, <3>2, <3>3
  <2> QED
    BY <2>1, <2>2 DEF Missing
<1> QED
  BY <1>2, <1>8, <1>9, RowsGrow

LEMMA RowsFault ==
  ASSUME JoinTypeInv, RowsInv, NEW i \in DOMAIN trace, RowLost(i) \/ RowDoubled(i) \/ RowLate(i)
  PROVE  RowsInv'
<1>0. trace \in Seq(TraceRows) /\ trace[i] \in TraceRows
  BY DEF JoinTypeInv
<1>1. /\ trace[i] \in ToSet(trace)
      /\ RemoveAt(trace, i) \in Seq(TraceRows)
      /\ ToSet(RemoveAt(trace, i)) \subseteq ToSet(trace)
      /\ ToSet(trace) \subseteq ToSet(RemoveAt(trace, i)) \cup {trace[i]}
  <2>1. trace[i] \in ToSet(trace)
    BY DEF ToSet
  <2> QED
    BY <1>0, <2>1, RemoveRow
<1>2. life' = life
  BY DEF RowLost, RowDoubled, RowLate, Fault
<1>3. \A r : IsTrue(r)' = IsTrue(r)
  BY <1>2 DEF IsTrue, Happened
<1>4. \A event, q, k : Happened(event, q, k)' = Happened(event, q, k)
  BY <1>2 DEF Happened
<1>5. CASE ToSet(trace') = ToSet(trace) /\ lost' = lost
  <2>1. \A event, q, k : Missing(event, q, k)' => Missing(event, q, k)
    BY <1>4, <1>5 DEF Missing, InTrace
  <2>2. \A r \in ToSet(trace') : IsTrue(r)'
    BY <1>3, <1>5 DEF RowsInv
  <2> QED
    BY <1>5, <2>1, <2>2, RowsGrow
<1>6. CASE RowDoubled(i)
  <2>1. trace' = Append(trace, trace[i]) /\ lost' = lost
    BY <1>6 DEF RowDoubled
  <2>2. ToSet(Append(trace, trace[i])) = ToSet(trace) \cup {trace[i]}
    BY <1>0, AppendRows
  <2>3. ToSet(trace') = ToSet(trace)
    BY <1>1, <2>1, <2>2
  <2> QED
    BY <1>5, <2>1, <2>3
<1>7. CASE RowLate(i)
  <2>1. trace' = Append(RemoveAt(trace, i), trace[i]) /\ lost' = lost
    BY <1>7 DEF RowLate
  <2>2. ToSet(Append(RemoveAt(trace, i), trace[i])) = ToSet(RemoveAt(trace, i)) \cup {trace[i]}
    BY <1>0, <1>1, AppendRows
  <2>3. ToSet(trace') = ToSet(trace)
    BY <1>1, <2>1, <2>2
  <2> QED
    BY <1>5, <2>1, <2>3
<1>8. CASE RowLost(i)
  <2>1. trace' = RemoveAt(trace, i) /\ lost' = lost + 1 /\ lost \in Nat
    BY <1>8 DEF RowLost, JoinTypeInv
  <2>2. \A r \in ToSet(trace') : IsTrue(r)'
    BY <1>1, <1>3, <2>1 DEF RowsInv
  <2>3. ASSUME lost = 0, NEW event \in RowKinds, NEW q \in Requests, NEW k \in Numbers, Missing(event, q, k)'
        PROVE  event = trace[i].event /\ <<q, k>> = trace[i].id
    <3>1. InTrace(event, q, k) /\ ~InTrace(event, q, k)'
      BY <1>4, <2>3 DEF Missing, RowsInv
    <3> QED
      BY <1>1, <2>1, <3>1 DEF InTrace
  <2> QED
    BY <2>1, <2>2, <2>3 DEF RowsInv
<1> QED
  BY <1>6, <1>7, <1>8

LEMMA RowsStep == ASSUME JoinTypeInv, RowsInv, [JoinNext]_joinVars PROVE RowsInv'
<1>1. ASSUME UNCHANGED <<life, trace, lost>> PROVE RowsInv'
  <2>1. \A event, q, k : Missing(event, q, k)' = Missing(event, q, k)
    BY <1>1 DEF Missing, InTrace, Happened
  <2>2. \A r \in ToSet(trace') : IsTrue(r)'
    BY <1>1 DEF RowsInv, IsTrue, Happened
  <2> QED
    BY <1>1, <2>1, <2>2, RowsGrow
<1>2. ASSUME NEW q \in Requests, Seen(q) \/ Loads(q) \/ Ends(q) PROVE RowsInv'
  BY <1>2, RowsWorker, WorkerActs
<1>3. ASSUME \/ \E q \in Requests, result \in {"success", "failed"} : ClientEnds(q, result)
             \/ \E e \in pending : Flush(e)
             \/ \E e \in log : FlushedTwice(e)
             \/ Join \/ UNCHANGED joinVars
      PROVE  UNCHANGED <<life, trace, lost>>
  BY <1>3 DEF ClientEnds, Flush, FlushedTwice, Fault, Join, joinVars
<1> QED
  BY <1>1, <1>2, <1>3, RowsDecide, RowsComplete, RowsFault DEF JoinNext

----------------------------------------------------------------------------
(* The events of the workers: each is true, none is told twice, and what   *)
(* the attempt went through was told.                                      *)

Told == pending \cup log

\* The state of the attempt that e is about, after what e tells.
IsToldOf(e) ==
    LET q == e.id[1]
        k == e.id[2]
    IN  /\ k \in 1 .. Len(life[q]) /\ life[q][k].state # "sent"
        /\ e.phase = "load_completed" =>
              life[q][k].state # "seen" /\ e.actual = life[q][k].actual
        /\ e.phase = "request_finished" => life[q][k].state \in {"ended", "done"}

Tells(q, k, phase) == \E e \in Told : e.id = <<q, k>> /\ e.phase = phase

HasTold(q, k) ==
    /\ life[q][k].state \in {"seen", "loaded", "ended"} \/ life[q][k].ok =>
          Tells(q, k, "scheduler_seen")
    /\ life[q][k].state = "ended" \/ life[q][k].ok => Tells(q, k, "request_finished")
    /\ life[q][k].state \in {"loaded", "ended"} \/ life[q][k].ok =>
          Tells(q, k, "load_completed") \/ life[q][k].actual \in LocalPaths

EventsInv ==
    /\ pending \cap log = {}
    /\ \A e, f \in Told : e.id = f.id /\ e.phase = f.phase => e = f
    /\ \A e \in Told : IsToldOf(e)
    /\ \A q \in Requests : \A k \in 1 .. Len(life[q]) : HasTold(q, k)

LEMMA EventType ==
  ASSUME JoinTypeInv, NEW e \in Told
  PROVE  /\ e \in WorkerEvents
         /\ e.id[1] \in Requests /\ e.id[2] \in Numbers /\ e.id = <<e.id[1], e.id[2]>>
<1>1. e \in WorkerEvents
  BY DEF JoinTypeInv, Told
<1> QED
  BY <1>1 DEF WorkerEvents

\* An attempt whose state, result and path stay is told of as before.
LEMMA HasToldKept ==
  ASSUME NEW q, NEW k, HasTold(q, k), life'[q][k] = life[q][k], Told \subseteq Told'
  PROVE  HasTold(q, k)'
  BY DEF HasTold, Tells

LEMMA EventsDecide ==
  ASSUME JoinTypeInv, EventsInv, NEW q \in Requests, NEW path \in Paths, Decide(q, path)
  PROVE  EventsInv'
<1> DEFINE n == Len(life[q]) + 1
           a == [state |-> "sent", ok |-> FALSE, selected |-> path, actual |-> NoPath]
<1>1. /\ \A p \in Requests \ {q} : life'[p] = life[p]
      /\ Len(life'[q]) = n /\ n \in Numbers
      /\ life'[q][n] = a
      /\ \A k \in 1 .. Len(life[q]) : life'[q][k] = life[q][k]
  BY DecideDoes
<1>2. pending' = pending /\ log' = log /\ Told' = Told /\ Len(life[q]) \in Nat
  BY NowFacts DEF Decide, Told
<1>3. a.state = "sent" /\ ~a.ok
  OBVIOUS
<1> HIDE DEF a
<1>4. ASSUME NEW e \in Told PROVE IsToldOf(e)'
  <2>1. IsToldOf(e) /\ e.id[1] \in Requests /\ e.id[2] \in 1 .. Len(life[e.id[1]])
    BY EventType DEF EventsInv, IsToldOf
  <2>2. CASE e.id[1] # q
    BY <1>1, <2>1, <2>2 DEF IsToldOf
  <2>3. CASE e.id[1] = q
    <3>1. e.id[2] \in 1 .. Len(life[q]) /\ e.id[2] \in 1 .. n
      BY <1>2, <2>1, <2>3
    <3> QED
      BY <1>1, <2>1, <2>3, <3>1 DEF IsToldOf
  <2> QED
    BY <2>2, <2>3
<1>5. ASSUME NEW p \in Requests, NEW k \in 1 .. Len(life'[p]) PROVE HasTold(p, k)'
  <2>1. CASE p # q \/ k # n
    <3>1. k \in 1 .. Len(life[p]) /\ life'[p][k] = life[p][k]
      BY <1>1, <1>2, <2>1
    <3> QED
      BY <1>2, <3>1, HasToldKept DEF EventsInv
  <2>2. CASE p = q /\ k = n
    BY <1>1, <1>3, <2>2 DEF HasTold
  <2> QED
    BY <2>1, <2>2
<1> QED
  BY <1>2, <1>4, <1>5 DEF EventsInv

\* Completing an attempt tells nothing, and takes nothing back.
LEMMA EventsComplete ==
  ASSUME JoinTypeInv, LifeInv, EventsInv, NEW q \in Requests, NEW ok \in BOOLEAN, Complete(q, ok)
  PROVE  EventsInv'
<1> DEFINE n == Len(life[q])
           a == [state |-> "done", ok |-> ok, selected |-> life[q][n].selected, actual |-> life[q][n].actual]
<1>1. Becomes(q, a) /\ life[q][n].state # "done" /\ (ok => life[q][n].state = "ended")
  BY CompleteDoes
<1>2. pending' = pending /\ log' = log /\ Told' = Told
  BY DEF Complete, Told
<1>3. a.state = "done" /\ a.ok = ok /\ a.actual = life[q][n].actual
  OBVIOUS
<1> HIDE DEF a
<1>4. ASSUME NEW e \in Told PROVE IsToldOf(e)'
  <2>1. IsToldOf(e) /\ e.id[1] \in Requests /\ e.id[2] \in 1 .. Len(life[e.id[1]])
    BY EventType DEF EventsInv, IsToldOf
  <2>2. CASE e.id[1] # q
    BY <1>1, <2>1, <2>2 DEF IsToldOf, Becomes
  <2>3. CASE e.id[1] = q /\ e.id[2] # n
    BY <1>1, <2>1, <2>3 DEF IsToldOf, Becomes
  <2>4. CASE e.id[1] = q /\ e.id[2] = n
    BY <1>1, <1>3, <2>1, <2>4 DEF IsToldOf, Becomes
  <2> QED
    BY <2>2, <2>3, <2>4
<1>5. ASSUME NEW p \in Requests, NEW k \in 1 .. Len(life'[p]) PROVE HasTold(p, k)'
  <2>1. k \in 1 .. Len(life[p]) /\ HasTold(p, k)
    BY <1>1 DEF EventsInv, Becomes
  <2>2. CASE p # q \/ k # n
    <3>1. life'[p][k] = life[p][k]
      BY <1>1, <2>1, <2>2 DEF Becomes
    <3> QED
      BY <1>2, <2>1, <3>1, HasToldKept
  <2>3. CASE p = q /\ k = n
    <3>1. life'[q][n] = a
      BY <1>1 DEF Becomes
    <3>2. \A phase : Tells(q, n, phase)' = Tells(q, n, phase)
      BY <1>1, <1>2 DEF Tells, Becomes
    <3>3. Len(life'[q]) = n
      BY <1>1 DEF Becomes
    <3> QED
      BY <1>1, <1>3, <2>1, <2>3, <3>1, <3>2, <3>3 DEF HasTold
  <2> QED
    BY <2>2, <2>3
<1> QED
  BY <1>2, <1>4, <1>5 DEF EventsInv

\* An event moves from the worker to the traces.
LEMMA EventsFlush ==
  ASSUME JoinTypeInv, EventsInv, NEW e \in pending, Flush(e)
  PROVE  EventsInv'
<1>1. life' = life /\ pending' = pending \ {e} /\ log' = log \cup {e}
  BY DEF Flush
<1>2. Told' = Told /\ pending' \cap log' = {}
  BY <1>1 DEF Told, EventsInv
<1>3. \A f : IsToldOf(f)' = IsToldOf(f)
  BY <1>1 DEF IsToldOf
<1>4. ASSUME NEW q \in Requests, NEW k \in 1 .. Len(life[q]) PROVE HasTold(q, k)'
  BY <1>1, <1>2, HasToldKept DEF EventsInv
<1> QED
  BY <1>1, <1>2, <1>3, <1>4 DEF EventsInv

\* The event agrees with the state that it leads to, with what was told before,
\* and with it enough is told.
MayTell(q, to, actual, phase) ==
    /\ phase = "load_completed" => to # "seen"
    /\ phase = "request_finished" => to = "ended"
    /\ \A e \in Told : e.id = <<q, Len(life[q])>> =>
          /\ e.phase # phase /\ e.phase # "request_finished"
          /\ e.phase = "load_completed" => to # "seen" /\ actual = life[q][Len(life[q])].actual
    /\ phase = "scheduler_seen" \/ Tells(q, Len(life[q]), "scheduler_seen")
    /\ to = "ended" => phase = "request_finished"
    /\ to \in {"loaded", "ended"} =>
          phase = "load_completed" \/ Tells(q, Len(life[q]), "load_completed") \/ actual \in LocalPaths

\* A worker goes on and tells something new of the current attempt, which
\* agrees with what was told of it before.
LEMMA EventsWorker ==
  ASSUME JoinTypeInv, LifeInv, EventsInv, NEW q \in Requests, NEW from, NEW to \in AttemptStates,
         to \notin {"sent", "done"}, NEW actual \in Paths \cup {NoPath}, NEW phase, NEW reason,
         Worker(q, from, to, actual, phase, reason),
         MayTell(q, to, actual, phase)
  PROVE  EventsInv'
<1> DEFINE n == Len(life[q])
           a == [state |-> to, ok |-> life[q][n].ok, selected |-> life[q][n].selected, actual |-> actual]
<1>0. PICK new : new = [id |-> <<q, n>>, phase |-> phase, actual |-> actual, reason |-> reason]
  OBVIOUS
<1>1. /\ Becomes(q, a) /\ life[q][n].state # "done"
      /\ pending' = pending \cup {new} /\ log' = log
  <2>1. log' = log
    BY DEF Worker
  <2>2. /\ Becomes(q, a) /\ life[q][n].state # "done"
        /\ pending' = pending \cup {[id |-> <<q, n>>, phase |-> phase, actual |-> actual, reason |-> reason]}
    BY WorkerDoes
  <2>3. pending' = pending \cup {new}
    BY <1>0, <2>2
  <2> QED
    BY <2>1, <2>2, <2>3
<1>2. n \in Numbers /\ n \in 1 .. n /\ life[q][n] \in JoinAttempts
  BY <1>1, NowFacts DEF Becomes
<1>3. a.state = to /\ a.actual = actual /\ ~a.ok
  <2>1. life[q][n].ok \in BOOLEAN
    BY <1>2 DEF JoinAttempts
  <2>2. ~life[q][n].ok
    BY <1>1, <1>2 DEF LifeInv, LifeOf
  <2> QED
    BY <2>2
<1>4. new.id = <<q, n>> /\ new.phase = phase /\ new.actual = actual
  BY <1>0
<1>5. Told' = Told \cup {new}
  BY <1>1 DEF Told
<1> HIDE DEF a
<1>6. new \notin Told
  BY <1>4 DEF MayTell
<1>7. pending' \cap log' = {}
  BY <1>1, <1>6 DEF EventsInv, Told
<1>8. ASSUME NEW e \in Told', NEW f \in Told', e.id = f.id, e.phase = f.phase PROVE e = f
  BY <1>4, <1>5, <1>8 DEF EventsInv, MayTell
<1>9. IsToldOf(new)'
  BY <1>1, <1>2, <1>3, <1>4 DEF IsToldOf, Becomes, MayTell
<1>10. ASSUME NEW e \in Told PROVE IsToldOf(e)'
  <2>1. /\ IsToldOf(e) /\ e.id[1] \in Requests /\ e.id[2] \in 1 .. Len(life[e.id[1]])
        /\ e.id = <<e.id[1], e.id[2]>>
    BY EventType DEF EventsInv, IsToldOf
  <2>2. CASE e.id[1] # q
    BY <1>1, <2>1, <2>2 DEF IsToldOf, Becomes
  <2>3. CASE e.id[1] = q /\ e.id[2] # n
    BY <1>1, <2>1, <2>3 DEF IsToldOf, Becomes
  <2>4. CASE e.id[1] = q /\ e.id[2] = n
    <3>1. /\ e.phase # "request_finished"
          /\ e.phase = "load_completed" => to # "seen" /\ actual = life[q][n].actual
      BY <2>1, <2>4 DEF MayTell
    <3>2. e.phase = "load_completed" => e.actual = actual
      BY <2>1, <2>4, <3>1 DEF IsToldOf
    <3> QED
      BY <1>1, <1>2, <1>3, <2>4, <3>1, <3>2 DEF IsToldOf, Becomes
  <2> QED
    BY <2>2, <2>3, <2>4
<1>11. ASSUME NEW p \in Requests, NEW k \in 1 .. Len(life'[p]) PROVE HasTold(p, k)'
  <2>1. k \in 1 .. Len(life[p]) /\ HasTold(p, k)
    BY <1>1 DEF EventsInv, Becomes
  <2>2. CASE p # q \/ k # n
    <3>1. life'[p][k] = life[p][k]
      BY <1>1, <2>1, <2>2 DEF Becomes
    <3> QED
      BY <1>5, <2>1, <3>1, HasToldKept
  <2>3. CASE p = q /\ k = n
    <3>1. life'[q][n] = a /\ Len(life'[q]) = n
      BY <1>1 DEF Becomes
    <3>2. ASSUME NEW ph, ph = phase \/ Tells(q, n, ph) PROVE Tells(p, k, ph)'
      BY <1>4, <1>5, <2>3, <3>2 DEF Tells
    <3>3. life'[p][k].state = to /\ ~life'[p][k].ok /\ life'[p][k].actual = actual
      BY <1>3, <2>3, <3>1
    <3> QED
      BY <2>3, <3>2, <3>3 DEF HasTold, MayTell
  <2> QED
    BY <2>2, <2>3
<1> QED
  BY <1>5, <1>7, <1>8, <1>9, <1>10, <1>11 DEF EventsInv

LEMMA EventsSteps ==
  ASSUME JoinTypeInv, LifeInv, EventsInv, NEW q \in Requests, Seen(q) \/ Loads(q) \/ Ends(q)
  PROVE  EventsInv'
<1> DEFINE n == Len(life[q])
<1>1. /\ Open(q) /\ n \in Numbers /\ n \in 1 .. n /\ life[q][n] \in JoinAttempts /\ Now(q) = life[q][n]
  BY NowFacts DEF Seen, Loads, Ends, Worker, Open
<1>2. HasTold(q, n)
  BY <1>1 DEF EventsInv
<1>3. ASSUME NEW e \in Told, e.id = <<q, n>>
      PROVE  /\ life[q][n].state # "sent"
             /\ e.phase = "load_completed" => life[q][n].state # "seen"
             /\ e.phase = "request_finished" => life[q][n].state \in {"ended", "done"}
  BY <1>3 DEF EventsInv, IsToldOf
<1> HIDE DEF n
<1>4. CASE Seen(q)
  <2>1. Worker(q, {"sent"}, "seen", NoPath, "scheduler_seen", FALSE) /\ life[q][n].state = "sent"
    BY <1>1, <1>4 DEF Seen, Worker
  <2>2. \A e \in Told : e.id # <<q, n>>
    BY <1>3, <2>1
  <2> QED
    <3>1. MayTell(q, "seen", NoPath, "scheduler_seen")
      BY <2>2 DEF MayTell, n
    <3> QED
      BY <2>1, <3>1, EventsWorker DEF AttemptStates
<1>5. CASE Loads(q)
  <2>1. PICK path \in Paths : Worker(q, {"seen"}, "loaded", path, "load_completed", FALSE)
    BY <1>5 DEF Loads
  <2>2. life[q][n].state = "seen"
    BY <1>1, <2>1 DEF Worker
  <2>3. \A e \in Told : e.id = <<q, n>> => e.phase \notin {"load_completed", "request_finished"}
    BY <1>3, <2>2
  <2>4. Tells(q, n, "scheduler_seen")
    BY <1>2, <2>2 DEF HasTold
  <2> QED
    <3>1. MayTell(q, "loaded", path, "load_completed")
      BY <2>3, <2>4 DEF MayTell, n
    <3> QED
      BY <2>1, <3>1, EventsWorker DEF AttemptStates
<1>6. ASSUME Worker(q, {"loaded"}, "ended", Now(q).actual, "request_finished", FALSE) PROVE EventsInv'
  <2>1. life[q][n].state = "loaded" /\ Now(q).actual \in Paths \cup {NoPath}
    BY <1>1, <1>6 DEF Worker, JoinAttempts
  <2>2. \A e \in Told : e.id = <<q, n>> => e.phase # "request_finished"
    BY <1>3, <2>1
  <2>3. /\ Tells(q, n, "scheduler_seen")
        /\ Tells(q, n, "load_completed") \/ Now(q).actual \in LocalPaths
    BY <1>1, <1>2, <2>1 DEF HasTold
  <2> QED
    <3>1. MayTell(q, "ended", Now(q).actual, "request_finished")
      BY <1>1, <2>2, <2>3 DEF MayTell, n
    <3> QED
      BY <1>6, <2>1, <3>1, EventsWorker DEF AttemptStates
<1>7. ASSUME NEW path \in LocalPaths, NEW reason \in BOOLEAN,
             Worker(q, {"seen"}, "ended", path, "request_finished", reason)
      PROVE  EventsInv'
  <2>1. life[q][n].state = "seen" /\ path \in Paths \cup {NoPath}
    BY <1>1, <1>7 DEF Worker, Paths
  <2>2. \A e \in Told : e.id = <<q, n>> => e.phase \notin {"load_completed", "request_finished"}
    BY <1>3, <2>1
  <2>3. Tells(q, n, "scheduler_seen")
    BY <1>2, <2>1 DEF HasTold
  <2> QED
    <3>1. MayTell(q, "ended", path, "request_finished")
      BY <2>2, <2>3 DEF MayTell, n
    <3> QED
      BY <1>7, <2>1, <3>1, EventsWorker DEF AttemptStates
<1> QED
  BY <1>4, <1>5, <1>6, <1>7 DEF Ends

LEMMA EventsStep ==
  ASSUME JoinTypeInv, LifeInv, EventsInv, [JoinNext]_joinVars PROVE EventsInv'
<1>1. ASSUME UNCHANGED <<life, pending, log>> PROVE EventsInv'
  <2>1. Told' = Told /\ \A e : IsToldOf(e)' = IsToldOf(e)
    BY <1>1 DEF Told, IsToldOf
  <2>2. ASSUME NEW q \in Requests, NEW k \in 1 .. Len(life[q]) PROVE HasTold(q, k)'
    BY <1>1, <2>1, HasToldKept DEF EventsInv
  <2> QED
    BY <1>1, <2>1, <2>2 DEF EventsInv
<1>2. ASSUME \/ \E q \in Requests, result \in {"success", "failed"} : ClientEnds(q, result)
             \/ \E e \in log : FlushedTwice(e)
             \/ \E i \in DOMAIN trace : RowLost(i) \/ RowDoubled(i) \/ RowLate(i)
             \/ Join \/ UNCHANGED joinVars
      PROVE  UNCHANGED <<life, pending, log>>
  BY <1>2 DEF ClientEnds, FlushedTwice, RowLost, RowDoubled, RowLate, Fault, Join, joinVars
<1> QED
  BY <1>1, <1>2, EventsDecide, EventsComplete, EventsSteps, EventsFlush DEF JoinNext

----------------------------------------------------------------------------
(* The parts of the invariant, together.                                   *)

LEMMA JoinTypeFault ==
  ASSUME JoinTypeInv, NEW i \in DOMAIN trace, RowLost(i) \/ RowDoubled(i) \/ RowLate(i)
  PROVE  JoinTypeInv'
<1>1. trace \in Seq(TraceRows) /\ trace[i] \in TraceRows /\ RemoveAt(trace, i) \in Seq(TraceRows)
  BY RemoveRow DEF JoinTypeInv
<1>2. /\ Append(trace, trace[i]) \in Seq(TraceRows)
      /\ Append(RemoveAt(trace, i), trace[i]) \in Seq(TraceRows)
  BY <1>1, AppendRows
<1>3. trace' \in Seq(TraceRows)
  BY <1>1, <1>2 DEF RowLost, RowDoubled, RowLate
<1>4. lost \in Nat /\ faults \in Nat
  BY DEF JoinTypeInv
<1>5. lost' \in Nat /\ faults' \in Nat
  BY <1>4 DEF RowLost, RowDoubled, RowLate, Fault
<1> QED
  BY <1>3, <1>5 DEF RowLost, RowDoubled, RowLate, Fault, JoinTypeInv

LEMMA JoinTypeStep == ASSUME JoinTypeInv, [JoinNext]_joinVars PROVE JoinTypeInv'
<1>1. ASSUME NEW q \in Requests, NEW path \in Paths, Decide(q, path) PROVE JoinTypeInv'
  <2> DEFINE n == Len(life[q]) + 1
  <2>0. PICK row : row = [event |-> "decision", id |-> <<q, n>>, selected |-> path, ok |-> FALSE]
    OBVIOUS
  <2>1. life' \in [Requests -> Seq(JoinAttempts)] /\ n \in Numbers /\ trace' = Append(trace, row)
    BY <1>1, <2>0, DecideDoes
  <2>2. row \in TraceRows
    BY <2>0, <2>1 DEF TraceRows, RowKinds
  <2>3. trace' \in Seq(TraceRows)
    BY <2>1, <2>2, AppendRows DEF JoinTypeInv
  <2> QED
    BY <1>1, <2>1, <2>3 DEF Decide, JoinTypeInv
<1>2. ASSUME NEW q \in Requests, NEW from, NEW to \in AttemptStates,
             NEW actual \in Paths \cup {NoPath}, NEW phase \in WorkerPhases, NEW reason \in BOOLEAN,
             Worker(q, from, to, actual, phase, reason)
      PROVE  JoinTypeInv'
  <2> DEFINE n == Len(life[q])
  <2>0. PICK new : new = [id |-> <<q, n>>, phase |-> phase, actual |-> actual, reason |-> reason]
    OBVIOUS
  <2> DEFINE a == [state |-> to, ok |-> life[q][n].ok, selected |-> life[q][n].selected, actual |-> actual]
  <2>1. /\ life' \in [Requests -> Seq(JoinAttempts)] /\ n \in Numbers
        /\ pending' = pending \cup {new}
    <3>1. /\ Becomes(q, a)
          /\ pending' = pending \cup {[id |-> <<q, n>>, phase |-> phase, actual |-> actual, reason |-> reason]}
      BY <1>2, WorkerDoes
    <3> HIDE DEF a
    <3> QED
      BY <2>0, <3>1 DEF Becomes
  <2>2. new \in WorkerEvents
    BY <2>0, <2>1 DEF WorkerEvents
  <2> QED
    BY <1>2, <2>1, <2>2 DEF Worker, JoinTypeInv
<1>3. ASSUME NEW q \in Requests, NEW ok \in BOOLEAN, Complete(q, ok) PROVE JoinTypeInv'
  <2> DEFINE n == Len(life[q])
  <2>0. PICK row : row = [event |-> "completion", id |-> <<q, n>>,
                          selected |-> life[q][n].selected, ok |-> ok]
    OBVIOUS
  <2>1. /\ life' \in [Requests -> Seq(JoinAttempts)] /\ trace' = Append(trace, row)
        /\ n \in Numbers /\ life[q][n] \in JoinAttempts
    BY <1>3, <2>0, CompleteDoes, NowFacts DEF Becomes
  <2>2. row \in TraceRows
    BY <2>0, <2>1 DEF TraceRows, RowKinds, JoinAttempts
  <2>3. trace' \in Seq(TraceRows)
    BY <2>1, <2>2, AppendRows DEF JoinTypeInv
  <2> QED
    BY <1>3, <2>1, <2>3 DEF Complete, JoinTypeInv
<1>4. ASSUME NEW q \in Requests, NEW result \in {"success", "failed"}, ClientEnds(q, result)
      PROVE  JoinTypeInv'
  BY <1>4 DEF ClientEnds, JoinTypeInv
<1>5. ASSUME NEW q \in Requests, Seen(q) \/ Loads(q) \/ Ends(q) PROVE JoinTypeInv'
  BY <1>2, <1>5, WorkerActs
<1>6. ASSUME NEW e \in pending, Flush(e) PROVE JoinTypeInv'
  BY <1>6 DEF Flush, JoinTypeInv
<1>7. ASSUME NEW e \in log, FlushedTwice(e) PROVE JoinTypeInv'
  BY <1>7 DEF FlushedTwice, Fault, JoinTypeInv
<1>8. CASE Join
  BY <1>8 DEF Join, JoinTypeInv
<1>9. CASE UNCHANGED joinVars
  BY <1>9 DEF joinVars, JoinTypeInv
<1> QED
  BY <1>1, <1>3, <1>4, <1>5, <1>6, <1>7, <1>8, <1>9, JoinTypeFault DEF JoinNext

\* Nothing is left to do when the traces are joined.
JoinedAtEnd == verdict = "joined" => \A q \in Requests : client[q] # "none"

JoinInv == JoinTypeInv /\ LifeInv /\ RowsInv /\ EventsInv /\ JoinedAtEnd

LEMMA JoinInvInit == JoinInit => JoinInv
<1> SUFFICES ASSUME JoinInit PROVE JoinInv
  OBVIOUS
<1>1. JoinTypeInv
  BY DEF JoinInit, JoinTypeInv
<1>2. \A q \in Requests : Len(life[q]) = 0 /\ client[q] = "none"
  BY DEF JoinInit
<1>3. LifeInv
  BY <1>2, TraceJoinAssumption DEF LifeInv, LifeOf
<1>4. RowsInv
  <2>1. ToSet(trace) = {}
    BY DEF JoinInit, ToSet
  <2>2. ASSUME NEW event, NEW q \in Requests, NEW k PROVE ~Missing(event, q, k)
    BY <1>2 DEF Happened, Missing
  <2> QED
    BY <2>1, <2>2 DEF RowsInv
<1>5. EventsInv
  BY <1>2 DEF JoinInit, EventsInv, Told
<1> QED
  BY <1>1, <1>3, <1>4, <1>5 DEF JoinInv, JoinedAtEnd, JoinInit

LEMMA JoinStops == ASSUME JoinInv, verdict = "joined", [JoinNext]_joinVars PROVE UNCHANGED joinVars
<1>1. \A q \in Requests : client[q] # "none"
  BY DEF JoinInv, JoinedAtEnd
<1> QED
  BY <1>1 DEF JoinNext, Decide, Seen, Loads, Ends, Worker, Complete, ClientEnds,
              Flush, FlushedTwice, RowLost, RowDoubled, RowLate, Fault, Join

LEMMA JoinInvStep == ASSUME JoinInv, [JoinNext]_joinVars PROVE JoinInv'
<1>1. JoinTypeInv' /\ LifeInv' /\ RowsInv' /\ EventsInv'
  BY JoinTypeStep, LifeStep, RowsStep, EventsStep DEF JoinInv
<1>2. JoinedAtEnd'
  <2>1. CASE verdict = "joined"
    BY <2>1, JoinStops DEF joinVars, JoinInv, JoinedAtEnd
  <2>2. CASE verdict # "joined" /\ Join
    BY <2>2 DEF Join, JoinedAtEnd
  <2>3. CASE verdict # "joined" /\ ~Join
    <3>1. verdict' = verdict
      BY <2>3 DEF JoinNext, joinVars, Decide, Seen, Loads, Ends, Worker, Complete, ClientEnds,
                  Flush, FlushedTwice, RowLost, RowDoubled, RowLate, Fault
    <3> QED
      BY <2>3, <3>1 DEF JoinedAtEnd
  <2> QED
    BY <2>1, <2>2, <2>3
<1> QED
  BY <1>1, <1>2 DEF JoinInv

----------------------------------------------------------------------------
(* What is joined.                                                         *)

LEMMA RowIs ==
  ASSUME JoinTypeInv, NEW event, NEW id, Cardinality(At(event, id)) = 1
  PROVE  Row(event, id) \in ToSet(trace) /\ Row(event, id).event = event /\ Row(event, id).id = id
<1>1. At(event, id) # {}
  BY FS_EmptySet
<1>2. (CHOOSE i \in At(event, id) : TRUE) \in At(event, id)
  BY <1>1
<1> QED
  BY <1>2 DEF Row, At, ToSet

\* While no more than one row is missing, one of the two of the last attempt is
\* there.
LEMMA FinalIsLast ==
  ASSUME JoinInv, lost <= 1, NEW q \in Requests, ~Open(q), AttemptsOf(q) # {}
  PROVE  /\ FinalAttempt(q) = Len(life[q]) /\ Len(life[q]) \in AttemptsOf(q)
<1> DEFINE n == Len(life[q])
<1>1. ASSUME NEW k \in AttemptsOf(q) PROVE k \in 1 .. n
  <2>1. PICK r \in ToSet(trace) : r.id = <<q, k>>
    BY DEF AttemptsOf, Ids, ToSet
  <2>2. r.id[1] = q /\ r.id[2] = k
    BY <2>1
  <2>3. IsTrue(r)
    BY DEF JoinInv, RowsInv
  <2> QED
    BY <2>2, <2>3 DEF IsTrue, Happened
<1>2. /\ n \in Numbers /\ n \in 1 .. n /\ life[q][n].state = "done" /\ n <= MaxAttempts
      /\ MaxAttempts \in Nat
  <2>1. n \in Nat /\ n # 0
    BY <1>1, NowFacts DEF JoinInv
  <2>2. life[q] # <<>>
    BY <2>1
  <2> QED
    BY <2>1, <2>2, NowFacts, TraceJoinAssumption DEF JoinInv, LifeInv, LifeOf, Open
<1>3. n \in AttemptsOf(q)
  <2>1. SUFFICES ASSUME <<q, n>> \notin Ids PROVE FALSE
    BY <1>2 DEF AttemptsOf, Numbers
  <2>2. ASSUME NEW event PROVE ~InTrace(event, q, n)
    BY <2>1 DEF InTrace, Ids, ToSet
  <2>3. Missing("decision", q, n) /\ Missing("completion", q, n)
    BY <1>2, <2>2 DEF Missing, Happened
  <2>4. lost = 0 \/ lost = 1
    BY DEF JoinInv, JoinTypeInv
  <2>5. "decision" \in RowKinds /\ "completion" \in RowKinds
    BY DEF RowKinds
  <2> QED
    BY <1>2, <2>3, <2>4, <2>5 DEF JoinInv, RowsInv
<1>4. \A k \in AttemptsOf(q) : k <= n /\ k \in Nat
  BY <1>1, <1>2
<1> HIDE DEF n
<1>5. \A k \in AttemptsOf(q) : (\A l \in AttemptsOf(q) : l <= k) => k = n
  BY <1>2, <1>3, <1>4 DEF Numbers
<1>6. FinalAttempt(q) = n
  BY <1>3, <1>4, <1>5 DEF FinalAttempt
<1> QED
  BY <1>3, <1>6 DEF n

\* What the traces tell of the path of a request that succeeded.
LEMMA PathTold ==
  ASSUME JoinInv, NEW q \in Requests, life[q] # <<>>, Now(q).ok,
         Row("decision", <<q, Len(life[q])>>).selected = Now(q).selected,
         LifecycleComplete(<<q, Len(life[q])>>), PathAsSelected(<<q, Len(life[q])>>)
  PROVE  LET last == Now(q)
             id == <<q, Len(life[q])>>
             late == {e \in pending : e.id = id}
         IN  /\ \A e \in late : e.phase = "load_completed"
             /\ \/ last.selected = last.actual
                \/ {last.selected, last.actual} \cap ExternalPaths = {}
                \/ late # {}
                \/ \E e \in log : e.id = id /\ e.reason
<1> DEFINE n == Len(life[q])
           id == <<q, n>>
           last == life[q][n]
<1>1. n \in 1 .. n /\ Now(q) = last /\ last \in JoinAttempts /\ last.ok
  BY NowFacts DEF JoinInv
<1>2. last.selected \in Paths /\ last.actual \in Paths \cup {NoPath} /\ LocalPaths \cap ExternalPaths = {}
  BY <1>1, TraceJoinAssumption DEF JoinAttempts
<1>3. HasTold(q, n)
  BY <1>1 DEF JoinInv, EventsInv
<1>4. ASSUME NEW e \in pending, e.id = id PROVE e.phase = "load_completed"
  <2>1. e.phase \in WorkerPhases
    BY DEF JoinInv, JoinTypeInv, WorkerEvents
  <2>2. \A f \in log : ~(f.id = id /\ f.phase = e.phase)
    BY <1>4 DEF JoinInv, EventsInv, Told
  <2> QED
    BY <2>1, <2>2 DEF LifecycleComplete, EventsOf, WorkerPhases
<1>5. ASSUME NEW e \in log, e.id = id, e.phase = "load_completed" PROVE e.actual = last.actual
  <2>1. e \in Told /\ e.id[1] = q /\ e.id[2] = n
    BY <1>5 DEF Told
  <2> QED
    BY <1>5, <2>1 DEF JoinInv, EventsInv, IsToldOf
<1>6. \/ \E e \in pending : e.id = id
      \/ \E e \in log : e.id = id /\ e.phase = "load_completed"
      \/ last.actual \in LocalPaths
  BY <1>1, <1>3 DEF HasTold, Tells, Told
<1> DEFINE loads == EventsOf(id, "load_completed")
<1>7. \A e \in loads : e.actual = last.actual
  BY <1>5 DEF EventsOf
<1>8. /\ last.selected \in ExternalPaths =>
            /\ \A e \in loads : e.actual = last.selected
            /\ loads = {} => \E e \in log : e.id = id /\ e.reason
      /\ last.selected \notin ExternalPaths => \A e \in loads : e.actual \notin ExternalPaths
  BY <1>1 DEF PathAsSelected, EventsOf
<1>9. (\E e \in log : e.id = id /\ e.phase = "load_completed") => loads # {}
  BY DEF EventsOf
<1> HIDE DEF loads, last, id
<1>10. \/ last.selected = last.actual
       \/ {last.selected, last.actual} \cap ExternalPaths = {}
       \/ \E e \in pending : e.id = id
       \/ \E e \in log : e.id = id /\ e.reason
  <2>1. CASE loads # {}
    BY <1>7, <1>8, <2>1
  <2>2. CASE loads = {} /\ last.actual \in LocalPaths
    BY <1>2, <1>8, <2>2
  <2> QED
    BY <1>6, <1>9, <2>1, <2>2
<1> QED
  BY <1>1, <1>4, <1>10 DEF id

LEMMA JoinTrue ==
  ASSUME JoinInv, lost <= 1, Joinable, NEW q \in Requests, ~Open(q)
  PROVE  LET k == FinalAttempt(q)
             last == Now(q)
             late == {e \in pending : e.id = <<q, k>>}
         IN  /\ k = Len(life[q])
             /\ Row("completion", <<q, k>>).ok = last.ok
             /\ client[q] = "success" =>
                  /\ last.ok
                  /\ \A e \in late : e.phase = "load_completed"
                  /\ \/ last.selected = last.actual
                     \/ {last.selected, last.actual} \cap ExternalPaths = {}
                     \/ late # {}
                     \/ \E e \in log : e.id = <<q, k>> /\ e.reason
<1> DEFINE n == Len(life[q])
           id == <<q, n>>
<1>1. FinalAttempt(q) = n /\ id \in Ids
  BY FinalIsLast DEF Joinable, AttemptsOf
<1>2. life[q] # <<>> /\ Now(q) = life[q][n] /\ (client[q] = "success" => Now(q).ok)
  <2>1. PICK k \in AttemptsOf(q) : TRUE
    BY DEF Joinable
  <2>2. PICK r \in ToSet(trace) : r.id = <<q, k>>
    BY DEF AttemptsOf, Ids, ToSet
  <2>3. IsTrue(r) /\ r.id[1] = q /\ r.id[2] = k
    BY <2>2 DEF JoinInv, RowsInv
  <2>4. k \in 1 .. n /\ n \in Nat
    BY <2>3, NowFacts DEF IsTrue, Happened, JoinInv
  <2> QED
    BY <2>4, NowFacts DEF JoinInv, LifeInv, LifeOf
<1>3. Cardinality(At("decision", id)) = 1 /\ Cardinality(At("completion", id)) = 1
  BY <1>1 DEF Joinable, Valid
<1>4. /\ Row("decision", id).selected = Now(q).selected
      /\ Row("completion", id).ok = Now(q).ok
  <2>1. /\ Row("decision", id) \in ToSet(trace) /\ Row("decision", id).id = id
        /\ Row("completion", id) \in ToSet(trace) /\ Row("completion", id).id = id
        /\ Row("completion", id).event = "completion"
    BY <1>3, RowIs DEF JoinInv
  <2>2. IsTrue(Row("decision", id)) /\ IsTrue(Row("completion", id))
    BY <2>1 DEF JoinInv, RowsInv
  <2>3. id[1] = q /\ id[2] = n
    OBVIOUS
  <2> HIDE DEF id
  <2> QED
    BY <1>2, <2>1, <2>2, <2>3 DEF IsTrue
<1>5. client[q] = "success" => LifecycleComplete(id) /\ PathAsSelected(id)
  BY <1>1, <1>2, <1>4 DEF Joinable
<1> QED
  BY <1>1, <1>2, <1>4, <1>5, PathTold

LEMMA JoinTruthStep ==
  ASSUME JoinInv, JoinTellsTruth, [JoinNext]_joinVars PROVE JoinTellsTruth'
<1>1. CASE verdict = "joined"
  <2>1. UNCHANGED <<life, client, trace, pending, log, verdict, joined, lost>>
    BY <1>1, JoinStops DEF joinVars
  <2>2. /\ \A event, id : Row(event, id)' = Row(event, id)
        /\ \A q : Now(q)' = Now(q) /\ Open(q)' = Open(q)
    BY <2>1 DEF Row, At, Now, Open
  <2> QED
    BY <2>1, <2>2 DEF JoinTellsTruth
<1>2. CASE verdict # "joined" /\ verdict' = "joined" /\ lost' <= 1
  <2>1. Join
    BY <1>2 DEF JoinNext, joinVars, Decide, Seen, Loads, Ends, Worker, Complete, ClientEnds,
                Flush, FlushedTwice, RowLost, RowDoubled, RowLate, Fault
  <2>2. /\ Joinable /\ joined' = [q \in Requests |-> FinalAttempt(q)]
        /\ \A q \in Requests : client[q] # "none"
        /\ UNCHANGED <<life, client, trace, pending, log, lost>>
    BY <1>2, <2>1 DEF Join
  <2>3. \A event, id : Row(event, id)' = Row(event, id)
    BY <2>2 DEF Row, At
  <2>4. \A q : Now(q)' = Now(q) /\ Open(q)' = Open(q)
    BY <2>2 DEF Now, Open
  <2> QED
    BY <1>2, <2>2, <2>3, <2>4, JoinTrue DEF JoinTellsTruth
<1>3. CASE verdict # "joined" /\ ~(verdict' = "joined" /\ lost' <= 1)
  BY <1>3 DEF JoinTellsTruth
<1> QED
  BY <1>1, <1>2, <1>3

\* What the join says of a request is what happened to it, as long as no more
\* than one row of the router is missing (join_traces.py, validate_trace.py),
\* for every number of requests, attempts and faults.
THEOREM JoinsAreTrue == JoinSpec => []JoinTellsTruth
<1>1. JoinInit => JoinInv /\ JoinTellsTruth
  BY JoinInvInit DEF JoinInit, JoinTellsTruth
<1>2. JoinInv /\ JoinTellsTruth /\ [JoinNext]_joinVars => (JoinInv /\ JoinTellsTruth)'
  BY JoinInvStep, JoinTruthStep
<1> QED
  BY <1>1, <1>2, PTL DEF JoinSpec
=============================================================================
