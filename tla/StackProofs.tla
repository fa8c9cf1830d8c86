---------------------------- MODULE StackProofs ----------------------------
(***************************************************************************)
(* Proofs about Stack, for every set of services and of pids, and for any  *)
(* number of invocations, crashes, kills and restarts.                     *)
(***************************************************************************)
EXTENDS Stack, SequenceTheorems, TLAPS

----------------------------------------------------------------------------
(* Types, in three parts: the script, the processes, the caches. *)

ScriptTypes ==
    /\ op \in Actions \cup {"none"} /\ step \in Steps
    /\ op = "none" <=> step = "idle"
    /\ rest \in Seq(Services) /\ (step # "idle" => rest # <<>>)
    /\ pid \in Pids \cup {NoPid} /\ (step \in {"write", "grace"} => pid # NoPid)
    /\ result \in Actions \cup {"none", "failed"}
    /\ ops \in Nat

ProcessTypes ==
    /\ file \in [Services -> Pids \cup {NoPid}]
    /\ runs \in [Pids -> Services \cup {"nothing", "stranger"}]
    /\ mode \in [Pids -> {"starting", "serving", "dying", "ended"}]
    /\ termed \in SUBSET Pids /\ strays \in SUBSET Pids

News == [there : BOOLEAN, tiers : SUBSET External]

CacheTypes ==
    /\ busy \in [Backends -> BOOLEAN]
    /\ holds \in [Backends -> SUBSET Tiers]
    /\ news \in [Backends -> Seq(News)]
    /\ view \in [Backends -> SUBSET External]
    /\ warm \in SUBSET Backends /\ unheard \in SUBSET Backends /\ hushed \in SUBSET Backends
    /\ requests \in Nat

LEMMA TypeParts ==
  TypeOK <=> ScriptTypes /\ ProcessTypes /\ CacheTypes /\ faults \in Nat
BY DEF TypeOK, ScriptTypes, ProcessTypes, CacheTypes, News

\* Every action of the script has services to work on; stop works on all.
LEMMA OrderFacts ==
  /\ \A o \in Actions : ServicesOf(o) \in Seq(Services) /\ ServicesOf(o) # <<>>
  /\ \A s \in Services : \E i \in 1..Len(ServicesOf("stop")) : ServicesOf("stop")[i] = s
<1> USE StackAssumption
<1> DEFINE back == Reverse(StartOrder)
<1>1. /\ StartOrder \in Seq(Services) /\ StartOrder # <<>>
      /\ <<Router>> \in Seq(Services) /\ Len(<<Router>>) = 1 /\ <<Router>>[1] = Router
  BY DEF Services
<1>2. /\ back \in Seq(Services) /\ Len(back) = Len(StartOrder)
      /\ \A i \in 1..Len(StartOrder) : back[i] = StartOrder[Len(StartOrder) - i + 1]
  BY <1>1 DEF Reverse
<1>3. \A o \in Actions : ServicesOf(o) \in Seq(Services) /\ ServicesOf(o) # <<>>
  <2>1. Append(StartOrder, Router) \in Seq(Services) /\ Append(StartOrder, Router) # <<>>
    BY <1>1 DEF Services
  <2>2. <<Router>> \o back \in Seq(Services) /\ <<Router>> \o back # <<>>
    BY <1>1, <1>2
  <2> QED
    BY <1>1, <2>1, <2>2 DEF ServicesOf, Actions
<1>4. ServicesOf("stop") = <<Router>> \o back
  BY DEF ServicesOf
<1>5. ASSUME NEW s \in Services
      PROVE  \E i \in 1..Len(<<Router>> \o back) : (<<Router>> \o back)[i] = s
  <2>1. /\ Len(<<Router>> \o back) = Len(StartOrder) + 1
        /\ (<<Router>> \o back)[1] = Router
        /\ \A i \in 1..Len(StartOrder) : (<<Router>> \o back)[i + 1] = back[i]
    BY <1>1, <1>2
  <2>2. CASE s = Router
    BY <1>1, <2>1, <2>2
  <2>3. CASE s \in Backends
    <3>1. PICK i \in 1..Len(StartOrder) : StartOrder[i] = s
      BY <2>3
    <3>2. /\ Len(StartOrder) - i + 1 \in 1..Len(StartOrder)
          /\ Len(StartOrder) - (Len(StartOrder) - i + 1) + 1 = i
      BY <3>1
    <3>3. back[Len(StartOrder) - i + 1] = s
      BY <1>2, <3>1, <3>2
    <3>4. (<<Router>> \o back)[Len(StartOrder) - i + 1 + 1] = s
      BY <2>1, <3>2, <3>3
    <3>5. Len(StartOrder) - i + 1 + 1 \in 1..Len(<<Router>> \o back)
      BY <1>1, <2>1, <3>2
    <3> HIDE DEF back
    <3> QED
      BY <3>4, <3>5
  <2> QED
    BY <2>2, <2>3 DEF Services
<1> QED
  BY <1>3, <1>4, <1>5

LEMMA TailFacts ==
  ASSUME NEW S, NEW q \in Seq(S), Len(q) > 1
  PROVE  /\ Tail(q) \in Seq(S) /\ Tail(q) # <<>>
         /\ Len(Tail(q)) = Len(q) - 1
         /\ \A i \in 1 .. Len(q) - 1 : Tail(q)[i] = q[i + 1]
<1>0. Len(q) \in Nat /\ q # <<>>
  OBVIOUS
<1>1. /\ Len(q) \in Nat /\ q # <<>> /\ Tail(q) \in Seq(S)
      /\ Len(Tail(q)) = Len(q) - 1
      /\ \A i \in 1 .. Len(Tail(q)) : Tail(q)[i] = q[i + 1]
  BY <1>0, HeadTailProperties
<1>2. Len(Tail(q)) # 0
  BY <1>1
<1>3. Tail(q) # <<>>
  BY <1>1, <1>2, EmptySeq
<1> QED
  BY <1>1, <1>3

LEMMA FirstStepTypes ==
  ASSUME NEW o \in Actions, NEW s
  PROVE  /\ FirstStep(o, s) \in Steps
         /\ FirstStep(o, s) \notin {"idle", "write", "grace", "remove"}
         /\ o = "stop" => FirstStep(o, s) = "term"
BY DEF FirstStep, Actions, Steps

\* The ways a command of the script hands on keep the types of the script.
LEMMA ExitTypes ==
  ASSUME ScriptTypes, NEW r \in Actions \cup {"failed"}, Exit(r), ops' = ops
  PROVE  ScriptTypes'
<1>1. <<>> \in Seq(Services)
  OBVIOUS
<1> QED
  BY <1>1 DEF Exit, ScriptTypes, Steps

LEMMA AdvanceTypes ==
  ASSUME ScriptTypes, step # "idle", Advance, ops' = ops
  PROVE  ScriptTypes'
<1> USE DEF ScriptTypes
<1>1. op \in Actions
  OBVIOUS
<1>2. CASE Len(rest) > 1
  <2>1. /\ rest' = Tail(rest) /\ pid' = NoPid /\ UNCHANGED <<op, result>>
        /\ step' = IF step = "forget" THEN step ELSE FirstStep(op, rest[2])
    BY <1>2 DEF Advance
  <2>2. rest' \in Seq(Services) /\ rest' # <<>>
    BY <1>2, <2>1, TailFacts
  <2>3. step' \in Steps /\ step' \notin {"idle", "write", "grace"}
    BY <1>1, <2>1, FirstStepTypes
  <2> QED
    BY <2>1, <2>2, <2>3
<1>3. CASE ~(Len(rest) > 1) /\ step = "clear caches"
  <2>1. step' = "forget" /\ rest' = StartOrder /\ UNCHANGED <<op, pid, result>>
    BY <1>3 DEF Advance, Forgets
  <2>2. StartOrder \in Seq(Services) /\ StartOrder # <<>>
    BY StackAssumption DEF Services
  <2> QED
    BY <2>1, <2>2 DEF Steps
<1>4. CASE ~(Len(rest) > 1) /\ step # "clear caches"
  BY <1>1, <1>4, ExitTypes DEF Advance
<1> QED
  BY <1>2, <1>3, <1>4

----------------------------------------------------------------------------
LEMMA TypesInit == Init => TypeOK
<1> SUFFICES ASSUME Init PROVE TypeOK
  OBVIOUS
<1>1. <<>> \in Seq(Services) /\ <<>> \in Seq(News)
  OBVIOUS
<1>2. ScriptTypes
  BY <1>1 DEF Init, ScriptTypes, Steps
<1>3. ProcessTypes
  BY DEF Init, ProcessTypes
<1>4. CacheTypes
  BY <1>1 DEF Init, CacheTypes
<1> QED
  BY <1>2, <1>3, <1>4, TypeParts DEF Init

\* What one command of the script does to the types of its own state.
LEMMA ScriptTypesStep ==
  ASSUME ScriptTypes, ProcessTypes, ScriptStep \/ (\E o \in Actions : Invoke(o))
  PROVE  ScriptTypes'
<1> USE DEF ScriptTypes
<1>1. CASE \E o \in Actions : Invoke(o)
  <2>1. PICK o \in Actions : Invoke(o)
    BY <1>1
  <2>2. ServicesOf(o) \in Seq(Services) /\ ServicesOf(o) # <<>>
    BY OrderFacts
  <2>3. FirstStep(o, ServicesOf(o)[1]) \in Steps \ {"idle", "write", "grace"}
    BY FirstStepTypes
  <2> QED
    BY <2>1, <2>2, <2>3 DEF Invoke, Actions
<1>2. CASE RefusesToStart \/ WaitFails \/ CurlFails
  BY <1>2, ExitTypes DEF RefusesToStart, WaitFails, CurlFails
<1>3. CASE \E p \in Pids : Fork(p)
  BY <1>3, StackAssumption DEF Fork, Steps
<1>4. CASE WritePid
  BY <1>4 DEF WritePid, Steps
<1>5. CASE WaitReady \/ ClearCaches \/ Forget \/ ClearL1
  BY <1>5, AdvanceTypes DEF WaitReady, ClearCaches, Forget, ClearL1
<1>6. ASSUME step # "idle", Stopped, ops' = ops PROVE ScriptTypes'
  <2>1. CASE op = "stop"
    BY <1>6, <2>1, AdvanceTypes DEF Stopped
  <2>2. CASE op # "stop"
    BY <1>6, <2>2 DEF Stopped, Steps
  <2> QED
    BY <2>1, <2>2
<1>7. CASE NoPidFile \/ RemoveFile
  BY <1>6, <1>7 DEF NoPidFile, RemoveFile
<1>8. CASE Term
  <2>1. rest \in Seq(Services) /\ rest # <<>> /\ Current \in Services
    BY <1>8 DEF Term, Current
  <2>2. pid' \in Pids /\ pid' # NoPid
    BY <1>8, <2>1, StackAssumption DEF Term, ProcessTypes
  <2> QED
    BY <1>8, <2>2 DEF Term, Steps
<1>9. CASE Kill
  BY <1>9 DEF Kill, Steps
<1> QED
  BY <1>1, <1>2, <1>3, <1>4, <1>5, <1>7, <1>8, <1>9 DEF ScriptStep

\* What any step but the invocation does to the processes.
LEMMA ProcessTypesStep ==
  ASSUME ScriptTypes, ProcessTypes, Next
  PROVE  ProcessTypes'
<1> USE DEF ProcessTypes
<1>1. step # "idle" => Current \in Services
  BY DEF ScriptTypes, Current
<1>2. CASE \E p \in Pids : Fork(p)
  BY <1>1, <1>2 DEF Fork
<1>3. CASE WritePid
  BY <1>1, <1>3 DEF WritePid, ScriptTypes
<1>4. CASE Term
  <2>1. file[Current] \in Pids
    BY <1>1, <1>4 DEF Term
  <2> QED
    BY <1>4, <2>1 DEF Term
<1>5. CASE Kill
  BY <1>5 DEF Kill
<1>6. CASE RemoveFile
  BY <1>1, <1>6 DEF RemoveFile
<1>7. ASSUME NEW p \in Pids, Ended(p), file' = file PROVE ProcessTypes'
  BY <1>7 DEF Ended
<1>8. ASSUME NEW p \in Pids, ProcessStep(p) PROVE ProcessTypes'
  <2>1. CASE Bind(p)
    BY <2>1 DEF Bind
  <2>2. CASE BindFails(p) \/ Leaves(p) \/ Crash(p)
    BY <1>7, <2>2 DEF BindFails, Leaves, Crash
  <2>3. CASE Stranger(p)
    BY <2>3 DEF Stranger
  <2> QED
    BY <1>8, <2>1, <2>2, <2>3 DEF ProcessStep
<1>9. CASE Dies
  <2>1. strays' \in SUBSET Pids
    BY <1>9, StackAssumption DEF Dies, ScriptTypes
  <2> QED
    BY <1>9, <2>1 DEF Dies
<1>10. CASE Reboot
  BY <1>10 DEF Reboot
<1>11. CASE UNCHANGED processVars
  BY <1>11 DEF processVars
<1>12. CASE ScriptStep
  <2>1. CASE \/ RefusesToStart \/ WaitReady \/ WaitFails \/ NoPidFile
             \/ ClearCaches \/ Forget \/ ClearL1 \/ CurlFails
    BY <1>11, <2>1
       DEF RefusesToStart, WaitReady, WaitFails, NoPidFile, ClearCaches, Forget, ClearL1, CurlFails
  <2> QED
    BY <1>2, <1>3, <1>4, <1>5, <1>6, <1>12, <2>1 DEF ScriptStep
<1>13. CASE \E o \in Actions : Invoke(o)
  BY <1>11, <1>13 DEF Invoke
<1>14. CASE \E b \in Backends : RequestStarts(b) \/ RequestEnds(b) \/ Hears(b)
  BY <1>11, <1>14 DEF RequestStarts, RequestEnds, Hears
<1> QED
  BY <1>8, <1>9, <1>10, <1>12, <1>13, <1>14 DEF Next

\* What any step does to the caches and to what the controller hears of them.
LEMMA LosesTypes ==
  ASSUME CacheTypes, NEW lost, Loses(lost)
  PROVE  /\ busy' \in [Backends -> BOOLEAN] /\ holds' \in [Backends -> SUBSET Tiers]
         /\ news' \in [Backends -> Seq(News)]
         /\ (lost \subseteq Backends => hushed' \in SUBSET Backends)
<1>1. <<>> \in Seq(News)
  OBVIOUS
<1> QED
  BY <1>1 DEF CacheTypes, Loses

LEMMA ServingIsBackend == \A p : Serving(p) \subseteq Backends
BY DEF Serving

LEMMA NewsTypes ==
  ASSUME CacheTypes, NEW b \in Backends, NEW there \in BOOLEAN, NEW tiers
  PROVE  NewsOf(b, there, tiers) \in Seq(News)
<1>1. news[b] \in Seq(News)
  BY DEF CacheTypes
<1>2. [there |-> there, tiers |-> tiers \cap External] \in News
  BY DEF News
<1> QED
  BY <1>1, <1>2 DEF NewsOf

LEMMA ClearedTypes ==
  ASSUME CacheTypes, NEW b \in Backends, NEW asked, Cleared(b, asked)
  PROVE  holds' \in [Backends -> SUBSET Tiers] /\ news' \in [Backends -> Seq(News)]
<1>1. PICK kept \in Kept(b, asked) :
        /\ holds' = [holds EXCEPT ![b] = kept]
        /\ news' = [news EXCEPT ![b] = NewsOf(b, FALSE, holds[b] \ kept)]
  BY DEF Cleared
<1>2. kept \in SUBSET Tiers
  BY DEF Kept, CacheTypes
<1>3. NewsOf(b, FALSE, holds[b] \ kept) \in Seq(News)
  BY NewsTypes
<1> QED
  BY <1>1, <1>2, <1>3 DEF CacheTypes

\* The caches are cleared of backends only, in actions of their own.
Clears == {"clear caches", "forget", "clear l1"}
ClearInv ==
    /\ step \in Clears => op \in {"reset", "clear-l1"}
    /\ op \in {"reset", "clear-l1"} => step \in Clears /\ rest \in Seq(Backends)

LEMMA ClearAdvance ==
  ASSUME ScriptTypes, ClearInv, step # "idle", Advance
  PROVE  ClearInv'
<1> USE DEF ClearInv, Clears
<1>1. op \in Actions
  BY DEF ScriptTypes
<1>2. CASE Len(rest) > 1
  <2>1. /\ rest' = Tail(rest) /\ op' = op
        /\ step' = IF step = "forget" THEN step ELSE FirstStep(op, rest[2])
    BY <1>2 DEF Advance
  <2>2. op \in {"reset", "clear-l1"} => rest' \in Seq(Backends)
    BY <1>2, <2>1, TailFacts
  <2>3. step' \in Clears <=> op \in {"reset", "clear-l1"}
    BY <1>1, <2>1 DEF FirstStep, Actions
  <2> QED
    BY <2>1, <2>2, <2>3
<1>3. CASE ~(Len(rest) > 1) /\ step = "clear caches"
  BY <1>3, StackAssumption DEF Advance, Forgets
<1>4. CASE ~(Len(rest) > 1) /\ step # "clear caches"
  BY <1>1, <1>4 DEF Advance, Exit
<1> QED
  BY <1>2, <1>3, <1>4

LEMMA ClearStep ==
  ASSUME ScriptTypes, ClearInv, [Next]_vars
  PROVE  ClearInv'
<1> USE DEF ClearInv, Clears
<1>1. CASE UNCHANGED <<op, step, rest>>
  BY <1>1
<1>2. ASSUME NEW r, Exit(r) PROVE ClearInv'
  BY <1>2 DEF Exit
<1>3. ASSUME step \notin Clears, UNCHANGED <<op, rest>>, step' \notin Clears PROVE ClearInv'
  BY <1>3
<1>4. ASSUME step \notin Clears, step # "idle", Stopped PROVE ClearInv'
  BY <1>3, <1>4, ClearAdvance DEF Stopped
<1>5. CASE \E o \in Actions : Invoke(o)
  <2>1. PICK o \in Actions : Invoke(o)
    BY <1>5
  <2>2. step' = FirstStep(o, ServicesOf(o)[1]) /\ op' = o /\ rest' = ServicesOf(o)
    BY <2>1 DEF Invoke
  <2>3. o \in {"reset", "clear-l1"} => ServicesOf(o) \in Seq(Backends)
    BY StackAssumption DEF ServicesOf
  <2> QED
    BY <2>2, <2>3 DEF FirstStep, Actions
<1>6. CASE ScriptStep
  <2>1. CASE RefusesToStart \/ WaitFails \/ CurlFails
    BY <1>2, <2>1 DEF RefusesToStart, WaitFails, CurlFails
  <2>2. CASE (\E p \in Pids : Fork(p)) \/ WritePid \/ Term \/ Kill
    BY <1>3, <2>2 DEF Fork, WritePid, Term, Kill
  <2>3. CASE WaitReady \/ ClearCaches \/ Forget \/ ClearL1
    BY <2>3, ClearAdvance DEF WaitReady, ClearCaches, Forget, ClearL1
  <2>4. CASE NoPidFile \/ RemoveFile
    BY <1>4, <2>4 DEF NoPidFile, RemoveFile
  <2> QED
    BY <1>6, <2>1, <2>2, <2>3, <2>4 DEF ScriptStep
<1>7. CASE Dies \/ Reboot
  BY <1>2, <1>7 DEF Dies, Reboot
<1>8. CASE (\E p \in Pids : ProcessStep(p)) \/ UNCHANGED vars
  BY <1>1, <1>8 DEF ProcessStep, Bind, BindFails, Leaves, Crash, Stranger, scriptVars, vars
<1>9. CASE \E b \in Backends : RequestStarts(b) \/ RequestEnds(b) \/ Hears(b)
  BY <1>1, <1>9 DEF RequestStarts, RequestEnds, Hears, scriptVars
<1> QED
  BY <1>5, <1>6, <1>7, <1>8, <1>9 DEF Next

LEMMA CacheTypesStep ==
  ASSUME ScriptTypes, ClearInv, CacheTypes, Next
  PROVE  CacheTypes'
<1> USE DEF CacheTypes
<1>1. CASE UNCHANGED cacheVars
  BY <1>1 DEF cacheVars
<1>2. CASE Kill
  BY <1>2, LosesTypes, ServingIsBackend DEF Kill
<1>3. step \in Clears => Current \in Backends
  BY DEF ScriptTypes, ClearInv, Current
<1>4. CASE ClearCaches
  <2>1. Current \in Backends
    BY <1>3, <1>4 DEF ClearCaches, Clears
  <2>2. holds' \in [Backends -> SUBSET Tiers] /\ news' \in [Backends -> Seq(News)]
    BY <1>4, <2>1, ClearedTypes DEF ClearCaches
  <2> QED
    BY <1>4, <2>1, <2>2 DEF ClearCaches, MarkCleared
<1>5. CASE Forget
  <2>1. Current \in Backends
    BY <1>3, <1>5 DEF Forget, Clears
  <2>2. holds' \in [Backends -> SUBSET Tiers] /\ news' \in [Backends -> Seq(News)]
    BY <1>5, <2>1, ClearedTypes DEF Forget
  <2> QED
    BY <1>5, <2>1, <2>2 DEF Forget, Forgotten
<1>6. CASE ClearL1
  <2>1. Current \in Backends
    BY <1>3, <1>6 DEF ClearL1, Clears
  <2>2. holds' \in [Backends -> SUBSET Tiers] /\ news' \in [Backends -> Seq(News)]
    BY <1>6, <2>1, ClearedTypes DEF ClearL1
  <2> QED
    BY <1>6, <2>1, <2>2 DEF ClearL1, Forgotten, MarkCleared
<1>7. CASE ScriptStep
  <2>1. CASE \/ RefusesToStart \/ (\E p \in Pids : Fork(p)) \/ WritePid \/ WaitReady \/ WaitFails
             \/ NoPidFile \/ Term \/ RemoveFile \/ CurlFails
    BY <1>1, <2>1
       DEF RefusesToStart, Fork, WritePid, WaitReady, WaitFails, NoPidFile, Term, RemoveFile, CurlFails
  <2> QED
    BY <1>2, <1>4, <1>5, <1>6, <1>7, <2>1 DEF ScriptStep
<1>8. ASSUME NEW p \in Pids, ProcessStep(p) PROVE CacheTypes'
  <2>1. CASE Bind(p) \/ BindFails(p) \/ Stranger(p)
    BY <1>1, <2>1 DEF Bind, BindFails, Stranger
  <2>2. CASE Leaves(p) \/ Crash(p)
    BY <2>2, LosesTypes, ServingIsBackend DEF Leaves, Crash
  <2> QED
    BY <1>8, <2>1, <2>2 DEF ProcessStep
<1>9. ASSUME NEW b \in Backends, RequestStarts(b) \/ RequestEnds(b) \/ Hears(b)
      PROVE  CacheTypes'
  <2>1. CASE RequestStarts(b)
    BY <2>1 DEF RequestStarts
  <2>2. CASE RequestEnds(b)
    <3>1. NewsOf(b, TRUE, Tiers) \in Seq(News)
      BY NewsTypes
    <3> QED
      BY <2>2, <3>1 DEF RequestEnds
  <2>3. CASE Hears(b)
    <3>1. /\ news[b] \in Seq(News) /\ news[b] # <<>>
          /\ Head(news[b]) \in News /\ Tail(news[b]) \in Seq(News)
      BY <2>3 DEF Hears
    <3>2. Head(news[b]).tiers \in SUBSET External
      BY <3>1 DEF News
    <3> QED
      BY <2>3, <3>1, <3>2 DEF Hears
  <2> QED
    BY <1>9, <2>1, <2>2, <2>3
<1>10. CASE Dies \/ (\E o \in Actions : Invoke(o))
  BY <1>1, <1>10 DEF Dies, Invoke
<1>11. CASE Reboot
  <2>1. <<>> \in Seq(News)
    OBVIOUS
  <2> QED
    BY <1>11, <2>1 DEF Reboot
<1> QED
  BY <1>7, <1>8, <1>9, <1>10, <1>11 DEF Next

TypeInv == TypeOK /\ ClearInv

LEMMA TypeInvInit == Init => TypeInv
<1> SUFFICES ASSUME Init PROVE TypeInv
  OBVIOUS
<1>1. ClearInv
  BY DEF Init, ClearInv, Clears
<1> QED
  BY <1>1, TypesInit DEF TypeInv

LEMMA TypeInvStep == TypeInv /\ [Next]_vars => TypeInv'
<1> SUFFICES ASSUME TypeInv, [Next]_vars PROVE TypeInv'
  OBVIOUS
<1>1. ScriptTypes /\ ProcessTypes /\ CacheTypes /\ faults \in Nat /\ ClearInv
  BY TypeParts DEF TypeInv
<1>2. ClearInv'
  BY <1>1, ClearStep
<1>3. CASE UNCHANGED vars
  <2>1. TypeOK'
    BY <1>3 DEF TypeInv, TypeOK, vars, scriptVars, processVars, cacheVars
  <2> QED
    BY <1>2, <2>1 DEF TypeInv
<1>4. CASE Next
  <2>1. ASSUME UNCHANGED <<op, step, rest, pid, result, ops>> PROVE ScriptTypes'
    BY <1>1, <2>1 DEF ScriptTypes
  <2>2. ScriptTypes'
    <3>1. CASE ScriptStep \/ (\E o \in Actions : Invoke(o))
      BY <1>1, <3>1, ScriptTypesStep
    <3>2. CASE \E p \in Pids : ProcessStep(p)
      BY <2>1, <3>2 DEF ProcessStep, Bind, BindFails, Leaves, Crash, Stranger, scriptVars
    <3>3. CASE \E b \in Backends : RequestStarts(b) \/ RequestEnds(b) \/ Hears(b)
      BY <2>1, <3>3 DEF RequestStarts, RequestEnds, Hears, scriptVars
    <3>4. CASE Dies \/ Reboot
      BY <1>1, <3>4, ExitTypes DEF Dies, Reboot
    <3> QED
      BY <1>4, <3>1, <3>2, <3>3, <3>4 DEF Next
  <2>3. ProcessTypes' /\ CacheTypes'
    BY <1>1, <1>4, ProcessTypesStep, CacheTypesStep
  <2>4. faults' \in Nat
    <3>1. CASE ScriptStep
      BY <1>1, <3>1 DEF ScriptStep, RefusesToStart, Fork, WritePid, WaitReady, WaitFails,
           NoPidFile, Term, Kill, RemoveFile, ClearCaches, Forget, ClearL1, CurlFails
    <3>2. CASE \E o \in Actions : Invoke(o)
      BY <1>1, <3>2 DEF Invoke
    <3>3. CASE \E p \in Pids : ProcessStep(p)
      BY <1>1, <3>3 DEF ProcessStep, Bind, BindFails, Leaves, Crash, Stranger
    <3>4. CASE \E b \in Backends : RequestStarts(b) \/ RequestEnds(b) \/ Hears(b)
      BY <1>1, <3>4 DEF RequestStarts, RequestEnds, Hears
    <3>5. CASE Dies \/ Reboot
      BY <1>1, <3>5 DEF Dies, Reboot
    <3> QED
      BY <1>4, <3>1, <3>2, <3>3, <3>4, <3>5 DEF Next
  <2> QED
    BY <1>2, <2>2, <2>3, <2>4 DEF TypeInv, TypeOK, ScriptTypes, ProcessTypes, CacheTypes, News
<1> QED
  BY <1>3, <1>4

\* The variables of the stack keep their types, however the script, its
\* processes and the machine end (TypeOK).
THEOREM StackTypeCorrect == Spec => []TypeOK
<1>1. TypeInv => TypeOK
  BY DEF TypeInv
<1> QED
  BY <1>1, TypeInvInit, TypeInvStep, PTL DEF Spec

----------------------------------------------------------------------------
(* Pid files and processes. *)

Running(p) == mode[p] \in {"starting", "serving"}

\* What the script knows at each of its commands: the pid it has forked, or
\* is about to kill, and that no other process of the service has the file
\* it is about to write or to remove.
PidInv ==
    /\ \A p \in Pids : Running(p) => runs[p] \in Services
    /\ step = "write" =>
        /\ Running(pid) => runs[pid] = Current
        /\ \A q \in Pids : Running(q) /\ runs[q] = Current /\ file[Current] = q => q = pid
    /\ step \in {"grace", "remove"} => pid \in Pids /\ pid = file[Current]
    /\ step = "remove" => ~Running(pid)
    /\ Tracked

LEMMA PidInit == Init => PidInv
BY DEF Init, PidInv, Running, Tracked

\* A step that leaves the script where it is.
LEMMA PidProcesses ==
  ASSUME ScriptTypes, ProcessTypes, PidInv, NEW p \in Pids, ProcessStep(p)
  PROVE  PidInv'
<1> USE DEF PidInv, Running, Tracked
<1>1. /\ UNCHANGED <<step, pid, file>> /\ Current' = Current
      /\ \A q \in Pids : Running(q)' => Running(q)
      /\ \A q \in Pids : Running(q)' => runs'[q] = runs[q] /\ (q \in strays => q \in strays')
  <2>1. UNCHANGED <<step, pid, file, rest>>
    BY DEF ProcessStep, Bind, BindFails, Leaves, Crash, Stranger, scriptVars
  <2>2. ASSUME Bind(p) \/ Ended(p) \/ Stranger(p)
        PROVE  /\ \A q \in Pids : Running(q)' => Running(q)
               /\ \A q \in Pids : Running(q)' => runs'[q] = runs[q] /\ (q \in strays => q \in strays')
    <3>1. CASE Bind(p)
      BY <3>1 DEF Bind, ProcessTypes
    <3>2. CASE Ended(p)
      BY <3>2 DEF Ended, ProcessTypes
    <3>3. CASE Stranger(p)
      BY <3>3, StackAssumption DEF Stranger, ProcessTypes
    <3> QED
      BY <2>2, <3>1, <3>2, <3>3
  <2> QED
    BY <2>1, <2>2 DEF ProcessStep, BindFails, Leaves, Crash, Current
<1>2. ASSUME NEW q \in Pids, Running(q)'
      PROVE  \/ file'[runs'[q]] = q
             \/ step' = "write" /\ pid' = q
             \/ q \in strays'
  BY <1>1, <1>2
<1>3. step' = "write" =>
        /\ Running(pid)' => runs'[pid'] = Current'
        /\ \A q \in Pids : Running(q)' /\ runs'[q] = Current' /\ file'[Current'] = q => q = pid'
  BY <1>1 DEF ScriptTypes
<1>4. /\ \A q \in Pids : Running(q)' => runs'[q] \in Services
      /\ step' \in {"grace", "remove"} => pid' \in Pids /\ pid' = file'[Current']
      /\ step' = "remove" => ~Running(pid)'
  BY <1>1
<1> QED
  BY <1>2, <1>3, <1>4

Delicate == {"write", "grace", "remove"}

LEMMA AdvanceStep ==
  ASSUME ScriptTypes, step # "idle", step \notin Delicate \/ step = "remove",
         Advance \/ Stopped \/ \E r : Exit(r)
  PROVE  step' \notin Delicate
<1>1. op \in Actions
  BY DEF ScriptTypes
<1>2. CASE Advance
  BY <1>1, <1>2, FirstStepTypes DEF Advance, Forgets, Exit, Delicate
<1> QED
  BY <1>2 DEF Stopped, Exit, Delicate

LEMMA PidScript ==
  ASSUME ScriptTypes, ProcessTypes, PidInv, ScriptStep
  PROVE  PidInv'
<1> USE DEF PidInv, Running, Tracked
<1>1. step # "idle" => Current \in Services
  BY DEF ScriptTypes, Current
<1>2. ASSUME step # "write", UNCHANGED <<file, runs, mode, strays>>, step' \notin Delicate
      PROVE  PidInv'
  BY <1>2 DEF Delicate
<1>3. CASE \/ RefusesToStart \/ WaitReady \/ WaitFails \/ NoPidFile
           \/ ClearCaches \/ Forget \/ ClearL1 \/ CurlFails
  <2>1. /\ UNCHANGED <<file, runs, mode, strays>> /\ step # "idle" /\ step \notin Delicate
        /\ Advance \/ Stopped \/ \E r : Exit(r)
    BY <1>3 DEF RefusesToStart, WaitReady, WaitFails, NoPidFile, ClearCaches, Forget, ClearL1,
         CurlFails, processVars, Delicate
  <2> QED
    BY <1>2, <2>1, AdvanceStep DEF Delicate
<1>4. ASSUME NEW p \in Pids, Fork(p) PROVE PidInv'
  <2>1. /\ runs' = [runs EXCEPT ![p] = Current] /\ mode' = [mode EXCEPT ![p] = "starting"]
        /\ pid' = p /\ step' = "write" /\ UNCHANGED <<rest, file, strays>>
        /\ Current \in Services /\ Current' = Current
        /\ step = "check" /\ ~Alive(file[Current])
    BY <1>1, <1>4 DEF Fork, Current
  <2>2. \A q \in Pids : q # p => runs'[q] = runs[q] /\ mode'[q] = mode[q]
    BY <2>1 DEF ProcessTypes
  <2>3. runs'[p] = Current
    BY <2>1 DEF ProcessTypes
  <2>4. ASSUME NEW q \in Pids, q # p, Running(q), runs[q] = Current, file[Current] = q
        PROVE  FALSE
    BY <2>1, <2>4, StackAssumption DEF Alive
  <2> QED
    BY <2>1, <2>2, <2>3, <2>4
<1>5. CASE WritePid
  <2>1. /\ step = "write" /\ step' = "wait" /\ file' = [file EXCEPT ![Current] = pid]
        /\ UNCHANGED <<runs, mode, strays>> /\ Current \in Services /\ pid \in Pids
    BY <1>1, <1>5 DEF WritePid, ScriptTypes
  <2>2. ASSUME NEW q \in Pids, Running(q) PROVE file'[runs[q]] = q \/ q \in strays
    <3>1. CASE q = pid
      BY <2>1, <2>2, <3>1 DEF ProcessTypes
    <3>2. CASE q # pid
      BY <2>1, <2>2, <3>2 DEF ProcessTypes
    <3> QED
      BY <3>1, <3>2
  <2> QED
    BY <2>1, <2>2
<1>6. CASE Term
  <2>1. /\ step = "term" /\ pid' = file[Current] /\ UNCHANGED <<file, runs, mode, strays>>
        /\ Current' = Current /\ Current \in Services /\ file[Current] \in Pids
        /\ step' \in {"grace", "remove"} /\ (step' = "remove" => ~Alive(file[Current]))
    BY <1>1, <1>6 DEF Term, Current, ProcessTypes
  <2>2. ~Alive(file[Current]) => ~Running(file[Current])
    BY <2>1, StackAssumption DEF Alive
  <2> QED
    BY <2>1, <2>2
<1>7. CASE Kill
  <2>1. /\ step = "grace" /\ step' = "remove" /\ UNCHANGED <<pid, file, runs, strays>>
        /\ mode' = [mode EXCEPT ![pid] = IF Alive(pid) THEN "dying" ELSE "ended"]
        /\ Current' = Current /\ pid \in Pids /\ pid = file[Current]
    BY <1>7 DEF Kill, Current
  <2>2. \A q \in Pids : Running(q)' => Running(q) /\ q # pid
    BY <2>1 DEF ProcessTypes
  <2> QED
    BY <2>1, <2>2
<1>8. CASE RemoveFile
  <2>1. /\ step = "remove" /\ file' = [file EXCEPT ![Current] = NoPid]
        /\ UNCHANGED <<runs, mode, strays>> /\ Current \in Services
        /\ pid \in Pids /\ pid = file[Current] /\ ~Running(pid)
    BY <1>1, <1>8 DEF RemoveFile
  <2>2. step' \notin Delicate
    BY <1>8, <2>1, AdvanceStep DEF RemoveFile
  <2>3. ASSUME NEW q \in Pids, Running(q) PROVE file'[runs[q]] = q \/ q \in strays
    BY <2>1, <2>3 DEF ProcessTypes
  <2> QED
    BY <2>1, <2>2, <2>3 DEF Delicate
<1> QED
  BY <1>3, <1>4, <1>5, <1>6, <1>7, <1>8 DEF ScriptStep

LEMMA PidStep == TypeInv /\ PidInv /\ [Next]_vars => PidInv'
<1> SUFFICES ASSUME TypeInv, PidInv, [Next]_vars PROVE PidInv'
  OBVIOUS
<1>1. ScriptTypes /\ ProcessTypes
  BY TypeParts DEF TypeInv
<1>2. CASE ScriptStep
  BY <1>1, <1>2, PidScript
<1>3. CASE \E p \in Pids : ProcessStep(p)
  BY <1>1, <1>3, PidProcesses
<1>4. CASE UNCHANGED <<step, pid, rest, file, runs, mode, strays>>
  BY <1>4 DEF PidInv, Running, Tracked, Current
<1>5. CASE \/ UNCHANGED vars
           \/ \E b \in Backends : RequestStarts(b) \/ RequestEnds(b) \/ Hears(b)
  BY <1>4, <1>5 DEF RequestStarts, RequestEnds, Hears, vars, scriptVars, processVars
<1>6. ASSUME NEW o \in Actions, Invoke(o) PROVE PidInv'
  <2>1. /\ step = "idle" /\ UNCHANGED <<file, runs, mode, strays>>
        /\ step' \notin {"write", "grace", "remove"}
    BY <1>1, <1>6, FirstStepTypes DEF Invoke, ScriptTypes, processVars
  <2> QED
    BY <2>1 DEF PidInv, Running, Tracked
<1>7. CASE Dies
  <2>1. /\ step' = "idle" /\ UNCHANGED <<file, runs, mode>>
        /\ strays \subseteq strays' /\ (step = "write" => pid \in strays')
    BY <1>7 DEF Dies, Exit
  <2> QED
    BY <2>1 DEF PidInv, Running, Tracked
<1>8. CASE Reboot
  <2>1. step' = "idle" /\ mode' = [p \in Pids |-> "ended"]
    BY <1>8 DEF Reboot, Exit
  <2> QED
    BY <2>1 DEF PidInv, Running, Tracked
<1> QED
  BY <1>2, <1>3, <1>5, <1>6, <1>7, <1>8 DEF Next

\* A process that can serve is found through the pid file of its service, but
\* for one whose script was killed before it could write the file (Tracked).
THEOREM PidFilesTrack == Spec => []Tracked
<1>1. PidInv => Tracked
  BY DEF PidInv
<1> QED
  BY <1>1, TypeInvInit, TypeInvStep, PidInit, PidStep, PTL DEF Spec

----------------------------------------------------------------------------
(* stop. *)

\* While stop_all runs, a service whose file is still there is on its list.
StopInv ==
    /\ op # "none" => result = "none"
    /\ op = "stop" =>
        /\ step \in {"term", "grace", "remove"}
        /\ \A s \in Services : file[s] # NoPid => \E i \in 1 .. Len(rest) : rest[i] = s
    /\ result = "stop" => \A s \in Services : file[s] = NoPid

LEMMA StopInit == Init => StopInv
BY DEF Init, StopInv

LEMMA StopAdvance ==
  ASSUME ScriptTypes, StopInv, step # "idle", file \in [Services -> Pids \cup {NoPid}],
         NEW gone \in Services, gone = Current,
         file'[gone] = NoPid, \A s \in Services : file'[s] # NoPid => file[s] # NoPid,
         op = "stop", Advance
  PROVE  StopInv'
<1>1. rest \in Seq(Services) /\ rest # <<>> /\ rest[1] = gone /\ Len(rest) \in Nat
  BY DEF ScriptTypes, Current
<1>2. step \in {"term", "grace", "remove"} /\ result = "none"
  BY DEF StopInv
<1>3. CASE Len(rest) > 1
  <2>1. rest' = Tail(rest) /\ step' = "term" /\ UNCHANGED <<op, result>>
    BY <1>2, <1>3, FirstStepTypes DEF Advance, Actions
  <2>2. ASSUME NEW s \in Services, file'[s] # NoPid
        PROVE  \E i \in 1 .. Len(rest') : rest'[i] = s
    <3>1. PICK i \in 1 .. Len(rest) : rest[i] = s
      BY <2>2 DEF StopInv
    <3>2. i # 1
      BY <1>1, <2>2, <3>1
    <3>3. i - 1 \in 1 .. Len(rest') /\ rest'[i - 1] = s
      BY <1>1, <1>3, <2>1, <3>1, <3>2, TailFacts
    <3> QED
      BY <3>3
  <2> QED
    BY <1>2, <2>1, <2>2 DEF StopInv
<1>4. CASE ~(Len(rest) > 1)
  <2>1. op' = "none" /\ result' = "stop"
    BY <1>2, <1>4 DEF Advance, Exit
  <2>2. ASSUME NEW s \in Services PROVE file'[s] = NoPid
    <3>1. SUFFICES ASSUME file'[s] # NoPid PROVE FALSE
      OBVIOUS
    <3>2. PICK i \in 1 .. Len(rest) : rest[i] = s
      BY <3>1 DEF StopInv
    <3>3. i = 1
      BY <1>1, <1>4, <3>2
    <3> QED
      BY <1>1, <3>1, <3>2, <3>3
  <2> QED
    BY <2>1, <2>2 DEF StopInv
<1> QED
  BY <1>3, <1>4

LEMMA StopStep == TypeInv /\ StopInv /\ [Next]_vars => StopInv'
<1> SUFFICES ASSUME TypeInv, StopInv, [Next]_vars PROVE StopInv'
  OBVIOUS
<1>1. ScriptTypes /\ ProcessTypes
  BY TypeParts DEF TypeInv
<1>2. ASSUME op # "stop", op # "none", Advance PROVE StopInv'
  BY <1>2 DEF Advance, Forgets, Exit, StopInv
<1>3. ASSUME Exit("failed") PROVE StopInv'
  BY <1>3 DEF Exit, StopInv
<1>4. ASSUME op # "stop", op # "none", UNCHANGED <<op, result>> PROVE StopInv'
  BY <1>4 DEF StopInv
<1>5. ASSUME UNCHANGED <<op, rest, result, file>>, step' = step \/ step' \in {"grace", "remove"}
      PROVE  StopInv'
  BY <1>5 DEF StopInv
<1>6. ASSUME Stopped, step \in {"term", "remove"}, file'[Current] = NoPid,
             \A s \in Services : file'[s] # NoPid => file[s] # NoPid
      PROVE  StopInv'
  <2>1. Current \in Services /\ op # "none"
    BY <1>1, <1>6 DEF ScriptTypes, Current
  <2>2. CASE op = "stop"
    BY <1>1, <1>6, <2>1, <2>2, StopAdvance DEF Stopped, ProcessTypes
  <2>3. CASE op # "stop"
    BY <1>4, <1>6, <2>1, <2>3 DEF Stopped
  <2> QED
    BY <2>2, <2>3
<1>7. CASE ScriptStep
  <2>1. CASE RefusesToStart \/ WaitFails \/ CurlFails
    BY <1>3, <2>1 DEF RefusesToStart, WaitFails, CurlFails
  <2>2. CASE (\E p \in Pids : Fork(p)) \/ WritePid
    <3>1. op # "stop" /\ op # "none"
      BY <1>1, <2>2 DEF Fork, WritePid, StopInv, ScriptTypes
    <3> QED
      BY <1>4, <2>2, <3>1 DEF Fork, WritePid
  <2>3. CASE WaitReady \/ ClearCaches \/ Forget \/ ClearL1
    <3>1. op # "stop" /\ op # "none"
      BY <1>1, <2>3 DEF WaitReady, ClearCaches, Forget, ClearL1, StopInv, ScriptTypes
    <3> QED
      BY <1>2, <2>3, <3>1 DEF WaitReady, ClearCaches, Forget, ClearL1
  <2>4. CASE NoPidFile
    BY <1>6, <2>4 DEF NoPidFile, processVars
  <2>5. CASE RemoveFile
    <3>1. Current \in Services /\ file' = [file EXCEPT ![Current] = NoPid]
      BY <1>1, <2>5 DEF RemoveFile, ScriptTypes, Current
    <3>2. file'[Current] = NoPid /\ \A s \in Services : file'[s] # NoPid => file[s] # NoPid
      BY <1>1, <3>1 DEF ProcessTypes
    <3> QED
      BY <1>6, <2>5, <3>2 DEF RemoveFile
  <2>6. CASE Term \/ Kill
    BY <1>5, <2>6 DEF Term, Kill
  <2> QED
    BY <1>7, <2>1, <2>2, <2>3, <2>4, <2>5, <2>6 DEF ScriptStep
<1>8. ASSUME NEW o \in Actions, Invoke(o) PROVE StopInv'
  <2>1. /\ op' = o /\ rest' = ServicesOf(o) /\ step' = FirstStep(o, ServicesOf(o)[1])
        /\ result' = "none"
    BY <1>8 DEF Invoke
  <2>2. o = "stop" => step' = "term" /\
          \A s \in Services : \E i \in 1 .. Len(rest') : rest'[i] = s
    BY <2>1, OrderFacts, FirstStepTypes
  <2> QED
    BY <2>1, <2>2 DEF StopInv
<1>9. CASE Dies \/ Reboot
  BY <1>3, <1>9 DEF Dies, Reboot
<1>10. CASE \E p \in Pids : ProcessStep(p)
  BY <1>5, <1>10 DEF ProcessStep, Bind, BindFails, Leaves, Crash, Stranger, scriptVars
<1>11. CASE \/ UNCHANGED vars
            \/ \E b \in Backends : RequestStarts(b) \/ RequestEnds(b) \/ Hears(b)
  BY <1>5, <1>11 DEF RequestStarts, RequestEnds, Hears, vars, scriptVars, processVars
<1> QED
  BY <1>7, <1>8, <1>9, <1>10, <1>11 DEF Next

\* When stop_all has returned, no pid file is left and nothing of the stack
\* can serve but what no pid file ever named (StopClears): what the files
\* named is gone with them, since they track all that runs.
THEOREM StopEndsAll == Spec => []StopClears
<1>1. TypeInv /\ PidInv /\ StopInv => StopClears
  <2> SUFFICES ASSUME TypeInv, PidInv, StopInv, result = "stop"
               PROVE  /\ \A s \in Services : file[s] = NoPid
                      /\ \A p \in Pids : Running(p) => p \in strays
    BY DEF StopClears, Running
  <2>1. \A s \in Services : file[s] = NoPid
    BY DEF StopInv
  <2>2. step = "idle"
    BY TypeParts DEF TypeInv, ScriptTypes, StopInv
  <2>3. ASSUME NEW p \in Pids, Running(p) PROVE p \in strays
    BY <2>1, <2>2, <2>3, StackAssumption DEF PidInv, Tracked, Running
  <2> QED
    BY <2>1, <2>3
<1> QED
  BY <1>1, TypeInvInit, TypeInvStep, PidInit, PidStep, StopInit, StopStep, PTL DEF Spec

----------------------------------------------------------------------------
(* The boundary of an experiment. *)

\* The i-th of the news q speaks of location l.
Tells(q, i, there, l) == q[i].there = there /\ l \in q[i].tiers

\* What a backend has stored and lost again, it tells of losing after it
\* tells of storing.
NewsInv ==
    \A b \in Backends : \A i \in DOMAIN news[b] : \A l \in External :
        Tells(news[b], i, TRUE, l) /\ l \notin holds[b] =>
            \E j \in DOMAIN news[b] : j > i /\ Tells(news[b], j, FALSE, l)

BusyInv == \A b \in Backends : busy[b] => b \in warm

LEMMA AppendFacts ==
  ASSUME NEW S, NEW q \in Seq(S), NEW e \in S
  PROVE  /\ Append(q, e) \in Seq(S) /\ DOMAIN Append(q, e) = 1 .. Len(q) + 1
         /\ DOMAIN q = 1 .. Len(q) /\ Len(q) \in Nat
         /\ \A i \in 1 .. Len(q) : Append(q, e)[i] = q[i]
         /\ Append(q, e)[Len(q) + 1] = e
OBVIOUS

\* The news of a backend that loses what it holds of the asked tiers: the old
\* ones, and behind them one that tells of every location that is lost.
LEMMA ClearedNews ==
  ASSUME CacheTypes, NEW b \in Backends, NEW asked, Cleared(b, asked)
  PROVE  /\ \A c \in Backends : c # b => news'[c] = news[c] /\ holds'[c] = holds[c]
         /\ holds'[b] \subseteq holds[b]
         /\ ~busy[b] => holds'[b] = holds[b] \ asked
         /\ DOMAIN news[b] \subseteq DOMAIN news'[b] /\ DOMAIN news'[b] \subseteq Nat
         /\ \A i \in DOMAIN news[b] : news'[b][i] = news[b][i]
         /\ \A i \in DOMAIN news'[b] \ DOMAIN news[b] : ~news'[b][i].there
         /\ \A l \in External : l \in holds[b] \ holds'[b] =>
              \E j \in DOMAIN news'[b] :
                 /\ Tells(news'[b], j, FALSE, l)
                 /\ \A i \in DOMAIN news[b] : j > i
<1>1. PICK kept \in Kept(b, asked) :
        /\ holds' = [holds EXCEPT ![b] = kept]
        /\ news' = [news EXCEPT ![b] = NewsOf(b, FALSE, holds[b] \ kept)]
  BY DEF Cleared
<1>2. kept \subseteq holds[b] /\ (~busy[b] => kept = holds[b] \ asked)
  BY DEF Kept
<1>3. /\ holds'[b] = kept /\ news'[b] = NewsOf(b, FALSE, holds[b] \ kept)
      /\ \A c \in Backends : c # b => news'[c] = news[c] /\ holds'[c] = holds[c]
  BY <1>1 DEF CacheTypes
<1>4. news[b] \in Seq(News)
  BY DEF CacheTypes
<1>5. CASE (holds[b] \ kept) \cap External = {}
  <2>1. news'[b] = news[b]
    BY <1>3, <1>5 DEF NewsOf
  <2>2. DOMAIN news[b] \subseteq Nat
    BY <1>4
  <2> QED
    BY <1>2, <1>3, <1>5, <2>1, <2>2
<1>6. CASE (holds[b] \ kept) \cap External # {}
  <2> DEFINE e == [there |-> FALSE, tiers |-> (holds[b] \ kept) \cap External]
  <2>1. e \in News
    BY DEF News
  <2>2. news'[b] = Append(news[b], e)
    BY <1>3, <1>6 DEF NewsOf
  <2>3. /\ DOMAIN news'[b] = 1 .. Len(news[b]) + 1 /\ DOMAIN news[b] = 1 .. Len(news[b])
        /\ Len(news[b]) \in Nat
        /\ \A i \in 1 .. Len(news[b]) : news'[b][i] = news[b][i]
        /\ news'[b][Len(news[b]) + 1] = e
    BY <1>4, <2>1, <2>2, AppendFacts
  <2>4. ASSUME NEW l \in External, l \in holds[b] \ holds'[b]
        PROVE  Tells(news'[b], Len(news[b]) + 1, FALSE, l)
    <3>1. l \in (holds[b] \ kept) \cap External
      BY <1>3, <2>4
    <3>2. e.there = FALSE /\ l \in e.tiers
      BY <3>1
    <3> QED
      BY <2>3, <3>2 DEF Tells
  <2> HIDE DEF e
  <2>5. /\ DOMAIN news[b] \subseteq DOMAIN news'[b] /\ DOMAIN news'[b] \subseteq Nat
        /\ \A i \in DOMAIN news[b] : Len(news[b]) + 1 > i
        /\ \A i \in DOMAIN news'[b] \ DOMAIN news[b] : i = Len(news[b]) + 1
        /\ Len(news[b]) + 1 \in DOMAIN news'[b]
    BY <2>3
  <2>6. ~e.there
    BY DEF e
  <2>7. \A i \in DOMAIN news'[b] \ DOMAIN news[b] : ~news'[b][i].there
    BY <2>3, <2>5, <2>6
  <2>8. \A i \in DOMAIN news[b] : news'[b][i] = news[b][i]
    BY <2>3
  <2>9. \A l \in External : l \in holds[b] \ holds'[b] =>
              \E j \in DOMAIN news'[b] :
                 /\ Tells(news'[b], j, FALSE, l)
                 /\ \A i \in DOMAIN news[b] : j > i
    BY <2>4, <2>5
  <2> QED
    BY <1>2, <1>3, <2>5, <2>7, <2>8, <2>9
<1> QED
  BY <1>5, <1>6

LEMMA ClearedInv ==
  ASSUME CacheTypes, NewsInv, NEW b \in Backends, NEW asked, Cleared(b, asked)
  PROVE  NewsInv'
<1> SUFFICES ASSUME NEW c \in Backends, NEW i \in DOMAIN news'[c], NEW l \in External,
                    Tells(news'[c], i, TRUE, l), l \notin holds'[c]
             PROVE  \E j \in DOMAIN news'[c] : j > i /\ Tells(news'[c], j, FALSE, l)
  BY DEF NewsInv
<1>1. CASE c # b
  <2>1. news'[c] = news[c] /\ holds'[c] = holds[c]
    BY <1>1, ClearedNews
  <2> QED
    BY <2>1 DEF NewsInv
<1>2. CASE c = b
  <2>1. i \in DOMAIN news[b] /\ Tells(news[b], i, TRUE, l)
    <3>1. news'[b][i].there = TRUE /\ l \in news'[b][i].tiers
      BY <1>2 DEF Tells
    <3>2. /\ \A k \in DOMAIN news[b] : news'[b][k] = news[b][k]
          /\ \A k \in DOMAIN news'[b] \ DOMAIN news[b] : ~news'[b][k].there
      BY ClearedNews
    <3> QED
      BY <1>2, <3>1, <3>2 DEF Tells
  <2>2. CASE l \in holds[b]
    BY <1>2, <2>1, <2>2, ClearedNews
  <2>3. CASE l \notin holds[b]
    <3>1. PICK j \in DOMAIN news[b] : j > i /\ Tells(news[b], j, FALSE, l)
      BY <2>1, <2>3 DEF NewsInv
    <3>2. j \in DOMAIN news'[b] /\ news'[b][j] = news[b][j]
      BY <3>1, ClearedNews
    <3> QED
      BY <1>2, <3>1, <3>2 DEF Tells
  <2> QED
    BY <2>2, <2>3
<1> QED
  BY <1>1, <1>2

LEMMA LosesFacts ==
  ASSUME CacheTypes, NEW lost, Loses(lost), NEW b \in Backends
  PROVE  /\ busy'[b] => busy[b]
         /\ \/ holds'[b] = holds[b] /\ news'[b] = news[b]
            \/ holds'[b] \subseteq holds[b] /\ news'[b] = <<>> /\ (news[b] # <<>> => b \in hushed')
         /\ hushed \subseteq hushed'
BY DEF CacheTypes, Loses

LEMMA HearsFacts ==
  ASSUME CacheTypes, NEW b \in Backends, Hears(b)
  PROVE  /\ news[b] # <<>> /\ DOMAIN news'[b] \subseteq Nat
         /\ \A i \in DOMAIN news'[b] : i + 1 \in DOMAIN news[b] /\ news'[b][i] = news[b][i + 1]
         /\ \A i \in DOMAIN news[b] : i \in Nat /\ (i # 1 => i - 1 \in DOMAIN news'[b])
         /\ view'[b] = IF news[b][1].there THEN view[b] \cup news[b][1].tiers
                       ELSE view[b] \ news[b][1].tiers
         /\ \A c \in Backends : c # b => news'[c] = news[c] /\ view'[c] = view[c]
         /\ holds' = holds
<1>1. news[b] \in Seq(News) /\ news[b] # <<>>
  BY DEF Hears, CacheTypes
<1>2. /\ Tail(news[b]) \in Seq(News) /\ Len(Tail(news[b])) = Len(news[b]) - 1
      /\ \A i \in 1 .. Len(Tail(news[b])) : Tail(news[b])[i] = news[b][i + 1]
      /\ Len(news[b]) \in Nat \ {0} /\ Head(news[b]) = news[b][1]
      /\ DOMAIN news[b] = 1 .. Len(news[b])
      /\ DOMAIN Tail(news[b]) = 1 .. Len(news[b]) - 1
  BY <1>1, HeadTailProperties, EmptySeq
<1>3. /\ news'[b] = Tail(news[b])
      /\ \A c \in Backends : c # b => news'[c] = news[c] /\ view'[c] = view[c]
      /\ view'[b] = IF Head(news[b]).there THEN view[b] \cup Head(news[b]).tiers
                    ELSE view[b] \ Head(news[b]).tiers
      /\ holds' = holds
  BY DEF Hears, CacheTypes
<1> QED
  BY <1>1, <1>2, <1>3

LEMMA NewsHears ==
  ASSUME CacheTypes, NewsInv, NEW b \in Backends, Hears(b)
  PROVE  NewsInv'
<1> SUFFICES ASSUME NEW c \in Backends, NEW i \in DOMAIN news'[c], NEW l \in External,
                    Tells(news'[c], i, TRUE, l), l \notin holds'[c]
             PROVE  \E j \in DOMAIN news'[c] : j > i /\ Tells(news'[c], j, FALSE, l)
  BY DEF NewsInv
<1>1. CASE c # b
  BY <1>1, HearsFacts DEF NewsInv
<1>2. CASE c = b
  <2>1. /\ i + 1 \in DOMAIN news[b] /\ Tells(news[b], i + 1, TRUE, l) /\ l \notin holds[b]
        /\ i \in Nat
    BY <1>2, HearsFacts DEF Tells
  <2>2. PICK j \in DOMAIN news[b] : j > i + 1 /\ Tells(news[b], j, FALSE, l)
    BY <2>1 DEF NewsInv
  <2>3. j \in Nat /\ j # 1 /\ j - 1 > i /\ j - 1 + 1 = j
    <3>1. i \in Nat /\ j \in Nat /\ j > i + 1
      BY <2>1, <2>2, HearsFacts
    <3> QED
      BY <3>1
  <2>5. j - 1 \in DOMAIN news'[b]
    BY <2>2, <2>3, HearsFacts
  <2>6. news'[b][j - 1] = news[b][j]
    BY <2>3, <2>5, HearsFacts
  <2>4. Tells(news'[b], j - 1, FALSE, l)
    BY <2>2, <2>6 DEF Tells
  <2> QED
    BY <1>2, <2>3, <2>4, <2>5
<1> QED
  BY <1>1, <1>2

LEMMA NewsEnds ==
  ASSUME CacheTypes, NewsInv, NEW b \in Backends, RequestEnds(b)
  PROVE  NewsInv'
<1>1. /\ holds'[b] = Tiers
      /\ \A c \in Backends : c # b => news'[c] = news[c] /\ holds'[c] = holds[c]
  BY DEF RequestEnds, CacheTypes
<1>2. External \subseteq Tiers
  BY DEF Tiers
<1> QED
  BY <1>1, <1>2 DEF NewsInv

LEMMA NewsLoses ==
  ASSUME CacheTypes, NewsInv, NEW lost, Loses(lost)
  PROVE  NewsInv'
<1> SUFFICES ASSUME NEW c \in Backends, NEW i \in DOMAIN news'[c], NEW l \in External,
                    Tells(news'[c], i, TRUE, l), l \notin holds'[c]
             PROVE  \E j \in DOMAIN news'[c] : j > i /\ Tells(news'[c], j, FALSE, l)
  BY DEF NewsInv
<1>1. news'[c] # <<>>
  OBVIOUS
<1>2. news'[c] = news[c] /\ holds'[c] = holds[c]
  BY <1>1, LosesFacts
<1> QED
  BY <1>2 DEF NewsInv

LEMMA NewsInit == Init => NewsInv /\ BusyInv
BY DEF Init, NewsInv, BusyInv

LEMMA NewsStep == TypeInv /\ NewsInv /\ [Next]_vars => NewsInv'
<1> SUFFICES ASSUME TypeInv, NewsInv, [Next]_vars PROVE NewsInv'
  OBVIOUS
<1>1. ScriptTypes /\ CacheTypes /\ ClearInv
  BY TypeParts DEF TypeInv
<1>2. CASE UNCHANGED <<holds, news>>
  BY <1>2 DEF NewsInv
<1>3. CASE ScriptStep
  <2>1. step \in Clears => Current \in Backends
    BY <1>1 DEF ScriptTypes, ClearInv, Current
  <2>2. CASE ClearCaches \/ Forget \/ ClearL1
    BY <1>1, <2>1, <2>2, ClearedInv DEF ClearCaches, Forget, ClearL1, Clears
  <2>3. CASE Kill
    BY <1>1, <2>3, NewsLoses DEF Kill
  <2>4. CASE \/ RefusesToStart \/ (\E p \in Pids : Fork(p)) \/ WritePid \/ WaitReady \/ WaitFails
             \/ NoPidFile \/ Term \/ RemoveFile \/ CurlFails
    BY <1>2, <2>4 DEF RefusesToStart, Fork, WritePid, WaitReady, WaitFails, NoPidFile, Term,
         RemoveFile, CurlFails, cacheVars
  <2> QED
    BY <1>3, <2>2, <2>3, <2>4 DEF ScriptStep
<1>4. ASSUME NEW p \in Pids, ProcessStep(p) PROVE NewsInv'
  <2>1. CASE Bind(p) \/ BindFails(p) \/ Stranger(p)
    BY <1>2, <2>1 DEF Bind, BindFails, Stranger, cacheVars
  <2>2. CASE Leaves(p) \/ Crash(p)
    BY <1>1, <2>2, NewsLoses DEF Leaves, Crash
  <2> QED
    BY <1>4, <2>1, <2>2 DEF ProcessStep
<1>5. ASSUME NEW b \in Backends, RequestStarts(b) \/ RequestEnds(b) \/ Hears(b) PROVE NewsInv'
  BY <1>1, <1>2, <1>5, NewsEnds, NewsHears DEF RequestStarts
<1>6. CASE UNCHANGED vars \/ Dies \/ (\E o \in Actions : Invoke(o))
  BY <1>2, <1>6 DEF vars, cacheVars, Dies, Invoke
<1>7. CASE Reboot
  <2>1. \A b \in Backends : DOMAIN news'[b] = {}
    BY <1>7 DEF Reboot
  <2> QED
    BY <2>1 DEF NewsInv
<1> QED
  BY <1>3, <1>4, <1>5, <1>6, <1>7 DEF Next

LEMMA BusyStep == TypeInv /\ BusyInv /\ [Next]_vars => BusyInv'
<1> SUFFICES ASSUME TypeInv, BusyInv, [Next]_vars PROVE BusyInv'
  OBVIOUS
<1>1. CacheTypes
  BY TypeParts DEF TypeInv
<1>2. CASE UNCHANGED <<busy, warm>>
  BY <1>2 DEF BusyInv
<1>3. ASSUME NEW lost, Loses(lost), UNCHANGED warm PROVE BusyInv'
  BY <1>1, <1>3, LosesFacts DEF BusyInv
<1>4. CASE ScriptStep
  <2>1. CASE ClearCaches \/ ClearL1
    BY <1>1, <2>1 DEF ClearCaches, ClearL1, MarkCleared, BusyInv
  <2>2. CASE Kill
    BY <1>3, <2>2 DEF Kill
  <2>3. CASE \/ RefusesToStart \/ (\E p \in Pids : Fork(p)) \/ WritePid \/ WaitReady \/ WaitFails
             \/ NoPidFile \/ Term \/ RemoveFile \/ CurlFails \/ Forget
    BY <1>2, <2>3 DEF RefusesToStart, Fork, WritePid, WaitReady, WaitFails, NoPidFile, Term,
         RemoveFile, CurlFails, Forget, cacheVars
  <2> QED
    BY <1>4, <2>1, <2>2, <2>3 DEF ScriptStep
<1>5. ASSUME NEW p \in Pids, ProcessStep(p) PROVE BusyInv'
  BY <1>2, <1>3, <1>5 DEF ProcessStep, Bind, BindFails, Stranger, Leaves, Crash, cacheVars
<1>6. ASSUME NEW b \in Backends, RequestStarts(b) \/ RequestEnds(b) \/ Hears(b) PROVE BusyInv'
  BY <1>1, <1>6 DEF RequestStarts, RequestEnds, Hears, CacheTypes, BusyInv
<1>7. CASE UNCHANGED vars \/ Dies \/ (\E o \in Actions : Invoke(o))
  BY <1>2, <1>7 DEF vars, cacheVars, Dies, Invoke
<1>8. CASE Reboot
  BY <1>8 DEF Reboot, BusyInv
<1> QED
  BY <1>4, <1>5, <1>6, <1>7, <1>8 DEF Next

\* Location l of backend b is settled: nothing is held there, and if the
\* controller names it, or will, stores were not told when it forgot the place.
Settled(b, l) ==
    /\ l \notin holds[b]
    /\ l \in view[b] =>
        /\ b \in unheard
        /\ b \in hushed \/ \E j \in DOMAIN news[b] : Tells(news[b], j, FALSE, l)
    /\ (\E j \in DOMAIN news[b] : Tells(news[b], j, TRUE, l)) => b \in unheard

\* The action that clears a backend that is not busy, and makes the controller
\* forget it, settles it.
LEMMA SettledForgotten ==
  ASSUME CacheTypes, NEW b \in Backends, NEW asked, Cleared(b, asked), Forgotten(b, asked),
         ~busy[b], NEW l \in asked
  PROVE  Settled(b, l)'
<1>1. l \notin holds'[b]
  <2>1. ~busy[b] => holds'[b] = holds[b] \ asked
    BY ClearedNews
  <2> QED
    BY <2>1
<1>2. l \notin view'[b]
  BY DEF Forgotten, CacheTypes
<1>3. ASSUME NEW j \in DOMAIN news'[b], Tells(news'[b], j, TRUE, l) PROVE b \in unheard'
  <2>1. j \in DOMAIN news[b] /\ news'[b][j] = news[b][j]
    BY <1>3, ClearedNews DEF Tells
  <2> QED
    BY <1>3, <2>1 DEF Forgotten, Tells
<1> QED
  BY <1>1, <1>2, <1>3 DEF Settled

\* It stays so while the controller catches up and while backends end.
LEMMA SettledHears ==
  ASSUME CacheTypes, NewsInv, NEW c \in Backends, Hears(c),
         NEW b \in Backends, NEW l \in External, Settled(b, l)
  PROVE  Settled(b, l)'
<1>1. CASE b # c
  BY <1>1, HearsFacts DEF Settled, Hears
<1>2. CASE b = c
  <2>1. /\ UNCHANGED <<unheard, hushed>> /\ l \notin holds'[b]
        /\ l \notin holds[b]
    BY <1>2 DEF Hears, Settled
  <2>2. 1 \in DOMAIN news[b]
    <3>1. news[b] \in Seq(News) /\ news[b] # <<>>
      BY <1>2, HearsFacts DEF CacheTypes
    <3>2. Len(news[b]) \in Nat \ {0}
      BY <3>1, EmptySeq
    <3> QED
      BY <3>1, <3>2
  <2>3. ASSUME NEW j \in DOMAIN news[b], j # 1, Tells(news[b], j, FALSE, l)
        PROVE  \E k \in DOMAIN news'[b] : Tells(news'[b], k, FALSE, l)
    <3>1. j \in Nat /\ j - 1 \in DOMAIN news'[b]
      BY <1>2, <2>3, HearsFacts
    <3>2. news'[b][j - 1] = news[b][j - 1 + 1]
      BY <1>2, <3>1, HearsFacts
    <3>3. j - 1 + 1 = j
      BY <3>1
    <3> QED
      BY <2>3, <3>1, <3>2, <3>3 DEF Tells
  <2>4. ASSUME l \in view'[b]
        PROVE  /\ b \in unheard
               /\ b \in hushed \/ \E k \in DOMAIN news'[b] : Tells(news'[b], k, FALSE, l)
    <3>1. CASE news[b][1].there /\ l \in news[b][1].tiers
      <4>1. Tells(news[b], 1, TRUE, l)
        <5>1. news[b][1] \in News
          BY <2>2 DEF CacheTypes
        <5> QED
          BY <3>1, <5>1 DEF Tells, News
      <4>2. PICK j \in DOMAIN news[b] : j > 1 /\ Tells(news[b], j, FALSE, l)
        BY <2>1, <2>2, <4>1 DEF NewsInv
      <4>3. j # 1
        <5>1. j \in Nat
          BY <1>2, <4>2, HearsFacts
        <5> QED
          BY <4>2, <5>1
      <4> QED
        BY <2>2, <2>3, <4>1, <4>2, <4>3 DEF Settled
    <3>2. CASE ~(news[b][1].there /\ l \in news[b][1].tiers)
      <4>1. /\ l \in view[b]
            /\ ~news[b][1].there => l \notin news[b][1].tiers
        BY <1>2, <2>4, <3>2, HearsFacts
      <4>2. ~Tells(news[b], 1, FALSE, l)
        BY <4>1 DEF Tells
      <4> QED
        BY <2>3, <4>1, <4>2 DEF Settled
    <3> QED
      BY <3>1, <3>2
  <2>5. ASSUME NEW j \in DOMAIN news'[b], Tells(news'[b], j, TRUE, l) PROVE b \in unheard
    <3>1. j + 1 \in DOMAIN news[b] /\ news'[b][j] = news[b][j + 1]
      BY <1>2, HearsFacts
    <3> QED
      BY <2>5, <3>1 DEF Settled, Tells
  <2> QED
    BY <2>1, <2>4, <2>5 DEF Settled
<1> QED
  BY <1>1, <1>2

LEMMA SettledLoses ==
  ASSUME CacheTypes, NEW lost, Loses(lost), UNCHANGED <<view, unheard>>,
         NEW b \in Backends, NEW l \in External, Settled(b, l)
  PROVE  Settled(b, l)'
<1>1. CASE holds'[b] = holds[b] /\ news'[b] = news[b]
  BY <1>1, LosesFacts DEF Settled
<1>2. CASE holds'[b] \subseteq holds[b] /\ news'[b] = <<>> /\ (news[b] # <<>> => b \in hushed')
  <2>1. DOMAIN news'[b] = {} /\ l \notin holds'[b] /\ hushed \subseteq hushed'
    BY <1>2, LosesFacts DEF Settled
  <2>2. (\E j \in DOMAIN news[b] : Tells(news[b], j, FALSE, l)) => news[b] # <<>>
    OBVIOUS
  <2> QED
    BY <1>2, <2>1, <2>2 DEF Settled
<1> QED
  BY <1>1, <1>2, LosesFacts

Done(b) == \A i \in 1 .. Len(rest) : rest[i] # b
AllSettled(b) == holds[b] = {} /\ \A l \in External : Settled(b, l)

\* How far the clearing is: what is off the list is clear, and settled once
\* the controller was asked; a backend with a request since is not spoken of.
ColdInv ==
    /\ op # "none" => result = "none"
    /\ op = "reset" => step \in {"clear caches", "forget"}
    /\ op = "clear-l1" => step = "clear l1"
    /\ \A b \in Backends \ warm :
        /\ op = "reset" /\ (step = "forget" \/ Done(b)) => holds[b] = {}
        /\ op = "reset" /\ step = "forget" /\ Done(b) => \A l \in External : Settled(b, l)
        /\ op = "clear-l1" /\ Done(b) => Settled(b, "l1")
        /\ result = "reset" => AllSettled(b)
        /\ result = "clear-l1" => Settled(b, "l1")

LEMMA ColdInit == Init => ColdInv
BY DEF Init, ColdInv

\* A step outside of the script: what it does to a backend is enough.
LEMMA ColdOutside ==
  ASSUME ColdInv, UNCHANGED <<op, step, rest, result>>,
         \A b \in Backends \ warm' :
            /\ b \notin warm /\ holds'[b] \subseteq holds[b]
            /\ \A l \in External : Settled(b, l) => Settled(b, l)'
  PROVE  ColdInv'
BY DEF ColdInv, Done, AllSettled, External

\* A step of the script that clears nothing.
LEMMA ColdElsewhere ==
  ASSUME ColdInv, op' \notin {"reset", "clear-l1"}, result' \notin {"reset", "clear-l1"},
         op' # "none" => result' = "none"
  PROVE  ColdInv'
BY DEF ColdInv

\* The backend that was cleared leaves the list.
LEMMA DoneFacts ==
  ASSUME ScriptTypes, step # "idle", NEW b, b # Current,
         \/ Len(rest) > 1 /\ rest' = Tail(rest) /\ Done(b)'
         \/ ~(Len(rest) > 1)
  PROVE  Done(b)
<1>1. rest \in Seq(Services) /\ rest # <<>> /\ rest[1] = Current /\ Len(rest) \in Nat
  BY DEF ScriptTypes, Current
<1> SUFFICES ASSUME NEW i \in 1 .. Len(rest) PROVE rest[i] # b
  BY DEF Done
<1>2. CASE i = 1
  BY <1>1, <1>2
<1>3. CASE i # 1
  <2>1. Len(rest) > 1 /\ rest' = Tail(rest) /\ Done(b)' /\ i - 1 \in 1 .. Len(rest) - 1
    BY <1>1, <1>3
  <2>2. Len(Tail(rest)) = Len(rest) - 1 /\ Tail(rest)[i - 1] = rest[i - 1 + 1]
    BY <1>1, <2>1, TailFacts
  <2>3. rest'[i - 1] # b
    BY <2>1, <2>2 DEF Done
  <2> QED
    BY <1>1, <2>1, <2>2, <2>3
<1> QED
  BY <1>2, <1>3

LEMMA NoneDone ==
  ASSUME NEW b \in Backends, rest' = StartOrder
  PROVE  ~Done(b)'
BY StackAssumption DEF Done

\* The caches of a backend are cleared.
LEMMA ColdCaches ==
  ASSUME ScriptTypes, CacheTypes, ClearInv, BusyInv, ColdInv, ClearCaches, Current \in Backends
  PROVE  ColdInv'
<1>1. /\ step = "clear caches" /\ op = "reset" /\ result = "none" /\ step # "idle"
      /\ Cleared(Current, Tiers) /\ MarkCleared(Current) /\ Advance /\ UNCHANGED busy
  BY DEF ClearCaches, ClearInv, Clears, ColdInv
<1>2. ASSUME NEW b \in Backends \ warm',
             \/ Len(rest) > 1 /\ rest' = Tail(rest) /\ Done(b)'
             \/ ~(Len(rest) > 1)
      PROVE  holds'[b] = {}
  <2>1. CASE b = Current
    <3>1. ~busy[b]
      BY <1>1, <2>1 DEF MarkCleared
    <3>2. holds'[b] = holds[b] \ Tiers
      BY <1>1, <2>1, <3>1, ClearedNews
    <3>3. holds[b] \subseteq Tiers
      BY DEF CacheTypes
    <3> QED
      BY <3>2, <3>3
  <2>2. CASE b # Current
    <3>1. b \notin warm
      BY <1>1, <2>2 DEF MarkCleared
    <3>2. Done(b)
      BY <1>1, <1>2, <2>2, DoneFacts
    <3>3. holds[b] = {}
      BY <1>1, <3>1, <3>2 DEF ColdInv
    <3>4. holds'[b] = holds[b]
      BY <1>1, <2>2, ClearedNews
    <3> QED
      BY <3>3, <3>4
  <2> QED
    BY <2>1, <2>2
<1>3. CASE Len(rest) > 1
  <2>1. /\ rest' = Tail(rest) /\ op' = "reset" /\ result' = "none"
        /\ step' = FirstStep("reset", rest[2])
    BY <1>1, <1>3 DEF Advance
  <2>2. step' = "clear caches"
    BY <2>1 DEF FirstStep
  <2> QED
    BY <1>2, <1>3, <2>1, <2>2 DEF ColdInv
<1>4. CASE ~(Len(rest) > 1)
  <2>1. rest' = StartOrder /\ op' = "reset" /\ result' = "none" /\ step' = "forget"
    BY <1>1, <1>4 DEF Advance, Forgets
  <2>2. \A b \in Backends : ~Done(b)'
    BY <2>1, NoneDone
  <2> QED
    BY <1>2, <1>4, <2>1, <2>2 DEF ColdInv
<1> QED
  BY <1>3, <1>4

LEMMA SettledElsewhere ==
  ASSUME CacheTypes, NEW c \in Backends, NEW asked, Cleared(c, asked), Forgotten(c, asked),
         NEW b \in Backends, b # c, NEW l, Settled(b, l)
  PROVE  Settled(b, l)'
<1>1. news'[b] = news[b] /\ holds'[b] = holds[b]
  BY ClearedNews
<1>2. /\ view'[b] = view[b] /\ (b \in unheard <=> b \in unheard')
      /\ (b \in hushed <=> b \in hushed')
  BY DEF Forgotten, CacheTypes
<1> QED
  BY <1>1, <1>2 DEF Settled

\* The controller forgets the places of a backend.
LEMMA ColdForget ==
  ASSUME ScriptTypes, CacheTypes, ClearInv, BusyInv, ColdInv, Forget, Current \in Backends
  PROVE  ColdInv'
<1>1. /\ step = "forget" /\ op = "reset" /\ result = "none" /\ step # "idle"
      /\ Cleared(Current, External) /\ Forgotten(Current, External) /\ Advance
      /\ UNCHANGED <<busy, warm>>
  BY DEF Forget, ClearInv, Clears, ColdInv
<1>2. ASSUME NEW b \in Backends \ warm PROVE holds'[b] = {}
  <2>1. holds[b] = {}
    BY <1>1 DEF ColdInv
  <2>2. holds'[b] \subseteq holds[b]
    BY <1>1, ClearedNews
  <2> QED
    BY <2>1, <2>2
<1>3. ASSUME NEW b \in Backends \ warm,
             \/ Len(rest) > 1 /\ rest' = Tail(rest) /\ Done(b)'
             \/ ~(Len(rest) > 1),
             NEW l \in External
      PROVE  Settled(b, l)'
  <2>1. CASE b = Current
    <3>1. ~busy[b]
      BY DEF BusyInv
    <3> QED
      BY <1>1, <2>1, <3>1, SettledForgotten
  <2>2. CASE b # Current
    <3>1. Done(b)
      BY <1>1, <1>3, <2>2, DoneFacts
    <3>2. Settled(b, l)
      BY <1>1, <3>1 DEF ColdInv
    <3> QED
      BY <1>1, <2>2, <3>2, SettledElsewhere
  <2> QED
    BY <2>1, <2>2
<1>4. CASE Len(rest) > 1
  <2>1. rest' = Tail(rest) /\ op' = "reset" /\ result' = "none" /\ step' = "forget"
    BY <1>1, <1>4 DEF Advance
  <2> QED
    BY <1>1, <1>2, <1>3, <1>4, <2>1 DEF ColdInv
<1>5. CASE ~(Len(rest) > 1)
  <2>1. op' = "none" /\ result' = "reset"
    BY <1>1, <1>5 DEF Advance, Exit
  <2>2. \A b \in Backends \ warm' : AllSettled(b)'
    BY <1>1, <1>2, <1>3, <1>5 DEF AllSettled
  <2> QED
    BY <2>1, <2>2 DEF ColdInv
<1> QED
  BY <1>4, <1>5

\* clear_l1 does both to a backend at once.
LEMMA ColdL1 ==
  ASSUME ScriptTypes, CacheTypes, ClearInv, BusyInv, ColdInv, ClearL1, Current \in Backends
  PROVE  ColdInv'
<1>1. /\ step = "clear l1" /\ op = "clear-l1" /\ result = "none" /\ step # "idle"
      /\ Cleared(Current, {"l1"}) /\ Forgotten(Current, {"l1"}) /\ MarkCleared(Current)
      /\ Advance /\ UNCHANGED busy
  BY DEF ClearL1, ClearInv, Clears, ColdInv
<1>2. ASSUME NEW b \in Backends \ warm',
             \/ Len(rest) > 1 /\ rest' = Tail(rest) /\ Done(b)'
             \/ ~(Len(rest) > 1)
      PROVE  Settled(b, "l1")'
  <2>1. CASE b = Current
    <3>1. ~busy[b]
      BY <1>1, <2>1 DEF MarkCleared
    <3> QED
      BY <1>1, <2>1, <3>1, SettledForgotten
  <2>2. CASE b # Current
    <3>1. b \notin warm
      BY <1>1, <2>2 DEF MarkCleared
    <3>2. Done(b)
      BY <1>1, <1>2, <2>2, DoneFacts
    <3>3. Settled(b, "l1")
      BY <1>1, <3>1, <3>2 DEF ColdInv
    <3> QED
      BY <1>1, <2>2, <3>3, SettledElsewhere
  <2> QED
    BY <2>1, <2>2
<1>3. CASE Len(rest) > 1
  <2>1. /\ rest' = Tail(rest) /\ op' = "clear-l1" /\ result' = "none"
        /\ step' = FirstStep("clear-l1", rest[2])
    BY <1>1, <1>3 DEF Advance
  <2>2. step' = "clear l1"
    BY <2>1 DEF FirstStep
  <2> QED
    BY <1>2, <1>3, <2>1, <2>2 DEF ColdInv
<1>4. CASE ~(Len(rest) > 1)
  <2>1. op' = "none" /\ result' = "clear-l1"
    BY <1>1, <1>4 DEF Advance, Exit
  <2> QED
    BY <1>2, <1>4, <2>1 DEF ColdInv
<1> QED
  BY <1>3, <1>4

LEMMA ColdStep == TypeInv /\ NewsInv /\ BusyInv /\ ColdInv /\ [Next]_vars => ColdInv'
<1> SUFFICES ASSUME TypeInv, NewsInv, BusyInv, ColdInv, [Next]_vars PROVE ColdInv'
  OBVIOUS
<1>1. ScriptTypes /\ CacheTypes /\ ClearInv
  BY TypeParts DEF TypeInv
<1>2. ASSUME Exit("failed") PROVE ColdInv'
  BY <1>2, ColdElsewhere DEF Exit
<1>3. CASE ScriptStep
  <2>1. step \in Clears => Current \in Backends
    BY <1>1 DEF ScriptTypes, ClearInv, Current
  <2>2. CASE ClearCaches \/ Forget \/ ClearL1
    BY <1>1, <2>1, <2>2, ColdCaches, ColdForget, ColdL1
       DEF ClearCaches, Forget, ClearL1, Clears
  <2>3. CASE RefusesToStart \/ WaitFails \/ CurlFails
    BY <1>2, <2>3 DEF RefusesToStart, WaitFails, CurlFails
  <2>4. CASE \/ (\E p \in Pids : Fork(p)) \/ WritePid \/ WaitReady
             \/ NoPidFile \/ Term \/ Kill \/ RemoveFile
    <3>1. step \notin Clears /\ step # "idle"
      BY <2>4 DEF Fork, WritePid, WaitReady, NoPidFile, Term, Kill, RemoveFile, Clears
    <3>2. op \notin {"reset", "clear-l1"} /\ op # "none" /\ result = "none"
      BY <1>1, <3>1 DEF ClearInv, ScriptTypes, ColdInv
    <3>3. UNCHANGED <<op, result>> \/ Advance \/ Stopped
      BY <2>4 DEF Fork, WritePid, WaitReady, NoPidFile, Term, Kill, RemoveFile
    <3>4. /\ op' \in {op, "none"} /\ result' \in {result, op}
          /\ op' # "none" => result' = "none"
      BY <3>1, <3>2, <3>3 DEF Advance, Stopped, Forgets, Exit, Clears
    <3> QED
      BY <3>2, <3>4, ColdElsewhere
  <2> QED
    BY <1>3, <2>2, <2>3, <2>4 DEF ScriptStep
<1>4. ASSUME NEW o \in Actions, Invoke(o) PROVE ColdInv'
  <2>1. /\ op' = o /\ result' = "none" /\ rest' = ServicesOf(o)
        /\ step' = FirstStep(o, ServicesOf(o)[1])
    BY <1>4 DEF Invoke
  <2>2. CASE o \in {"reset", "clear-l1"}
    <3>1. rest' = StartOrder
      BY <2>1, <2>2 DEF ServicesOf
    <3>2. \A b \in Backends : ~Done(b)'
      BY <3>1, NoneDone
    <3>3. /\ o = "reset" => step' = "clear caches"
          /\ o = "clear-l1" => step' = "clear l1"
      BY <2>1, <2>2 DEF FirstStep
    <3> QED
      BY <2>1, <3>2, <3>3 DEF ColdInv
  <2>3. CASE o \notin {"reset", "clear-l1"}
    BY <2>1, <2>3, ColdElsewhere
  <2> QED
    BY <2>2, <2>3
<1>5. ASSUME UNCHANGED <<op, step, rest, result, busy, holds, news, view, unheard, hushed>>,
             warm \subseteq warm'
      PROVE  ColdInv'
  BY <1>5 DEF ColdInv, Done, AllSettled, Settled
<1>6. ASSUME NEW lost, Loses(lost), UNCHANGED <<op, step, rest, result, view, unheard, warm>>
      PROVE  ColdInv'
  <2>1. \A b \in Backends : holds'[b] \subseteq holds[b]
    BY <1>1, <1>6, LosesFacts
  <2>2. \A b \in Backends : \A l \in External : Settled(b, l) => Settled(b, l)'
    BY <1>1, <1>6, SettledLoses
  <2> QED
    BY <1>6, <2>1, <2>2, ColdOutside
<1>7. ASSUME NEW p \in Pids, ProcessStep(p) PROVE ColdInv'
  BY <1>5, <1>6, <1>7
     DEF ProcessStep, Bind, BindFails, Stranger, Leaves, Crash, cacheVars, scriptVars
<1>8. ASSUME NEW c \in Backends, RequestStarts(c) \/ RequestEnds(c) \/ Hears(c) PROVE ColdInv'
  <2>1. UNCHANGED <<op, step, rest, result>> /\ warm \subseteq warm'
    BY <1>8 DEF RequestStarts, RequestEnds, Hears, scriptVars
  <2>2. ASSUME NEW b \in Backends \ warm', NEW l \in External
        PROVE  holds'[b] \subseteq holds[b] /\ (Settled(b, l) => Settled(b, l)')
    <3>1. CASE RequestStarts(c)
      BY <3>1 DEF RequestStarts, Settled
    <3>2. CASE RequestEnds(c)
      <4>1. b # c
        BY <2>1, <3>2 DEF RequestEnds, BusyInv
      <4>2. holds'[b] = holds[b] /\ news'[b] = news[b] /\ UNCHANGED <<view, unheard, hushed>>
        BY <1>1, <3>2, <4>1 DEF RequestEnds, CacheTypes
      <4> QED
        BY <4>2 DEF Settled
    <3>3. CASE Hears(c)
      BY <1>1, <3>3, SettledHears, HearsFacts
    <3> QED
      BY <1>8, <3>1, <3>2, <3>3
  <2> QED
    BY <2>1, <2>2, ColdOutside DEF External
<1>9. CASE Dies \/ Reboot
  BY <1>2, <1>9 DEF Dies, Reboot
<1>10. CASE UNCHANGED vars
  BY <1>5, <1>10 DEF vars, scriptVars, cacheVars
<1> QED
  BY <1>3, <1>4, <1>7, <1>8, <1>9, <1>10 DEF Next

\* After a reset, or a clear-l1, that returned, a backend without a request
\* since is cold, and a place of its that the controller still names, or names
\* again, is one of stores that it had not heard of in time (BoundaryIsCold).
THEOREM BoundaryStaysCold == Spec => []BoundaryIsCold
<1>1. TypeInv /\ ColdInv => BoundaryIsCold
  <2> SUFFICES ASSUME TypeInv, ColdInv, NEW b \in Backends \ warm
               PROVE  /\ result = "reset" =>
                          /\ holds[b] = {}
                          /\ view[b] = {} \/ (b \in unheard /\ (news[b] # <<>> \/ b \in hushed))
                      /\ result = "clear-l1" =>
                          /\ "l1" \notin holds[b]
                          /\ "l1" \notin view[b]
                               \/ (b \in unheard /\ (news[b] # <<>> \/ b \in hushed))
    BY DEF BoundaryIsCold
  <2>1. ASSUME NEW l, Settled(b, l), l \in view[b]
        PROVE  b \in unheard /\ (news[b] # <<>> \/ b \in hushed)
    <3>1. (\E j \in DOMAIN news[b] : Tells(news[b], j, FALSE, l)) => news[b] # <<>>
      OBVIOUS
    <3> QED
      BY <2>1, <3>1 DEF Settled
  <2>2. ASSUME result = "reset"
        PROVE  /\ holds[b] = {}
               /\ view[b] = {} \/ (b \in unheard /\ (news[b] # <<>> \/ b \in hushed))
    <3>1. holds[b] = {} /\ \A l \in External : Settled(b, l)
      BY <2>2 DEF ColdInv, AllSettled
    <3>2. view[b] \subseteq External
      BY TypeParts DEF TypeInv, CacheTypes
    <3> QED
      BY <2>1, <3>1, <3>2
  <2>3. ASSUME result = "clear-l1"
        PROVE  /\ "l1" \notin holds[b]
               /\ "l1" \notin view[b] \/ (b \in unheard /\ (news[b] # <<>> \/ b \in hushed))
    <3>1. Settled(b, "l1") /\ "l1" \notin holds[b]
      BY <2>3 DEF ColdInv, Settled
    <3> QED
      BY <2>1, <3>1
  <2> QED
    BY <2>2, <2>3
<1> QED
  BY <1>1, TypeInvInit, TypeInvStep, NewsInit, NewsStep, BusyStep, ColdInit, ColdStep, PTL
     DEF Spec
=============================================================================
