-------------------------- MODULE StreamingProofs --------------------------
(***************************************************************************)
(* Proofs about Streaming, for any number of requests, resets and faults,  *)
(* any prefixes and any seed, and wherever the transport cuts.             *)
(***************************************************************************)
EXTENDS Streaming, FiniteSetTheorems, SequenceTheorems, WellFoundedInduction, TLAPS

HandlerStates == {"none", "waiting", "admitted", "running", "over", "gone"}
Running == {r \in Mocked : handler[r] = "running"}

ClientStates == {"none", "waiting", "reading", "success", "failed"}

\* Only the server that is up has requests, and only those that were sent.
ServerInv ==
    /\ mocked \in BOOLEAN /\ handler \in [Requests -> HandlerStates]
    /\ client \in [Requests -> ClientStates]
    /\ \A r \in Requests : client[r] = "none" => handler[r] = "none"
    /\ \A r \in Requests : handler[r] # "none" => r \in Senders

CountInv == ServerInv /\ active = Cardinality(Running)

LEMMA RunningFinite == IsFiniteSet(Running)
  BY StreamingAssumption, FS_Subset DEF Running

----------------------------------------------------------------------------
(* The count of open streams. *)

LEMMA ServerInit == Init => ServerInv
  BY DEF Init, ServerInv, HandlerStates, ClientStates

LEMMA ServerStep == ServerInv /\ [Next]_vars => ServerInv'
<1> SUFFICES ASSUME ServerInv, [Next]_vars PROVE ServerInv'
  OBVIOUS
<1> USE DEF ServerInv, HandlerStates, ClientStates, Senders
<1>1. ASSUME NEW r \in Requests, Send(r) PROVE ServerInv'
  BY <1>1 DEF Send
<1>2. ASSUME NEW r \in Requests, NEW fails \in BOOLEAN, Answer(r, fails) PROVE ServerInv'
  BY <1>2 DEF Answer
<1>3. ASSUME NEW r \in Requests, ForeignAnswers(r) \/ Begin(r) PROVE ServerInv'
  BY <1>3 DEF ForeignAnswers, Begin, clientVars
<1>4. ASSUME NEW r \in Requests, Finish(r) \/ Cancelled(r) PROVE ServerInv'
  BY <1>4 DEF Finish, Cancelled, clientVars
<1>5. ASSUME NEW r \in Requests, Read(r) \/ ReadFails(r) \/ GiveUp(r) PROVE ServerInv'
  BY <1>5 DEF Read, ReadFails, GiveUp
<1>6. ASSUME UNCHANGED <<mocked, handler, client>> PROVE ServerInv'
  BY <1>6
<1>7. ASSUME NEW r \in Requests,
             Write(r) \/ Relay(r) \/ RelayEnds(r) \/ UpstreamLost(r) \/ Receive(r)
      PROVE  UNCHANGED <<mocked, handler, client>>
  BY <1>7 DEF Write, Relay, RelayEnds, UpstreamLost, Receive, clientVars
<1>8. Reset \/ UNCHANGED vars => UNCHANGED <<mocked, handler, client>>
  BY DEF Reset, vars, clientVars
<1> QED
  BY <1>1, <1>2, <1>3, <1>4, <1>5, <1>6, <1>7, <1>8 DEF Next

\* A generator is entered: the first time that its request runs.
LEMMA CountBegin ==
  ASSUME CountInv, NEW r \in Requests, Begin(r)
  PROVE  active' = Cardinality(Running')
<1>1. CASE mocked
  <2>1. r \in Mocked \ Running
    BY <1>1 DEF CountInv, ServerInv, Senders, Begin, Running
  <2>2. Running' = Running \cup {r}
    BY <2>1 DEF CountInv, ServerInv, Begin, Running, Requests
  <2>3. Cardinality(Running \cup {r}) = Cardinality(Running) + 1
    BY <2>1, RunningFinite, FS_AddElement
  <2> QED
    BY <1>1, <2>2, <2>3 DEF CountInv, Begin
<1>2. CASE ~mocked
  <2>1. r \notin Mocked
    BY <1>2, StreamingAssumption DEF CountInv, ServerInv, Senders, Begin
  <2>2. Running' = Running
    BY <2>1 DEF CountInv, ServerInv, Begin, Running, Requests
  <2> QED
    BY <1>2, <2>2 DEF CountInv, Begin
<1> QED
  BY <1>1, <1>2 DEF CountInv, ServerInv

\* A generator that is over, or that is closed, runs the finally it is in, and
\* one that was never entered has none.
LEMMA CountEnd ==
  ASSUME CountInv, NEW r \in Requests, Finished(r),
         NEW state \in {"over", "gone"}, handler' = [handler EXCEPT ![r] = state]
  PROVE  active' = Cardinality(Running')
<1>1. CASE mocked /\ handler[r] = "running"
  <2>1. r \in Running
    BY <1>1 DEF CountInv, ServerInv, Senders, Running
  <2>2. Running' = Running \ {r}
    BY <2>1 DEF CountInv, ServerInv, Running, Requests
  <2>3. Cardinality(Running \ {r}) = Cardinality(Running) - 1
    BY <2>1, RunningFinite, FS_RemoveElement
  <2> QED
    BY <1>1, <2>2, <2>3 DEF CountInv, Finished
<1>2. CASE ~(mocked /\ handler[r] = "running")
  <2>1. r \notin Running
    BY <1>2, StreamingAssumption DEF CountInv, ServerInv, Senders, Running
  <2>2. Running' = Running
    BY <2>1 DEF CountInv, ServerInv, Running, Requests
  <2> QED
    BY <1>2, <2>2 DEF CountInv, Finished
<1> QED
  BY <1>1, <1>2

LEMMA CountStep == CountInv /\ [Next]_vars => CountInv'
<1> SUFFICES ASSUME CountInv, [Next]_vars PROVE CountInv'
  OBVIOUS
<1>1. ServerInv'
  BY ServerStep DEF CountInv
<1> SUFFICES active' = Cardinality(Running')
  BY <1>1 DEF CountInv
<1>2. ASSUME NEW r \in Requests, Begin(r) PROVE active' = Cardinality(Running')
  BY <1>2, CountBegin
<1>3. ASSUME NEW r \in Requests, Finish(r) \/ Cancelled(r)
      PROVE  active' = Cardinality(Running')
  <2>1. Finished(r) /\ \E s \in {"over", "gone"} : handler' = [handler EXCEPT ![r] = s]
    BY <1>3 DEF Finish, Cancelled
  <2> QED
    BY <2>1, CountEnd
<1>4. ASSUME UNCHANGED active, Running' = Running PROVE active' = Cardinality(Running')
  BY <1>4 DEF CountInv
<1>5. ASSUME NEW r \in Requests, Send(r) \/ ForeignAnswers(r) \/ (\E f \in BOOLEAN : Answer(r, f))
      PROVE  UNCHANGED active /\ Running' = Running
  <2>1. /\ UNCHANGED active /\ handler[r] # "running"
        /\ \E s \in {"waiting", "gone", "admitted"} : handler' = [handler EXCEPT ![r] = s]
    <3>1. CASE Send(r)
      BY <3>1 DEF Send, mockVars, CountInv, ServerInv
    <3>2. CASE ForeignAnswers(r)
      BY <3>2 DEF ForeignAnswers, mockVars
    <3>3. CASE \E f \in BOOLEAN : Answer(r, f)
      BY <3>3 DEF Answer
    <3> QED
      BY <1>5, <3>1, <3>2, <3>3
  <2> QED
    BY <2>1 DEF CountInv, ServerInv, Running, Requests
<1>6. ASSUME NEW r \in Requests,
             \/ Write(r) \/ Relay(r) \/ RelayEnds(r) \/ UpstreamLost(r)
             \/ Receive(r) \/ Read(r) \/ ReadFails(r) \/ GiveUp(r)
      PROVE  UNCHANGED active /\ Running' = Running
  BY <1>6 DEF Write, Relay, RelayEnds, UpstreamLost, Receive, Read, ReadFails, GiveUp,
              mockVars, Running
<1>7. Reset \/ UNCHANGED vars => UNCHANGED active /\ Running' = Running
  BY DEF Reset, vars, mockVars, Running
<1> QED
  BY <1>2, <1>3, <1>4, <1>5, <1>6, <1>7 DEF Next

\* active_requests counts the streams that are open, however they end and
\* whatever is reset meanwhile (mock_backend.py 70-91).
THEOREM EveryStreamCounted == Spec => []StreamsCounted
<1>1. Init => CountInv
  <2>1. Init => Running = {}
    BY DEF Init, Running, Requests
  <2> QED
    BY <2>1, ServerInit, FS_EmptySet DEF CountInv, Init
<1>2. CountInv => StreamsCounted
  BY DEF CountInv, StreamsCounted, Running
<1> QED
  BY <1>1, <1>2, CountStep, PTL DEF Spec

----------------------------------------------------------------------------
(* The rounds. *)

Rounds == 0 .. MaxResets
Entries == [request : Mocked, fails : BOOLEAN]

\* The entry k of round i, when it was handled, had its prefix in the cache.
Known(i, k) == \E l \in DOMAIN handled[i] :
    /\ l < k /\ ~handled[i][l].fails
    /\ Prefix[handled[i][l].request] = Prefix[handled[i][k].request]

RoundType ==
    /\ round \in Rounds /\ handled \in [Rounds -> Seq(Entries)]
    /\ draws \in Seq(BOOLEAN) /\ hit \in [Requests -> BOOLEAN]

\* The position of the random numbers is that of the round under way, and
\* every round has read the same numbers from the first on.
DrawInv ==
    /\ rng = Len(handled[round])
    /\ \A i \in Rounds : i > round => handled[i] = <<>>
    /\ \A i \in Rounds :
        /\ Len(handled[i]) <= Len(draws)
        /\ \A k \in DOMAIN handled[i] : handled[i][k].fails = draws[k]

\* The cache holds the prefixes of the round under way, and each hit that was
\* reported stands, because a request is handled once.
SeenInv ==
    /\ \A p : p \in seen <=> \E l \in DOMAIN handled[round] :
        ~handled[round][l].fails /\ p = Prefix[handled[round][l].request]
    /\ \A i \in Rounds : \A k \in DOMAIN handled[i] :
        /\ handler[handled[i][k].request] \notin {"none", "waiting"}
        /\ hit[handled[i][k].request] <=> Known(i, k)

RoundInv == ServerInv /\ RoundType /\ DrawInv /\ SeenInv

LEMMA EntryOfSequence ==
  ASSUME NEW h \in Seq(Entries), NEW k \in DOMAIN h
  PROVE  h[k] \in Entries /\ h[k].request \in Requests
<1>1. h[k] \in Entries
  OBVIOUS
<1> QED
  BY <1>1 DEF Entries, Requests

\* A request that is handled, at the end of the round under way.
LEMMA RoundAnswer ==
  ASSUME RoundInv, NEW r \in Requests, NEW fails \in BOOLEAN, Answer(r, fails)
  PROVE  RoundType' /\ DrawInv' /\ SeenInv'
<1> DEFINE h == handled[round]
           e == [request |-> r, fails |-> fails]
<1>1. /\ r \in Mocked /\ handler[r] = "waiting" /\ e \in Entries
  BY DEF RoundInv, ServerInv, Senders, Answer, Entries
<1>2. /\ h \in Seq(Entries) /\ round \in Rounds /\ round' = round
      /\ \A i \in Rounds : handled[i] \in Seq(Entries)
      /\ handled' = [handled EXCEPT ![round] = Append(h, e)]
  BY DEF RoundInv, RoundType, Answer
<1>3. /\ Append(h, e) \in Seq(Entries) /\ Len(Append(h, e)) = Len(h) + 1
      /\ DOMAIN Append(h, e) = 1 .. Len(h) + 1 /\ DOMAIN h = 1 .. Len(h) /\ Len(h) \in Nat
      /\ \A k \in DOMAIN h : Append(h, e)[k] = h[k]
      /\ Append(h, e)[Len(h) + 1] = e
  BY <1>1, <1>2
<1>4. /\ handled' \in [Rounds -> Seq(Entries)] /\ handled'[round] = Append(h, e)
      /\ \A i \in Rounds \ {round} : handled'[i] = handled[i]
  BY <1>2, <1>3 DEF RoundInv, RoundType
<1> HIDE DEF h, e
<1>5. e.request = r /\ e.fails = fails
  BY DEF e
<1>6. /\ draws' \in Seq(BOOLEAN) /\ Len(draws) <= Len(draws') /\ Len(h) + 1 <= Len(draws')
      /\ \A k \in 1 .. Len(draws) : draws'[k] = draws[k]
      /\ draws'[Len(h) + 1] = fails
      /\ rng' = Len(h) + 1 /\ Len(h) <= Len(draws)
  <2>1. rng = Len(h) /\ Len(h) <= Len(draws) /\ draws \in Seq(BOOLEAN) /\ Len(draws) \in Nat
    BY <1>2 DEF RoundInv, RoundType, DrawInv, h
  <2>2. Draw(fails)
    BY DEF Answer
  <2>3. CASE rng < Len(draws)
    BY <1>3, <2>1, <2>2, <2>3 DEF Draw
  <2>4. CASE ~(rng < Len(draws))
    <3>1. Len(draws) = Len(h) /\ draws' = Append(draws, fails) /\ rng' = Len(h) + 1
      BY <1>3, <2>1, <2>2, <2>4 DEF Draw
    <3> QED
      BY <2>1, <3>1
  <2> QED
    BY <2>3, <2>4
<1>7. RoundType'
  <2>1. hit' \in [Requests -> BOOLEAN]
    BY DEF RoundInv, RoundType, Answer
  <2> QED
    BY <1>2, <1>4, <1>6, <2>1 DEF RoundType
<1>8. DrawInv'
  <2>1. rng' = Len(handled'[round'])
    BY <1>2, <1>3, <1>4, <1>6
  <2>2. ASSUME NEW i \in Rounds, i > round' PROVE handled'[i] = <<>>
    BY <1>2, <1>4, <2>2 DEF RoundInv, DrawInv, Rounds
  <2>3. ASSUME NEW i \in Rounds
        PROVE  /\ Len(handled'[i]) <= Len(draws')
               /\ \A k \in DOMAIN handled'[i] : handled'[i][k].fails = draws'[k]
    <3>1. /\ Len(handled[i]) <= Len(draws) /\ Len(handled[i]) \in Nat
          /\ DOMAIN handled[i] = 1 .. Len(handled[i])
          /\ \A k \in DOMAIN handled[i] : handled[i][k].fails = draws[k]
      BY <1>2 DEF RoundInv, DrawInv
    <3>2. Len(draws) \in Nat /\ Len(draws') \in Nat
      BY <1>6 DEF RoundInv, RoundType
    <3>3. CASE i # round
      <4>1. handled'[i] = handled[i]
        BY <1>4, <3>3
      <4>2. \A k \in DOMAIN handled[i] : draws'[k] = draws[k]
        BY <1>6, <3>1, <3>2
      <4> QED
        BY <1>6, <3>1, <3>2, <4>1, <4>2
    <3>4. CASE i = round
      <4>1. h = handled[i] /\ handled'[i] = Append(h, e)
        BY <1>4, <3>4 DEF h
      <4>2. ASSUME NEW k \in 1 .. Len(h) + 1 PROVE Append(h, e)[k].fails = draws'[k]
        BY <1>3, <1>5, <1>6, <3>1, <3>2, <4>1
      <4> QED
        BY <1>3, <1>6, <4>1, <4>2
    <3> QED
      BY <3>3, <3>4
  <2> QED
    BY <2>1, <2>2, <2>3 DEF DrawInv
<1>9. SeenInv'
  <2>1. /\ \A p : p \in seen <=> \E l \in DOMAIN h : ~h[l].fails /\ p = Prefix[h[l].request]
        /\ \A k \in DOMAIN h : h[k].request # r
        /\ \A i \in Rounds : \A k \in DOMAIN handled[i] :
            /\ handled[i][k].request # r /\ handled[i][k].request \in Requests
            /\ handler[handled[i][k].request] \notin {"none", "waiting"}
            /\ hit[handled[i][k].request] <=> Known(i, k)
    <3>1. \A i \in Rounds : \A k \in DOMAIN handled[i] : handled[i][k].request \in Requests
      BY <1>2, EntryOfSequence
    <3> QED
      BY <1>1, <1>2, <3>1 DEF RoundInv, SeenInv, h
  <2>2. /\ seen' = IF fails THEN seen ELSE seen \cup {Prefix[r]}
        /\ \A q \in Requests : q # r => handler'[q] = handler[q] /\ hit'[q] = hit[q]
        /\ handler'[r] \notin {"none", "waiting"} /\ hit'[r] = (Prefix[r] \in seen)
    BY <1>1 DEF RoundInv, RoundType, ServerInv, Answer
  <2>3. ASSUME NEW p
        PROVE  p \in seen' <=> \E l \in DOMAIN handled'[round'] :
                   ~handled'[round'][l].fails /\ p = Prefix[handled'[round'][l].request]
    <3>1. (\E l \in DOMAIN Append(h, e) :
              ~Append(h, e)[l].fails /\ p = Prefix[Append(h, e)[l].request])
          <=> \/ \E l \in DOMAIN h : ~h[l].fails /\ p = Prefix[h[l].request]
              \/ ~fails /\ p = Prefix[r]
      BY <1>3, <1>5
    <3> QED
      BY <1>2, <1>4, <2>1, <2>2, <3>1
  <2>4. ASSUME NEW i \in Rounds \ {round}, NEW k \in DOMAIN handled'[i]
        PROVE  /\ handler'[handled'[i][k].request] \notin {"none", "waiting"}
               /\ hit'[handled'[i][k].request] <=> Known(i, k)'
    <3>1. handled'[i] = handled[i] /\ i \in Rounds
      BY <1>4
    <3>2. Known(i, k)' <=> Known(i, k)
      BY <3>1 DEF Known
    <3> QED
      BY <2>1, <2>2, <3>1, <3>2
  <2>5. ASSUME NEW k \in DOMAIN h
        PROVE  /\ handler'[handled'[round][k].request] \notin {"none", "waiting"}
               /\ hit'[handled'[round][k].request] <=> Known(round, k)'
    <3>1. handled'[round][k] = h[k] /\ handled[round] = h /\ h[k].request # r
          /\ h[k].request \in Requests /\ Append(h, e)[k] = h[k]
      BY <1>2, <1>3, <1>4, <2>1 DEF h
    <3>2. Known(round, k)' <=> Known(round, k)
      BY <1>2, <1>3, <1>4, <3>1 DEF Known
    <3> QED
      BY <1>2, <2>1, <2>2, <3>1, <3>2
  <2>6. ASSUME NEW k, k = Len(h) + 1
        PROVE  /\ handler'[handled'[round][k].request] \notin {"none", "waiting"}
               /\ hit'[handled'[round][k].request] <=> Known(round, k)'
    <3>1. handled'[round][k].request = r
      BY <1>3, <1>4, <1>5, <2>6
    <3>2. Known(round, k)'
            <=> \E l \in DOMAIN h : ~h[l].fails /\ Prefix[r] = Prefix[h[l].request]
      <4>1. Known(round, k)'
              <=> \E l \in DOMAIN handled'[round] :
                    /\ l < k /\ ~handled'[round][l].fails
                    /\ Prefix[handled'[round][l].request] = Prefix[handled'[round][k].request]
        BY <1>2 DEF Known
      <4>2. Known(round, k)'
              <=> \E l \in DOMAIN Append(h, e) :
                    /\ l < k /\ ~Append(h, e)[l].fails
                    /\ Prefix[Append(h, e)[l].request] = Prefix[r]
        BY <1>4, <3>1, <4>1
      <4>3. \A l \in DOMAIN Append(h, e) : l < k <=> l \in DOMAIN h
        BY <1>3, <2>6
      <4>4. DOMAIN h \subseteq DOMAIN Append(h, e)
        BY <1>3
      <4> QED
        BY <1>3, <4>2, <4>3, <4>4
    <3>3. hit'[r] <=> \E l \in DOMAIN h : ~h[l].fails /\ Prefix[r] = Prefix[h[l].request]
      BY <2>1, <2>2
    <3> QED
      BY <1>2, <2>2, <3>1, <3>2, <3>3
  <2>7. ASSUME NEW i \in Rounds, NEW k \in DOMAIN handled'[i]
        PROVE  /\ handler'[handled'[i][k].request] \notin {"none", "waiting"}
               /\ hit'[handled'[i][k].request] <=> Known(i, k)'
    <3>1. CASE i # round
      BY <2>4, <3>1
    <3>2. CASE i = round /\ k \in DOMAIN h
      BY <1>2, <2>5, <3>2
    <3>3. CASE i = round /\ k \notin DOMAIN h
      <4>1. k = Len(h) + 1
        BY <1>3, <1>4, <3>3
      <4> QED
        BY <1>2, <2>6, <3>3, <4>1
    <3> QED
      BY <3>1, <3>2, <3>3
  <2> QED
    BY <2>3, <2>7 DEF SeenInv
<1> QED
  BY <1>7, <1>8, <1>9

\* A reset: nothing is in the cache, and the numbers are read from the first on.
LEMMA RoundReset ==
  ASSUME RoundInv, Reset
  PROVE  RoundType' /\ DrawInv' /\ SeenInv'
<1>1. /\ round \in Rounds /\ round' = round + 1 /\ round' \in Rounds
      /\ UNCHANGED <<handled, handler, hit, draws>> /\ seen' = {} /\ rng' = 0
  BY StreamingAssumption DEF RoundInv, RoundType, Rounds, Reset
<1>2. handled[round'] = <<>>
  BY <1>1 DEF RoundInv, DrawInv, Rounds
<1>3. RoundType'
  BY <1>1 DEF RoundInv, RoundType
<1>4. DrawInv'
  <2>1. \A i \in Rounds : i > round' => i > round
    BY <1>1 DEF Rounds
  <2>2. Len(handled'[round']) = 0
    BY <1>1, <1>2
  <2> QED
    BY <1>1, <2>1, <2>2 DEF RoundInv, DrawInv
<1>5. SeenInv'
  <2>1. DOMAIN handled'[round'] = {}
    BY <1>1, <1>2
  <2>2. \A i, k : Known(i, k)' <=> Known(i, k)
    BY <1>1 DEF Known
  <2> QED
    BY <1>1, <2>1, <2>2 DEF RoundInv, SeenInv
<1> QED
  BY <1>3, <1>4, <1>5

\* A step of a handler that is past its answer, or of one that was not sent yet.
LEMMA RoundOthers ==
  ASSUME RoundInv, UNCHANGED <<seen, rng, draws, round, handled, hit>>,
         \/ UNCHANGED handler
         \/ \E r \in Requests : \E s \in HandlerStates :
                /\ handler' = [handler EXCEPT ![r] = s]
                /\ s \in {"none", "waiting"} => handler[r] \in {"none", "waiting"}
  PROVE  RoundType' /\ DrawInv' /\ SeenInv'
<1>1. RoundType' /\ DrawInv'
  BY DEF RoundInv, RoundType, DrawInv
<1>2. \A q \in Requests : handler[q] \notin {"none", "waiting"}
                              => handler'[q] \notin {"none", "waiting"}
  BY DEF RoundInv, ServerInv
<1>3. \A i \in Rounds : \A k \in DOMAIN handled[i] : handled[i][k].request \in Requests
  BY EntryOfSequence DEF RoundInv, RoundType
<1>4. \A i, k : Known(i, k)' <=> Known(i, k)
  BY DEF Known
<1>5. SeenInv'
  BY <1>2, <1>3, <1>4 DEF RoundInv, SeenInv
<1> QED
  BY <1>1, <1>5

LEMMA RoundStep == RoundInv /\ [Next]_vars => RoundInv'
<1> SUFFICES ASSUME RoundInv, [Next]_vars PROVE RoundInv'
  OBVIOUS
<1>1. ServerInv'
  BY ServerStep DEF RoundInv
<1> SUFFICES RoundType' /\ DrawInv' /\ SeenInv'
  BY <1>1 DEF RoundInv
<1>2. ASSUME NEW r \in Requests, NEW fails \in BOOLEAN, Answer(r, fails)
      PROVE  RoundType' /\ DrawInv' /\ SeenInv'
  BY <1>2, RoundAnswer
<1>3. CASE Reset
  BY <1>3, RoundReset
<1>4. ASSUME NEW r \in Requests, Send(r) \/ ForeignAnswers(r) \/ Begin(r) \/ Finish(r) \/ Cancelled(r)
      PROVE  RoundType' /\ DrawInv' /\ SeenInv'
  <2>1. UNCHANGED <<seen, rng, draws, round, handled, hit>>
    BY <1>4 DEF Send, ForeignAnswers, Begin, Finish, Cancelled, mockVars
  <2>2. \E s \in HandlerStates :
            /\ handler' = [handler EXCEPT ![r] = s]
            /\ s \in {"none", "waiting"} => handler[r] \in {"none", "waiting"}
    <3>1. CASE Send(r)
      <4>1. handler[r] = "none" /\ handler' = [handler EXCEPT ![r] = "waiting"]
        BY <3>1 DEF Send, RoundInv, ServerInv
      <4> QED
        BY <4>1 DEF HandlerStates
    <3>2. CASE ForeignAnswers(r) \/ Begin(r) \/ Finish(r) \/ Cancelled(r)
      BY <3>2 DEF ForeignAnswers, Begin, Finish, Cancelled, HandlerStates
    <3> QED
      BY <1>4, <3>1, <3>2
  <2> QED
    BY <2>1, <2>2, RoundOthers
<1>5. ASSUME NEW r \in Requests,
             \/ Write(r) \/ Relay(r) \/ RelayEnds(r) \/ UpstreamLost(r)
             \/ Receive(r) \/ Read(r) \/ ReadFails(r) \/ GiveUp(r)
      PROVE  UNCHANGED <<seen, rng, draws, round, handled, hit, handler>>
  BY <1>5 DEF Write, Relay, RelayEnds, UpstreamLost, Receive, Read, ReadFails, GiveUp, mockVars
<1>6. UNCHANGED vars => UNCHANGED <<seen, rng, draws, round, handled, hit, handler>>
  BY DEF vars, mockVars
<1>7. UNCHANGED <<seen, rng, draws, round, handled, hit, handler>>
        => RoundType' /\ DrawInv' /\ SeenInv'
  BY RoundOthers
<1> QED
  BY <1>2, <1>3, <1>4, <1>5, <1>6, <1>7 DEF Next

LEMMA RoundInit == Init => RoundInv
<1> SUFFICES ASSUME Init PROVE RoundInv
  OBVIOUS
<1>1. /\ round = 0 /\ handled = [i \in Rounds |-> <<>>] /\ draws = <<>> /\ rng = 0 /\ seen = {}
      /\ hit = [r \in Requests |-> FALSE] /\ round \in Rounds
  BY StreamingAssumption DEF Init, Rounds
<1>2. \A i \in Rounds : handled[i] = <<>> /\ Len(handled[i]) = 0 /\ DOMAIN handled[i] = {}
  BY <1>1
<1>3. RoundType
  BY <1>1 DEF RoundType
<1>4. DrawInv
  BY <1>1, <1>2 DEF DrawInv
<1>5. SeenInv
  BY <1>1, <1>2 DEF SeenInv
<1> QED
  BY <1>3, <1>4, <1>5, ServerInit DEF RoundInv

\* After a reset the mock fails and hits as if it had just started, whatever
\* was under way (mock_backend.py 49-53): the requests of two rounds fail at the
\* same positions, and each is a hit exactly when its round had the prefix.
THEOREM ResetsRestart == Spec => []RoundsAlike
<1>1. RoundInv => RoundsAlike
  <2> SUFFICES ASSUME RoundInv PROVE RoundsAlike
    OBVIOUS
  <2>1. \A i \in Rounds : \A k \in DOMAIN handled[i] : handled[i][k].fails = draws[k]
    BY DEF RoundInv, DrawInv
  <2>2. \A i \in Rounds : \A k \in DOMAIN handled[i] : hit[handled[i][k].request] <=> Known(i, k)
    BY DEF RoundInv, SeenInv
  <2> QED
    BY <2>1, <2>2 DEF RoundsAlike, Rounds, Known
<1> QED
  BY <1>1, RoundInit, RoundStep, PTL DEF Spec

----------------------------------------------------------------------------
(* The stream of a reply.  FlattenSeq is a recursive function, which is the   *)
(* CHOOSE of its equation: that there is such a function, and only one, is   *)
(* by induction, in the form of a set of naturals that is closed under + 1.  *)

LEMMA NatMin == ASSUME NEW T, T \subseteq Nat, T # {} PROVE \E x \in T : \A y \in T : x <= y
<1> DEFINE R == OpToRel(<, Nat)
<1>1. IsWellFoundedOn(R, Nat)
  BY NatLessThanWellFounded, Zenon
<1>2. \A a, b \in Nat : <<a, b>> \in R <=> a < b
  BY DEF OpToRel
<1> HIDE DEF R
<1>3. PICK x \in T : \A y \in T : ~(<<y, x>> \in R)
  BY <1>1, WFMin, Zenon
<1>4. ASSUME NEW y \in T PROVE x <= y
  <2>1. x \in Nat /\ y \in Nat
    OBVIOUS
  <2>2. ~(<<y, x>> \in R)
    BY <1>3
  <2>3. ~(y < x)
    BY <1>2, <2>1, <2>2, Zenon
  <2> QED
    BY <2>1, <2>3
<1> QED
  BY <1>4

LEMMA NatInd ==
  ASSUME NEW T, 0 \in T, \A n \in Nat : n \in T => n + 1 \in T
  PROVE  Nat \subseteq T
<1> SUFFICES ASSUME NEW m \in Nat, m \notin T PROVE FALSE
  OBVIOUS
<1>1. PICK n \in Nat \ T : \A k \in Nat \ T : n <= k
  <2>1. Nat \ T \subseteq Nat /\ Nat \ T # {}
    OBVIOUS
  <2> QED
    BY <2>1, NatMin
<1>2. n # 0 /\ n - 1 \in Nat /\ n - 1 \in T
  BY <1>1
<1> QED
  BY <1>1, <1>2

IsFlat(f, s, n) ==
    /\ DOMAIN f = 1 .. n
    /\ f = [i \in 1 .. n |-> IF i = 1 THEN s[i] ELSE f[i - 1] \o s[i]]

\* The prefixes of a sequence of sequences, joined.
LEMMA FlatExists ==
  ASSUME NEW X, NEW s \in Seq(Seq(X)), NEW m \in Nat, m <= Len(s)
  PROVE  \E f \in [1 .. m -> Seq(X)] : IsFlat(f, s, m)
<1> DEFINE T == {n \in Nat : n <= Len(s) => \E f \in [1 .. n -> Seq(X)] : IsFlat(f, s, n)}
<1>1. 0 \in T
  <2>1. [i \in 1 .. 0 |-> <<>>] \in [1 .. 0 -> Seq(X)] /\ IsFlat([i \in 1 .. 0 |-> <<>>], s, 0)
    BY DEF IsFlat
  <2> QED
    BY <2>1
<1>2. ASSUME NEW n \in Nat, n \in T PROVE n + 1 \in T
  <2> SUFFICES ASSUME n + 1 <= Len(s) PROVE \E f \in [1 .. n + 1 -> Seq(X)] : IsFlat(f, s, n + 1)
    OBVIOUS
  <2>1. PICK f \in [1 .. n -> Seq(X)] : IsFlat(f, s, n)
    BY <1>2
  <2>2. s[n + 1] \in Seq(X)
    OBVIOUS
  <2> DEFINE last == IF n = 0 THEN s[1] ELSE f[n] \o s[n + 1]
             g == [i \in 1 .. n + 1 |-> IF i <= n THEN f[i] ELSE last]
  <2>3. last \in Seq(X)
    <3>1. CASE n = 0
      BY <2>2, <3>1
    <3>2. CASE n # 0
      <4>1. f[n] \in Seq(X)
        BY <3>2
      <4> QED
        BY <2>2, <3>2, <4>1, ConcatProperties
    <3> QED
      BY <3>1, <3>2
  <2> HIDE DEF last
  <2>4. g \in [1 .. n + 1 -> Seq(X)]
    BY <2>1, <2>3
  <2>5. ASSUME NEW i \in 1 .. n + 1
        PROVE  g[i] = IF i = 1 THEN s[i] ELSE g[i - 1] \o s[i]
    <3>1. CASE i <= n
      <4>1. i \in 1 .. n /\ g[i] = f[i]
            /\ (i # 1 => i - 1 \in 1 .. n /\ i - 1 \in 1 .. n + 1 /\ g[i - 1] = f[i - 1])
        BY <3>1
      <4> HIDE DEF g
      <4> QED
        BY <2>1, <4>1 DEF IsFlat
    <3>2. CASE ~(i <= n)
      <4>1. i = n + 1 /\ g[i] = last /\ (n # 0 => n \in 1 .. n + 1 /\ g[n] = f[n])
        BY <3>2
      <4> HIDE DEF g
      <4> QED
        BY <4>1 DEF last
    <3> QED
      BY <3>1, <3>2
  <2>6. IsFlat(g, s, n + 1)
    <3>1. DOMAIN g = 1 .. n + 1
      OBVIOUS
    <3> HIDE DEF g
    <3> QED
      BY <2>4, <2>5, <3>1 DEF IsFlat
  <2> QED
    BY <2>4, <2>6
<1> HIDE DEF T
<1>3. Nat \subseteq T
  BY <1>1, <1>2, NatInd
<1> QED
  BY <1>3 DEF T

Alike(s, t, n) == \A i \in 1 .. n : s[i] = t[i]

LEMMA FlatUnique ==
  ASSUME NEW s, NEW t, NEW n \in Nat, NEW m \in Nat, NEW f, NEW g, n <= m,
         IsFlat(f, s, n), IsFlat(g, t, m), Alike(s, t, n)
  PROVE  Alike(f, g, n)
<1> DEFINE T == {k \in Nat : k \in 1 .. n => f[k] = g[k]}
<1>1. 0 \in T
  OBVIOUS
<1>2. ASSUME NEW k \in Nat, k \in T PROVE k + 1 \in T
  <2> SUFFICES ASSUME k + 1 \in 1 .. n PROVE f[k + 1] = g[k + 1]
    OBVIOUS
  <2>1. f[k + 1] = IF k + 1 = 1 THEN s[k + 1] ELSE f[k] \o s[k + 1]
    <3>1. f[k + 1] = IF k + 1 = 1 THEN s[k + 1] ELSE f[(k + 1) - 1] \o s[k + 1]
      BY DEF IsFlat
    <3> QED
      BY <3>1
  <2>2. g[k + 1] = IF k + 1 = 1 THEN t[k + 1] ELSE g[k] \o t[k + 1]
    <3>1. g[k + 1] = IF k + 1 = 1 THEN t[k + 1] ELSE g[(k + 1) - 1] \o t[k + 1]
      <4>1. k + 1 \in 1 .. m
        OBVIOUS
      <4> QED
        BY <4>1 DEF IsFlat
    <3> QED
      BY <3>1
  <2> QED
    BY <1>2, <2>1, <2>2 DEF Alike
<1> HIDE DEF T
<1>3. Nat \subseteq T
  BY <1>1, <1>2, NatInd
<1> QED
  BY <1>3 DEF T, Alike

LEMMA FlattenIs ==
  ASSUME NEW X, NEW s \in Seq(Seq(X)), NEW f, IsFlat(f, s, Len(s))
  PROVE  FlattenSeq(s) = IF Len(s) = 0 THEN <<>> ELSE f[Len(s)]
<1>1. CASE Len(s) = 0
  BY <1>1 DEF FlattenSeq
<1>2. CASE Len(s) # 0
  <2> DEFINE flatten[i \in 1 .. Len(s)] == IF i = 1 THEN s[i] ELSE flatten[i - 1] \o s[i]
  <2>1. FlattenSeq(s) = flatten[Len(s)]
    BY <1>2 DEF FlattenSeq
  <2>2. flatten = [i \in 1 .. Len(s) |-> IF i = 1 THEN s[i] ELSE flatten[i - 1] \o s[i]]
    BY DEF IsFlat
  <2> HIDE DEF flatten
  <2>3. IsFlat(flatten, s, Len(s))
    BY <2>2 DEF IsFlat
  <2>4. Len(s) \in 1 .. Len(s)
    BY <1>2
  <2>5. flatten[Len(s)] = f[Len(s)]
    BY <2>3, <2>4, FlatUnique DEF Alike
  <2> QED
    BY <1>2, <2>1, <2>5
<1> QED
  BY <1>1, <1>2

\* What the first events join to: one event more is put at the end.
Joined(s, k) == FlattenSeq(SubSeq(s, 1, k))

LEMMA JoinedFacts ==
  ASSUME NEW X, NEW s \in Seq(Seq(X))
  PROVE  /\ \A k \in 0 .. Len(s) : Joined(s, k) \in Seq(X)
         /\ Joined(s, 0) = <<>> /\ Joined(s, Len(s)) = FlattenSeq(s)
         /\ \A k \in 0 .. Len(s) - 1 : Joined(s, k + 1) = Joined(s, k) \o s[k + 1]
<1>1. PICK f \in [1 .. Len(s) -> Seq(X)] : IsFlat(f, s, Len(s))
  BY FlatExists
<1>2. ASSUME NEW k \in 0 .. Len(s)
      PROVE  /\ Joined(s, k) = IF k = 0 THEN <<>> ELSE f[k]
             /\ Joined(s, k) \in Seq(X)
  <2> DEFINE t == SubSeq(s, 1, k)
  <2>1. t \in Seq(Seq(X)) /\ Len(t) = k /\ \A i \in 1 .. k : t[i] = s[i]
    BY SubSeqProperties
  <2>2. k \in Nat /\ Len(s) \in Nat /\ k <= Len(s)
    OBVIOUS
  <2> HIDE DEF t
  <2>3. PICK g \in [1 .. k -> Seq(X)] : IsFlat(g, t, k)
    <3>1. k <= Len(t)
      BY <2>1, <2>2
    <3> QED
      BY <2>1, <2>2, <3>1, FlatExists
  <2>4. \A i \in 1 .. k : g[i] = f[i]
    <3>1. Alike(t, s, k)
      BY <2>1 DEF Alike
    <3>2. Alike(g, f, k)
      BY <1>1, <2>2, <2>3, <3>1, FlatUnique, Zenon
    <3> QED
      BY <3>2 DEF Alike
  <2>5. FlattenSeq(t) = IF k = 0 THEN <<>> ELSE g[k]
    BY <2>1, <2>3, FlattenIs
  <2>6. Joined(s, k) = IF k = 0 THEN <<>> ELSE f[k]
    BY <2>2, <2>4, <2>5 DEF Joined, t
  <2> QED
    <3>1. k # 0 => f[k] \in Seq(X)
      <4>1. k # 0 => k \in 1 .. Len(s)
        BY <2>2
      <4>2. \A i \in 1 .. Len(s) : f[i] \in Seq(X)
        BY <1>1, Zenon
      <4> QED
        BY <4>1, <4>2, Zenon
    <3>2. <<>> \in Seq(X)
      OBVIOUS
    <3> QED
      BY <2>6, <3>1, <3>2
<1>3. Joined(s, 0) = <<>>
  BY <1>2
<1>4. SubSeq(s, 1, Len(s)) = s
  OBVIOUS
<1>5. ASSUME NEW k \in 0 .. Len(s) - 1
      PROVE  Joined(s, k + 1) = Joined(s, k) \o s[k + 1]
  <2>1. k \in 0 .. Len(s) /\ k + 1 \in 0 .. Len(s) /\ k + 1 # 0 /\ k + 1 \in 1 .. Len(s)
    OBVIOUS
  <2>2. Joined(s, k + 1) = f[k + 1]
    BY <1>2, <2>1
  <2>3. f[k + 1] = IF k + 1 = 1 THEN s[k + 1] ELSE f[(k + 1) - 1] \o s[k + 1]
    BY <1>1, <2>1 DEF IsFlat
  <2>4. CASE k = 0
    <3>1. s[1] \in Seq(X)
      BY <2>1, <2>4
    <3>2. <<>> \o s[1] = s[1]
      BY <3>1
    <3> QED
      BY <1>3, <2>2, <2>3, <2>4, <3>2
  <2>5. CASE k # 0
    <3>1. Joined(s, k) = f[k]
      BY <1>2, <2>1, <2>5
    <3>2. k + 1 # 1 /\ (k + 1) - 1 = k
      BY <2>5
    <3> QED
      BY <2>2, <2>3, <3>1, <3>2
  <2> QED
    BY <2>4, <2>5
<1> QED
  BY <1>2, <1>3, <1>4, <1>5 DEF Joined

\* The joined sequences grow, and what is in them comes from an event.
LEMMA JoinedGrows ==
  ASSUME NEW X, NEW s \in Seq(Seq(X)), NEW c
  PROVE  \A k \in 0 .. Len(s) :
             /\ \A j \in 0 .. k : Len(Joined(s, j)) <= Len(Joined(s, k))
             /\ (\A j \in 1 .. k : \A q \in 1 .. Len(s[j]) : s[j][q] # c)
                  => \A p \in 1 .. Len(Joined(s, k)) : Joined(s, k)[p] # c
<1> DEFINE Q(k) == /\ \A j \in 0 .. k : Len(Joined(s, j)) <= Len(Joined(s, k))
                   /\ (\A j \in 1 .. k : \A q \in 1 .. Len(s[j]) : s[j][q] # c)
                        => \A p \in 1 .. Len(Joined(s, k)) : Joined(s, k)[p] # c
           T == {k \in Nat : k <= Len(s) => Q(k)}
<1>0. /\ \A k \in 0 .. Len(s) : Joined(s, k) \in Seq(X)
      /\ Joined(s, 0) = <<>>
      /\ \A k \in 0 .. Len(s) - 1 : Joined(s, k + 1) = Joined(s, k) \o s[k + 1]
  BY JoinedFacts
<1>1. 0 \in T
  <2>1. Len(Joined(s, 0)) = 0 /\ \A j \in 0 .. 0 : j = 0
    BY <1>0
  <2>2. Q(0)
    BY <2>1
  <2> QED
    BY <2>2
<1>2. ASSUME NEW k \in Nat, k \in T PROVE k + 1 \in T
  <2> SUFFICES ASSUME k + 1 <= Len(s) PROVE Q(k + 1)
    OBVIOUS
  <2>1. Q(k) /\ k \in 0 .. Len(s) /\ k \in 0 .. Len(s) - 1 /\ k + 1 \in 1 .. Len(s)
    BY <1>2
  <2> DEFINE a == Joined(s, k)
             b == s[k + 1]
  <2>2. a \in Seq(X) /\ b \in Seq(X) /\ Joined(s, k + 1) = a \o b
    BY <1>0, <2>1
  <2> DEFINE Without(n) == \A j \in 1 .. n : \A q \in 1 .. Len(s[j]) : s[j][q] # c
  <2>3. Without(k + 1) => \A p \in 1 .. Len(a) : a[p] # c
    <3>1. Without(k + 1) => Without(k)
      OBVIOUS
    <3> QED
      BY <2>1, <3>1
  <2>4. Without(k + 1) => \A p \in 1 .. Len(b) : b[p] # c
    OBVIOUS
  <2> HIDE DEF Without
  <2> HIDE DEF a, b
  <2>5. /\ Len(a \o b) = Len(a) + Len(b) /\ Len(a) \in Nat /\ Len(b) \in Nat
        /\ \A p \in 1 .. Len(a) + Len(b) :
               (a \o b)[p] = IF p <= Len(a) THEN a[p] ELSE b[p - Len(a)]
    BY <2>2
  <2>6. ASSUME Without(k + 1), NEW p \in 1 .. Len(a) + Len(b) PROVE (a \o b)[p] # c
    <3>1. CASE p <= Len(a)
      BY <2>3, <2>5, <2>6, <3>1
    <3>2. CASE ~(p <= Len(a))
      <4>1. p - Len(a) \in 1 .. Len(b)
        BY <2>5, <3>2
      <4> QED
        BY <2>4, <2>5, <2>6, <3>2, <4>1
    <3> QED
      BY <3>1, <3>2
  <2>7. ASSUME NEW j \in 0 .. k + 1 PROVE Len(Joined(s, j)) <= Len(Joined(s, k + 1))
    <3>1. CASE j \in 0 .. k
      <4>1. Len(Joined(s, j)) <= Len(a) /\ j \in 0 .. Len(s)
        BY <2>1, <3>1 DEF a
      <4>2. Len(Joined(s, j)) \in Nat
        BY <1>0, <4>1
      <4> QED
        BY <2>2, <2>5, <4>1, <4>2
    <3>2. CASE j = k + 1
      BY <2>2, <2>5, <3>2
    <3> QED
      BY <3>1, <3>2
  <2> QED
    BY <2>2, <2>5, <2>6, <2>7 DEF Without
<1> HIDE DEF T
<1>3. Nat \subseteq T
  BY <1>1, <1>2, NatInd
<1> QED
  BY <1>3 DEF T

Symbols == Chars \cup {"begin", "end", CR, LF}

LEMMA RepliesTyped == AllReplies \subseteq Replies
<1>1. ASSUME NEW r \in Mocked PROVE MockReply(r) \in Replies
  <2>1. ChunkCount(Asked[r]) \in Nat
    BY StreamingAssumption DEF ChunkCount
  <2>2. [i \in 1 .. ChunkCount(Asked[r]) |-> <<"x">>] \in Seq(Seq(Chars))
    <3>1. <<"x">> \in Seq(Chars)
      BY DEF Chars
    <3> DEFINE e == <<"x">>
               n == ChunkCount(Asked[r])
    <3> HIDE DEF e, n
    <3>2. e \in Seq(Chars) => [i \in 1 .. n |-> e] \in Seq(Seq(Chars))
      BY <2>1 DEF n
    <3> QED
      BY <3>1, <3>2 DEF e, n
  <2> QED
    BY <2>2 DEF MockReply, Replies
<1> QED
  BY <1>1, StreamingAssumption DEF AllReplies

\* A sequence and another one behind it.
Follows(c, a, b) == /\ \A p \in 1 .. Len(a) : c[p] = a[p]
                    /\ \A p \in 1 .. Len(b) : c[Len(a) + p] = b[p]

LEMMA Concatenated ==
  ASSUME NEW S, NEW a \in Seq(S), NEW b \in Seq(S)
  PROVE  /\ a \o b \in Seq(S) /\ Len(a \o b) = Len(a) + Len(b) /\ Len(a) \in Nat /\ Len(b) \in Nat
         /\ Follows(a \o b, a, b)
<1>1. /\ a \o b \in Seq(S) /\ Len(a \o b) = Len(a) + Len(b) /\ Len(a) \in Nat /\ Len(b) \in Nat
      /\ \A i \in 1 .. Len(a) + Len(b) : (a \o b)[i] = IF i <= Len(a) THEN a[i] ELSE b[i - Len(a)]
  BY ConcatProperties
<1>2. \A p \in 1 .. Len(a) : p \in 1 .. Len(a) + Len(b) /\ p <= Len(a)
  BY <1>1
<1>3. \A p \in 1 .. Len(b) : /\ Len(a) + p \in 1 .. Len(a) + Len(b) /\ ~(Len(a) + p <= Len(a))
                              /\ (Len(a) + p) - Len(a) = p
  BY <1>1
<1> QED
  BY <1>1, <1>2, <1>3 DEF Follows

LEMMA InOneOf ==
  ASSUME NEW m \in Nat, NEW n \in Nat, NEW p \in 1 .. m + n
  PROVE  p \in 1 .. m \/ \E q \in 1 .. n : p = m + q
<1>1. CASE p <= m
  BY <1>1
<1>2. CASE ~(p <= m)
  <2>1. p - m \in 1 .. n /\ p = m + (p - m)
    BY <1>2
  <2> QED
    BY <2>1
<1> QED
  BY <1>1, <1>2

LEMMA ContentFacts ==
  ASSUME NEW body \in Seq(Chars), NEW eol \in {<<LF>>, <<CR, LF>>}
  PROVE  /\ Content(body, eol) \in Seq(Symbols)
         /\ (\A j \in DOMAIN body : body[j] # "[DONE]")
              => \A p \in 1 .. Len(Content(body, eol)) : Content(body, eol)[p] # "[DONE]"
<1> DEFINE a == <<"data:", "begin">>
           z == <<"end">>
           ab == a \o body
           abz == ab \o z
           e == abz \o eol
<1>1. Content(body, eol) = e \o eol
  BY DEF Content
<1>2. /\ a \in Seq(Symbols) /\ Len(a) = 2 /\ a[1] # "[DONE]" /\ a[2] # "[DONE]"
      /\ z \in Seq(Symbols) /\ Len(z) = 1 /\ z[1] # "[DONE]"
      /\ body \in Seq(Symbols) /\ Len(body) \in Nat
  <2>1. a \in Seq(Symbols) /\ z \in Seq(Symbols)
    BY DEF Symbols, Chars
  <2>2. body \in Seq(Symbols)
    <3>1. Chars \subseteq Symbols
      BY DEF Symbols
    <3> QED
      BY <3>1, SeqMonotonic
  <2>3. /\ Len(a) = 2 /\ a[1] # "[DONE]" /\ a[2] # "[DONE]"
        /\ Len(z) = 1 /\ z[1] # "[DONE]"
    OBVIOUS
  <2> HIDE DEF a, z
  <2> QED
    BY <2>1, <2>2, <2>3, LenProperties
<1>3. eol \in Seq(Symbols) /\ Len(eol) \in Nat /\ \A p \in 1 .. Len(eol) : eol[p] # "[DONE]"
  <2>1. <<LF>> \in Seq(Symbols) /\ <<CR, LF>> \in Seq(Symbols)
    BY DEF Symbols
  <2>2. /\ Len(<<LF>>) = 1 /\ Len(<<CR, LF>>) = 2
        /\ <<LF>>[1] # "[DONE]" /\ <<CR, LF>>[1] # "[DONE]" /\ <<CR, LF>>[2] # "[DONE]"
    BY DEF CR, LF
  <2>3. CASE eol = <<LF>>
    BY <2>1, <2>2, <2>3
  <2>4. CASE eol = <<CR, LF>>
    <3>1. \A p \in 1 .. 2 : p = 1 \/ p = 2
      OBVIOUS
    <3> QED
      BY <2>1, <2>2, <2>4, <3>1
  <2> QED
    BY <2>3, <2>4
<1> HIDE DEF a, z
<1> DEFINE Plain(t) == t \in Seq(Symbols) /\ \A p \in 1 .. Len(t) : t[p] # "[DONE]"
<1>4. ASSUME NEW t, NEW u, Plain(t), Plain(u) PROVE Plain(t \o u)
  <2>1. t \o u \in Seq(Symbols) /\ Len(t \o u) = Len(t) + Len(u) /\ Len(t) \in Nat /\ Len(u) \in Nat
        /\ Follows(t \o u, t, u)
    BY <1>4, Concatenated
  <2> SUFFICES ASSUME NEW p \in 1 .. Len(t) + Len(u) PROVE (t \o u)[p] # "[DONE]"
    BY <2>1
  <2>2. p \in 1 .. Len(t) \/ \E q \in 1 .. Len(u) : p = Len(t) + q
    BY <2>1, InOneOf
  <2> QED
    BY <1>4, <2>1, <2>2 DEF Follows
<1>5. Plain(a) /\ Plain(z) /\ Plain(eol)
  <2>1. \A p \in 1 .. 2 : p = 1 \/ p = 2
    OBVIOUS
  <2>2. \A p \in 1 .. 1 : p = 1
    OBVIOUS
  <2> QED
    BY <1>2, <1>3, <2>1, <2>2
<1>6. /\ a \in Seq(Symbols) /\ body \in Seq(Symbols) /\ z \in Seq(Symbols) /\ eol \in Seq(Symbols)
  BY <1>2, <1>3
<1>7. Content(body, eol) \in Seq(Symbols)
  <2>1. ab \in Seq(Symbols)
    BY <1>6, ConcatProperties
  <2> HIDE DEF ab
  <2>2. abz \in Seq(Symbols)
    BY <1>6, <2>1, ConcatProperties
  <2> HIDE DEF abz
  <2>3. e \in Seq(Symbols)
    BY <1>6, <2>2, ConcatProperties
  <2> HIDE DEF e
  <2> QED
    BY <1>1, <1>6, <2>3, ConcatProperties
<1>8. Plain(body) => Plain(Content(body, eol))
  <2> HIDE DEF Plain
  <2> QED
    BY <1>1, <1>4, <1>5
<1> QED
  BY <1>2, <1>7, <1>8

LEMMA EndFacts ==
  ASSUME NEW eol \in {<<LF>>, <<CR, LF>>}
  PROVE  /\ End(eol) \in Seq(Symbols) /\ Len(End(eol)) = 2 + 2 * Len(eol) /\ Len(eol) \in {1, 2}
         /\ End(eol)[1] = "data:" /\ End(eol)[2] = "[DONE]"
<1> DEFINE m == Marker \o eol
<1>1. Marker \in Seq(Symbols) /\ Len(Marker) = 2 /\ Marker[1] = "data:" /\ Marker[2] = "[DONE]"
  BY DEF Marker, Symbols, Chars
<1>2. eol \in Seq(Symbols) /\ Len(eol) \in {1, 2}
  <2>1. <<LF>> \in Seq(Symbols) /\ <<CR, LF>> \in Seq(Symbols)
    BY DEF Symbols
  <2>2. Len(<<LF>>) = 1 /\ Len(<<CR, LF>>) = 2
    OBVIOUS
  <2> QED
    BY <2>1, <2>2
<1>3. m \in Seq(Symbols) /\ Len(m) = 2 + Len(eol) /\ Follows(m, Marker, eol)
  <2>1. m \in Seq(Symbols) /\ Len(m) = Len(Marker) + Len(eol) /\ Follows(m, Marker, eol)
    BY <1>1, <1>2, Concatenated
  <2> QED
    BY <1>1, <2>1
<1>4. End(eol) = m \o eol
  BY DEF End
<1> HIDE DEF m
<1>5. /\ End(eol) \in Seq(Symbols) /\ Len(End(eol)) = Len(m) + Len(eol)
      /\ Follows(End(eol), m, eol)
  BY <1>2, <1>3, <1>4, Concatenated
<1>6. 1 \in 1 .. Len(m) /\ 2 \in 1 .. Len(m) /\ 1 \in 1 .. 2 /\ 2 \in 1 .. 2
  BY <1>2, <1>3
<1> QED
  BY <1>1, <1>2, <1>3, <1>5, <1>6 DEF Follows

\* S is the stream of a reply, and E where its end marker ends.
EndsWithMarker(rep, S, E) ==
    /\ S \in Seq(Symbols) /\ E \in Nat /\ 2 <= E /\ Len(rep.eol) \in {1, 2}
    /\ S[E - 1] = "data:" /\ S[E] = "[DONE]"
    /\ (\A b \in DOMAIN rep.bodies : \A j \in DOMAIN rep.bodies[b] : rep.bodies[b][j] # "[DONE]")
          => \A p \in 1 .. E - 1 : S[p] # "[DONE]"
    /\ Ends[rep] \subseteq 0 .. Len(S) /\ Len(S) \in Ends[rep]

LEMMA StreamFacts ==
  ASSUME NEW rep \in AllReplies, NEW S, S = Streams[rep], NEW E, E = Len(S) - 2 * Len(rep.eol)
  PROVE  EndsWithMarker(rep, S, E)
<1> DEFINE bodies == rep.bodies
           eol == rep.eol
           n == Len(bodies)
           contents == [i \in DOMAIN bodies |-> Content(bodies[i], eol)]
           all == contents \o <<End(eol)>>
<1>1. /\ bodies \in Seq(Seq(Chars)) /\ eol \in {<<LF>>, <<CR, LF>>}
  BY RepliesTyped DEF Replies
<1>2. EventsOf(rep) = all
  BY DEF EventsOf
<1>3. Streams[rep] = FlattenSeq(EventsOf(rep))
  BY DEF Streams
<1>4. Ends[rep] = {Len(FlattenSeq(SubSeq(EventsOf(rep), 1, i))) : i \in DOMAIN EventsOf(rep)}
  BY DEF Ends
<1> HIDE DEF bodies, eol
<1>5. contents \in Seq(Seq(Symbols)) /\ Len(contents) = n /\ n \in Nat
      /\ \A i \in 1 .. n : contents[i] = Content(bodies[i], eol) /\ bodies[i] \in Seq(Chars)
  <2>1. DOMAIN bodies = 1 .. n /\ n \in Nat /\ \A i \in 1 .. n : bodies[i] \in Seq(Chars)
    BY <1>1
  <2>2. \A i \in 1 .. n : Content(bodies[i], eol) \in Seq(Symbols)
    BY <1>1, <2>1, ContentFacts
  <2> QED
    BY <2>1, <2>2
<1>6. End(eol) \in Seq(Symbols)
  BY <1>1, EndFacts
<1> HIDE DEF contents
<1>7. /\ all \in Seq(Seq(Symbols)) /\ Len(all) = n + 1 /\ all[n + 1] = End(eol)
      /\ \A i \in 1 .. n : all[i] = contents[i]
  BY <1>5, <1>6
<1> HIDE DEF all, n
<1> DEFINE L == n + 1
<1>L. L \in Nat /\ L = Len(all) /\ L - 1 = n
  BY <1>5, <1>7
<1>8. /\ \A k \in 0 .. n + 1 : Joined(all, k) \in Seq(Symbols)
      /\ Joined(all, n + 1) = FlattenSeq(all)
      /\ \A k \in 0 .. n : Joined(all, k + 1) = Joined(all, k) \o all[k + 1]
  <2>1. /\ \A k \in 0 .. Len(all) : Joined(all, k) \in Seq(Symbols)
        /\ Joined(all, Len(all)) = FlattenSeq(all)
        /\ \A k \in 0 .. Len(all) - 1 : Joined(all, k + 1) = Joined(all, k) \o all[k + 1]
    BY <1>7, JoinedFacts
  <2> QED
    BY <1>L, <2>1
<1>9. \A k \in 0 .. n + 1 :
         /\ \A j \in 0 .. k : Len(Joined(all, j)) <= Len(Joined(all, k))
         /\ (\A j \in 1 .. k : \A q \in 1 .. Len(all[j]) : all[j][q] # "[DONE]")
              => \A p \in 1 .. Len(Joined(all, k)) : Joined(all, k)[p] # "[DONE]"
  <2>1. \A k \in 0 .. Len(all) :
         /\ \A j \in 0 .. k : Len(Joined(all, j)) <= Len(Joined(all, k))
         /\ (\A j \in 1 .. k : \A q \in 1 .. Len(all[j]) : all[j][q] # "[DONE]")
              => \A p \in 1 .. Len(Joined(all, k)) : Joined(all, k)[p] # "[DONE]"
    BY <1>7, JoinedGrows
  <2> QED
    BY <1>L, <2>1
<1> DEFINE a == Joined(all, n)
           b == End(eol)
<1>10. a \in Seq(Symbols) /\ S = a \o b /\ n \in 0 .. n + 1
  <2>1. n \in 0 .. n /\ n \in 0 .. n + 1
    BY <1>5
  <2> QED
    BY <1>2, <1>3, <1>7, <1>8, <2>1
<1>11. /\ b \in Seq(Symbols) /\ Len(b) = 2 + 2 * Len(eol) /\ Len(eol) \in {1, 2}
       /\ b[1] = "data:" /\ b[2] = "[DONE]"
  BY <1>1, EndFacts
<1> HIDE DEF a, b
<1>12. /\ S \in Seq(Symbols) /\ Len(S) = Len(a) + 2 + 2 * Len(eol) /\ Len(a) \in Nat
       /\ Follows(S, a, b)
  <2>1. /\ S \in Seq(Symbols) /\ Len(S) = Len(a) + Len(b) /\ Len(a) \in Nat
        /\ Follows(S, a, b)
    BY <1>10, <1>11, Concatenated
  <2> QED
    BY <1>11, <2>1
<1>13. E = Len(a) + 2 /\ E - 1 = Len(a) + 1 /\ E \in Nat /\ 2 <= E
  BY <1>11, <1>12 DEF eol
<1>14. S[E - 1] = "data:" /\ S[E] = "[DONE]"
  <2>1. 1 \in 1 .. Len(b) /\ 2 \in 1 .. Len(b)
    BY <1>11
  <2>2. S[Len(a) + 1] = "data:" /\ S[Len(a) + 2] = "[DONE]"
    BY <1>11, <1>12, <2>1 DEF Follows
  <2> QED
    BY <1>13, <2>2, Zenon
<1>15. ASSUME \A i \in DOMAIN bodies : \A j \in DOMAIN bodies[i] : bodies[i][j] # "[DONE]",
              NEW p \in 1 .. E - 1
       PROVE  S[p] # "[DONE]"
  <2>1. \A j \in 1 .. n : \A q \in 1 .. Len(all[j]) : all[j][q] # "[DONE]"
    <3> SUFFICES ASSUME NEW j \in 1 .. n PROVE \A q \in 1 .. Len(all[j]) : all[j][q] # "[DONE]"
      OBVIOUS
    <3>1. all[j] = Content(bodies[j], eol) /\ bodies[j] \in Seq(Chars)
      BY <1>5, <1>7
    <3>2. \A i \in DOMAIN bodies[j] : bodies[j][i] # "[DONE]"
      BY <1>1, <1>15 DEF n
    <3> QED
      BY <1>1, <3>1, <3>2, ContentFacts
  <2>2. \A i \in 1 .. Len(a) : a[i] # "[DONE]"
    BY <1>9, <1>10, <2>1 DEF a
  <2>3. p \in 1 .. Len(a) \/ p = Len(a) + 1
    <3>1. p \in 1 .. Len(a) + 1
      BY <1>13, <1>15, Zenon
    <3>2. \A m \in Nat : \A k \in 1 .. m + 1 : k \in 1 .. m \/ k = m + 1
      OBVIOUS
    <3> QED
      BY <1>12, <3>1, <3>2, Zenon
  <2>4. S[Len(a) + 1] = "data:"
    BY <1>13, <1>14, Zenon
  <2>5. \A i \in 1 .. Len(a) : S[i] = a[i]
    BY <1>12 DEF Follows
  <2> QED
    BY <2>2, <2>3, <2>4, <2>5
<1>16. Ends[rep] \subseteq 0 .. Len(S) /\ Len(S) \in Ends[rep]
  <2>1. Ends[rep] = {Len(Joined(all, i)) : i \in 1 .. n + 1}
    BY <1>2, <1>4, <1>7 DEF Joined
  <2>2. S = Joined(all, n + 1)
    BY <1>2, <1>3, <1>8
  <2>3. \A i \in 1 .. n + 1 : Len(Joined(all, i)) \in Nat /\ Len(Joined(all, i)) <= Len(S)
    <3> SUFFICES ASSUME NEW i \in 1 .. n + 1
                 PROVE  Len(Joined(all, i)) \in Nat /\ Len(Joined(all, i)) <= Len(S)
      OBVIOUS
    <3>1. i \in 0 .. n + 1 /\ n + 1 \in 0 .. n + 1
      BY <1>5
    <3>2. Joined(all, i) \in Seq(Symbols)
      BY <1>8, <3>1, Zenon
    <3>3. Len(Joined(all, i)) \in Nat
      BY <3>2, LenProperties
    <3>4. Len(Joined(all, i)) <= Len(Joined(all, n + 1))
      BY <1>9, <3>1, Zenon
    <3> QED
      BY <2>2, <3>3, <3>4, Zenon
  <2>4. n + 1 \in 1 .. n + 1
    BY <1>5
  <2> QED
    BY <1>12, <2>1, <2>2, <2>3, <2>4
<1> QED
  BY <1>12, <1>13, <1>14, <1>15, <1>16, <1>11 DEF bodies, eol, EndsWithMarker

----------------------------------------------------------------------------
(* Whose word an answer is. *)

Cuts == {"marker", "character", "last line end"}

FlowType ==
    /\ reply \in [Requests -> AllReplies]
    /\ handler \in [Requests -> HandlerStates] /\ client \in [Requests -> ClientStates]
    /\ relay \in [Requests -> {"none", "open", "closed", "broken"}]
    /\ written \in [Requests -> Nat] /\ relayed \in [Requests -> Nat]
    /\ received \in [Requests -> Nat]
    /\ completed \in [Requests -> BOOLEAN] /\ cut \in [Requests -> SUBSET Cuts]

\* Bytes only leave where they arrived; the end is passed on only behind all
\* bytes; and the router has seen the end marker if it relayed it uncut.
Flows(r) ==
    /\ written[r] <= Len(Stream(r)) /\ relayed[r] <= written[r] /\ received[r] <= relayed[r]
    /\ handler[r] = "over" => written[r] = Len(Stream(r))
    /\ client[r] = "reading" /\ relay[r] = "closed" => relayed[r] = Len(Stream(r))
    /\ client[r] = "success" => received[r] = Len(Stream(r))
    /\ relayed[r] = EndOfMarker(r) - 1 => "marker" \in cut[r]
    /\ relayed[r] >= EndOfMarker(r) => completed[r] \/ "marker" \in cut[r]
    /\ completed[r] => relayed[r] >= EndOfMarker(r) \/ Has(r, "[DONE]")

FlowInv == FlowType /\ \A r \in Requests : Flows(r)

LEMMA StreamOf ==
  ASSUME FlowType, NEW r \in Requests
  PROVE  /\ Stream(r) \in Seq(Symbols) /\ Len(Stream(r)) \in Nat
         /\ EndOfMarker(r) \in Nat /\ 2 <= EndOfMarker(r) /\ EndOfMarker(r) <= Len(Stream(r))
         /\ Stream(r)[EndOfMarker(r) - 1] = "data:" /\ Stream(r)[EndOfMarker(r)] = "[DONE]"
         /\ ~Has(r, "[DONE]") => \A p \in 1 .. EndOfMarker(r) - 1 : Stream(r)[p] # "[DONE]"
         /\ Ends[reply[r]] \subseteq 0 .. Len(Stream(r)) /\ Len(Stream(r)) \in Ends[reply[r]]
<1>1. reply[r] \in AllReplies
  BY DEF FlowType
<1> DEFINE rep == reply[r]
           S == Streams[rep]
           E == Len(S) - 2 * Len(rep.eol)
<1>2. Stream(r) = S /\ EndOfMarker(r) = E
  BY DEF Stream, EndOfMarker
<1>3. Has(r, "[DONE]") <=>
         \E b \in DOMAIN rep.bodies : \E j \in DOMAIN rep.bodies[b] : rep.bodies[b][j] = "[DONE]"
  BY DEF Has
<1>4. EndsWithMarker(rep, S, E)
  <2>1. rep \in AllReplies /\ S = Streams[rep] /\ E = Len(S) - 2 * Len(rep.eol)
    BY <1>1
  <2> HIDE DEF rep, S, E
  <2> QED
    BY <2>1, StreamFacts, Zenon
<1>5. Len(S) \in Nat
  <2> HIDE DEF S, E
  <2> QED
    BY <1>4 DEF EndsWithMarker
<1>6. E <= Len(S)
  <2> DEFINE l == Len(S)
             k == Len(rep.eol)
  <2>1. l \in Nat /\ k \in {1, 2} /\ E = l - 2 * k
    BY <1>4, <1>5 DEF EndsWithMarker
  <2> HIDE DEF l, k, E
  <2>2. E <= l
    BY <2>1
  <2> QED
    BY <2>2 DEF l
<1> HIDE DEF rep, S, E
<1> QED
  BY <1>2, <1>3, <1>4, <1>5, <1>6 DEF rep, EndsWithMarker

\* An event that is written: up to the end of one that was not.
LEMMA NextEnd ==
  ASSUME FlowType, NEW r \in Requests, written[r] < Len(Stream(r)),
         NEW n, n = Min({m \in Ends[reply[r]] : m > written[r]})
  PROVE  n \in Nat /\ written[r] < n /\ n <= Len(Stream(r))
<1> DEFINE M == {m \in Ends[reply[r]] : m > written[r]}
<1>1. M \subseteq 0 .. Len(Stream(r)) /\ Len(Stream(r)) \in M /\ Len(Stream(r)) \in Nat
  BY StreamOf
<1>2. \A m \in M : m > written[r] /\ m \in Nat /\ m <= Len(Stream(r))
  BY <1>1
<1>3. n = Min(M)
  OBVIOUS
<1>4. written[r] \in Nat
  BY DEF FlowType
<1> HIDE DEF M
<1>5. \E x \in M : \A y \in M : x <= y
  <2>1. M \subseteq Nat /\ M # {}
    BY <1>1, <1>2
  <2> QED
    BY <2>1, NatMin
<1>6. n \in M
  BY <1>3, <1>5 DEF Min
<1> QED
  BY <1>2, <1>4, <1>6

LEMMA PieceOf ==
  ASSUME NEW r \in Requests, NEW from \in Nat, NEW to \in Nat, NEW n \in Pieces(r, from, to), from <= to
  PROVE  n \in Nat /\ from < n /\ n <= to
  BY DEF Pieces

\* What is in a chunk, and that the end marker is.
LEMMA MarkerIn ==
  ASSUME FlowType, NEW r \in Requests, NEW a \in Nat, NEW n \in Nat, a < n, n <= Len(Stream(r))
  PROVE  /\ a + 2 <= EndOfMarker(r) /\ EndOfMarker(r) <= n => HasMarker(Bytes(r, a, n))
         /\ HasMarker(Bytes(r, a, n)) => n >= EndOfMarker(r) \/ Has(r, "[DONE]")
<1> DEFINE S == Stream(r)
           E == EndOfMarker(r)
           c == SubSeq(S, a + 1, n)
<1>1. /\ S \in Seq(Symbols) /\ Len(S) \in Nat /\ E \in Nat /\ 2 <= E /\ E <= Len(S)
      /\ S[E - 1] = "data:" /\ S[E] = "[DONE]"
      /\ ~Has(r, "[DONE]") => \A p \in 1 .. E - 1 : S[p] # "[DONE]"
  BY StreamOf
<1>2. Bytes(r, a, n) = c
  BY DEF Bytes
<1> HIDE DEF S, E
<1>3. n <= Len(S)
  BY DEF S
<1>4. /\ c \in Seq(Symbols) /\ Len(c) = n - a /\ \A i \in 1 .. n - a : c[i] = S[a + i]
  <2>1. \A i \in (a + 1) .. n : S[i] \in Symbols
    <3>1. \A i \in (a + 1) .. n : i \in 1 .. Len(S)
      BY <1>1, <1>3
    <3> QED
      BY <1>1, <3>1, ElementOfSeq
  <2>2. /\ c \in Seq(Symbols) /\ Len(c) = IF a + 1 <= n THEN n - (a + 1) + 1 ELSE 0
        /\ \A i \in 1 .. n - (a + 1) + 1 : c[i] = S[(a + 1) + i - 1]
    BY <2>1, SubSeqProperties
  <2>3. n - (a + 1) + 1 = n - a /\ a + 1 <= n
    OBVIOUS
  <2>4. \A i \in 1 .. n - a : (a + 1) + i - 1 = a + i
    OBVIOUS
  <2> QED
    BY <2>2, <2>3, <2>4
<1> HIDE DEF c
<1>5. HasMarker(c) <=> \E i \in 1 .. n - a - 1 : c[i] = "data:" /\ c[i + 1] = "[DONE]"
  <2>1. ASSUME NEW i \in 1 .. n - a - 1
        PROVE  SubSeq(c, i, i + 1) = Marker <=> c[i] = "data:" /\ c[i + 1] = "[DONE]"
    <3> DEFINE t == SubSeq(c, i, i + 1)
    <3>0. i \in 1 .. Len(c) /\ i + 1 \in 1 .. Len(c)
      BY <1>4
    <3>1. \A j \in i .. i + 1 : c[j] \in Symbols
      <4>1. \A j \in i .. i + 1 : j \in 1 .. Len(c)
        BY <3>0
      <4> QED
        BY <1>4, <4>1, ElementOfSeq
    <3>2. t \in Seq(Symbols) /\ Len(t) = 2 /\ t[1] = c[i] /\ t[2] = c[i + 1]
      <4>1. /\ t \in Seq(Symbols) /\ Len(t) = IF i <= i + 1 THEN (i + 1) - i + 1 ELSE 0
            /\ \A j \in 1 .. (i + 1) - i + 1 : t[j] = c[i + j - 1]
        BY <3>1, SubSeqProperties
      <4>2. (i + 1) - i + 1 = 2 /\ i + 1 - 1 = i /\ i + 2 - 1 = i + 1 /\ i <= i + 1
        OBVIOUS
      <4>3. 1 \in 1 .. 2 /\ 2 \in 1 .. 2
        OBVIOUS
      <4>4. Len(t) = 2
        BY <4>1, <4>2, Zenon
      <4>5. t[1] = c[i + 1 - 1] /\ t[2] = c[i + 2 - 1]
        BY <4>1, <4>2, <4>3, Zenon
      <4> QED
        BY <4>1, <4>2, <4>4, <4>5, Zenon
    <3>3. Marker \in Seq(Symbols) /\ Len(Marker) = 2 /\ Marker[1] = "data:" /\ Marker[2] = "[DONE]"
      BY DEF Marker, Symbols, Chars
    <3> HIDE DEF t
    <3>4. t = Marker <=> t[1] = "data:" /\ t[2] = "[DONE]"
      <4>1. \A j \in 1 .. 2 : j = 1 \/ j = 2
        OBVIOUS
      <4>2. ASSUME t[1] = Marker[1], t[2] = Marker[2] PROVE t = Marker
        <5>1. Len(t) = Len(Marker) /\ \A j \in 1 .. Len(t) : t[j] = Marker[j]
          BY <3>2, <3>3, <4>1, <4>2
        <5> QED
          BY <3>2, <3>3, <5>1, SeqEqual
      <4> QED
        BY <3>3, <4>2, Zenon
    <3> QED
      BY <3>2, <3>4 DEF t
  <2>2. Len(c) - 1 = n - a - 1
    BY <1>4
  <2> QED
    BY <2>1, <2>2 DEF HasMarker
<1>6. ASSUME a + 2 <= E, E <= n PROVE HasMarker(c)
  <2> DEFINE i == E - 1 - a
  <2>1. i \in 1 .. n - a - 1 /\ i \in 1 .. n - a /\ i + 1 \in 1 .. n - a /\ a + i = E - 1 /\ a + (i + 1) = E
    BY <1>1, <1>6
  <2> HIDE DEF i
  <2>2. c[i] = S[a + i] /\ c[i + 1] = S[a + (i + 1)]
    BY <1>4, <2>1
  <2>3. c[i] = "data:" /\ c[i + 1] = "[DONE]"
    BY <1>1, <2>1, <2>2, Zenon
  <2> QED
    BY <1>5, <2>1, <2>3
<1>7. ASSUME HasMarker(c), ~(n >= E), ~Has(r, "[DONE]") PROVE FALSE
  <2>1. PICK i \in 1 .. n - a - 1 : c[i + 1] = "[DONE]"
    BY <1>5, <1>7
  <2>2. i + 1 \in 1 .. n - a /\ a + (i + 1) \in 1 .. E - 1
    BY <1>1, <1>7
  <2>3. c[i + 1] = S[a + (i + 1)]
    BY <1>4, <2>2
  <2> QED
    BY <1>1, <1>7, <2>1, <2>2, <2>3, Zenon
<1> QED
  BY <1>2, <1>6, <1>7 DEF E

\* A step that moves no bytes: of the ends it sets, those of one request.
LEMMA FlowControl ==
  ASSUME FlowInv, UNCHANGED <<reply, written, relayed, received, completed, cut>>,
         NEW r \in Requests, NEW h \in HandlerStates, NEW c \in ClientStates,
         NEW p \in {"none", "open", "closed", "broken"},
         handler' = [handler EXCEPT ![r] = h], client' = [client EXCEPT ![r] = c],
         relay' = [relay EXCEPT ![r] = p],
         h = "over" => written[r] = Len(Stream(r)),
         c = "reading" /\ p = "closed" => relayed[r] = Len(Stream(r)),
         c = "success" => received[r] = Len(Stream(r))
  PROVE  FlowInv'
<1>1. FlowType'
  BY DEF FlowInv, FlowType
<1>2. ASSUME NEW q \in Requests PROVE Flows(q)'
  <2>1. Stream(q)' = Stream(q) /\ EndOfMarker(q)' = EndOfMarker(q) /\ (Has(q, "[DONE]")' <=> Has(q, "[DONE]"))
    BY DEF Stream, EndOfMarker, Has
  <2>2. CASE q = r
    <3>1. handler'[q] = h /\ client'[q] = c /\ relay'[q] = p
      BY <2>2 DEF FlowInv, FlowType
    <3> QED
      BY <2>1, <2>2, <3>1 DEF FlowInv, Flows
  <2>3. CASE q # r
    <3>1. handler'[q] = handler[q] /\ client'[q] = client[q] /\ relay'[q] = relay[q]
      BY <2>3 DEF FlowInv, FlowType
    <3> QED
      BY <2>1, <2>3, <3>1 DEF FlowInv, Flows
  <2> QED
    BY <2>2, <2>3
<1> QED
  BY <1>1, <1>2 DEF FlowInv

LEMMA FlowEnds ==
  ASSUME FlowInv, NEW r \in Requests,
         \/ Send(r) \/ ForeignAnswers(r) \/ (\E fails \in BOOLEAN : Answer(r, fails))
         \/ Begin(r) \/ Finish(r) \/ Cancelled(r) \/ RelayEnds(r) \/ UpstreamLost(r)
         \/ Read(r) \/ ReadFails(r) \/ GiveUp(r)
  PROVE  FlowInv'
<1>1. UNCHANGED <<reply, written, relayed, received, completed, cut>>
  BY DEF Send, ForeignAnswers, Answer, Begin, Finish, Cancelled, RelayEnds, UpstreamLost,
         Read, ReadFails, GiveUp, routerVars, clientVars
<1>2. /\ handler = [handler EXCEPT ![r] = handler[r]] /\ handler[r] \in HandlerStates
      /\ client = [client EXCEPT ![r] = client[r]] /\ client[r] \in ClientStates
      /\ relay = [relay EXCEPT ![r] = relay[r]] /\ relay[r] \in {"none", "open", "closed", "broken"}
  BY DEF FlowInv, FlowType
<1> USE DEF HandlerStates, ClientStates
<1>3. \E h \in HandlerStates, c \in ClientStates, p \in {"none", "open", "closed", "broken"} :
         /\ handler' = [handler EXCEPT ![r] = h] /\ client' = [client EXCEPT ![r] = c]
         /\ relay' = [relay EXCEPT ![r] = p]
         /\ h = "over" => written[r] = Len(Stream(r))
         /\ c = "reading" /\ p = "closed" => relayed[r] = Len(Stream(r))
         /\ c = "success" => received[r] = Len(Stream(r))
  <2>1. CASE Send(r)
    <3>1. handler' = [handler EXCEPT ![r] = "waiting"] /\ client' = [client EXCEPT ![r] = "waiting"]
          /\ relay' = relay
      BY <2>1 DEF Send, routerVars
    <3> QED
      BY <1>2, <3>1
  <2>2. ASSUME NEW fails \in BOOLEAN, Answer(r, fails)
        PROVE  \/ /\ handler' = [handler EXCEPT ![r] = "gone"]
                  /\ client' = [client EXCEPT ![r] = "failed"] /\ relay' = [relay EXCEPT ![r] = "closed"]
               \/ /\ handler' = [handler EXCEPT ![r] = "admitted"]
                  /\ client' = [client EXCEPT ![r] = "reading"] /\ relay' = [relay EXCEPT ![r] = "open"]
    BY <2>2 DEF Answer
  <2>3. CASE ForeignAnswers(r)
    BY <2>3 DEF ForeignAnswers
  <2>4. CASE Begin(r) \/ Cancelled(r)
    <3>1. relay' = relay /\ client' = client
          /\ \E h \in {"running", "gone"} : handler' = [handler EXCEPT ![r] = h]
      BY <2>4 DEF Begin, Cancelled, routerVars, clientVars
    <3>2. client[r] = "reading" /\ relay[r] = "closed" => relayed[r] = Len(Stream(r))
      BY DEF FlowInv, Flows
    <3>3. client[r] = "success" => received[r] = Len(Stream(r))
      BY DEF FlowInv, Flows
    <3> QED
      BY <1>2, <3>1, <3>2, <3>3
  <2>5. CASE Finish(r)
    <3>1. relay' = relay /\ client' = client /\ written[r] = Len(Stream(r))
          /\ handler' = [handler EXCEPT ![r] = "over"]
      BY <2>5 DEF Finish, routerVars, clientVars
    <3>2. client[r] = "reading" /\ relay[r] = "closed" => relayed[r] = Len(Stream(r))
      BY DEF FlowInv, Flows
    <3>3. client[r] = "success" => received[r] = Len(Stream(r))
      BY DEF FlowInv, Flows
    <3> QED
      BY <1>2, <3>1, <3>2, <3>3
  <2>6. CASE RelayEnds(r)
    <3>1. handler' = handler /\ client' = client /\ relay' = [relay EXCEPT ![r] = "closed"]
          /\ relayed[r] = written[r] /\ handler[r] = "over"
      BY <2>6 DEF RelayEnds, clientVars
    <3>2. written[r] = Len(Stream(r)) /\ (client[r] = "success" => received[r] = Len(Stream(r)))
      BY <3>1 DEF FlowInv, Flows
    <3> QED
      BY <1>2, <3>1, <3>2
  <2>7. CASE UpstreamLost(r)
    <3>1. handler' = handler /\ client' = client /\ relay' = [relay EXCEPT ![r] = "broken"]
      BY <2>7 DEF UpstreamLost, clientVars
    <3>2. /\ handler[r] = "over" => written[r] = Len(Stream(r))
          /\ client[r] = "success" => received[r] = Len(Stream(r))
      BY DEF FlowInv, Flows
    <3> QED
      BY <1>2, <3>1, <3>2
  <2>8. CASE Read(r) \/ ReadFails(r) \/ GiveUp(r)
    <3>1. handler' = handler /\ \E c \in {"failed", "success"}, p \in {relay[r], "closed"} :
             /\ client' = [client EXCEPT ![r] = c] /\ relay' = [relay EXCEPT ![r] = p]
             /\ c = "success" => client[r] = "reading" /\ relay[r] = "closed" /\ received[r] = relayed[r]
      <4>1. CASE Read(r)
        BY <1>2, <4>1 DEF Read, routerVars
      <4>2. CASE ReadFails(r)
        BY <1>2, <4>2 DEF ReadFails, routerVars
      <4>3. CASE GiveUp(r)
        BY <1>2, <4>3 DEF GiveUp
      <4> QED
        BY <2>8, <4>1, <4>2, <4>3
    <3>2. /\ handler[r] = "over" => written[r] = Len(Stream(r))
          /\ client[r] = "reading" /\ relay[r] = "closed" => relayed[r] = Len(Stream(r))
      BY DEF FlowInv, Flows
    <3> QED
      BY <1>2, <3>1, <3>2
  <2> QED
    BY <1>2, <2>1, <2>2, <2>3, <2>4, <2>5, <2>6, <2>7, <2>8
<1> HIDE DEF HandlerStates, ClientStates
<1>4. PICK h \in HandlerStates, c \in ClientStates, p \in {"none", "open", "closed", "broken"} :
         /\ handler' = [handler EXCEPT ![r] = h] /\ client' = [client EXCEPT ![r] = c]
         /\ relay' = [relay EXCEPT ![r] = p]
         /\ h = "over" => written[r] = Len(Stream(r))
         /\ c = "reading" /\ p = "closed" => relayed[r] = Len(Stream(r))
         /\ c = "success" => received[r] = Len(Stream(r))
  BY <1>3
<1> QED
  BY <1>1, <1>4, FlowControl

LEMMA FlowWrite == ASSUME FlowInv, NEW r \in Requests, Write(r) PROVE FlowInv'
<1>1. /\ handler[r] = "running" /\ written[r] < Len(Stream(r))
      /\ written' = [written EXCEPT ![r] = Min({n \in Ends[reply[r]] : n > written[r]})]
      /\ UNCHANGED <<reply, handler, client, relay, relayed, received, completed, cut>>
  BY DEF Write, routerVars, clientVars
<1>2. PICK n : n = Min({m \in Ends[reply[r]] : m > written[r]})
  OBVIOUS
<1>3. n \in Nat /\ written[r] < n /\ n <= Len(Stream(r)) /\ written' = [written EXCEPT ![r] = n]
  BY <1>1, <1>2, NextEnd DEF FlowInv
<1>4. FlowType'
  BY <1>1, <1>3 DEF FlowInv, FlowType
<1>5. ASSUME NEW q \in Requests PROVE Flows(q)'
  <2>1. Stream(q)' = Stream(q) /\ EndOfMarker(q)' = EndOfMarker(q) /\ (Has(q, "[DONE]")' <=> Has(q, "[DONE]"))
    BY <1>1 DEF Stream, EndOfMarker, Has
  <2>2. written[q] \in Nat /\ relayed[q] \in Nat
    BY DEF FlowInv, FlowType
  <2>3. CASE q = r
    <3>1. written'[q] = n
      BY <1>3, <2>3 DEF FlowInv, FlowType
    <3> QED
      BY <1>1, <1>3, <2>1, <2>2, <2>3, <3>1 DEF FlowInv, Flows
  <2>4. CASE q # r
    <3>1. written'[q] = written[q]
      BY <1>3, <2>4 DEF FlowInv, FlowType
    <3> QED
      BY <1>1, <2>1, <3>1 DEF FlowInv, Flows
  <2> QED
    BY <2>3, <2>4
<1> QED
  BY <1>4, <1>5 DEF FlowInv

LEMMA FlowRelay == ASSUME FlowInv, NEW r \in Requests, Relay(r) PROVE FlowInv'
<1>1. PICK n \in Pieces(r, relayed[r], written[r]) :
         /\ relayed' = [relayed EXCEPT ![r] = n]
         /\ completed' = [completed EXCEPT ![r] = completed[r] \/ HasMarker(Bytes(r, relayed[r], n))]
         /\ cut' = [cut EXCEPT ![r] = cut[r] \cup CutsMarker(r, n)]
  BY DEF Relay
<1>2. relay[r] = "open" /\ UNCHANGED <<reply, handler, client, relay, written, received>>
  BY DEF Relay, clientVars
<1>3. /\ relayed[r] \in Nat /\ written[r] \in Nat /\ relayed[r] <= written[r]
      /\ written[r] <= Len(Stream(r)) /\ FlowType /\ received[r] \in Nat /\ received[r] <= relayed[r]
  BY DEF FlowInv, FlowType, Flows
<1>4. n \in Nat /\ relayed[r] < n /\ n <= written[r]
  BY <1>3, PieceOf
<1>5. Len(Stream(r)) \in Nat /\ EndOfMarker(r) \in Nat /\ n <= Len(Stream(r))
  BY <1>3, <1>4, StreamOf
<1> DEFINE seen2 == HasMarker(Bytes(r, relayed[r], n))
<1>6. /\ relayed[r] + 2 <= EndOfMarker(r) /\ EndOfMarker(r) <= n => seen2
      /\ seen2 => n >= EndOfMarker(r) \/ Has(r, "[DONE]")
  BY <1>3, <1>4, <1>5, MarkerIn
<1> HIDE DEF seen2
<1>7. CutsMarker(r, n) \subseteq Cuts /\ (n = EndOfMarker(r) - 1 => "marker" \in CutsMarker(r, n))
  BY DEF CutsMarker, Cuts
<1>8. FlowType'
  <2>1. completed' \in [Requests -> BOOLEAN]
    BY <1>1, <1>3 DEF FlowType, HasMarker
  <2>2. cut' \in [Requests -> SUBSET Cuts]
    BY <1>1, <1>3, <1>7 DEF FlowType
  <2> QED
    BY <1>1, <1>2, <1>3, <1>4, <2>1, <2>2 DEF FlowType
<1>9. ASSUME NEW q \in Requests PROVE Flows(q)'
  <2>1. Stream(q)' = Stream(q) /\ EndOfMarker(q)' = EndOfMarker(q) /\ (Has(q, "[DONE]")' <=> Has(q, "[DONE]"))
    BY <1>2 DEF Stream, EndOfMarker, Has
  <2>3. CASE q = r
    <3>1. relayed'[q] = n /\ (completed'[q] <=> completed[r] \/ seen2)
          /\ cut'[q] = cut[r] \cup CutsMarker(r, n)
      BY <1>1, <1>3, <2>3 DEF FlowType, seen2
    <3>2. /\ written'[q] = written[r] /\ received'[q] = received[r] /\ handler'[q] = handler[r]
          /\ client'[q] = client[r] /\ relay'[q] = "open"
      BY <1>2, <2>3
    <3>3. /\ relayed[r] = EndOfMarker(r) - 1 => "marker" \in cut[r]
          /\ relayed[r] >= EndOfMarker(r) => completed[r] \/ "marker" \in cut[r]
          /\ completed[r] => relayed[r] >= EndOfMarker(r) \/ Has(r, "[DONE]")
          /\ handler[r] = "over" => written[r] = Len(Stream(r))
          /\ client[r] = "success" => received[r] = Len(Stream(r))
      BY DEF FlowInv, Flows
    <3>4. /\ n = EndOfMarker(r) - 1 => "marker" \in cut[r] \cup CutsMarker(r, n)
      BY <1>7
    <3>5. n >= EndOfMarker(r) => completed[r] \/ seen2 \/ "marker" \in cut[r]
      BY <1>3, <1>4, <1>5, <1>6, <3>3
    <3>6. completed[r] \/ seen2 => n >= EndOfMarker(r) \/ Has(r, "[DONE]")
      BY <1>3, <1>4, <1>5, <1>6, <3>3
    <3> QED
      BY <1>3, <1>4, <2>1, <2>3, <3>1, <3>2, <3>3, <3>4, <3>5, <3>6 DEF Flows
  <2>4. CASE q # r
    <3>1. relayed'[q] = relayed[q] /\ completed'[q] = completed[q] /\ cut'[q] = cut[q]
      BY <1>1, <1>3, <2>4 DEF FlowType
    <3> QED
      BY <1>2, <2>1, <3>1 DEF FlowInv, Flows
  <2> QED
    BY <2>3, <2>4
<1> QED
  BY <1>8, <1>9 DEF FlowInv

LEMMA FlowReceive == ASSUME FlowInv, NEW r \in Requests, Receive(r) PROVE FlowInv'
<1>1. PICK n \in Pieces(r, received[r], relayed[r]) :
         /\ received' = [received EXCEPT ![r] = n]
         /\ cut' = [cut EXCEPT ![r] = cut[r] \cup CutsText(r, n)]
  BY DEF Receive
<1>2. client[r] = "reading" /\ UNCHANGED <<reply, handler, client, relay, written, relayed, completed>>
  BY DEF Receive, routerVars
<1>3. /\ relayed[r] \in Nat /\ received[r] \in Nat /\ FlowType /\ received[r] <= relayed[r]
  BY DEF FlowInv, FlowType, Flows
<1>4. n \in Nat /\ received[r] < n /\ n <= relayed[r]
  BY <1>3, PieceOf
<1>5. CutsText(r, n) \subseteq Cuts
  BY DEF CutsText, Cuts
<1>6. FlowType'
  <2>1. cut' \in [Requests -> SUBSET Cuts]
    BY <1>1, <1>3, <1>5 DEF FlowType
  <2> QED
    BY <1>1, <1>2, <1>3, <1>4, <2>1 DEF FlowType
<1>7. ASSUME NEW q \in Requests PROVE Flows(q)'
  <2>1. Stream(q)' = Stream(q) /\ EndOfMarker(q)' = EndOfMarker(q) /\ (Has(q, "[DONE]")' <=> Has(q, "[DONE]"))
    BY <1>2 DEF Stream, EndOfMarker, Has
  <2>2. CASE q = r
    <3>1. received'[q] = n /\ cut'[q] = cut[r] \cup CutsText(r, n)
      BY <1>1, <1>3, <2>2 DEF FlowType
    <3> QED
      BY <1>2, <1>3, <1>4, <2>1, <2>2, <3>1 DEF FlowInv, Flows
  <2>3. CASE q # r
    <3>1. received'[q] = received[q] /\ cut'[q] = cut[q]
      BY <1>1, <1>3, <2>3 DEF FlowType
    <3> QED
      BY <1>2, <2>1, <3>1 DEF FlowInv, Flows
  <2> QED
    BY <2>2, <2>3
<1> QED
  BY <1>6, <1>7 DEF FlowInv

LEMMA FlowStep == FlowInv /\ [Next]_vars => FlowInv'
<1> SUFFICES ASSUME FlowInv, [Next]_vars PROVE FlowInv'
  OBVIOUS
<1>1. CASE Reset \/ UNCHANGED vars
  <2>1. UNCHANGED <<reply, handler, client, relay, written, relayed, received, completed, cut>>
    BY <1>1 DEF Reset, vars, routerVars, clientVars
  <2>2. FlowType'
    BY <2>1 DEF FlowInv, FlowType
  <2>3. \A q \in Requests : Flows(q)' <=> Flows(q)
    BY <2>1 DEF Flows, Stream, EndOfMarker, Has
  <2> QED
    BY <2>2, <2>3 DEF FlowInv
<1> QED
  BY <1>1, FlowEnds, FlowWrite, FlowRelay, FlowReceive DEF Next

LEMMA FlowInit == Init => FlowInv
<1> SUFFICES ASSUME Init PROVE FlowInv
  OBVIOUS
<1>1. FlowType
  <2>1. reply \in [Requests -> AllReplies]
    BY DEF Init
  <2> QED
    BY <2>1 DEF Init, FlowType, HandlerStates, ClientStates
<1>2. ASSUME NEW r \in Requests PROVE Flows(r)
  <2>1. /\ handler[r] = "none" /\ client[r] = "none" /\ relay[r] = "none"
        /\ written[r] = 0 /\ relayed[r] = 0 /\ received[r] = 0 /\ completed[r] = FALSE
    BY DEF Init
  <2>2. Len(Stream(r)) \in Nat /\ EndOfMarker(r) \in Nat /\ 2 <= EndOfMarker(r)
    BY <1>1, StreamOf
  <2> QED
    BY <2>1, <2>2 DEF Flows
<1> QED
  BY <1>1, <1>2 DEF FlowInv

\* What the client counts as a success was relayed to its end, and the router
\* saw the end marker pass unless the transport cut it; what the router counts
\* as complete was relayed up to the end marker, or quotes it (app.py 92-101,
\* run_benchmark.py 119-132).
THEOREM BothAgree == Spec => []RouterAgrees
<1>1. FlowInv => RouterAgrees
  <2> SUFFICES ASSUME FlowInv, NEW r \in Requests
               PROVE  /\ client[r] = "success" => completed[r] \/ "marker" \in cut[r]
                      /\ completed[r] => relayed[r] >= EndOfMarker(r) \/ Has(r, "[DONE]")
    BY DEF RouterAgrees
  <2>1. /\ EndOfMarker(r) \in Nat /\ Len(Stream(r)) \in Nat /\ EndOfMarker(r) <= Len(Stream(r))
        /\ relayed[r] \in Nat /\ received[r] \in Nat
    BY StreamOf DEF FlowInv, FlowType
  <2> QED
    BY <2>1 DEF FlowInv, Flows
<1> QED
  BY <1>1, FlowInit, FlowStep, PTL DEF Spec

----------------------------------------------------------------------------
(* The reader.  Text and readers are recursive functions of the place; that *)
(* there are such functions is by induction as well.                        *)

GoesBy(f, x, N, g) == f[0] = x /\ \A n \in 1 .. N : f[n] = g[n][f[n - 1]]

LEMMA StepsExist ==
  ASSUME NEW T, NEW x \in T, NEW N \in Nat, NEW g \in [1 .. N -> [T -> T]]
  PROVE  \E f \in [0 .. N -> T] : GoesBy(f, x, N, g)
<1> DEFINE Is(f, m) == f[0] = x /\ \A n \in 1 .. m : f[n] = g[n][f[n - 1]]
           U == {m \in Nat : m <= N => \E f \in [0 .. m -> T] : Is(f, m)}
<1>1. 0 \in U
  <2>1. [n \in 0 .. 0 |-> x] \in [0 .. 0 -> T] /\ Is([n \in 0 .. 0 |-> x], 0)
    OBVIOUS
  <2> QED
    BY <2>1
<1>2. ASSUME NEW m \in Nat, m \in U PROVE m + 1 \in U
  <2> SUFFICES ASSUME m + 1 <= N PROVE \E f \in [0 .. m + 1 -> T] : Is(f, m + 1)
    OBVIOUS
  <2>1. PICK f \in [0 .. m -> T] : Is(f, m)
    BY <1>2
  <2>2. g[m + 1] \in [T -> T] /\ f[m] \in T
    BY <2>1
  <2> DEFINE last == g[m + 1][f[m]]
             h == [n \in 0 .. m + 1 |-> IF n <= m THEN f[n] ELSE last]
  <2>3. last \in T
    BY <2>2
  <2> HIDE DEF last
  <2>4. h \in [0 .. m + 1 -> T]
    BY <2>1, <2>3
  <2>5. h[0] = x
    BY <2>1
  <2>6. ASSUME NEW n \in 1 .. m + 1 PROVE h[n] = g[n][h[n - 1]]
    <3>1. CASE n <= m
      <4>1. n \in 1 .. m /\ h[n] = f[n] /\ h[n - 1] = f[n - 1]
        BY <3>1
      <4> HIDE DEF h
      <4> QED
        BY <2>1, <4>1
    <3>2. CASE ~(n <= m)
      <4>1. n = m + 1 /\ n - 1 = m /\ h[n] = last /\ h[n - 1] = f[m]
        BY <3>2
      <4> HIDE DEF h
      <4> QED
        BY <4>1 DEF last
    <3> QED
      BY <3>1, <3>2
  <2> HIDE DEF h
  <2> QED
    BY <2>4, <2>5, <2>6
<1> HIDE DEF U
<1>3. Nat \subseteq U
  BY <1>1, <1>2, NatInd
<1> QED
  BY <1>3 DEF U, GoesBy

LEMMA StepsStay ==
  ASSUME NEW T, NEW N \in Nat, NEW f, f[0] \in T,
         \A n \in 0 .. N - 1 : f[n] \in T => f[n + 1] \in T
  PROVE  \A n \in 0 .. N : f[n] \in T
<1> DEFINE U == {m \in Nat : m <= N => f[m] \in T}
<1>1. 0 \in U
  OBVIOUS
<1>2. ASSUME NEW m \in Nat, m \in U PROVE m + 1 \in U
  BY <1>2
<1> HIDE DEF U
<1>3. Nat \subseteq U
  BY <1>1, <1>2, NatInd
<1> QED
  BY <1>3 DEF U

\* What a content may be read as, and what a text is made of.
Glyphs == {"x", "hi-lo", "?", "data:", "[DONE]"}
Letters == Glyphs \cup {"ls", "begin", "end", CR, LF}
Tellings == {<<>>} \cup {<<c>> : c \in Letters}

LEMMA SymbolType ==
  ASSUME NEW raw \in Seq(Symbols), NEW n \in 1 .. Len(raw)
  PROVE  Symbol(raw, n) \in Tellings
<1>1. raw[n] \in Symbols
  OBVIOUS
<1> QED
  BY <1>1 DEF Symbol, Symbols, Chars, Tellings, Letters, Glyphs

LEMMA TellingType == ASSUME NEW t \in Tellings
                     PROVE  t \in Seq(Letters) /\ (t # <<>> => t[1] \in Letters /\ t = <<t[1]>>)
<1>1. CASE t = <<>>
  BY <1>1
<1>2. CASE t # <<>>
  <2>1. PICK c \in Letters : t = <<c>>
    BY <1>2 DEF Tellings
  <2> QED
    BY <2>1
<1> QED
  BY <1>1, <1>2

LEMMA TextsFacts ==
  ASSUME NEW raw \in Seq(Symbols)
  PROVE  /\ Texts(raw)[0] = <<>>
         /\ \A n \in 1 .. Len(raw) : Texts(raw)[n] = Texts(raw)[n - 1] \o Symbol(raw, n)
         /\ \A n \in 0 .. Len(raw) : Texts(raw)[n] \in Seq(Letters)
<1> DEFINE N == Len(raw)
           T == Seq(Letters)
           g == [n \in 1 .. N |-> [t \in T |-> t \o Symbol(raw, n)]]
           Is(f) == f = [n \in 0 .. N |-> IF n = 0 THEN <<>> ELSE f[n - 1] \o Symbol(raw, n)]
<1>1. \A n \in 1 .. N : \A t \in T : t \o Symbol(raw, n) \in T
  <2> SUFFICES ASSUME NEW n \in 1 .. N, NEW t \in T PROVE t \o Symbol(raw, n) \in T
    OBVIOUS
  <2>1. Symbol(raw, n) \in Seq(Letters)
    BY SymbolType, TellingType
  <2> QED
    BY <2>1, ConcatProperties
<1>2. N \in Nat /\ <<>> \in T
  OBVIOUS
<1>3. PICK f \in [0 .. N -> T] : GoesBy(f, <<>>, N, g)
  <2>1. g \in [1 .. N -> [T -> T]]
    BY <1>1
  <2> HIDE DEF g, N, T
  <2> QED
    BY <1>2, <2>1, StepsExist
<1>4. \A n \in 1 .. N : f[n - 1] \in T /\ f[n] = f[n - 1] \o Symbol(raw, n)
  <2> SUFFICES ASSUME NEW n \in 1 .. N PROVE f[n - 1] \in T /\ f[n] = f[n - 1] \o Symbol(raw, n)
    OBVIOUS
  <2>1. f[n - 1] \in T
    BY <1>2, <1>3
  <2>2. g[n] = [t \in T |-> t \o Symbol(raw, n)] /\ f[n] = g[n][f[n - 1]]
    BY <1>3 DEF GoesBy
  <2> HIDE DEF g, T
  <2> QED
    BY <2>1, <2>2
<1>5. Is(f)
  <2> HIDE DEF g, T
  <2>1. \A n \in 0 .. N : f[n] = IF n = 0 THEN <<>> ELSE f[n - 1] \o Symbol(raw, n)
    BY <1>2, <1>3, <1>4 DEF GoesBy
  <2> QED
    BY <1>3, <2>1
<1> DEFINE text[n \in 0 .. Len(raw)] == IF n = 0 THEN <<>> ELSE text[n - 1] \o Symbol(raw, n)
<1>6. Texts(raw) = text
  BY DEF Texts
<1>7. Is(text)
  BY <1>5
<1> HIDE DEF text, g, T
<1>8. text[0] = <<>> /\ \A n \in 1 .. N : text[n] = text[n - 1] \o Symbol(raw, n)
  <2>1. \A n \in 0 .. N : text[n] = IF n = 0 THEN <<>> ELSE text[n - 1] \o Symbol(raw, n)
    BY <1>7
  <2>2. 0 \in 0 .. N /\ \A n \in 1 .. N : n \in 0 .. N /\ n # 0
    BY <1>2
  <2> HIDE DEF Is, N
  <2> QED
    BY <2>1, <2>2, Zenon
<1> HIDE DEF Is
<1>9. \A n \in 0 .. N : text[n] \in T
  <2>1. ASSUME NEW n \in 0 .. N - 1, text[n] \in T PROVE text[n + 1] \in T
    <3>1. n + 1 \in 1 .. N /\ (n + 1) - 1 = n
      BY <1>2
    <3> QED
      BY <1>1, <1>8, <2>1, <3>1
  <2> QED
    BY <1>2, <1>8, <2>1, StepsStay
<1> QED
  BY <1>6, <1>8, <1>9 DEF T

Contents == Seq(Seq(Letters))
Readers == [buffer : Seq(Letters), contents : Contents, done : BOOLEAN]
Readings == [acc : Readers, line : Seq(Letters)]

LEMMA EmptyIsReader == Empty \in Readers
<1>1. <<>> \in Contents /\ <<>> \in Seq(Letters)
  BY DEF Contents
<1> QED
  BY <1>1 DEF Empty, Readers

\* A content is put at the end, or the end is noted, or nothing happens.
LEMMA ReadLineType ==
  ASSUME NEW a \in Readers, NEW line \in Seq(Letters)
  PROVE  ReadLine(a, line) \in Readers /\ ReadLine(a, line).buffer = a.buffer
<1>1. CASE line = <<>> \/ line[1] # "data:"
  BY <1>1 DEF ReadLine
<1>2. CASE ~(line = <<>> \/ line[1] # "data:")
  <2> DEFINE data == Tail(line)
             piece == SubSeq(data, 2, Len(data) - 1)
  <2>1. data \in Seq(Letters)
    BY <1>2
  <2>2. piece \in Seq(Letters)
    <3>1. CASE Len(data) > 2
      <4>1. 2 \in 1 .. Len(data) + 1 /\ Len(data) - 1 \in 0 .. Len(data)
        BY <2>1, <3>1
      <4> HIDE DEF data
      <4> QED
        BY <2>1, <4>1, SubSeqProperties
    <3>2. CASE ~(Len(data) > 2)
      <4> HIDE DEF data
      <4>1. Len(data) \in Nat /\ Len(data) - 1 < 2
        BY <2>1, <3>2
      <4> QED
        BY <4>1
    <3> QED
      BY <3>1, <3>2
  <2>3. \/ ReadLine(a, line) = [a EXCEPT !.done = TRUE]
        \/ ReadLine(a, line) = [a EXCEPT !.contents = Append(@, piece)]
        \/ ReadLine(a, line) = a
    BY <1>2 DEF ReadLine
  <2> HIDE DEF piece
  <2>4. \A d \in Contents : Append(d, piece) \in Contents
    BY <2>2, AppendProperties DEF Contents
  <2> QED
    BY <2>3, <2>4 DEF Readers
<1> QED
  BY <1>1, <1>2

LEMMA ReadCharacterType ==
  ASSUME NEW s \in Readings, NEW c \in Letters
  PROVE  ReadCharacter(s, c) \in Readings /\ ReadCharacter(s, c).acc.buffer = s.acc.buffer
<1>1. s.acc \in Readers /\ s.line \in Seq(Letters)
  BY DEF Readings
<1>2. CASE c \in {CR, LF, "ls"}
  <2>1. ReadCharacter(s, c) = [acc |-> ReadLine(s.acc, s.line), line |-> <<>>]
    BY <1>2 DEF ReadCharacter
  <2> QED
    BY <1>1, <2>1, ReadLineType DEF Readings
<1>3. CASE c \notin {CR, LF, "ls"}
  <2>1. ReadCharacter(s, c) = [acc |-> s.acc, line |-> Append(s.line, c)]
    BY <1>3 DEF ReadCharacter
  <2> QED
    BY <1>1, <2>1 DEF Readings
<1> QED
  BY <1>2, <1>3

LEMMA LinesFacts ==
  ASSUME NEW a \in Readers, NEW e \in Seq(Letters)
  PROVE  /\ Lines(a, e)[0] = [acc |-> a, line |-> <<>>]
         /\ \A n \in 1 .. Len(e) : Lines(a, e)[n] = ReadCharacter(Lines(a, e)[n - 1], e[n])
         /\ \A n \in 0 .. Len(e) : Lines(a, e)[n] \in Readings /\ Lines(a, e)[n].acc.buffer = a.buffer
<1> DEFINE N == Len(e)
           x == [acc |-> a, line |-> <<>>]
           T == {s \in Readings : s.acc.buffer = a.buffer}
           g == [n \in 1 .. N |-> [s \in T |-> ReadCharacter(s, e[n])]]
           Is(f) == f = [n \in 0 .. N |-> IF n = 0 THEN x ELSE ReadCharacter(f[n - 1], e[n])]
<1>1. \A n \in 1 .. N : \A s \in T : ReadCharacter(s, e[n]) \in T
  BY ReadCharacterType
<1>2. N \in Nat /\ x \in T
  BY DEF Readings
<1> HIDE DEF x
<1>3. PICK f \in [0 .. N -> T] : GoesBy(f, x, N, g)
  <2>1. g \in [1 .. N -> [T -> T]]
    BY <1>1
  <2> HIDE DEF g, N, T
  <2> QED
    BY <1>2, <2>1, StepsExist
<1>4. \A n \in 1 .. N : f[n - 1] \in T /\ f[n] = ReadCharacter(f[n - 1], e[n])
  <2> SUFFICES ASSUME NEW n \in 1 .. N
               PROVE  f[n - 1] \in T /\ f[n] = ReadCharacter(f[n - 1], e[n])
    OBVIOUS
  <2>1. f[n - 1] \in T
    BY <1>2, <1>3
  <2>2. g[n] = [s \in T |-> ReadCharacter(s, e[n])] /\ f[n] = g[n][f[n - 1]]
    BY <1>3 DEF GoesBy
  <2> HIDE DEF g, T
  <2> QED
    BY <2>1, <2>2
<1>5. Is(f)
  <2> HIDE DEF g, T
  <2>1. \A n \in 0 .. N : f[n] = IF n = 0 THEN x ELSE ReadCharacter(f[n - 1], e[n])
    BY <1>2, <1>3, <1>4 DEF GoesBy
  <2> QED
    BY <1>3, <2>1
<1> DEFINE after[n \in 0 .. Len(e)] ==
             IF n = 0 THEN [acc |-> a, line |-> <<>>] ELSE ReadCharacter(after[n - 1], e[n])
<1>6. Lines(a, e) = after
  BY DEF Lines
<1>7. Is(after)
  BY <1>5 DEF x
<1> HIDE DEF after, g, T
<1>8. after[0] = x /\ \A n \in 1 .. N : after[n] = ReadCharacter(after[n - 1], e[n])
  <2>1. \A n \in 0 .. N : after[n] = IF n = 0 THEN x ELSE ReadCharacter(after[n - 1], e[n])
    BY <1>7
  <2>2. 0 \in 0 .. N /\ \A n \in 1 .. N : n \in 0 .. N /\ n # 0
    BY <1>2
  <2> HIDE DEF Is, N
  <2> QED
    BY <2>1, <2>2, Zenon
<1> HIDE DEF Is
<1>9. \A n \in 0 .. N : after[n] \in T
  <2>1. ASSUME NEW n \in 0 .. N - 1, after[n] \in T PROVE after[n + 1] \in T
    <3>1. n + 1 \in 1 .. N /\ (n + 1) - 1 = n
      BY <1>2
    <3> QED
      BY <1>1, <1>8, <2>1, <3>1
  <2> QED
    BY <1>2, <1>8, <2>1, StepsStay
<1> QED
  BY <1>6, <1>8, <1>9 DEF T, x

\* What is read depends only on what was there.
LEMMA LinesLocal ==
  ASSUME NEW a \in Readers, NEW e \in Seq(Letters), NEW f \in Seq(Letters), NEW m \in Nat,
         m <= Len(e), m <= Len(f), \A n \in 1 .. m : e[n] = f[n]
  PROVE  Lines(a, e)[m] = Lines(a, f)[m]
<1> DEFINE U == {n \in Nat : n <= m => Lines(a, e)[n] = Lines(a, f)[n]}
<1>1. /\ Lines(a, e)[0] = Lines(a, f)[0]
      /\ \A n \in 1 .. Len(e) : Lines(a, e)[n] = ReadCharacter(Lines(a, e)[n - 1], e[n])
      /\ \A n \in 1 .. Len(f) : Lines(a, f)[n] = ReadCharacter(Lines(a, f)[n - 1], f[n])
  BY LinesFacts
<1>2. 0 \in U
  BY <1>1
<1>3. ASSUME NEW n \in Nat, n \in U PROVE n + 1 \in U
  <2> SUFFICES ASSUME n + 1 <= m PROVE Lines(a, e)[n + 1] = Lines(a, f)[n + 1]
    OBVIOUS
  <2>1. /\ Lines(a, e)[n] = Lines(a, f)[n] /\ (n + 1) - 1 = n
        /\ n + 1 \in 1 .. m /\ n + 1 \in 1 .. Len(e) /\ n + 1 \in 1 .. Len(f)
    BY <1>3
  <2>2. Lines(a, e)[n + 1] = ReadCharacter(Lines(a, e)[n], e[n + 1])
    BY <1>1, <2>1
  <2>3. Lines(a, f)[n + 1] = ReadCharacter(Lines(a, f)[n], f[n + 1])
    BY <1>1, <2>1
  <2> QED
    BY <2>1, <2>2, <2>3
<1> HIDE DEF U
<1>4. Nat \subseteq U
  BY <1>2, <1>3, NatInd
<1> QED
  BY <1>4 DEF U

\* A reader that had read all lines of its buffer: where it stands does not
\* depend on the places at which events were closed.
Erased(a) == [a EXCEPT !.buffer = <<>>]
Standing(a) == Lines(Erased(a), a.buffer)[Len(a.buffer)]

LEMMA ErasedType ==
  ASSUME NEW a \in Readers
  PROVE  Erased(a) \in Readers /\ Erased(a).buffer = <<>> /\ a.buffer \in Seq(Letters)
<1>1. <<>> \in Seq(Letters)
  OBVIOUS
<1> HIDE DEF Letters
<1> QED
  BY <1>1 DEF Erased, Readers

LEMMA StandingType ==
  ASSUME NEW a \in Readers
  PROVE  Erased(a) \in Readers /\ Standing(a) \in Readings /\ Standing(a).acc.buffer = <<>>
<1>1. Erased(a) \in Readers /\ Erased(a).buffer = <<>> /\ a.buffer \in Seq(Letters)
  BY ErasedType
<1>2. Len(a.buffer) \in 0 .. Len(a.buffer)
  BY <1>1
<1> QED
  BY <1>1, <1>2, LinesFacts DEF Standing

LEMMA StandingOfEmpty ==
  ASSUME NEW a \in Readers, a.buffer = <<>>
  PROVE  Standing(a) = [acc |-> a, line |-> <<>>]
<1>1. Erased(a) = a
  BY DEF Erased, Readers
<1>2. Lines(a, <<>>)[0] = [acc |-> a, line |-> <<>>]
  <2>1. <<>> \in Seq(Letters)
    OBVIOUS
  <2> QED
    BY <2>1, LinesFacts
<1>3. Len(<<>>) = 0
  OBVIOUS
<1> QED
  BY <1>1, <1>2, <1>3 DEF Standing

LEMMA ReadSymbolStands ==
  ASSUME NEW a \in Readers, NEW c \in Letters
  PROVE  /\ ReadSymbol(a, c) \in Readers
         /\ Standing(ReadSymbol(a, c)) = ReadCharacter(Standing(a), c)
<1> DEFINE b == a.buffer
           n == Len(b)
           z == Erased(a)
<1>1. b \in Seq(Letters) /\ n \in Nat /\ z \in Readers /\ z.buffer = <<>>
  <2>1. b \in Seq(Letters) /\ z \in Readers /\ z.buffer = <<>>
    BY ErasedType
  <2> HIDE DEF b, z
  <2> QED
    BY <2>1
<1>2. Standing(a) = Lines(z, b)[n]
  BY DEF Standing
<1>3. CASE c = LF /\ n > 0 /\ b[n] = LF
  <2> DEFINE f == Front(b)
             w == Lines(z, f)[n - 1]
             R == ReadLine(w.acc, w.line)
  <2>1. f \in Seq(Letters) /\ Len(f) = n - 1 /\ \A i \in 1 .. n - 1 : f[i] = b[i]
    BY <1>1, <1>3, SubSeqProperties DEF Front
  <2>2. ReadSymbol(a, c) = R
    <3>1. ReadSymbol(a, c) = ReadEvent(z, f)
      BY <1>3 DEF ReadSymbol, Erased
    <3>2. ReadEvent(z, f) = R
      BY <2>1 DEF ReadEvent
    <3> QED
      BY <3>1, <3>2
  <2> HIDE DEF f
  <2>3. Lines(z, b)[n - 1] = w
    <3> HIDE DEF b, z
    <3>1. n - 1 \in Nat /\ n - 1 <= Len(b) /\ n - 1 <= Len(f)
      BY <1>1, <1>3, <2>1
    <3> QED
      BY <1>1, <2>1, <3>1, LinesLocal
  <2>4. w \in Readings /\ w.acc.buffer = <<>>
    <3>1. n - 1 \in 0 .. Len(f)
      BY <1>1, <1>3, <2>1
    <3> QED
      BY <1>1, <2>1, <3>1, LinesFacts
  <2> HIDE DEF w, z, b
  <2>5. R \in Readers /\ R.buffer = <<>>
    BY <2>4, ReadLineType DEF Readings
  <2>6. Lines(z, b)[n] = ReadCharacter(w, LF)
    <3>1. n \in 1 .. Len(b)
      BY <1>1, <1>3
    <3> QED
      BY <1>1, <1>3, <2>3, <3>1, LinesFacts
  <2>7. ReadCharacter(w, LF) = [acc |-> R, line |-> <<>>]
    BY DEF ReadCharacter
  <2> HIDE DEF R
  <2>8. ReadCharacter([acc |-> R, line |-> <<>>], LF) = [acc |-> R, line |-> <<>>]
    BY DEF ReadCharacter, ReadLine
  <2> QED
    BY <1>2, <1>3, <2>2, <2>5, <2>6, <2>7, <2>8, StandingOfEmpty
<1>4. CASE ~(c = LF /\ n > 0 /\ b[n] = LF)
  <2> DEFINE d == Append(b, c)
  <2>1. ReadSymbol(a, c) = [a EXCEPT !.buffer = d]
    BY <1>4 DEF ReadSymbol
  <2>2. /\ d \in Seq(Letters) /\ Len(d) = n + 1 /\ d[n + 1] = c
        /\ \A i \in 1 .. n : d[i] = b[i]
    BY <1>1
  <2> HIDE DEF d
  <2>3. /\ ReadSymbol(a, c) \in Readers /\ Erased(ReadSymbol(a, c)) = z
        /\ ReadSymbol(a, c).buffer = d
    BY <2>1, <2>2 DEF Readers, Erased
  <2>4. Standing(ReadSymbol(a, c)) = Lines(z, d)[n + 1]
    BY <2>2, <2>3 DEF Standing
  <2> HIDE DEF z, b
  <2>5. Lines(z, d)[n] = Lines(z, b)[n]
    <3>1. n <= Len(b) /\ n <= Len(d)
      BY <1>1, <2>2
    <3> QED
      BY <1>1, <2>2, <3>1, LinesLocal
  <2>6. Lines(z, d)[n + 1] = ReadCharacter(Lines(z, d)[n], c)
    <3>1. n + 1 \in 1 .. Len(d) /\ (n + 1) - 1 = n
      BY <1>1, <2>2
    <3>2. \A i \in 1 .. Len(d) : Lines(z, d)[i] = ReadCharacter(Lines(z, d)[i - 1], d[i])
      BY <1>1, <2>2, LinesFacts
    <3> QED
      BY <2>2, <3>1, <3>2
  <2> QED
    BY <1>2, <2>3, <2>4, <2>5, <2>6
<1> QED
  BY <1>3, <1>4

Told(s, t) == IF t = <<>> THEN s ELSE ReadCharacter(s, t[1])

LEMMA ReadTextStands ==
  ASSUME NEW a \in Readers, NEW t \in Tellings
  PROVE  ReadText(a, t) \in Readers /\ Standing(ReadText(a, t)) = Told(Standing(a), t)
<1>1. CASE t = <<>>
  BY <1>1 DEF ReadText, Told
<1>2. CASE t # <<>>
  <2>1. t[1] \in Letters
    BY <1>2, TellingType
  <2> QED
    BY <1>2, <2>1, ReadSymbolStands DEF ReadText, Told
<1> QED
  BY <1>1, <1>2

LEMMA ReaderFacts ==
  ASSUME NEW a \in Readers, NEW raw \in Seq(Symbols)
  PROVE  /\ Reader(a, raw)[0] = a
         /\ \A n \in 1 .. Len(raw) : Reader(a, raw)[n] = ReadText(Reader(a, raw)[n - 1], Symbol(raw, n))
         /\ \A n \in 0 .. Len(raw) : Reader(a, raw)[n] \in Readers
<1> DEFINE N == Len(raw)
           T == Readers
           g == [n \in 1 .. N |-> [s \in T |-> ReadText(s, Symbol(raw, n))]]
           Is(f) == f = [n \in 0 .. N |-> IF n = 0 THEN a ELSE ReadText(f[n - 1], Symbol(raw, n))]
<1>1. \A n \in 1 .. N : \A s \in T : ReadText(s, Symbol(raw, n)) \in T
  BY SymbolType, ReadTextStands
<1>2. N \in Nat /\ a \in T
  OBVIOUS
<1>3. PICK f \in [0 .. N -> T] : GoesBy(f, a, N, g)
  <2>1. g \in [1 .. N -> [T -> T]]
    BY <1>1
  <2> HIDE DEF g, N, T
  <2> QED
    BY <1>2, <2>1, StepsExist
<1>4. \A n \in 1 .. N : f[n - 1] \in T /\ f[n] = ReadText(f[n - 1], Symbol(raw, n))
  <2> SUFFICES ASSUME NEW n \in 1 .. N
               PROVE  f[n - 1] \in T /\ f[n] = ReadText(f[n - 1], Symbol(raw, n))
    OBVIOUS
  <2>1. f[n - 1] \in T
    BY <1>2, <1>3
  <2>2. g[n] = [s \in T |-> ReadText(s, Symbol(raw, n))] /\ f[n] = g[n][f[n - 1]]
    BY <1>3 DEF GoesBy
  <2> HIDE DEF g, T
  <2> QED
    BY <2>1, <2>2
<1>5. Is(f)
  <2> HIDE DEF g, T
  <2>1. \A n \in 0 .. N : f[n] = IF n = 0 THEN a ELSE ReadText(f[n - 1], Symbol(raw, n))
    BY <1>2, <1>3, <1>4 DEF GoesBy
  <2> QED
    BY <1>3, <2>1
<1> DEFINE fed[n \in 0 .. Len(raw)] == IF n = 0 THEN a ELSE ReadText(fed[n - 1], Symbol(raw, n))
<1>6. Reader(a, raw) = fed
  BY DEF Reader
<1>7. Is(fed)
  BY <1>5
<1> HIDE DEF fed, g, T
<1>8. fed[0] = a /\ \A n \in 1 .. N : fed[n] = ReadText(fed[n - 1], Symbol(raw, n))
  <2>1. \A n \in 0 .. N : fed[n] = IF n = 0 THEN a ELSE ReadText(fed[n - 1], Symbol(raw, n))
    BY <1>7
  <2>2. 0 \in 0 .. N /\ \A n \in 1 .. N : n \in 0 .. N /\ n # 0
    BY <1>2
  <2> HIDE DEF Is, N
  <2> QED
    BY <2>1, <2>2, Zenon
<1> HIDE DEF Is
<1>9. \A n \in 0 .. N : fed[n] \in T
  <2>1. ASSUME NEW n \in 0 .. N - 1, fed[n] \in T PROVE fed[n + 1] \in T
    <3>1. n + 1 \in 1 .. N /\ (n + 1) - 1 = n
      BY <1>2
    <3> QED
      BY <1>1, <1>8, <2>1, <3>1
  <2> QED
    BY <1>2, <1>8, <2>1, StepsStay
<1> QED
  BY <1>6, <1>8, <1>9 DEF T

LEMMA MeantFacts ==
  ASSUME NEW bodies \in Seq(Seq(Chars))
  PROVE  /\ Meant(bodies)[0] = <<>>
         /\ \A i \in 1 .. Len(bodies) :
              Meant(bodies)[i] = IF bodies[i] = <<>> THEN Meant(bodies)[i - 1]
                                 ELSE Append(Meant(bodies)[i - 1], Text(bodies[i]))
         /\ \A i \in 0 .. Len(bodies) : Meant(bodies)[i] \in Contents
<1> DEFINE N == Len(bodies)
           T == Contents
           Next1(c, i) == IF bodies[i] = <<>> THEN c ELSE Append(c, Text(bodies[i]))
           g == [n \in 1 .. N |-> [c \in T |-> Next1(c, n)]]
           Is(f) == f = [n \in 0 .. N |-> IF n = 0 THEN <<>> ELSE Next1(f[n - 1], n)]
<1>1. \A n \in 1 .. N : \A c \in T : Next1(c, n) \in T
  <2> SUFFICES ASSUME NEW n \in 1 .. N, NEW c \in T PROVE Next1(c, n) \in T
    OBVIOUS
  <2>1. bodies[n] \in Seq(Symbols)
    <3>1. Chars \subseteq Symbols
      BY DEF Symbols
    <3>2. bodies[n] \in Seq(Chars)
      OBVIOUS
    <3> QED
      BY <3>1, <3>2, SeqMonotonic
  <2>2. Text(bodies[n]) \in Seq(Letters)
    <3>1. Len(bodies[n]) \in 0 .. Len(bodies[n])
      BY <2>1
    <3> QED
      BY <2>1, <3>1, TextsFacts DEF Text
  <2>3. Append(c, Text(bodies[n])) \in T
    BY <2>2, AppendProperties DEF Contents
  <2> QED
    BY <2>3
<1>2. N \in Nat /\ <<>> \in T
  BY DEF Contents
<1> HIDE DEF Next1
<1>3. PICK f \in [0 .. N -> T] : GoesBy(f, <<>>, N, g)
  <2>1. g \in [1 .. N -> [T -> T]]
    BY <1>1
  <2> HIDE DEF g, N, T
  <2> QED
    BY <1>2, <2>1, StepsExist
<1>4. \A n \in 1 .. N : f[n - 1] \in T /\ f[n] = Next1(f[n - 1], n)
  <2> SUFFICES ASSUME NEW n \in 1 .. N PROVE f[n - 1] \in T /\ f[n] = Next1(f[n - 1], n)
    OBVIOUS
  <2>1. f[n - 1] \in T
    <3>1. n - 1 \in 0 .. N
      BY <1>2
    <3> HIDE DEF g, T, N
    <3> QED
      BY <1>3, <3>1
  <2>2. g[n] = [c \in T |-> Next1(c, n)] /\ f[n] = g[n][f[n - 1]]
    BY <1>3 DEF GoesBy
  <2> HIDE DEF g, T
  <2> QED
    BY <2>1, <2>2
<1>5. Is(f)
  <2> HIDE DEF g, T
  <2>1. \A n \in 0 .. N : f[n] = IF n = 0 THEN <<>> ELSE Next1(f[n - 1], n)
    BY <1>2, <1>3, <1>4 DEF GoesBy
  <2> QED
    BY <1>3, <2>1
<1> DEFINE meant[i \in 0 .. Len(bodies)] ==
             IF i = 0 THEN <<>>
             ELSE IF bodies[i] = <<>> THEN meant[i - 1] ELSE Append(meant[i - 1], Text(bodies[i]))
<1>6. Meant(bodies) = meant
  BY DEF Meant
<1>7. Is(meant)
  BY <1>5 DEF Next1
<1> HIDE DEF meant, g, T
<1>8. meant[0] = <<>> /\ \A n \in 1 .. N : meant[n] = Next1(meant[n - 1], n)
  <2>1. \A n \in 0 .. N : meant[n] = IF n = 0 THEN <<>> ELSE Next1(meant[n - 1], n)
    BY <1>7
  <2>2. 0 \in 0 .. N /\ \A n \in 1 .. N : n \in 0 .. N /\ n # 0
    BY <1>2
  <2> HIDE DEF Is, N
  <2> QED
    BY <2>1, <2>2, Zenon
<1> HIDE DEF Is
<1>9. \A n \in 0 .. N : meant[n] \in T
  <2>1. ASSUME NEW n \in 0 .. N - 1, meant[n] \in T PROVE meant[n + 1] \in T
    <3>1. n + 1 \in 1 .. N /\ (n + 1) - 1 = n
      BY <1>2
    <3> QED
      BY <1>1, <1>8, <2>1, <3>1
  <2> QED
    BY <1>2, <1>8, <2>1, StepsStay
<1> QED
  BY <1>6, <1>8, <1>9 DEF T, Next1

----------------------------------------------------------------------------
(* The bytes of a stream. *)

\* The two line ends behind the first n bytes of e.
EndsAt(e, n, eol) ==
    \/ /\ eol = <<LF>> /\ Len(e) = n + 2 /\ Len(eol) = 1
       /\ e[n + 1] = LF /\ e[n + 2] = LF
    \/ /\ eol = <<CR, LF>> /\ Len(e) = n + 4 /\ Len(eol) = 2
       /\ e[n + 1] = CR /\ e[n + 2] = LF /\ e[n + 3] = CR /\ e[n + 4] = LF

LEMMA EolType == ASSUME NEW eol \in {<<LF>>, <<CR, LF>>} PROVE eol \in Seq(Symbols)
<1>1. <<LF>> \in Seq(Symbols) /\ <<CR, LF>> \in Seq(Symbols)
  BY DEF Symbols
<1> QED
  BY <1>1

LEMMA EndsBehind ==
  ASSUME NEW h \in Seq(Symbols), NEW eol \in {<<LF>>, <<CR, LF>>}
  PROVE  LET e == (h \o eol) \o eol
         IN  /\ e \in Seq(Symbols) /\ EndsAt(e, Len(h), eol)
             /\ \A p \in 1 .. Len(h) : e[p] = h[p]
<1> DEFINE m == h \o eol
           e == m \o eol
           n == Len(h)
<1>1. eol \in Seq(Symbols)
  BY EolType
<1>2. m \in Seq(Symbols) /\ Len(m) = n + Len(eol) /\ n \in Nat /\ Follows(m, h, eol)
  BY <1>1, Concatenated
<1> HIDE DEF m
<1>3. e \in Seq(Symbols) /\ Len(e) = Len(m) + Len(eol) /\ Follows(e, m, eol)
  BY <1>1, <1>2, Concatenated
<1> HIDE DEF e, n
<1>4. \A p \in 1 .. n : e[p] = h[p]
  <2>1. \A p \in 1 .. n : p \in 1 .. Len(m)
    BY <1>1, <1>2
  <2> QED
    BY <1>2, <1>3, <2>1 DEF Follows, n
<1>5. EndsAt(e, n, eol)
  <2>1. CASE eol = <<LF>>
    <3>1. Len(eol) = 1 /\ eol[1] = LF
      BY <2>1
    <3>2. Len(m) = n + 1 /\ Len(e) = n + 2 /\ 1 \in 1 .. Len(eol) /\ n + 1 \in 1 .. Len(m)
      BY <1>2, <1>3, <3>1
    <3>3. m[n + 1] = LF /\ e[n + 1] = m[n + 1] /\ e[Len(m) + 1] = LF
      BY <1>2, <1>3, <3>1, <3>2 DEF Follows, n
    <3>4. Len(m) + 1 = n + 2
      BY <1>2, <3>2
    <3>5. e[n + 2] = LF
      BY <3>3, <3>4, Zenon
    <3> QED
      BY <2>1, <3>1, <3>2, <3>3, <3>5 DEF EndsAt
  <2>2. CASE eol = <<CR, LF>>
    <3>1. Len(eol) = 2 /\ eol[1] = CR /\ eol[2] = LF
      BY <2>2
    <3>2. /\ Len(m) = n + 2 /\ Len(e) = n + 4 /\ 1 \in 1 .. Len(eol) /\ 2 \in 1 .. Len(eol)
          /\ n + 1 \in 1 .. Len(m) /\ n + 2 \in 1 .. Len(m)
      BY <1>2, <1>3, <3>1
    <3>3. /\ m[n + 1] = CR /\ e[n + 1] = m[n + 1] /\ m[n + 2] = LF /\ e[n + 2] = m[n + 2]
          /\ e[Len(m) + 1] = CR /\ e[Len(m) + 2] = LF
      BY <1>2, <1>3, <3>1, <3>2 DEF Follows, n
    <3>4. Len(m) + 1 = n + 3 /\ Len(m) + 2 = n + 4
      BY <1>2, <3>2
    <3>5. e[n + 3] = CR /\ e[n + 4] = LF
      BY <3>3, <3>4, Zenon
    <3> QED
      BY <2>2, <3>1, <3>2, <3>3, <3>5 DEF EndsAt
  <2> QED
    BY <2>1, <2>2
<1> QED
  BY <1>3, <1>4, <1>5 DEF n, e, m

\* The line that an event is, of which body is the content.
IsLine(e, n, body) ==
    /\ n = Len(body) + 3
    /\ e[1] = "data:" /\ e[2] = "begin" /\ e[n] = "end"
    /\ \A j \in 1 .. Len(body) : e[2 + j] = body[j]

LEMMA ContentBytes ==
  ASSUME NEW body \in Seq(Chars), NEW eol \in {<<LF>>, <<CR, LF>>}
  PROVE  LET e == Content(body, eol)
             n == Len(body) + 3
         IN  e \in Seq(Symbols) /\ EndsAt(e, n, eol) /\ IsLine(e, n, body)
<1> DEFINE a == <<"data:", "begin">>
           z == <<"end">>
           ab == a \o body
           h == ab \o z
           e == (h \o eol) \o eol
           n == Len(body) + 3
<1>1. Content(body, eol) = e
  BY DEF Content
<1>2. /\ a \in Seq(Symbols) /\ Len(a) = 2 /\ a[1] = "data:" /\ a[2] = "begin"
      /\ z \in Seq(Symbols) /\ Len(z) = 1 /\ z[1] = "end"
  BY DEF Symbols, Chars
<1>3. body \in Seq(Symbols) /\ Len(body) \in Nat
  <2>1. Chars \subseteq Symbols
    BY DEF Symbols
  <2> QED
    BY <2>1, SeqMonotonic
<1> HIDE DEF a, z
<1>4. ab \in Seq(Symbols) /\ Len(ab) = 2 + Len(body) /\ Follows(ab, a, body)
  <2>1. ab \in Seq(Symbols) /\ Len(ab) = Len(a) + Len(body) /\ Follows(ab, a, body)
    BY <1>2, <1>3, Concatenated
  <2> QED
    BY <1>2, <2>1
<1> HIDE DEF ab
<1>5. h \in Seq(Symbols) /\ Len(h) = n /\ Follows(h, ab, z)
  <2>1. h \in Seq(Symbols) /\ Len(h) = Len(ab) + Len(z) /\ Follows(h, ab, z)
    BY <1>2, <1>4, Concatenated
  <2> QED
    <3>1. Len(h) = 2 + Len(body) + 1
      BY <1>2, <1>4, <2>1
    <3> HIDE DEF h
    <3> QED
      BY <1>3, <2>1, <3>1
<1> HIDE DEF h
<1>6. e \in Seq(Symbols) /\ EndsAt(e, n, eol) /\ \A p \in 1 .. n : e[p] = h[p]
  BY <1>5, EndsBehind
<1> HIDE DEF e
<1>7. /\ 1 \in 1 .. n /\ 2 \in 1 .. n /\ n \in 1 .. n /\ n = Len(ab) + 1
      /\ 1 \in 1 .. Len(ab) /\ 2 \in 1 .. Len(ab) /\ 1 \in 1 .. 2 /\ 2 \in 1 .. 2 /\ 1 \in 1 .. 1
      /\ \A j \in 1 .. Len(body) : 2 + j \in 1 .. n /\ 2 + j \in 1 .. Len(ab)
  BY <1>3, <1>4
<1>8. e[1] = "data:" /\ e[2] = "begin"
  <2>1. e[1] = h[1] /\ e[2] = h[2]
    BY <1>6, <1>7
  <2>2. h[1] = ab[1] /\ h[2] = ab[2]
    BY <1>5, <1>7 DEF Follows
  <2>3. ab[1] = a[1] /\ ab[2] = a[2]
    BY <1>2, <1>4, <1>7 DEF Follows
  <2> QED
    BY <1>2, <2>1, <2>2, <2>3
<1>9. e[n] = "end"
  <2>1. h[Len(ab) + 1] = z[1]
    BY <1>2, <1>5, <1>7 DEF Follows
  <2> QED
    BY <1>2, <1>6, <1>7, <2>1
<1>10. ASSUME NEW j \in 1 .. Len(body) PROVE e[2 + j] = body[j]
  <2>1. e[2 + j] = h[2 + j]
    BY <1>6, <1>7
  <2>2. h[2 + j] = ab[2 + j]
    BY <1>5, <1>7 DEF Follows
  <2>3. ab[2 + j] = body[j]
    BY <1>2, <1>4 DEF Follows
  <2> QED
    BY <2>1, <2>2, <2>3
<1> QED
  BY <1>1, <1>6, <1>8, <1>9, <1>10 DEF IsLine

LEMMA EndBytes ==
  ASSUME NEW eol \in {<<LF>>, <<CR, LF>>}
  PROVE  LET e == End(eol)
         IN  e \in Seq(Symbols) /\ EndsAt(e, 2, eol) /\ e[1] = "data:" /\ e[2] = "[DONE]"
<1>1. Marker \in Seq(Symbols) /\ Len(Marker) = 2 /\ Marker[1] = "data:" /\ Marker[2] = "[DONE]"
  BY DEF Marker, Symbols, Chars
<1> DEFINE e == (Marker \o eol) \o eol
<1>2. e \in Seq(Symbols) /\ EndsAt(e, Len(Marker), eol) /\ \A p \in 1 .. Len(Marker) : e[p] = Marker[p]
  BY <1>1, EndsBehind
<1>3. End(eol) = e
  BY DEF End
<1> HIDE DEF e
<1>4. 1 \in 1 .. 2 /\ 2 \in 1 .. 2
  OBVIOUS
<1> QED
  BY <1>1, <1>2, <1>3, <1>4

\* An event that is joined to others is there, behind those before it.
LEMMA JoinedBehind ==
  ASSUME NEW X, NEW s \in Seq(Seq(X)), NEW i \in 1 .. Len(s)
  PROVE  LET b == Len(Joined(s, i - 1))
         IN  /\ b \in Nat /\ Len(Joined(s, i)) = b + Len(s[i])
             /\ b + Len(s[i]) <= Len(FlattenSeq(s)) /\ FlattenSeq(s) \in Seq(X)
             /\ \A o \in 1 .. Len(s[i]) : FlattenSeq(s)[b + o] = s[i][o]
<1> DEFINE J(k) == Joined(s, k)
           b == Len(J(i - 1))
           U == {k \in Nat : i + k <= Len(s) =>
                   /\ Len(J(i)) <= Len(J(i + k))
                   /\ \A p \in 1 .. Len(J(i)) : J(i + k)[p] = J(i)[p]}
<1>1. /\ \A k \in 0 .. Len(s) : J(k) \in Seq(X)
      /\ J(Len(s)) = FlattenSeq(s)
      /\ \A k \in 0 .. Len(s) - 1 : J(k + 1) = J(k) \o s[k + 1]
  BY JoinedFacts
<1> HIDE DEF J
<1>2. \A k \in 1 .. Len(s) : s[k] \in Seq(X)
  OBVIOUS
<1>3. Len(s) \in Nat /\ i \in Nat /\ i - 1 \in 0 .. Len(s) - 1 /\ (i - 1) + 1 = i /\ i \in 0 .. Len(s)
      /\ i - 1 \in 0 .. Len(s)
  OBVIOUS
<1>4. /\ J(i) = J(i - 1) \o s[i] /\ J(i - 1) \in Seq(X) /\ s[i] \in Seq(X) /\ J(i) \in Seq(X)
  <2>1. J((i - 1) + 1) = J(i - 1) \o s[(i - 1) + 1]
    BY <1>1, <1>3
  <2> QED
    BY <1>1, <1>2, <1>3, <2>1
<1>5. Len(J(i)) = b + Len(s[i]) /\ b \in Nat /\ Len(s[i]) \in Nat
  BY <1>4, Concatenated
<1>5a. \A o \in 1 .. Len(s[i]) : J(i)[b + o] = s[i][o]
  BY <1>4, Concatenated DEF Follows
<1>5b. Len(J(i)) \in Nat
  <2> HIDE DEF b, U
  <2> QED
    BY <1>5
<1>6. 0 \in U
  <2>1. i + 0 = i
    OBVIOUS
  <2>2. Len(J(i)) <= Len(J(i))
    BY <1>5
  <2> QED
    BY <2>1, <2>2
<1>7. ASSUME NEW k \in Nat, k \in U PROVE k + 1 \in U
  <2> SUFFICES ASSUME i + (k + 1) <= Len(s)
               PROVE  /\ Len(J(i)) <= Len(J(i + (k + 1)))
                      /\ \A p \in 1 .. Len(J(i)) : J(i + (k + 1))[p] = J(i)[p]
    OBVIOUS
  <2> DEFINE c == i + k
  <2>1. /\ c \in 0 .. Len(s) - 1 /\ c \in 0 .. Len(s) /\ c + 1 = i + (k + 1)
        /\ c + 1 \in 1 .. Len(s) /\ i + k <= Len(s)
    OBVIOUS
  <2>2. Len(J(i)) <= Len(J(c)) /\ \A p \in 1 .. Len(J(i)) : J(c)[p] = J(i)[p]
    BY <1>7, <2>1
  <2> HIDE DEF c
  <2>3. J(c + 1) = J(c) \o s[c + 1] /\ J(c) \in Seq(X) /\ s[c + 1] \in Seq(X)
    BY <1>1, <1>2, <2>1
  <2>4. /\ Len(J(c + 1)) = Len(J(c)) + Len(s[c + 1]) /\ Len(J(c)) \in Nat /\ Len(s[c + 1]) \in Nat
        /\ \A p \in 1 .. Len(J(c)) : J(c + 1)[p] = J(c)[p]
    BY <2>3, Concatenated DEF Follows
  <2>6. Len(J(i)) <= Len(J(c + 1)) /\ \A p \in 1 .. Len(J(i)) : p \in 1 .. Len(J(c))
    BY <1>5b, <2>2, <2>4
  <2> QED
    BY <2>1, <2>2, <2>4, <2>6
<1> HIDE DEF U
<1>8. Nat \subseteq U
  BY <1>6, <1>7, NatInd
<1>9. Len(J(i)) <= Len(FlattenSeq(s)) /\ \A p \in 1 .. Len(J(i)) : FlattenSeq(s)[p] = J(i)[p]
  <2>1. Len(s) - i \in Nat /\ i + (Len(s) - i) = Len(s) /\ Len(s) <= Len(s)
    BY <1>3
  <2>2. Len(s) - i \in U
    BY <1>8, <2>1
  <2>3. Len(J(i)) <= Len(J(Len(s))) /\ \A p \in 1 .. Len(J(i)) : J(Len(s))[p] = J(i)[p]
    BY <2>1, <2>2 DEF U
  <2> QED
    BY <1>1, <2>3
<1> HIDE DEF b
<1>10. ASSUME NEW o \in 1 .. Len(s[i]) PROVE FlattenSeq(s)[b + o] = s[i][o]
  <2>1. b + o \in 1 .. Len(J(i))
    BY <1>5
  <2> QED
    BY <1>5a, <1>9, <2>1
<1>11. FlattenSeq(s) \in Seq(X)
  <2>1. Len(s) \in 0 .. Len(s)
    BY <1>3
  <2> QED
    BY <1>1, <2>1
<1>12. b + Len(s[i]) <= Len(FlattenSeq(s))
  BY <1>5, <1>9
<1> QED
  BY <1>5, <1>10, <1>11, <1>12 DEF b, J

LEMMA EndsAtLength ==
  ASSUME NEW e, NEW n \in Nat, NEW eol, EndsAt(e, n, eol)
  PROVE  Len(e) = n + 2 * Len(eol) /\ Len(eol) \in {1, 2}
<1> DEFINE a == Len(e)
           c == Len(eol)
<1>1. (a = n + 2 /\ c = 1) \/ (a = n + 4 /\ c = 2)
  BY DEF EndsAt
<1> HIDE DEF a, c
<1>2. a = n + 2 * c /\ c \in {1, 2}
  BY <1>1
<1> QED
  BY <1>2 DEF a, c

\* The events of a reply, one for each piece and one for the end.
Pieced(rep) == Len(rep.bodies)
LineLength(rep, i) == IF i <= Pieced(rep) THEN Len(rep.bodies[i]) + 3 ELSE 2
EventLength(rep, i) == LineLength(rep, i) + 2 * Len(rep.eol)

\* The event i of a reply is in its stream, behind the first b bytes.
EventAt(rep, S, i, b) ==
    LET n == b + LineLength(rep, i) IN
    /\ S[b + 1] = "data:"
    /\ i <= Pieced(rep) =>
         /\ S[b + 2] = "begin" /\ S[n] = "end"
         /\ \A j \in 1 .. Len(rep.bodies[i]) : S[b + (2 + j)] = rep.bodies[i][j]
    /\ i > Pieced(rep) => S[b + 2] = "[DONE]"
    /\ rep.eol = <<LF>> => S[n + 1] = LF /\ S[n + 2] = LF
    /\ rep.eol = <<CR, LF>> => S[n + 1] = CR /\ S[n + 2] = LF /\ S[n + 3] = CR /\ S[n + 4] = LF

Offset(rep, i) == Len(Joined(EventsOf(rep), i))

LEMMA ReplyFacts ==
  ASSUME NEW rep \in AllReplies
  PROVE  /\ rep.bodies \in Seq(Seq(Chars)) /\ rep.eol \in {<<LF>>, <<CR, LF>>}
         /\ Pieced(rep) \in Nat /\ Len(rep.eol) \in {1, 2}
         /\ rep.eol = <<LF>> <=> Len(rep.eol) = 1
         /\ rep.eol = <<CR, LF>> <=> Len(rep.eol) = 2
         /\ \A i \in 1 .. Pieced(rep) : rep.bodies[i] \in Seq(Chars) /\ Len(rep.bodies[i]) \in Nat
         /\ \A i \in 1 .. Pieced(rep) + 1 :
               /\ LineLength(rep, i) \in Nat /\ LineLength(rep, i) >= 2 /\ EventLength(rep, i) \in Nat
               /\ i <= Pieced(rep) => LineLength(rep, i) >= 3
<1>1. rep.bodies \in Seq(Seq(Chars)) /\ rep.eol \in {<<LF>>, <<CR, LF>>}
  BY RepliesTyped DEF Replies
<1>2. Len(<<LF>>) = 1 /\ Len(<<CR, LF>>) = 2
  OBVIOUS
<1>3. Len(rep.eol) \in {1, 2} /\ (rep.eol = <<LF>> <=> Len(rep.eol) = 1)
      /\ (rep.eol = <<CR, LF>> <=> Len(rep.eol) = 2)
  <2>1. CASE rep.eol = <<LF>>
    BY <1>2, <2>1
  <2>2. CASE rep.eol = <<CR, LF>>
    BY <1>2, <2>2
  <2> QED
    BY <1>1, <2>1, <2>2
<1>4. Pieced(rep) \in Nat /\ \A i \in 1 .. Pieced(rep) : rep.bodies[i] \in Seq(Chars)
  BY <1>1 DEF Pieced
<1>5. \A i \in 1 .. Pieced(rep) : Len(rep.bodies[i]) \in Nat
  BY <1>4
<1>6. \A i \in 1 .. Pieced(rep) + 1 :
               /\ LineLength(rep, i) \in Nat /\ LineLength(rep, i) >= 2 /\ EventLength(rep, i) \in Nat
               /\ i <= Pieced(rep) => LineLength(rep, i) >= 3
  <2> SUFFICES ASSUME NEW i \in 1 .. Pieced(rep) + 1
               PROVE  /\ LineLength(rep, i) \in Nat /\ LineLength(rep, i) >= 2 /\ EventLength(rep, i) \in Nat
                      /\ i <= Pieced(rep) => LineLength(rep, i) >= 3
    OBVIOUS
  <2>1. CASE i <= Pieced(rep)
    <3>1. Len(rep.bodies[i]) \in Nat /\ LineLength(rep, i) = Len(rep.bodies[i]) + 3
      BY <1>4, <1>5, <2>1 DEF LineLength
    <3>2. \A l \in Nat : \A c \in {1, 2} : l + 2 * c \in Nat
      OBVIOUS
    <3>2a. LineLength(rep, i) \in Nat
      BY <3>1
    <3>3. EventLength(rep, i) \in Nat
      BY <1>3, <3>2, <3>2a, Zenon DEF EventLength
    <3>4. LineLength(rep, i) \in Nat /\ LineLength(rep, i) >= 3
      BY <3>1
    <3> QED
      BY <3>3, <3>4
  <2>2. CASE ~(i <= Pieced(rep))
    <3>1. LineLength(rep, i) = 2
      BY <2>2 DEF LineLength
    <3> QED
      BY <1>3, <2>2, <3>1 DEF EventLength
  <2> QED
    BY <2>1, <2>2
<1> QED
  BY <1>1, <1>3, <1>4, <1>5, <1>6

LEMMA EventBytes ==
  ASSUME NEW rep \in AllReplies
  PROVE  LET k == Pieced(rep) + 1
         IN  /\ EventsOf(rep) \in Seq(Seq(Symbols)) /\ Len(EventsOf(rep)) = k
             /\ \A i \in 1 .. Pieced(rep) : EventsOf(rep)[i] = Content(rep.bodies[i], rep.eol)
             /\ EventsOf(rep)[k] = End(rep.eol)
<1> DEFINE bodies == rep.bodies
           eol == rep.eol
           n == Pieced(rep)
           k == n + 1
           contents == [i \in DOMAIN bodies |-> Content(bodies[i], eol)]
           all == EventsOf(rep)
<1>1. /\ bodies \in Seq(Seq(Chars)) /\ eol \in {<<LF>>, <<CR, LF>>} /\ n \in Nat
      /\ DOMAIN bodies = 1 .. n /\ \A i \in 1 .. n : bodies[i] \in Seq(Chars)
  BY ReplyFacts DEF Pieced
<1>2. all = contents \o <<End(eol)>>
  BY DEF EventsOf
<1> HIDE DEF bodies, eol, n
<1>3. contents \in Seq(Seq(Symbols)) /\ Len(contents) = n
      /\ \A i \in 1 .. n : contents[i] = Content(bodies[i], eol)
  <2>1. \A i \in 1 .. n : Content(bodies[i], eol) \in Seq(Symbols)
    BY <1>1, ContentBytes
  <2> QED
    BY <1>1, <2>1
<1>4. End(eol) \in Seq(Symbols)
  BY <1>1, EndBytes
<1> HIDE DEF contents
<1>5. /\ all \in Seq(Seq(Symbols)) /\ Len(all) = k /\ all[k] = End(eol)
      /\ \A i \in 1 .. n : all[i] = contents[i]
  BY <1>1, <1>2, <1>3, <1>4
<1> HIDE DEF all
<1>6. \A i \in 1 .. n : all[i] = Content(bodies[i], eol)
  BY <1>3, <1>5
<1> QED
  BY <1>5, <1>6 DEF all, n, eol, bodies

LEMMA LineOfEvent ==
  ASSUME NEW rep \in AllReplies, NEW i \in 1 .. Pieced(rep) + 1
  PROVE  LET e == EventsOf(rep)[i]
             l == LineLength(rep, i)
         IN  /\ EndsAt(e, l, rep.eol)
             /\ e[1] = "data:"
             /\ i <= Pieced(rep) => IsLine(e, l, rep.bodies[i])
             /\ i > Pieced(rep) => e[2] = "[DONE]"
<1>1. rep.eol \in {<<LF>>, <<CR, LF>>} /\ Pieced(rep) \in Nat
  BY ReplyFacts
<1>2. CASE i <= Pieced(rep)
  <2>1. i \in 1 .. Pieced(rep) /\ ~(i > Pieced(rep))
    BY <1>1, <1>2
  <2>2. /\ EventsOf(rep)[i] = Content(rep.bodies[i], rep.eol) /\ rep.bodies[i] \in Seq(Chars)
        /\ LineLength(rep, i) = Len(rep.bodies[i]) + 3
    BY <1>2, <2>1, EventBytes, ReplyFacts DEF LineLength
  <2> DEFINE e == Content(rep.bodies[i], rep.eol)
             l == Len(rep.bodies[i]) + 3
  <2>3. EndsAt(e, l, rep.eol) /\ IsLine(e, l, rep.bodies[i])
    BY <1>1, <2>2, ContentBytes
  <2> HIDE DEF e, l
  <2>4. e[1] = "data:"
    BY <2>3 DEF IsLine
  <2> QED
    BY <2>1, <2>2, <2>3, <2>4, Zenon DEF e, l
<1>3. CASE ~(i <= Pieced(rep))
  <2>1. i = Pieced(rep) + 1 /\ LineLength(rep, i) = 2
    BY <1>1, <1>3 DEF LineLength
  <2>2. EventsOf(rep)[i] = End(rep.eol)
    BY <2>1, EventBytes
  <2>3. EndsAt(End(rep.eol), 2, rep.eol) /\ End(rep.eol)[1] = "data:" /\ End(rep.eol)[2] = "[DONE]"
    BY <1>1, EndBytes
  <2> QED
    BY <1>3, <2>1, <2>2, <2>3, Zenon
<1> QED
  BY <1>2, <1>3

\* Where an event is put, its bytes are.
Occurs(S, b, e) == \A o \in 1 .. Len(e) : S[b + o] = e[o]

LEMMA EventPlaced ==
  ASSUME NEW rep \in AllReplies, NEW i \in 1 .. Pieced(rep) + 1, NEW S, NEW b \in Nat,
         NEW e, e = EventsOf(rep)[i], Occurs(S, b, e)
  PROVE  EventAt(rep, S, i, b) /\ Len(e) = EventLength(rep, i)
<1> DEFINE n == Pieced(rep)
           eol == rep.eol
           l == LineLength(rep, i)
           m == b + l
<1>1. /\ EndsAt(e, l, eol) /\ e[1] = "data:"
      /\ i <= n => IsLine(e, l, rep.bodies[i])
      /\ i > n => e[2] = "[DONE]"
  BY LineOfEvent, Zenon
<1>2. /\ l \in Nat /\ l >= 2 /\ eol \in {<<LF>>, <<CR, LF>>}
      /\ \A j \in 1 .. n : Len(rep.bodies[j]) \in Nat
  BY ReplyFacts
<1> DEFINE z == Len(e)
           c == Len(eol)
<1>3. z = l + 2 * c /\ c \in {1, 2}
  <2> HIDE DEF l, eol
  <2> QED
    BY <1>1, <1>2, EndsAtLength
<1>4. z = EventLength(rep, i)
  BY <1>3 DEF EventLength
<1>5. /\ l \in 1 .. z /\ 1 \in 1 .. z /\ 2 \in 1 .. z /\ m \in Nat
      /\ m + 1 = b + (l + 1) /\ m + 2 = b + (l + 2) /\ m + 3 = b + (l + 3) /\ m + 4 = b + (l + 4)
      /\ l + 1 \in 1 .. z /\ l + 2 \in 1 .. z
      /\ c = 2 => l + 3 \in 1 .. z /\ l + 4 \in 1 .. z
  <2> HIDE DEF z, c, l
  <2> QED
    BY <1>2, <1>3
<1>6. \A o \in 1 .. z : S[b + o] = e[o]
  BY DEF Occurs
<1> HIDE DEF z, c, l, eol
<1>7. S[b + 1] = "data:"
  BY <1>1, <1>5, <1>6
<1>8. ASSUME i <= n
      PROVE  /\ S[b + 2] = "begin" /\ S[m] = "end"
             /\ \A j \in 1 .. Len(rep.bodies[i]) : S[b + (2 + j)] = rep.bodies[i][j]
  <2>1. IsLine(e, l, rep.bodies[i])
    BY <1>1, <1>8
  <2>2. S[b + 2] = "begin" /\ S[m] = "end"
    BY <1>5, <1>6, <2>1 DEF IsLine
  <2>3. ASSUME NEW j \in 1 .. Len(rep.bodies[i]) PROVE S[b + (2 + j)] = rep.bodies[i][j]
    <3> DEFINE x == Len(rep.bodies[i])
    <3>1. i \in 1 .. n
      BY <1>8
    <3>2. x \in Nat /\ l = x + 3
      BY <1>2, <2>1, <3>1 DEF IsLine
    <3>3. j \in 1 .. x
      OBVIOUS
    <3> HIDE DEF x
    <3>4. 2 + j \in 1 .. z
      BY <1>3, <3>2, <3>3
    <3>5. e[2 + j] = rep.bodies[i][j]
      BY <2>1 DEF IsLine
    <3> QED
      BY <1>6, <3>4, <3>5
  <2> QED
    BY <2>2, <2>3
<1>9. i > n => S[b + 2] = "[DONE]"
  BY <1>1, <1>5, <1>6
<1>10. ASSUME eol = <<LF>> PROVE S[m + 1] = LF /\ S[m + 2] = LF
  <2>1. e[l + 1] = LF /\ e[l + 2] = LF
    BY <1>1, <1>10 DEF EndsAt
  <2> HIDE DEF m
  <2> QED
    BY <1>5, <1>6, <2>1
<1>11. ASSUME eol = <<CR, LF>> PROVE S[m + 1] = CR /\ S[m + 2] = LF /\ S[m + 3] = CR /\ S[m + 4] = LF
  <2>1. e[l + 1] = CR /\ e[l + 2] = LF /\ e[l + 3] = CR /\ e[l + 4] = LF /\ c = 2
    BY <1>1, <1>11 DEF EndsAt, c
  <2> HIDE DEF m
  <2> QED
    BY <1>5, <1>6, <2>1
<1> HIDE DEF m, n
<1> QED
  BY <1>4, <1>7, <1>8, <1>9, <1>10, <1>11 DEF EventAt, m, l, n, eol, z

LEMMA StreamPlaces ==
  ASSUME NEW rep \in AllReplies, NEW S, S = Streams[rep]
  PROVE  LET k == Pieced(rep) + 1
         IN  /\ S \in Seq(Symbols) /\ Offset(rep, 0) = 0 /\ Offset(rep, k) = Len(S)
             /\ \A i \in 1 .. k :
                  /\ Offset(rep, i - 1) \in Nat
                  /\ Offset(rep, i) = Offset(rep, i - 1) + EventLength(rep, i)
                  /\ Offset(rep, i) <= Len(S)
                  /\ EventAt(rep, S, i, Offset(rep, i - 1))
<1> DEFINE k == Pieced(rep) + 1
           all == EventsOf(rep)
<1>1. all \in Seq(Seq(Symbols)) /\ Len(all) = k /\ Pieced(rep) \in Nat
  BY EventBytes, ReplyFacts
<1>2. S = FlattenSeq(all)
  BY DEF Streams
<1>3. Offset(rep, 0) = 0 /\ Offset(rep, k) = Len(S)
  <2> HIDE DEF all
  <2>1. Joined(all, 0) = <<>> /\ Joined(all, k) = S
    BY <1>1, <1>2, JoinedFacts
  <2> QED
    BY <2>1 DEF Offset, all
<1> HIDE DEF all
<1>4. S \in Seq(Symbols)
  <2>1. 1 \in 1 .. Len(all)
    BY <1>1
  <2> QED
    BY <1>1, <1>2, <2>1, JoinedBehind
<1>5. ASSUME NEW i \in 1 .. k
      PROVE  /\ Offset(rep, i - 1) \in Nat
             /\ Offset(rep, i) = Offset(rep, i - 1) + EventLength(rep, i)
             /\ Offset(rep, i) <= Len(S)
             /\ EventAt(rep, S, i, Offset(rep, i - 1))
  <2> DEFINE b == Len(Joined(all, i - 1))
             e == all[i]
  <2>1. /\ b \in Nat /\ Len(Joined(all, i)) = b + Len(e)
        /\ b + Len(e) <= Len(FlattenSeq(all))
        /\ \A o \in 1 .. Len(e) : FlattenSeq(all)[b + o] = e[o]
    <3>1. i \in 1 .. Len(all)
      BY <1>1
    <3> QED
      BY <1>1, <3>1, JoinedBehind
  <2>2. Offset(rep, i - 1) = b /\ Offset(rep, i) = Len(Joined(all, i))
    BY DEF Offset, all
  <2> HIDE DEF b
  <2>3. e = EventsOf(rep)[i] /\ Occurs(S, b, e) /\ b \in Nat
    BY <1>2, <2>1 DEF all, Occurs
  <2> HIDE DEF e, k
  <2>4. EventAt(rep, S, i, b) /\ Len(e) = EventLength(rep, i)
    <3>1. i \in 1 .. Pieced(rep) + 1
      BY DEF k
    <3> QED
      BY <2>3, <3>1, EventPlaced
  <2> QED
    BY <1>2, <2>1, <2>2, <2>4, Zenon
<1> QED
  BY <1>3, <1>4, <1>5

----------------------------------------------------------------------------
(* What is read of an event.                                               *)

Prefix2 == <<"data:", "begin">>

LEMMA PrefixedIs ==
  ASSUME NEW t \in Seq(Glyphs)
  PROVE  /\ Prefix2 \o t \in Seq(Letters) /\ Len(Prefix2 \o t) = Len(t) + 2 /\ Len(t) \in Nat
         /\ (Prefix2 \o t)[1] = "data:" /\ (Prefix2 \o t)[2] = "begin"
         /\ \A p \in 1 .. Len(t) : (Prefix2 \o t)[p + 2] = t[p]
<1>1. Prefix2 \in Seq(Letters) /\ Len(Prefix2) = 2 /\ Prefix2[1] = "data:" /\ Prefix2[2] = "begin"
  BY DEF Prefix2, Letters, Glyphs
<1>2. t \in Seq(Letters)
  <2>1. Glyphs \subseteq Letters
    BY DEF Letters
  <2> QED
    BY <2>1, SeqMonotonic
<1> DEFINE a == Prefix2
<1> HIDE DEF a
<1>3. a \o t \in Seq(Letters) /\ Len(a \o t) = Len(a) + Len(t) /\ Len(t) \in Nat
  BY <1>1, <1>2, Concatenated DEF a
<1>4. Follows(a \o t, a, t)
  BY <1>1, <1>2, Concatenated DEF a
<1>5. 1 \in 1 .. 2 /\ 2 \in 1 .. 2 /\ Len(a) = 2 /\ a[1] = "data:" /\ a[2] = "begin"
  BY <1>1 DEF a
<1>6. (a \o t)[1] = "data:" /\ (a \o t)[2] = "begin"
  BY <1>4, <1>5 DEF Follows
<1>7. \A p \in 1 .. Len(t) : (a \o t)[p + 2] = t[p]
  <2>1. \A p \in 1 .. Len(t) : (a \o t)[Len(a) + p] = t[p]
    BY <1>4 DEF Follows
  <2>2. \A p \in 1 .. Len(t) : Len(a) + p = p + 2
    BY <1>5
  <2> QED
    BY <2>1, <2>2
<1> QED
  BY <1>3, <1>5, <1>6, <1>7 DEF a

\* The line of a piece is read as its text, and an empty piece is skipped.
LEMMA ReadContent ==
  ASSUME NEW a \in Readers, NEW t \in Seq(Glyphs), NEW line, line = Append(Prefix2 \o t, "end")
  PROVE  ReadLine(a, line) = IF t = <<>> THEN a ELSE [a EXCEPT !.contents = Append(@, t)]
<1> DEFINE h == Prefix2 \o t
           n == Len(t)
           data == Tail(line)
<1>1. /\ h \in Seq(Letters) /\ Len(h) = n + 2 /\ n \in Nat
      /\ h[1] = "data:" /\ h[2] = "begin" /\ \A p \in 1 .. n : h[p + 2] = t[p]
  BY PrefixedIs
<1>2. line = Append(h, "end") /\ "end" \in Letters
  BY DEF Letters
<1> HIDE DEF h, n
<1>3. /\ line \in Seq(Letters) /\ Len(line) = n + 3 /\ line[n + 3] = "end"
      /\ \A p \in 1 .. n + 2 : line[p] = h[p]
  <2>1. line \in Seq(Letters) /\ Len(line) = Len(h) + 1 /\ line[Len(h) + 1] = "end"
        /\ \A p \in 1 .. Len(h) : line[p] = h[p]
    <3>1. h \in Seq(Letters) /\ "end" \in Letters
      BY <1>1, <1>2
    <3>2. /\ Append(h, "end") \in Seq(Letters) /\ Len(Append(h, "end")) = Len(h) + 1
          /\ Append(h, "end")[Len(h) + 1] = "end"
          /\ \A p \in 1 .. Len(h) : Append(h, "end")[p] = h[p]
      BY <3>1, AppendProperties
    <3> QED
      BY <1>2, <3>2, Zenon
  <2>2. Len(h) + 1 = n + 3 /\ Len(h) = n + 2
    BY <1>1
  <2> QED
    BY <2>1, <2>2
<1>4. line # <<>> /\ line[1] = "data:"
  <2>1. 1 \in 1 .. n + 2
    BY <1>1
  <2>2. line[1] = "data:"
    BY <1>1, <1>3, <2>1
  <2>3. Len(line) # 0
    BY <1>1, <1>3
  <2> QED
    BY <2>2, <2>3
<1>5. /\ data \in Seq(Letters) /\ Len(data) = n + 2
      /\ \A p \in 1 .. n + 2 : data[p] = line[p + 1]
  <2>1. data \in Seq(Letters) /\ Len(data) = Len(line) - 1
        /\ \A p \in 1 .. Len(line) - 1 : data[p] = line[p + 1]
    BY <1>3, <1>4, HeadTailProperties
  <2>2. Len(line) - 1 = n + 2
    BY <1>1, <1>3
  <2> QED
    BY <2>1, <2>2
<1> HIDE DEF data
<1>6. /\ data[1] = "begin" /\ data[n + 2] = "end" /\ \A p \in 1 .. n : data[p + 1] = t[p]
  <2>1. 1 \in 1 .. n + 2 /\ 2 \in 1 .. n + 2 /\ n + 2 \in 1 .. n + 2 /\ 1 + 1 = 2 /\ (n + 2) + 1 = n + 3
    BY <1>1
  <2>2. data[1] = "begin" /\ data[n + 2] = "end"
    BY <1>1, <1>3, <1>5, <2>1
  <2>3. ASSUME NEW p \in 1 .. n PROVE data[p + 1] = t[p]
    <3>1. p + 1 \in 1 .. n + 2 /\ p + 2 \in 1 .. n + 2 /\ (p + 1) + 1 = p + 2
      BY <1>1
    <3> QED
      BY <1>1, <1>3, <1>5, <3>1
  <2> QED
    BY <2>2, <2>3
<1>7. data # <<"[DONE]">>
  <2>1. Len(<<"[DONE]">>) = 1 /\ n + 2 # 1
    BY <1>1
  <2> QED
    BY <1>5, <2>1
<1>8. CASE t = <<>>
  <2>1. n = 0
    BY <1>8 DEF n
  <2>2. ~(Len(data) > 2)
    BY <1>5, <2>1
  <2>3. ~IsContent(data)
    BY <2>2 DEF IsContent
  <2> QED
    BY <1>4, <1>7, <1>8, <2>3 DEF ReadLine, data
<1>9. CASE t # <<>>
  <2>1. n >= 1
    BY <1>9 DEF n
  <2>2. \A i \in 2 .. Len(data) - 1 : data[i] \notin {"begin", "end", CR, LF}
    <3> SUFFICES ASSUME NEW i \in 2 .. n + 1 PROVE data[i] \notin {"begin", "end", CR, LF}
      BY <1>1, <1>5
    <3>1. i - 1 \in 1 .. n /\ (i - 1) + 1 = i
      BY <1>1
    <3>2. data[i] = t[i - 1]
      BY <1>6, <3>1
    <3>3. t[i - 1] \in Glyphs
      BY <3>1 DEF n
    <3> QED
      BY <3>2, <3>3 DEF Glyphs, CR, LF
  <2>3. IsContent(data)
    <3>1. Len(data) > 2
      BY <1>1, <1>5, <2>1
    <3> QED
      BY <1>5, <1>6, <2>2, <3>1 DEF IsContent
  <2>4. SubSeq(data, 2, Len(data) - 1) = t
    <3>1. Len(data) - 1 = n + 1 /\ n + 1 \in 1 .. Len(data) /\ 2 \in 1 .. Len(data) + 1
      BY <1>1, <1>5
    <3> DEFINE u == SubSeq(data, 2, n + 1)
    <3>2. u \in Seq(Letters) /\ Len(u) = n /\ \A p \in 1 .. n : u[p] = data[p + 1]
      <4>1. u = [p \in 1 .. ((n + 1) - 2) + 1 |-> data[(p + 2) - 1]]
        <5> HIDE DEF n
        <5> QED
          BY <1>1 DEF u
      <4>2. ((n + 1) - 2) + 1 = n /\ \A p \in 1 .. n : (p + 2) - 1 = p + 1 /\ p + 1 \in 1 .. Len(data)
        BY <1>1, <1>5
      <4>3. u = [p \in 1 .. n |-> data[p + 1]]
        BY <4>1, <4>2
      <4>4. \A p \in 1 .. n : data[p + 1] \in Letters
        BY <1>5, <4>2
      <4> QED
        <5> HIDE DEF u
        <5> QED
          BY <1>1, <4>3, <4>4
    <3>3. t \in Seq(Letters) /\ Len(t) = n
      <4>1. Glyphs \subseteq Letters
        BY DEF Letters
      <4> QED
        BY <4>1, SeqMonotonic DEF n
    <3> HIDE DEF u
    <3>4. \A p \in 1 .. n : u[p] = t[p]
      BY <1>6, <3>2
    <3>5. u = t
      BY <3>2, <3>3, <3>4, SeqEqual
    <3> QED
      BY <3>1, <3>5 DEF u
  <2> QED
    BY <1>4, <1>7, <1>9, <2>3, <2>4 DEF ReadLine, data
<1> QED
  BY <1>8, <1>9

LEMMA ReadMarker == ASSUME NEW a \in Readers PROVE ReadLine(a, Marker) = [a EXCEPT !.done = TRUE]
<1>1. Marker # <<>> /\ Marker[1] = "data:" /\ Tail(Marker) = <<"[DONE]">>
  BY DEF Marker
<1> DEFINE data == Tail(Marker)
<1>2. ~(Marker = <<>> \/ Marker[1] # "data:") /\ data = <<"[DONE]">>
  BY <1>1
<1>3. ~IsContent(data)
  <2>1. Len(<<"[DONE]">>) = 1
    OBVIOUS
  <2>2. Len(data) = 1
    BY <1>2, <2>1
  <2> QED
    BY <2>2 DEF IsContent
<1> QED
  BY <1>2, <1>3 DEF ReadLine

Plain(rep) == \A i \in DOMAIN rep.bodies : \A j \in DOMAIN rep.bodies[i] : rep.bodies[i][j] # "ls"

\* The text of the first n bytes of a body; whole when no character was cut.
TextOf(t, body, n, whole) ==
    t \in Seq(Glyphs) /\ (t = <<>> <=> n = 0) /\ (whole => t = Texts(body)[n])

\* The line of the event i of a reply after its first o bytes.
LineAt(line, rep, i, o, whole) ==
    /\ o = 0 => line = <<>>
    /\ o = 1 => line = <<"data:">>
    /\ o >= 2 /\ i > Pieced(rep) => line = Marker
    /\ o >= 2 /\ o < LineLength(rep, i) /\ i <= Pieced(rep) =>
         \E t : TextOf(t, rep.bodies[i], o - 2, whole) /\ line = Prefix2 \o t
    /\ o = LineLength(rep, i) /\ i <= Pieced(rep) =>
         \E t : TextOf(t, rep.bodies[i], Len(rep.bodies[i]), whole) /\ line = Append(Prefix2 \o t, "end")

\* What was read of the first i pieces.
Heard(contents, rep, i, whole) ==
    /\ contents \in Contents /\ Len(contents) = Len(Meant(rep.bodies)[i])
    /\ whole => contents = Meant(rep.bodies)[i]

Within(s, rep, i, o, whole) ==
    /\ Plain(rep) => Heard(s.acc.contents, rep, i - 1, whole)
    /\ Plain(rep) \/ i > Pieced(rep) => LineAt(s.line, rep, i, o, whole)
Beyond(s, rep, i, whole) ==
    /\ s.line = <<>>
    /\ Plain(rep) => Heard(s.acc.contents, rep, IF i <= Pieced(rep) THEN i ELSE Pieced(rep), whole)
    /\ i > Pieced(rep) => s.acc.done

\* The carriage return behind a line ends it only when it is the last of a chunk.
StandsAt(s, rep, i, o, whole) ==
    LET l == LineLength(rep, i) IN
    \/ o <= l /\ Within(s, rep, i, o, whole)
    \/ o > l /\ Beyond(s, rep, i, whole)
    \/ o = l + 1 /\ rep.eol = <<CR, LF>> /\ Within(s, rep, i, l, whole)

\* What the byte o of the event i adds to the text.
Tells(t, rep, i, o, whole) ==
    LET l == LineLength(rep, i) IN
    /\ o = 1 => t = <<"data:">>
    /\ o = 2 /\ i > Pieced(rep) => t = <<"[DONE]">>
    /\ o = 2 /\ i <= Pieced(rep) => t = <<"begin">>
    /\ o = l /\ i <= Pieced(rep) => t = <<"end">>
    /\ o > 2 /\ o < l /\ i <= Pieced(rep) /\ Plain(rep) =>
         /\ t \in {<<>>} \cup {<<g>> : g \in Glyphs}
         /\ o = 3 => t # <<>>
         /\ whole => t = Symbol(rep.bodies[i], o - 2)
    /\ o > l => t \in {<<>>, <<CR>>, <<LF>>}
    /\ (o = l + 1 /\ rep.eol = <<LF>>) \/ o = l + 2 => t = <<LF>>

LEMMA PairIs ==
  ASSUME NEW X, NEW x \in X, NEW y \in X
  PROVE  Append(<<x>>, y) = <<x, y>>
<1>1. /\ <<x>> \in Seq(X) /\ <<x, y>> \in Seq(X) /\ Len(<<x>>) = 1 /\ Len(<<x, y>>) = 2
      /\ <<x>>[1] = x /\ <<x, y>>[1] = x /\ <<x, y>>[2] = y
  OBVIOUS
<1> DEFINE a == Append(<<x>>, y)
           b == <<x, y>>
<1>2. a \in Seq(X) /\ Len(a) = 2 /\ a[1] = x /\ a[2] = y
  <2>1. 1 \in 1 .. 1 /\ 1 + 1 = 2
    OBVIOUS
  <2> QED
    BY <1>1, <2>1, AppendProperties
<1>3. b \in Seq(X) /\ Len(b) = 2 /\ b[1] = x /\ b[2] = y
  BY <1>1
<1> HIDE DEF a, b
<1>4. \A k \in 1 .. 2 : a[k] = b[k]
  BY <1>2, <1>3
<1> QED
  BY <1>2, <1>3, <1>4, SeqEqual DEF a, b

LEMMA PrefixAppend ==
  ASSUME NEW t \in Seq(Glyphs), NEW g \in Glyphs
  PROVE  Append(Prefix2 \o t, g) = Prefix2 \o Append(t, g)
<1>1. t \in Seq(Letters) /\ g \in Letters /\ Prefix2 \in Seq(Letters)
  <2>1. Glyphs \subseteq Letters
    BY DEF Letters
  <2>2. t \in Seq(Letters) /\ g \in Letters
    BY <2>1, SeqMonotonic
  <2> QED
    BY <2>2 DEF Prefix2, Letters, Glyphs
<1>2. Append(t, g) = t \o <<g>> /\ <<g>> \in Seq(Letters)
  BY <1>1, AppendIsConcat
<1>3. Prefix2 \o t \in Seq(Letters)
  BY <1>1, ConcatProperties
<1>4. Append(Prefix2 \o t, g) = (Prefix2 \o t) \o <<g>>
  BY <1>1, <1>3, AppendIsConcat
<1>5. (Prefix2 \o t) \o <<g>> = Prefix2 \o (t \o <<g>>)
  BY <1>1, <1>2, ConcatAssociative
<1> QED
  BY <1>2, <1>4, <1>5

\* A character that ends no line is put at the end of it.
LEMMA ToldPlain ==
  ASSUME NEW s \in Readings, NEW c \in Letters \ {CR, LF, "ls"}
  PROVE  Told(s, <<c>>).acc = s.acc /\ Told(s, <<c>>).line = Append(s.line, c)
<1>1. <<c>> # <<>> /\ <<c>>[1] = c
  OBVIOUS
<1>2. Told(s, <<c>>) = ReadCharacter(s, c)
  BY <1>1 DEF Told
<1>3. ReadCharacter(s, c) = [acc |-> s.acc, line |-> Append(s.line, c)]
  BY DEF ReadCharacter
<1> QED
  BY <1>2, <1>3

LEMMA GlyphPlain == Glyphs \cup {"begin", "end"} \subseteq Letters \ {CR, LF, "ls"}
BY DEF Glyphs, Letters, CR, LF

LEMMA TextGrows ==
  ASSUME NEW body \in Seq(Chars), NEW n \in 1 .. Len(body), NEW whole \in BOOLEAN,
         NEW u, TextOf(u, body, n - 1, whole),
         NEW t \in {<<>>} \cup {<<g>> : g \in Glyphs},
         n = 1 => t # <<>>, whole => t = Symbol(body, n)
  PROVE  TextOf(u \o t, body, n, whole)
<1>1. u \in Seq(Glyphs) /\ (u = <<>> <=> n - 1 = 0) /\ (whole => u = Texts(body)[n - 1])
  BY DEF TextOf
<1>2. t \in Seq(Glyphs) /\ (t = <<>> \/ Len(t) = 1)
  <2>1. CASE t = <<>>
    BY <2>1
  <2>2. CASE t # <<>>
    <3>1. PICK g \in Glyphs : t = <<g>>
      BY <2>2
    <3>2. Len(<<g>>) = 1 /\ <<g>> \in Seq(Glyphs)
      OBVIOUS
    <3> QED
      BY <3>1, <3>2
  <2> QED
    BY <2>1, <2>2
<1>3. u \o t \in Seq(Glyphs) /\ Len(u \o t) = Len(u) + Len(t) /\ Len(u) \in Nat /\ Len(t) \in Nat
  BY <1>1, <1>2, Concatenated
<1>4. u \o t # <<>>
  <2>1. CASE n = 1
    <3>1. Len(t) = 1
      BY <1>2, <2>1
    <3> QED
      BY <1>3, <3>1
  <2>2. CASE n # 1
    <3>1. u # <<>>
      BY <1>1, <2>2
    <3>2. Len(u) # 0
      BY <1>1, <3>1
    <3> QED
      BY <1>3, <3>2
  <2> QED
    BY <2>1, <2>2
<1>5. ASSUME whole PROVE u \o t = Texts(body)[n]
  <2>1. body \in Seq(Symbols)
    <3>1. Chars \subseteq Symbols
      BY DEF Symbols
    <3> QED
      BY <3>1, SeqMonotonic
  <2>2. Texts(body)[n] = Texts(body)[n - 1] \o Symbol(body, n)
    BY <2>1, TextsFacts
  <2> QED
    BY <1>1, <1>5, <2>2
<1>6. n # 0
  OBVIOUS
<1> QED
  BY <1>3, <1>4, <1>5, <1>6, Zenon DEF TextOf

LEMMA WithinStep ==
  ASSUME NEW rep \in AllReplies, NEW i \in 1 .. Pieced(rep) + 1, NEW o \in 1 .. LineLength(rep, i),
         NEW whole \in BOOLEAN, NEW s \in Readings, NEW t,
         Within(s, rep, i, o - 1, whole), Tells(t, rep, i, o, whole)
  PROVE  Within(Told(s, t), rep, i, o, whole)
<1> DEFINE n == Pieced(rep)
           l == LineLength(rep, i)
           body == rep.bodies[i]
           m == Len(body)
<1>1. CASE ~(Plain(rep) \/ i > n)
  BY <1>1 DEF Within
<1>2. CASE Plain(rep) \/ i > n
  <2>1. LineAt(s.line, rep, i, o - 1, whole)
    BY <1>2 DEF Within
  <2>2. l \in Nat /\ l >= 2 /\ n \in Nat /\ o \in Nat /\ o >= 1 /\ o <= l
    BY ReplyFacts
  <2>3. SUFFICES Told(s, t).acc = s.acc /\ LineAt(Told(s, t).line, rep, i, o, whole)
    BY <2>3 DEF Within
  <2>4. CASE o = 1
    <3>1. t = <<"data:">> /\ s.line = <<>>
      BY <2>1, <2>4 DEF Tells, LineAt
    <3>2. "data:" \in Letters \ {CR, LF, "ls"}
      BY GlyphPlain DEF Glyphs
    <3>3. Told(s, t).acc = s.acc /\ Told(s, t).line = Append(<<>>, "data:")
      BY <3>1, <3>2, ToldPlain
    <3>4. Append(<<>>, "data:") = <<"data:">>
      OBVIOUS
    <3> HIDE DEF l
    <3> QED
      BY <2>2, <2>4, <3>3, <3>4 DEF LineAt, l
  <2>5. CASE o = 2 /\ i > n
    <3>1. t = <<"[DONE]">> /\ s.line = <<"data:">>
      BY <2>1, <2>5 DEF Tells, LineAt
    <3>2. "[DONE]" \in Letters \ {CR, LF, "ls"}
      BY GlyphPlain DEF Glyphs
    <3>3. Told(s, t).acc = s.acc /\ Told(s, t).line = Append(<<"data:">>, "[DONE]")
      BY <3>1, <3>2, ToldPlain
    <3>4. Append(<<"data:">>, "[DONE]") = Marker
      <4>1. "data:" \in Letters /\ "[DONE]" \in Letters
        BY DEF Letters, Glyphs
      <4> QED
        BY <4>1, PairIs DEF Marker
    <3>5. ~(i <= n)
      BY <2>2, <2>5
    <3> QED
      BY <2>5, <3>3, <3>4, <3>5 DEF LineAt
  <2>6. CASE i <= n
    <3>1. /\ l = m + 3 /\ m \in Nat /\ body \in Seq(Chars) /\ ~(i > n)
      <4>1. i \in 1 .. n
        BY <2>2, <2>6
      <4>2. m \in Nat /\ body \in Seq(Chars)
        BY <4>1, ReplyFacts
      <4>3. l = m + 3
        BY <2>6 DEF LineLength
      <4> QED
        BY <2>2, <2>6, <4>2, <4>3
    <3>2. CASE o = 2
      <4>1. t = <<"begin">> /\ s.line = <<"data:">>
        BY <2>1, <2>6, <3>2 DEF Tells, LineAt
      <4>2. "begin" \in Letters \ {CR, LF, "ls"}
        BY GlyphPlain
      <4>3. Told(s, t).acc = s.acc /\ Told(s, t).line = Append(<<"data:">>, "begin")
        BY <4>1, <4>2, ToldPlain
      <4>4. Append(<<"data:">>, "begin") = Prefix2 \o <<>>
        <5>1. "data:" \in Letters /\ "begin" \in Letters /\ Prefix2 \in Seq(Letters)
          BY DEF Letters, Glyphs, Prefix2
        <5>2. Prefix2 \o <<>> = Prefix2
          BY <5>1, ConcatEmptySeq
        <5> QED
          BY <5>1, <5>2, PairIs DEF Prefix2
      <4>5. TextOf(<<>>, body, o - 2, whole)
        <5>1. o - 2 = 0 /\ <<>> \in Seq(Glyphs)
          BY <3>2
        <5>2. body \in Seq(Symbols)
          <6>1. Chars \subseteq Symbols
            BY DEF Symbols
          <6> QED
            BY <3>1, <6>1, SeqMonotonic
        <5>3. Texts(body)[0] = <<>>
          BY <5>2, TextsFacts
        <5> QED
          BY <5>1, <5>3 DEF TextOf
      <4>6. o # l /\ ~(o = 0) /\ ~(o = 1)
        BY <3>1, <3>2
      <4> HIDE DEF l, n, body
      <4> QED
        BY <3>1, <4>3, <4>4, <4>5, <4>6 DEF LineAt, l, n, body
    <3>3. CASE o > 2 /\ o < l
      <4>1. Plain(rep)
        BY <1>2, <3>1
      <4>2. /\ t \in {<<>>} \cup {<<g>> : g \in Glyphs}
            /\ o = 3 => t # <<>>
            /\ whole => t = Symbol(body, o - 2)
        BY <2>6, <3>3, <4>1 DEF Tells
      <4>3. PICK u : TextOf(u, body, (o - 1) - 2, whole) /\ s.line = Prefix2 \o u
        <5>1. o - 1 >= 2 /\ o - 1 < l
          BY <2>2, <3>3
        <5> QED
          BY <2>1, <2>6, <5>1 DEF LineAt
      <4>4. TextOf(u \o t, body, o - 2, whole)
        <5>1. o - 2 \in 1 .. m /\ (o - 1) - 2 = (o - 2) - 1 /\ (o - 2 = 1 => o = 3)
          BY <2>2, <3>1, <3>3
        <5> DEFINE k == o - 2
        <5>2. TextOf(u, body, k - 1, whole) /\ (k = 1 => t # <<>>) /\ (whole => t = Symbol(body, k))
          BY <4>2, <4>3, <5>1
        <5>3. k \in 1 .. Len(body)
          BY <5>1
        <5> HIDE DEF k, body
        <5>4. TextOf(u \o t, body, k, whole)
          BY <3>1, <4>2, <5>2, <5>3, TextGrows
        <5> QED
          BY <5>4 DEF k
      <4>5. u \in Seq(Glyphs)
        BY <4>3 DEF TextOf
      <4>6. Told(s, t).acc = s.acc /\ Told(s, t).line = Prefix2 \o (u \o t)
        <5>1. CASE t = <<>>
          <6>1. u \o t = u
            BY <4>5, <5>1
          <6> QED
            BY <4>3, <5>1, <6>1 DEF Told
        <5>2. CASE t # <<>>
          <6>1. PICK g \in Glyphs : t = <<g>>
            BY <4>2, <5>2
          <6>2. g \in Letters \ {CR, LF, "ls"}
            BY GlyphPlain
          <6>3. Told(s, t).acc = s.acc /\ Told(s, t).line = Append(Prefix2 \o u, g)
            BY <4>3, <6>1, <6>2, ToldPlain
          <6>4. Append(u, g) = u \o t
            BY <4>5, <6>1, AppendIsConcat
          <6> QED
            BY <4>5, <6>3, <6>4, PrefixAppend
        <5> QED
          BY <5>1, <5>2
      <4>7. o # l /\ ~(o = 0) /\ ~(o = 1)
        BY <2>2, <3>3
      <4> HIDE DEF l, n, body
      <4> QED
        BY <3>1, <4>4, <4>6, <4>7 DEF LineAt, l, n, body
    <3>4. CASE o = l
      <4>1. t = <<"end">>
        BY <2>6, <3>4 DEF Tells
      <4>2. PICK u : TextOf(u, body, (o - 1) - 2, whole) /\ s.line = Prefix2 \o u
        <5>1. o - 1 >= 2 /\ o - 1 < l
          BY <3>1, <3>4
        <5> QED
          BY <2>1, <2>6, <5>1 DEF LineAt
      <4>3. (o - 1) - 2 = m
        BY <3>1, <3>4
      <4>4. "end" \in Letters \ {CR, LF, "ls"}
        BY GlyphPlain
      <4>5. Told(s, t).acc = s.acc /\ Told(s, t).line = Append(Prefix2 \o u, "end")
        BY <4>1, <4>2, <4>4, ToldPlain
      <4>6. TextOf(u, body, m, whole)
        BY <4>2, <4>3
      <4>7. ~(o < l) /\ ~(o = 0) /\ ~(o = 1)
        BY <2>2, <3>1, <3>4
      <4> HIDE DEF l, n
      <4> QED
        BY <3>1, <4>5, <4>6, <4>7 DEF LineAt, l, n
    <3> QED
      <4>1. o = 1 \/ o = 2 \/ (o > 2 /\ o < l) \/ o = l
        BY <2>2
      <4> QED
        BY <2>4, <3>2, <3>3, <3>4, <4>1
  <2> QED
    <3>1. o = 1 \/ (o = 2 /\ i > n) \/ i <= n
      <4>1. i > n => l = 2
        BY <2>2 DEF LineLength
      <4> QED
        BY <2>2, <4>1
    <3> QED
      BY <2>4, <2>5, <2>6, <3>1
<1> QED
  BY <1>1, <1>2

LEMMA HeardMore ==
  ASSUME NEW rep \in AllReplies, NEW i \in 1 .. Pieced(rep), NEW whole \in BOOLEAN,
         NEW contents, Heard(contents, rep, i - 1, whole),
         NEW t, TextOf(t, rep.bodies[i], Len(rep.bodies[i]), whole)
  PROVE  Heard(IF t = <<>> THEN contents ELSE Append(contents, t), rep, i, whole)
<1> DEFINE body == rep.bodies[i]
           was == Meant(rep.bodies)[i - 1]
           is == Meant(rep.bodies)[i]
<1>1. /\ rep.bodies \in Seq(Seq(Chars)) /\ i \in 1 .. Len(rep.bodies)
      /\ body \in Seq(Chars)
  BY ReplyFacts DEF Pieced
<1>2. is = (IF body = <<>> THEN was ELSE Append(was, Text(body))) /\ was \in Contents
  <2>1. is = IF body = <<>> THEN was ELSE Append(was, Text(body))
    BY <1>1, MeantFacts
  <2>2. i - 1 \in 0 .. Len(rep.bodies)
    BY <1>1
  <2> QED
    BY <1>1, <2>1, <2>2, MeantFacts
<1>3. /\ t \in Seq(Glyphs) /\ (t = <<>> <=> Len(body) = 0) /\ (whole => t = Text(body))
  BY DEF TextOf, Text
<1>4. body = <<>> <=> Len(body) = 0
  BY <1>1
<1>5. /\ contents \in Contents /\ Len(contents) = Len(was) /\ (whole => contents = was)
  BY DEF Heard
<1> HIDE DEF was, is, body
<1>6. CASE t = <<>>
  <2>1. is = was
    BY <1>2, <1>3, <1>4, <1>6
  <2> QED
    BY <1>5, <1>6, <2>1 DEF Heard, is
<1>7. CASE t # <<>>
  <2>1. is = Append(was, Text(body))
    BY <1>2, <1>3, <1>4, <1>7
  <2>2. t \in Seq(Letters)
    <3>1. Glyphs \subseteq Letters
      BY DEF Letters
    <3> QED
      BY <1>3, <3>1, SeqMonotonic
  <2>3. Text(body) \in Seq(Letters)
    <3>1. body \in Seq(Symbols)
      <4>1. Chars \subseteq Symbols
        BY DEF Symbols
      <4> QED
        BY <1>1, <4>1, SeqMonotonic
    <3>2. Len(body) \in 0 .. Len(body)
      BY <3>1
    <3> QED
      BY <3>1, <3>2, TextsFacts DEF Text
  <2>4. Append(contents, t) \in Contents /\ Len(Append(contents, t)) = Len(contents) + 1
    BY <1>5, <2>2, AppendProperties DEF Contents
  <2>5. Len(Append(was, Text(body))) = Len(was) + 1
    BY <1>2, <2>3, AppendProperties DEF Contents
  <2>6. whole => Append(contents, t) = is
    BY <1>3, <1>5, <2>1
  <2>7. Len(Append(contents, t)) = Len(is)
    BY <1>5, <2>1, <2>4, <2>5, Zenon
  <2> QED
    BY <1>7, <2>4, <2>6, <2>7 DEF Heard, is
<1> QED
  BY <1>6, <1>7

LEMMA LineEnds ==
  ASSUME NEW rep \in AllReplies, NEW i \in 1 .. Pieced(rep) + 1, NEW whole \in BOOLEAN,
         NEW s \in Readings, NEW c \in {CR, LF}, Within(s, rep, i, LineLength(rep, i), whole)
  PROVE  Beyond(ReadCharacter(s, c), rep, i, whole)
<1> DEFINE n == Pieced(rep)
           l == LineLength(rep, i)
           s2 == ReadCharacter(s, c)
<1>1. s2 = [acc |-> ReadLine(s.acc, s.line), line |-> <<>>]
  BY DEF ReadCharacter
<1>2. s2.line = <<>> /\ s2.acc = ReadLine(s.acc, s.line)
  BY <1>1
<1>3. s.acc \in Readers /\ n \in Nat /\ l \in Nat /\ l >= 2 /\ (i <= n => l >= 3)
  BY ReplyFacts DEF Readings
<1>4. CASE i > n
  <2>1. i - 1 = n /\ l = 2 /\ ~(i <= n)
    BY <1>3, <1>4 DEF LineLength
  <2>2. s.line = Marker
    BY <1>3, <1>4, <2>1 DEF Within, LineAt
  <2>3. s2.acc = [s.acc EXCEPT !.done = TRUE]
    BY <1>2, <1>3, <2>2, ReadMarker
  <2>4. s2.acc.done = TRUE /\ s2.acc.contents = s.acc.contents
    BY <1>3, <2>3 DEF Readers
  <2>5. Plain(rep) => Heard(s.acc.contents, rep, n, whole)
    BY <2>1 DEF Within
  <2> HIDE DEF s2, n
  <2> QED
    BY <1>2, <2>1, <2>4, <2>5 DEF Beyond, s2, n
<1>5. CASE i <= n
  <2>1. ~(i > n) /\ i \in 1 .. n
    BY <1>3, <1>5
  <2>2. ASSUME Plain(rep) PROVE Heard(s2.acc.contents, rep, i, whole)
    <3>1. PICK t : TextOf(t, rep.bodies[i], Len(rep.bodies[i]), whole) /\ s.line = Append(Prefix2 \o t, "end")
      BY <1>5, <2>2 DEF Within, LineAt
    <3>2. t \in Seq(Glyphs)
      BY <3>1 DEF TextOf
    <3>3. s2.acc = IF t = <<>> THEN s.acc ELSE [s.acc EXCEPT !.contents = Append(@, t)]
      BY <1>2, <1>3, <3>1, <3>2, ReadContent
    <3>4. s2.acc.contents = IF t = <<>> THEN s.acc.contents ELSE Append(s.acc.contents, t)
      BY <1>3, <3>3 DEF Readers
    <3>5. Heard(s.acc.contents, rep, i - 1, whole)
      BY <2>2 DEF Within
    <3>6. Heard(IF t = <<>> THEN s.acc.contents ELSE Append(s.acc.contents, t), rep, i, whole)
      BY <2>1, <3>1, <3>5, HeardMore
    <3> HIDE DEF s2
    <3> QED
      BY <3>4, <3>6, Zenon
  <2> HIDE DEF s2, n
  <2> QED
    BY <1>2, <1>5, <2>1, <2>2 DEF Beyond, s2, n
<1> QED
  BY <1>3, <1>4, <1>5

LEMMA Blank ==
  ASSUME NEW rep, NEW i, NEW whole, NEW s \in Readings, NEW t \in {<<>>, <<CR>>, <<LF>>},
         Beyond(s, rep, i, whole)
  PROVE  Beyond(Told(s, t), rep, i, whole)
<1>1. CASE t = <<>>
  BY <1>1 DEF Told
<1>2. CASE t # <<>>
  <2>1. t[1] \in {CR, LF}
    BY <1>2
  <2>2. Told(s, t) = [acc |-> ReadLine(s.acc, s.line), line |-> <<>>]
    BY <1>2, <2>1 DEF Told, ReadCharacter
  <2>3. ReadLine(s.acc, s.line) = s.acc
    BY DEF Beyond, ReadLine
  <2>4. Told(s, t).acc = s.acc /\ Told(s, t).line = <<>>
    BY <2>2, <2>3
  <2> QED
    BY <2>4 DEF Beyond
<1> QED
  BY <1>1, <1>2

LEMMA StandsStep ==
  ASSUME NEW rep \in AllReplies, NEW i \in 1 .. Pieced(rep) + 1, NEW o \in 1 .. EventLength(rep, i),
         NEW whole \in BOOLEAN, NEW s \in Readings, NEW t,
         StandsAt(s, rep, i, o - 1, whole), Tells(t, rep, i, o, whole)
  PROVE  StandsAt(Told(s, t), rep, i, o, whole)
<1> DEFINE l == LineLength(rep, i)
<1>1. l \in Nat /\ l >= 2 /\ rep.eol \in {<<LF>>, <<CR, LF>>} /\ o \in Int
  BY ReplyFacts
<1>2. CASE o <= l
  <2>1. o \in 1 .. l /\ ~(o - 1 > l) /\ ~(o - 1 = l + 1)
    BY <1>1, <1>2
  <2>2. Within(s, rep, i, o - 1, whole)
    BY <2>1 DEF StandsAt
  <2>3. Within(Told(s, t), rep, i, o, whole)
    BY <2>1, <2>2, WithinStep
  <2> QED
    BY <1>2, <2>3 DEF StandsAt
<1>3. CASE o > l
  <2>1. t \in {<<>>, <<CR>>, <<LF>>} /\ (o = l + 1 /\ rep.eol = <<LF>> => t = <<LF>>)
        /\ (o = l + 2 => t = <<LF>>)
    BY <1>3 DEF Tells
  <2>2. CASE Beyond(s, rep, i, whole)
    <3>1. Beyond(Told(s, t), rep, i, whole)
      BY <2>1, <2>2, Blank
    <3> QED
      BY <1>3, <3>1 DEF StandsAt
  <2>3. CASE Within(s, rep, i, l, whole) /\ t # <<>>
    <3>1. t[1] \in {CR, LF} /\ Told(s, t) = ReadCharacter(s, t[1])
      BY <2>1, <2>3 DEF Told
    <3>2. Beyond(Told(s, t), rep, i, whole)
      BY <2>3, <3>1, LineEnds
    <3> QED
      BY <1>3, <3>2 DEF StandsAt
  <2>4. CASE o = l + 1 /\ Within(s, rep, i, l, whole) /\ t = <<>>
    <3>1. rep.eol = <<CR, LF>>
      <4>1. <<LF>> # <<>>
        OBVIOUS
      <4> QED
        BY <1>1, <2>1, <2>4, <4>1
    <3>2. Told(s, t) = s
      BY <2>4 DEF Told
    <3> QED
      BY <2>4, <3>1, <3>2 DEF StandsAt
  <2> QED
    <3>1. o - 1 <= l => o = l + 1 /\ o - 1 = l
      BY <1>1, <1>3
    <3>2. o - 1 = l + 1 => o = l + 2
      BY <1>1
    <3>3. o = l + 2 => t # <<>>
      BY <2>1
    <3>4. Beyond(s, rep, i, whole) \/ Within(s, rep, i, l, whole)
      BY <3>1 DEF StandsAt
    <3>5. Beyond(s, rep, i, whole) \/ o = l + 1 \/ o = l + 2
      BY <3>1, <3>2 DEF StandsAt
    <3> QED
      BY <2>2, <2>3, <2>4, <3>3, <3>4, <3>5
<1> QED
  BY <1>1, <1>2, <1>3

\* A chunk is what is in a stream between two places; whole says that it does
\* not cut a character.
ChunkOf(raw, S, a, m) ==
    /\ a \in Nat /\ m \in Nat /\ a < m /\ m <= Len(S)
    /\ Len(raw) = m - a /\ \A n \in 1 .. m - a : raw[n] = S[a + n]
CutsNone(S, a, m, whole) == whole => (a = 0 \/ S[a] # "hi") /\ S[m] # "hi"

\* What the place p of the stream adds to the text of a chunk.
SymbolAt(t, S, a, m, p) ==
    LET before == p - 1 > a /\ S[p - 1] = "hi"
        after(x) == p < m /\ S[p + 1] = x
    IN  /\ S[p] \notin {"hi", "lo", CR} => t = <<S[p]>>
        /\ S[p] = "hi" => t = IF after("lo") THEN <<"hi-lo">> ELSE <<"?">>
        /\ S[p] = "lo" => t = IF before THEN <<>> ELSE <<"?">>
        /\ S[p] = CR => t = IF after(LF) THEN <<>> ELSE <<CR>>

LEMMA SymbolOf ==
  ASSUME NEW S \in Seq(Symbols), NEW raw, NEW a, NEW m, ChunkOf(raw, S, a, m), NEW p \in a + 1 .. m
  PROVE  SymbolAt(Symbol(raw, p - a), S, a, m, p)
<1> DEFINE n == p - a
           c == S[p]
           before == p - 1 > a /\ S[p - 1] = "hi"
           after(x) == p < m /\ S[p + 1] = x
           next(x) == n < Len(raw) /\ raw[n + 1] = x
<1>1. a \in Nat /\ m \in Nat /\ p \in Int /\ a + 1 <= p /\ p <= m
  BY DEF ChunkOf
<1>2. /\ n \in 1 .. m - a /\ a + n = p /\ (n < m - a <=> p < m) /\ (n > 1 <=> p - 1 > a)
      /\ (p < m => n + 1 \in 1 .. m - a) /\ a + (n + 1) = p + 1
      /\ (p - 1 > a => n - 1 \in 1 .. m - a) /\ a + (n - 1) = p - 1
  BY <1>1
<1>3. Len(raw) = m - a /\ \A k \in 1 .. m - a : raw[k] = S[a + k]
  BY DEF ChunkOf
<1> HIDE DEF n
<1>4. raw[n] = c
  BY <1>2, <1>3
<1>5. ASSUME NEW x PROVE next(x) <=> after(x)
  <2>1. n < Len(raw) <=> p < m
    BY <1>2, <1>3
  <2>2. p < m => raw[n + 1] = S[p + 1]
    BY <1>2, <1>3
  <2> QED
    BY <2>1, <2>2
<1>6. (n > 1 /\ raw[n - 1] = "hi") <=> before
  <2>1. p - 1 > a => raw[n - 1] = S[p - 1]
    BY <1>2, <1>3
  <2> QED
    BY <1>2, <2>1
<1> DEFINE after1 == after("lo")
           after2 == after(LF)
<1>7. (next("lo") <=> after1) /\ (next(LF) <=> after2)
  BY <1>5
<1> DEFINE t == Symbol(raw, n)
           u == n > 1 /\ raw[n - 1] = "hi"
<1>8. t = CASE raw[n] = "hi" -> (IF next("lo") THEN <<"hi-lo">> ELSE <<"?">>)
            [] raw[n] = "lo" -> (IF u THEN <<>> ELSE <<"?">>)
            [] raw[n] = CR -> (IF next(LF) THEN <<>> ELSE <<CR>>)
            [] OTHER -> <<raw[n]>>
  BY DEF Symbol
<1>9. u <=> before
  BY <1>6
<1> HIDE DEF next, after1, after2, before, c, t, u
<1>10. t = CASE c = "hi" -> (IF after1 THEN <<"hi-lo">> ELSE <<"?">>)
             [] c = "lo" -> (IF before THEN <<>> ELSE <<"?">>)
             [] c = CR -> (IF after2 THEN <<>> ELSE <<CR>>)
             [] OTHER -> <<c>>
  BY <1>4, <1>7, <1>8, <1>9
<1>11. /\ c \notin {"hi", "lo", CR} => t = <<c>>
       /\ c = "hi" => t = IF after1 THEN <<"hi-lo">> ELSE <<"?">>
       /\ c = "lo" => t = IF before THEN <<>> ELSE <<"?">>
       /\ c = CR => t = IF after2 THEN <<>> ELSE <<CR>>
  BY <1>10 DEF CR
<1> QED
  BY <1>11 DEF SymbolAt, t, n, c, before, after1, after2

BodyAt(rep, i, j, b, p) == j \in 1 .. Len(rep.bodies[i]) /\ p = b + (2 + j)
Inside(S, a, m, p) == a \in Nat /\ m \in Nat /\ p > a /\ p <= m /\ m <= Len(S)

\* A byte of a body, as it is told in a chunk of the stream and in the body.
LEMMA BodyTold ==
  ASSUME NEW rep \in AllReplies, Plain(rep), NEW i \in 1 .. Pieced(rep),
         NEW S \in Seq(Symbols), NEW b \in Nat, EventAt(rep, S, i, b),
         NEW a, NEW m, NEW j, NEW p, BodyAt(rep, i, j, b, p), Inside(S, a, m, p),
         NEW t, SymbolAt(t, S, a, m, p), NEW whole \in BOOLEAN, CutsNone(S, a, m, whole)
  PROVE  /\ t \in {<<>>} \cup {<<g>> : g \in Glyphs}
         /\ j = 1 => t # <<>>
         /\ whole => t = Symbol(rep.bodies[i], j)
<1> DEFINE body == rep.bodies[i]
           k == Len(body)
           c == S[p]
           before == p - 1 > a /\ S[p - 1] = "hi"
           after(x) == p < m /\ S[p + 1] = x
           was == j > 1 /\ body[j - 1] = "hi"
           next(x) == j < k /\ body[j + 1] = x
<1>1. /\ body \in Seq(Chars) /\ k \in Nat /\ LineLength(rep, i) = k + 3 /\ i <= Pieced(rep)
      /\ \A q \in 1 .. k : body[q] # "ls"
  <2>1. body \in Seq(Chars) /\ k \in Nat /\ i <= Pieced(rep)
    <3>1. i \in 1 .. Pieced(rep) /\ Pieced(rep) \in Nat
      BY ReplyFacts
    <3>2. i <= Pieced(rep)
      BY <3>1
    <3> QED
      BY <3>1, <3>2, ReplyFacts
  <2>2. rep.bodies \in Seq(Seq(Chars)) /\ DOMAIN rep.bodies = 1 .. Pieced(rep)
    BY ReplyFacts DEF Pieced
  <2>3. DOMAIN body = 1 .. k
    BY <2>1
  <2> QED
    BY <2>1, <2>2, <2>3 DEF LineLength, Plain
<1>2. /\ S[b + 2] = "begin" /\ S[b + (k + 3)] = "end"
      /\ \A q \in 1 .. k : S[b + (2 + q)] = body[q]
  BY <1>1 DEF EventAt
<1> HIDE DEF k, body
<1>3. c = body[j] /\ body[j] \in Chars \ {"ls"}
  <2>1. j \in 1 .. k
    BY DEF BodyAt, k, body
  <2>2. body[j] \in Chars
    BY <1>1, <2>1 DEF k
  <2> QED
    BY <1>1, <1>2, <2>1, <2>2 DEF BodyAt
<1>4. /\ j \in 1 .. k /\ j \in Int /\ p \in Int /\ a \in Int /\ m \in Int
      /\ p = b + (2 + j) /\ a >= 0 /\ p > a /\ p <= m
  BY DEF BodyAt, Inside, k, body
<1>5. S[p - 1] = "hi" <=> was
  <2>1. CASE j = 1
    <3>1. p - 1 = b + 2
      BY <1>4, <2>1
    <3> QED
      BY <1>2, <2>1, <3>1
  <2>2. CASE j # 1
    <3>1. p - 1 = b + (2 + (j - 1)) /\ j - 1 \in 1 .. k /\ j > 1
      BY <1>1, <1>4, <2>2
    <3> QED
      BY <1>2, <3>1
  <2> QED
    BY <2>1, <2>2
<1>6. S[p + 1] = "lo" <=> next("lo")
  <2>1. CASE j = k
    <3>1. p + 1 = b + (k + 3) /\ ~(j < k)
      BY <1>1, <1>4, <2>1
    <3> QED
      BY <1>2, <3>1
  <2>2. CASE j # k
    <3>1. p + 1 = b + (2 + (j + 1)) /\ j + 1 \in 1 .. k /\ j < k
      BY <1>1, <1>4, <2>2
    <3> QED
      BY <1>2, <3>1
  <2> QED
    BY <2>1, <2>2
<1> DEFINE after1 == after("lo")
           next1 == next("lo")
           u == Symbol(body, j)
<1>7. /\ c \notin {"hi", "lo", CR} => t = <<c>>
      /\ c = "hi" => t = IF after1 THEN <<"hi-lo">> ELSE <<"?">>
      /\ c = "lo" => t = IF before THEN <<>> ELSE <<"?">>
  BY DEF SymbolAt
<1>8. /\ body[j] \notin {"hi", "lo", CR} => u = <<body[j]>>
      /\ body[j] = "hi" => u = IF next1 THEN <<"hi-lo">> ELSE <<"?">>
      /\ body[j] = "lo" => u = IF was THEN <<>> ELSE <<"?">>
  <2>1. next1 <=> j < Len(body) /\ body[j + 1] = "lo"
    BY DEF k
  <2> HIDE DEF next1
  <2> QED
    BY <2>1 DEF Symbol, CR
<1>9. before => was
  BY <1>5
<1>10. ASSUME whole PROVE (before <=> was) /\ (c = "hi" => (after1 <=> next1))
  <2>1. (a = 0 \/ S[a] # "hi") /\ S[m] # "hi"
    BY <1>10 DEF CutsNone
  <2>2. was => before
    <3> SUFFICES ASSUME was, ~(p - 1 > a) PROVE FALSE
      BY <1>5
    <3>1. p - 1 = a /\ a # 0
      BY <1>4
    <3>2. S[p - 1] = "hi"
      BY <1>5
    <3> QED
      BY <2>1, <3>1, <3>2
  <2>3. ASSUME c = "hi" PROVE p < m
    <3>1. p # m
      BY <2>1, <2>3
    <3> QED
      BY <1>4, <3>1
  <2> QED
    BY <1>6, <1>9, <2>2, <2>3
<1>11. j = 1 => ~was
  BY <1>4
<1> HIDE DEF u, before, was, after1, next1, c
<1>12. t \in {<<>>} \cup {<<g>> : g \in Glyphs}
  BY <1>3, <1>7 DEF Glyphs, Chars, CR
<1>13. j = 1 => t # <<>>
  <2>1. \A x : <<x>> # <<>>
    OBVIOUS
  <2> QED
    BY <1>3, <1>7, <1>9, <1>11, <2>1 DEF Chars, CR
<1>14. whole => t = u
  BY <1>3, <1>7, <1>8, <1>10 DEF Chars, CR
<1> QED
  BY <1>12, <1>13, <1>14 DEF u, body

LEMMA TellsOf ==
  ASSUME NEW rep \in AllReplies, NEW i \in 1 .. Pieced(rep) + 1, NEW o \in 1 .. EventLength(rep, i),
         NEW S \in Seq(Symbols), NEW b \in Nat, EventAt(rep, S, i, b),
         NEW a, NEW m, NEW p, p = b + o, Inside(S, a, m, p),
         NEW t, SymbolAt(t, S, a, m, p), NEW whole \in BOOLEAN, CutsNone(S, a, m, whole)
  PROVE  Tells(t, rep, i, o, whole)
<1> DEFINE n == Pieced(rep)
           l == LineLength(rep, i)
           z == EventLength(rep, i)
<1>1. /\ l \in Nat /\ l >= 2 /\ n \in Nat /\ (i <= n => l >= 3) /\ rep.eol \in {<<LF>>, <<CR, LF>>}
      /\ z = l + 2 * Len(rep.eol) /\ o \in Int /\ o >= 1 /\ o <= z
      /\ rep.eol = <<LF>> <=> Len(rep.eol) = 1
      /\ rep.eol = <<CR, LF>> <=> Len(rep.eol) = 2
  BY ReplyFacts DEF EventLength
<1> DEFINE f == Len(rep.eol)
<1>1a. /\ l \in Nat /\ l >= 2 /\ z = l + 2 * f /\ o \in Int /\ o >= 1 /\ o <= z
       /\ (rep.eol = <<LF>> /\ f = 1) \/ (rep.eol = <<CR, LF>> /\ f = 2)
  BY <1>1
<1> HIDE DEF l, z, n, f
<1>1b. l \in Nat
  BY <1>1
<1>2. S[p] \notin {"hi", "lo", CR} => t = <<S[p]>>
  BY DEF SymbolAt
<1>3. /\ S[b + 1] = "data:"
      /\ i <= n => S[b + 2] = "begin" /\ S[b + l] = "end"
      /\ i > n => S[b + 2] = "[DONE]"
  BY DEF EventAt, l, n
<1>4. o = 1 => t = <<"data:">>
  BY <1>2, <1>3 DEF CR
<1>5. o = 2 /\ i > n => t = <<"[DONE]">>
  BY <1>2, <1>3 DEF CR
<1>6. o = 2 /\ i <= n => t = <<"begin">>
  BY <1>2, <1>3 DEF CR
<1>7. o = l /\ i <= n => t = <<"end">>
  BY <1>2, <1>3 DEF CR
<1>8. ASSUME o > 2, o < l, i <= n, Plain(rep)
      PROVE  /\ t \in {<<>>} \cup {<<g>> : g \in Glyphs}
             /\ o = 3 => t # <<>>
             /\ whole => t = Symbol(rep.bodies[i], o - 2)
  <2> DEFINE j == o - 2
             x == Len(rep.bodies[i])
  <2>1. i \in 1 .. Pieced(rep)
    BY <1>1, <1>8 DEF n
  <2>2. x \in Nat /\ l = x + 3
    BY <1>8, <2>1, ReplyFacts DEF LineLength, l, n
  <2> HIDE DEF x
  <2>3. j \in 1 .. x /\ p = b + (2 + j) /\ (o = 3 <=> j = 1)
    BY <1>1, <1>8, <2>2
  <2> HIDE DEF j
  <2>4. BodyAt(rep, i, j, b, p)
    BY <2>3 DEF x, BodyAt
  <2>5. /\ t \in {<<>>} \cup {<<g>> : g \in Glyphs}
        /\ j = 1 => t # <<>>
        /\ whole => t = Symbol(rep.bodies[i], j)
    BY <1>8, <2>1, <2>4, BodyTold, SMT
  <2> QED
    BY <2>3, <2>5 DEF j
<1>9. ASSUME o > l
      PROVE  /\ S[p] \in {CR, LF}
             /\ (o = l + 1 /\ rep.eol = <<LF>>) \/ o = l + 2 => S[p] = LF
  <2>1. CASE rep.eol = <<LF>> /\ f = 1
    <3>1. o = l + 1 \/ o = l + 2
      BY <1>1a, <1>9, <2>1
    <3>2. S[(b + l) + 1] = LF /\ S[(b + l) + 2] = LF
      BY <2>1 DEF EventAt, l
    <3>3. S[p] = LF
      <4>1. (b + l) + 1 = b + (l + 1) /\ (b + l) + 2 = b + (l + 2)
        BY <1>1b
      <4> QED
        BY <3>1, <3>2, <4>1
    <3> QED
      BY <3>3
  <2>2. CASE rep.eol = <<CR, LF>> /\ f = 2
    <3>1. o = l + 1 \/ o = l + 2 \/ o = l + 3 \/ o = l + 4
      BY <1>1a, <1>9, <2>2
    <3>2. /\ S[(b + l) + 1] = CR /\ S[(b + l) + 2] = LF /\ S[(b + l) + 3] = CR /\ S[(b + l) + 4] = LF
      BY <2>2 DEF EventAt, l
    <3>3. /\ (b + l) + 1 = b + (l + 1) /\ (b + l) + 2 = b + (l + 2)
          /\ (b + l) + 3 = b + (l + 3) /\ (b + l) + 4 = b + (l + 4)
      BY <1>1b
    <3>4. S[p] \in {CR, LF} /\ (o = l + 2 => S[p] = LF)
      BY <3>1, <3>2, <3>3
    <3>5. rep.eol # <<LF>>
      BY <2>2
    <3> QED
      BY <3>4, <3>5
  <2> QED
    BY <1>1a, <2>1, <2>2
<1>10. S[p] = LF => t = <<LF>>
  BY <1>2 DEF CR, LF
<1>11. S[p] \in {CR, LF} => t \in {<<>>, <<CR>>, <<LF>>}
  BY <1>10 DEF SymbolAt, CR
<1>12. o > l => t \in {<<>>, <<CR>>, <<LF>>}
  BY <1>9, <1>11
<1>13. (o = l + 1 /\ rep.eol = <<LF>>) \/ o = l + 2 => t = <<LF>>
  <2>1. o = l + 1 \/ o = l + 2 => o > l
    BY <1>1a
  <2> QED
    BY <1>9, <1>10, <2>1
<1> QED
  BY <1>4, <1>5, <1>6, <1>7, <1>8, <1>12, <1>13 DEF Tells, l, n

\* The buffer at the end of a stream: the event of the end is closed by the
\* second line feed, if the reader was not told the carriage return before it.
Open(buffer) == buffer # <<>> /\ buffer[Len(buffer)] # LF
Ended(buffer) == buffer # <<>> /\ buffer[Len(buffer)] = LF

TailAt(buffer, rep, o, tidy) ==
    /\ o = 2 \/ (o = 3 /\ rep.eol = <<CR, LF>>) => Open(buffer)
    /\ \/ o = 3 /\ rep.eol = <<LF>>
       \/ o = 4 /\ rep.eol = <<CR, LF>>
       \/ o = 5 /\ rep.eol = <<CR, LF>> /\ tidy
       => Ended(buffer)
    /\ o = 2 + 2 * Len(rep.eol) /\ tidy => buffer = <<>>

TailTells(t, rep, o, tidy) ==
    /\ o = 2 => t = <<"[DONE]">>
    /\ o = 3 /\ rep.eol = <<LF>> => t = <<LF>>
    /\ o = 3 /\ rep.eol = <<CR, LF>> => t \in {<<>>, <<CR>>}
    /\ o = 4 => t = <<LF>>
    /\ o = 5 /\ rep.eol = <<CR, LF>> /\ tidy => t = <<>>
    /\ o = 6 /\ rep.eol = <<CR, LF>> => t = <<LF>>

LEMMA BufferGrows ==
  ASSUME NEW a \in Readers, NEW c \in Letters, ~(c = LF /\ Ended(a.buffer))
  PROVE  /\ ReadText(a, <<c>>).buffer # <<>>
         /\ ReadText(a, <<c>>).buffer[Len(ReadText(a, <<c>>).buffer)] = c
<1> DEFINE b == a.buffer
           n == Len(b)
           x == ReadText(a, <<c>>)
<1>1. b \in Seq(Letters)
  BY ErasedType
<1>2. x = ReadSymbol(a, c)
  <2>1. <<c>> # <<>> /\ <<c>>[1] = c
    OBVIOUS
  <2> QED
    BY <2>1 DEF ReadText
<1>3. ~(c = LF /\ n > 0 /\ b[n] = LF)
  <2>1. n > 0 => b # <<>>
    BY <1>1
  <2> QED
    BY <2>1 DEF Ended
<1>4. ReadSymbol(a, c) = [a EXCEPT !.buffer = Append(b, c)]
  BY <1>3 DEF ReadSymbol
<1>5. x.buffer = Append(b, c)
  BY <1>2, <1>4 DEF Readers
<1>6. Append(b, c) # <<>> /\ Append(b, c)[Len(Append(b, c))] = c
  BY <1>1, AppendProperties
<1> HIDE DEF x, b
<1> QED
  BY <1>5, <1>6, Zenon DEF x

LEMMA BufferCloses ==
  ASSUME NEW a \in Readers, Ended(a.buffer)
  PROVE  ReadText(a, <<LF>>).buffer = <<>>
<1> DEFINE b == a.buffer
           n == Len(b)
           z == Erased(a)
           f == Front(b)
           w == Lines(z, f)[Len(f)]
<1>1. b \in Seq(Letters) /\ z \in Readers /\ z.buffer = <<>>
  BY ErasedType
<1>2. n > 0 /\ b[n] = LF
  BY <1>1 DEF Ended
<1>3. ReadText(a, <<LF>>) = ReadSymbol(a, LF)
  <2>1. <<LF>> # <<>> /\ <<LF>>[1] = LF
    OBVIOUS
  <2> QED
    BY <2>1 DEF ReadText
<1>4. ReadSymbol(a, LF) = ReadLine(w.acc, w.line)
  <2>1. ReadSymbol(a, LF) = ReadEvent(z, f)
    BY <1>2 DEF ReadSymbol, Erased
  <2>2. ReadEvent(z, f) = ReadLine(w.acc, w.line)
    BY DEF ReadEvent
  <2> QED
    BY <2>1, <2>2
<1>5. f \in Seq(Letters)
  BY <1>1, <1>2, SubSeqProperties DEF Front
<1> HIDE DEF f, z
<1>6. w \in Readings /\ w.acc.buffer = <<>>
  <2>1. Len(f) \in 0 .. Len(f)
    BY <1>5
  <2> QED
    BY <1>1, <1>5, <2>1, LinesFacts
<1>7. ReadLine(w.acc, w.line).buffer = w.acc.buffer
  BY <1>6, ReadLineType DEF Readings
<1> QED
  BY <1>3, <1>4, <1>6, <1>7

LEMMA TailStep ==
  ASSUME NEW rep \in AllReplies, NEW o \in Nat, o >= 1, NEW tidy \in BOOLEAN,
         NEW a \in Readers, TailAt(a.buffer, rep, o - 1, tidy), NEW t, TailTells(t, rep, o, tidy)
  PROVE  TailAt(ReadText(a, t).buffer, rep, o, tidy)
<1> DEFINE b == ReadText(a, t).buffer
           crlf == rep.eol = <<CR, LF>>
           lf == rep.eol = <<LF>>
           f == Len(rep.eol)
<1>1. (lf /\ f = 1 /\ ~crlf) \/ (crlf /\ f = 2 /\ ~lf)
  <2>1. <<CR, LF>> # <<LF>>
    OBVIOUS
  <2> QED
    BY <2>1, ReplyFacts
<1>2. LF \in Letters /\ CR \in Letters /\ "[DONE]" \in Letters /\ CR # LF /\ "[DONE]" # LF
  BY DEF Letters, Glyphs, CR, LF
<1>3. ASSUME NEW c \in Letters, t = <<c>>, ~(c = LF /\ Ended(a.buffer))
      PROVE  (c # LF => Open(b)) /\ (c = LF => Ended(b))
  <2>1. b # <<>> /\ b[Len(b)] = c
    BY <1>3, BufferGrows
  <2> HIDE DEF b
  <2> QED
    BY <2>1 DEF Open, Ended
<1>4. t = <<>> => b = a.buffer
  BY DEF ReadText
<1>5. t = <<LF>> /\ Ended(a.buffer) => b = <<>>
  BY BufferCloses
<1>6. Open(a.buffer) => ~Ended(a.buffer)
  BY DEF Open, Ended
<1> HIDE DEF b, crlf, lf, f
<1>7. CASE o = 2
  <2>1. t = <<"[DONE]">>
    BY <1>7 DEF TailTells
  <2>2. Open(b)
    BY <1>2, <1>3, <2>1
  <2>3. ~(o = 2 + 2 * f) /\ o # 3 /\ o # 4 /\ o # 5
    BY <1>1, <1>7
  <2> QED
    BY <2>2, <2>3 DEF TailAt, b, f
<1>8. CASE o = 3 /\ lf
  <2>1. t = <<LF>> /\ Open(a.buffer)
    BY <1>8 DEF TailTells, TailAt, lf
  <2>2. Ended(b)
    BY <1>2, <1>3, <1>6, <2>1
  <2>3. ~(o = 2 + 2 * f) /\ o # 2 /\ ~crlf
    BY <1>1, <1>8
  <2> QED
    BY <2>2, <2>3 DEF TailAt, b, f, crlf
<1>9. CASE o = 3 /\ crlf
  <2>1. t \in {<<>>, <<CR>>} /\ Open(a.buffer)
    BY <1>9 DEF TailTells, TailAt, crlf
  <2>2. Open(b)
    BY <1>2, <1>3, <1>4, <2>1
  <2>3. ~(o = 2 + 2 * f) /\ o # 4 /\ o # 5 /\ ~lf
    BY <1>1, <1>9
  <2> QED
    BY <2>2, <2>3 DEF TailAt, b, f, lf
<1>10. CASE o = 4 /\ lf
  <2>1. t = <<LF>> /\ Ended(a.buffer)
    BY <1>10 DEF TailTells, TailAt, lf
  <2>2. b = <<>>
    BY <1>5, <2>1
  <2>3. o # 2 /\ o # 3 /\ ~crlf
    BY <1>1, <1>10
  <2> QED
    BY <2>2, <2>3 DEF TailAt, b, crlf
<1>11. CASE o = 4 /\ crlf
  <2>1. t = <<LF>> /\ Open(a.buffer)
    BY <1>11 DEF TailTells, TailAt, crlf
  <2>2. Ended(b)
    BY <1>2, <1>3, <1>6, <2>1
  <2>3. ~(o = 2 + 2 * f) /\ o # 2 /\ o # 3
    BY <1>1, <1>11
  <2> QED
    BY <2>2, <2>3 DEF TailAt, b, f
<1>12. CASE o = 5 /\ crlf
  <2>1. tidy => Ended(b)
    BY <1>4, <1>12 DEF TailTells, TailAt, crlf
  <2>2. ~(o = 2 + 2 * f) /\ o # 2 /\ o # 3 /\ o # 4
    BY <1>1, <1>12
  <2> QED
    BY <2>1, <2>2 DEF TailAt, b, f
<1>13. CASE o = 6 /\ crlf
  <2>1. t = <<LF>> /\ (tidy => Ended(a.buffer))
    BY <1>13 DEF TailTells, TailAt, crlf
  <2>2. tidy => b = <<>>
    BY <1>5, <2>1
  <2>3. o # 2 /\ o # 3 /\ o # 4 /\ o # 5
    BY <1>13
  <2> QED
    BY <2>2, <2>3 DEF TailAt, b
<1>14. CASE ~(o \in 2 .. 6) \/ (lf /\ o > 4)
  <2>1. ~(o = 2 + 2 * f) /\ o # 2 /\ o # 3 /\ o # 4 /\ ~(o = 5 /\ crlf)
    BY <1>1, <1>14
  <2> QED
    BY <2>1 DEF TailAt, f, crlf
<1> QED
  <2>1. o \in 2 .. 6 => o = 2 \/ o = 3 \/ o = 4 \/ o = 5 \/ o = 6
    OBVIOUS
  <2>2. lf /\ (o = 5 \/ o = 6) => lf /\ o > 4
    OBVIOUS
  <2> QED
    BY <1>1, <1>7, <1>8, <1>9, <1>10, <1>11, <1>12, <1>13, <1>14, <2>1, <2>2 DEF b

CutsNoEnd(S, m, tidy) == tidy => ~(m = Len(S) - 1 /\ S[m] = CR)

LEMMA TailTold ==
  ASSUME NEW rep \in AllReplies, NEW i, i = Pieced(rep) + 1, NEW o \in Nat, o >= 1,
         NEW S \in Seq(Symbols), NEW b \in Nat, EventAt(rep, S, i, b),
         b + (2 + 2 * Len(rep.eol)) = Len(S),
         NEW a, NEW m, NEW p, p = b + o, Inside(S, a, m, p),
         NEW t, SymbolAt(t, S, a, m, p), NEW tidy \in BOOLEAN, CutsNoEnd(S, m, tidy)
  PROVE  TailTells(t, rep, o, tidy)
<1> DEFINE n == b + 2
<1>1. Pieced(rep) \in Nat /\ i > Pieced(rep) /\ ~(i <= Pieced(rep)) /\ LineLength(rep, i) = 2
  <2>1. Pieced(rep) \in Nat
    BY ReplyFacts
  <2>2. i > Pieced(rep) /\ ~(i <= Pieced(rep))
    BY <2>1
  <2> QED
    BY <2>1, <2>2 DEF LineLength
<1>2. /\ S[b + 2] = "[DONE]"
      /\ rep.eol = <<LF>> => S[n + 1] = LF /\ S[n + 2] = LF
      /\ rep.eol = <<CR, LF>> => S[n + 1] = CR /\ S[n + 2] = LF /\ S[n + 3] = CR /\ S[n + 4] = LF
  BY <1>1 DEF EventAt
<1>3. n + 1 = b + 3 /\ n + 2 = b + 4 /\ n + 3 = b + 5 /\ n + 4 = b + 6
  OBVIOUS
<1> HIDE DEF n
<1>4. S[p] \notin {"hi", "lo", CR} => t = <<S[p]>>
  BY DEF SymbolAt
<1>5. S[p] = LF => t = <<LF>>
  BY <1>4 DEF CR, LF
<1>6. S[p] = CR => t \in {<<>>, <<CR>>}
  BY DEF SymbolAt, CR
<1>7. o = 2 => t = <<"[DONE]">>
  BY <1>2, <1>4 DEF CR
<1>8. o = 3 /\ rep.eol = <<LF>> => t = <<LF>>
  BY <1>2, <1>3, <1>5
<1>9. o = 3 /\ rep.eol = <<CR, LF>> => t \in {<<>>, <<CR>>}
  BY <1>2, <1>3, <1>6
<1>10. o = 4 => t = <<LF>>
  BY <1>2, <1>3, <1>5, ReplyFacts
<1>11. o = 6 /\ rep.eol = <<CR, LF>> => t = <<LF>>
  BY <1>2, <1>3, <1>5
<1>12. ASSUME o = 5, rep.eol = <<CR, LF>>, tidy PROVE t = <<>>
  <2>1. S[p] = CR /\ S[b + 6] = LF
    BY <1>2, <1>3, <1>12
  <2>2. Len(rep.eol) = 2
    BY <1>12
  <2> DEFINE e == Len(S)
  <2>3. p = b + 5 /\ p + 1 = b + 6 /\ e = p + 1 /\ p \in Nat
    BY <1>12, <2>2
  <2>4. p <= m /\ m <= e /\ m \in Nat
    BY DEF Inside
  <2> HIDE DEF e
  <2>5. p # m
    <3>1. ~(m = e - 1 /\ S[m] = CR)
      BY <1>12 DEF CutsNoEnd, e
    <3>2. e - 1 = p
      BY <2>3
    <3> QED
      BY <2>1, <3>1, <3>2
  <2>6. p < m /\ S[p + 1] = LF
    BY <2>1, <2>3, <2>4, <2>5
  <2> QED
    BY <2>1, <2>6 DEF SymbolAt, CR
<1> QED
  BY <1>7, <1>8, <1>9, <1>10, <1>11, <1>12 DEF TailTells

----------------------------------------------------------------------------
(* Where a reader stands in a stream.                                      *)

ReadsAt(a, rep, i, o, whole, tidy) ==
    /\ StandsAt(Standing(a), rep, i, o, whole)
    /\ i > Pieced(rep) => TailAt(a.buffer, rep, o, tidy)

Placed(a, rep, p, whole, tidy) ==
    \E i \in 1 .. Pieced(rep) + 1 : \E o \in 0 .. EventLength(rep, i) :
        p = Offset(rep, i - 1) + o /\ ReadsAt(a, rep, i, o, whole, tidy)

\* Behind an event is before the next one.
LEMMA ReadsOn ==
  ASSUME NEW rep \in AllReplies, NEW i \in 1 .. Pieced(rep), NEW whole, NEW tidy, NEW a,
         ReadsAt(a, rep, i, EventLength(rep, i), whole, tidy)
  PROVE  ReadsAt(a, rep, i + 1, 0, whole, tidy)
<1> DEFINE l == LineLength(rep, i)
           z == EventLength(rep, i)
           s == Standing(a)
           f == Len(rep.eol)
<1>1. /\ l \in Nat /\ LineLength(rep, i + 1) \in Nat /\ LineLength(rep, i + 1) >= 2 /\ Pieced(rep) \in Nat
      /\ f \in {1, 2} /\ rep.eol \in {<<LF>>, <<CR, LF>>}
  <2>1. Pieced(rep) \in Nat
    BY ReplyFacts
  <2>2. i \in 1 .. Pieced(rep) + 1 /\ i + 1 \in 1 .. Pieced(rep) + 1
    BY <2>1
  <2> QED
    BY <2>1, <2>2, ReplyFacts
<1>2. z = l + 2 * f
  BY DEF EventLength
<1> HIDE DEF l, z, f, s
<1>3. ~(z <= l) /\ z # l + 1
  <2>1. l \in Nat /\ f \in {1, 2}
    BY <1>1 DEF f, l
  <2> QED
    BY <1>2, <2>1
<1>4. Beyond(s, rep, i, whole)
  <2>1. StandsAt(s, rep, i, z, whole)
    BY DEF ReadsAt, z, s
  <2> QED
    BY <1>3, <2>1 DEF StandsAt, l
<1>5. i <= Pieced(rep) /\ (i + 1) - 1 = i
  BY <1>1
<1>6. Within(s, rep, i + 1, 0, whole)
  <2>1. LineAt(s.line, rep, i + 1, 0, whole)
    <3>1. s.line = <<>>
      BY <1>4 DEF Beyond
    <3>2. ~(0 >= 2) /\ ~(0 = 1) /\ ~(0 = LineLength(rep, i + 1))
      BY <1>1
    <3> QED
      BY <3>1, <3>2 DEF LineAt
  <2>2. Plain(rep) => Heard(s.acc.contents, rep, (i + 1) - 1, whole)
    BY <1>4, <1>5 DEF Beyond
  <2> QED
    BY <2>1, <2>2 DEF Within
<1>7. StandsAt(s, rep, i + 1, 0, whole)
  BY <1>1, <1>6 DEF StandsAt
<1>8. TailAt(a.buffer, rep, 0, tidy)
  <2>1. ~(0 = 2 + 2 * f) /\ 0 # 2 /\ 0 # 3 /\ 0 # 4 /\ 0 # 5
    BY <1>1
  <2> QED
    BY <2>1 DEF TailAt, f
<1> QED
  BY <1>7, <1>8 DEF ReadsAt, s

LEMMA ReadsStep ==
  ASSUME NEW rep \in AllReplies, NEW S, S = Streams[rep],
         NEW i \in 1 .. Pieced(rep) + 1, NEW o \in 1 .. EventLength(rep, i),
         NEW whole \in BOOLEAN, NEW tidy \in BOOLEAN,
         NEW r \in Readers, ReadsAt(r, rep, i, o - 1, whole, tidy),
         NEW a, NEW m, NEW p, p = Offset(rep, i - 1) + o, Inside(S, a, m, p),
         NEW t \in Tellings, SymbolAt(t, S, a, m, p),
         CutsNone(S, a, m, whole), CutsNoEnd(S, m, tidy)
  PROVE  ReadsAt(ReadText(r, t), rep, i, o, whole, tidy)
<1> DEFINE b == Offset(rep, i - 1)
<1>1. /\ S \in Seq(Symbols) /\ b \in Nat /\ EventAt(rep, S, i, b)
      /\ Offset(rep, i) = b + EventLength(rep, i)
      /\ Offset(rep, Pieced(rep) + 1) = Len(S)
  BY StreamPlaces
<1>2. p = b + o
  OBVIOUS
<1> HIDE DEF b
<1>3. Tells(t, rep, i, o, whole)
  BY <1>1, <1>2, TellsOf
<1>4. Standing(r) \in Readings /\ StandsAt(Standing(r), rep, i, o - 1, whole)
  BY StandingType DEF ReadsAt
<1>5. StandsAt(Told(Standing(r), t), rep, i, o, whole)
  BY <1>3, <1>4, StandsStep
<1>6. StandsAt(Standing(ReadText(r, t)), rep, i, o, whole)
  BY <1>5, ReadTextStands
<1>7. ASSUME i > Pieced(rep) PROVE TailAt(ReadText(r, t).buffer, rep, o, tidy)
  <2>1. i = Pieced(rep) + 1 /\ o \in Nat /\ o >= 1
    <3>1. Pieced(rep) \in Nat /\ EventLength(rep, i) \in Nat
      BY ReplyFacts
    <3> QED
      BY <1>7, <3>1
  <2>2. EventLength(rep, i) = 2 + 2 * Len(rep.eol)
    <3>1. ~(i <= Pieced(rep))
      <4>1. Pieced(rep) \in Nat
        BY ReplyFacts
      <4> QED
        BY <1>7, <4>1
    <3> QED
      BY <3>1 DEF EventLength, LineLength
  <2>3. b + (2 + 2 * Len(rep.eol)) = Len(S)
    BY <1>1, <2>1, <2>2
  <2>4. TailTells(t, rep, o, tidy)
    BY <1>1, <1>2, <2>1, <2>3, TailTold
  <2>5. TailAt(r.buffer, rep, o - 1, tidy)
    BY <1>7 DEF ReadsAt
  <2> QED
    BY <2>1, <2>4, <2>5, TailStep
<1> QED
  BY <1>6, <1>7 DEF ReadsAt

LEMMA PlacedStep ==
  ASSUME NEW rep \in AllReplies, NEW S, S = Streams[rep], NEW whole \in BOOLEAN, NEW tidy \in BOOLEAN,
         NEW a, NEW m, NEW p \in Nat, Inside(S, a, m, p),
         NEW r \in Readers, Placed(r, rep, p - 1, whole, tidy),
         NEW t \in Tellings, SymbolAt(t, S, a, m, p),
         CutsNone(S, a, m, whole), CutsNoEnd(S, m, tidy)
  PROVE  Placed(ReadText(r, t), rep, p, whole, tidy)
<1> DEFINE k == Pieced(rep) + 1
           x == Len(S)
<1>1. PICK i \in 1 .. k : \E o \in 0 .. EventLength(rep, i) :
            p - 1 = Offset(rep, i - 1) + o /\ ReadsAt(r, rep, i, o, whole, tidy)
  BY DEF Placed
<1>2. PICK o \in 0 .. EventLength(rep, i) :
            p - 1 = Offset(rep, i - 1) + o /\ ReadsAt(r, rep, i, o, whole, tidy)
  BY <1>1
<1>3. /\ \A j \in 1 .. k : /\ Offset(rep, j - 1) \in Nat
                           /\ Offset(rep, j) = Offset(rep, j - 1) + EventLength(rep, j)
      /\ Offset(rep, k) = x
  BY StreamPlaces
<1>4. Pieced(rep) \in Nat /\ k \in Nat
      /\ \A j \in 1 .. k : EventLength(rep, j) \in Nat /\ EventLength(rep, j) >= 1
  <2>1. Pieced(rep) \in Nat
    BY ReplyFacts
  <2>2. \A j \in 1 .. k : LineLength(rep, j) \in Nat /\ LineLength(rep, j) >= 2 /\ Len(rep.eol) \in {1, 2}
    BY ReplyFacts
  <2>3. \A l \in Nat : \A f \in {1, 2} : l + 2 * f \in Nat /\ l + 2 * f >= 1
    OBVIOUS
  <2>4. \A j \in 1 .. k : EventLength(rep, j) \in Nat /\ EventLength(rep, j) >= 1
    BY <2>2, <2>3 DEF EventLength
  <2> QED
    BY <2>1, <2>4
<1>5. p <= x /\ o \in Nat
  <2>1. p <= m /\ m <= x /\ m \in Nat
    BY DEF Inside
  <2>2. x \in Nat
    <3>1. S \in Seq(Symbols)
      BY StreamPlaces
    <3> QED
      BY <3>1
  <2> HIDE DEF x
  <2> QED
    BY <1>4, <2>1, <2>2
<1> HIDE DEF k, x
<1>6. CASE o < EventLength(rep, i)
  <2> DEFINE q == o + 1
  <2>1. q \in 1 .. EventLength(rep, i) /\ q - 1 = o /\ p = Offset(rep, i - 1) + q
        /\ q \in 0 .. EventLength(rep, i)
    BY <1>2, <1>3, <1>4, <1>6
  <2>2. i \in 1 .. Pieced(rep) + 1
    BY DEF k
  <2> HIDE DEF q
  <2>3. ReadsAt(r, rep, i, q - 1, whole, tidy)
    BY <1>2, <2>1
  <2>4. ReadsAt(ReadText(r, t), rep, i, q, whole, tidy)
    BY <2>1, <2>2, <2>3, ReadsStep
  <2> QED
    BY <2>1, <2>2, <2>4 DEF Placed
<1>7. CASE o = EventLength(rep, i)
  <2>1. p - 1 = Offset(rep, i)
    BY <1>2, <1>3, <1>7
  <2>2. i # k
    BY <1>3, <1>5, <2>1
  <2> DEFINE j == i + 1
  <2>3. i \in 1 .. Pieced(rep) /\ j \in 1 .. k /\ j - 1 = i
    BY <1>4, <2>2 DEF k
  <2>4. ReadsAt(r, rep, i, EventLength(rep, i), whole, tidy)
    BY <1>2, <1>7
  <2>5. ReadsAt(r, rep, j, 0, whole, tidy)
    BY <2>3, <2>4, ReadsOn
  <2> HIDE DEF j
  <2>6. /\ 1 \in 1 .. EventLength(rep, j) /\ 1 - 1 = 0 /\ 1 \in 0 .. EventLength(rep, j)
        /\ p = Offset(rep, j - 1) + 1 /\ j \in 1 .. Pieced(rep) + 1
    BY <1>3, <1>4, <2>1, <2>3 DEF k
  <2>7. ReadsAt(r, rep, j, 1 - 1, whole, tidy)
    BY <2>5, <2>6
  <2>8. ReadsAt(ReadText(r, t), rep, j, 1, whole, tidy)
    BY <2>6, <2>7, ReadsStep
  <2> QED
    BY <2>6, <2>8 DEF Placed
<1> QED
  BY <1>4, <1>6, <1>7

LEMMA ChunkRead ==
  ASSUME NEW rep \in AllReplies, NEW S, S = Streams[rep], NEW whole \in BOOLEAN, NEW tidy \in BOOLEAN,
         NEW r \in Readers, NEW a, NEW m, NEW raw \in Seq(Symbols), ChunkOf(raw, S, a, m),
         Placed(r, rep, a, whole, tidy), CutsNone(S, a, m, whole), CutsNoEnd(S, m, tidy)
  PROVE  Feed(r, raw) \in Readers /\ Placed(Feed(r, raw), rep, m, whole, tidy)
<1> DEFINE f == Reader(r, raw)
           d == m - a
           U == {n \in Nat : n <= d => Placed(f[n], rep, a + n, whole, tidy)}
<1>1. a \in Nat /\ m \in Nat /\ d \in Nat /\ Len(raw) = d /\ m <= Len(S) /\ d >= 1
  BY DEF ChunkOf
<1>2. /\ f[0] = r /\ \A n \in 1 .. d : f[n] = ReadText(f[n - 1], Symbol(raw, n))
      /\ \A n \in 0 .. d : f[n] \in Readers
  BY <1>1, ReaderFacts
<1> HIDE DEF f
<1>3. 0 \in U
  <2>1. a + 0 = a
    BY <1>1
  <2> QED
    BY <1>2, <2>1
<1>4. ASSUME NEW n \in Nat, n \in U PROVE n + 1 \in U
  <2> SUFFICES ASSUME n + 1 <= d PROVE Placed(f[n + 1], rep, a + (n + 1), whole, tidy)
    OBVIOUS
  <2> DEFINE p == a + (n + 1)
             t == Symbol(raw, n + 1)
  <2>1. /\ n \in 0 .. d /\ n <= d /\ n + 1 \in 1 .. d /\ (n + 1) - 1 = n /\ p - 1 = a + n /\ p \in Nat
        /\ p \in a + 1 .. m /\ p - a = n + 1 /\ p > a /\ p <= m
    BY <1>1
  <2>2. f[n] \in Readers /\ Placed(f[n], rep, p - 1, whole, tidy)
    <3>1. Placed(f[n], rep, a + n, whole, tidy)
      BY <1>4, <2>1
    <3> HIDE DEF p
    <3> QED
      BY <1>2, <2>1, <3>1
  <2>3. Inside(S, a, m, p)
    BY <1>1, <2>1 DEF Inside
  <2>4. S \in Seq(Symbols)
    BY StreamPlaces
  <2> HIDE DEF p, U, d
  <2>5. SymbolAt(Symbol(raw, p - a), S, a, m, p)
    BY <2>1, <2>4, SymbolOf
  <2>6. SymbolAt(t, S, a, m, p)
    BY <2>1, <2>5
  <2>7. t \in Tellings
    <3>1. n + 1 \in 1 .. Len(raw)
      BY <1>1, <2>1
    <3> QED
      BY <3>1, SymbolType
  <2>8. f[n + 1] = ReadText(f[n], t)
    BY <1>2, <2>1
  <2> HIDE DEF t
  <2>9. Placed(ReadText(f[n], t), rep, p, whole, tidy)
    BY <2>1, <2>2, <2>3, <2>6, <2>7, PlacedStep
  <2> QED
    BY <2>8, <2>9 DEF p
<1> HIDE DEF U
<1>5. Nat \subseteq U
  BY <1>3, <1>4, NatInd
<1>6. Placed(f[d], rep, a + d, whole, tidy)
  <2>1. d \in U /\ d <= d
    BY <1>1, <1>5
  <2> QED
    BY <2>1 DEF U
<1>7. a + d = m /\ d \in 0 .. d
  BY <1>1
<1>8. Feed(r, raw) = f[d]
  BY <1>1 DEF Feed, f
<1> HIDE DEF d
<1> QED
  BY <1>2, <1>6, <1>7, <1>8

LEMMA PlacedAtStart ==
  ASSUME NEW rep \in AllReplies, NEW whole \in BOOLEAN, NEW tidy \in BOOLEAN
  PROVE  Placed(Empty, rep, 0, whole, tidy)
<1> DEFINE k == Pieced(rep) + 1
<1>1. Pieced(rep) \in Nat /\ LineLength(rep, 1) \in Nat /\ LineLength(rep, 1) >= 2
      /\ EventLength(rep, 1) \in Nat /\ Len(rep.eol) \in {1, 2} /\ rep.bodies \in Seq(Seq(Chars))
  <2>1. Pieced(rep) \in Nat
    BY ReplyFacts
  <2>2. 1 \in 1 .. Pieced(rep) + 1
    BY <2>1
  <2> QED
    BY <2>1, <2>2, ReplyFacts
<1>2. Offset(rep, 0) = 0
  BY StreamPlaces
<1>3. Standing(Empty) = [acc |-> Empty, line |-> <<>>] /\ Empty.buffer = <<>>
  <2>1. Empty.buffer = <<>>
    BY DEF Empty
  <2> QED
    BY <2>1, EmptyIsReader, StandingOfEmpty
<1> DEFINE s == Standing(Empty)
<1>4. s.line = <<>> /\ s.acc.contents = <<>>
  BY <1>3 DEF Empty
<1> HIDE DEF s
<1>5. Heard(<<>>, rep, 0, whole)
  <2>1. Meant(rep.bodies)[0] = <<>>
    BY <1>1, MeantFacts
  <2>2. <<>> \in Contents
    BY DEF Contents
  <2> QED
    BY <2>1, <2>2 DEF Heard
<1>6. LineAt(<<>>, rep, 1, 0, whole)
  <2>1. ~(0 >= 2) /\ ~(0 = 1) /\ ~(0 = LineLength(rep, 1))
    BY <1>1
  <2> QED
    BY <2>1 DEF LineAt
<1>7. Within(s, rep, 1, 0, whole)
  <2>1. 1 - 1 = 0
    OBVIOUS
  <2> QED
    BY <1>4, <1>5, <1>6, <2>1 DEF Within
<1>8. StandsAt(s, rep, 1, 0, whole)
  BY <1>1, <1>7 DEF StandsAt
<1>9. TailAt(Empty.buffer, rep, 0, tidy)
  <2>1. ~(0 = 2 + 2 * Len(rep.eol)) /\ 0 # 2 /\ 0 # 3 /\ 0 # 4 /\ 0 # 5
    BY <1>1
  <2> QED
    BY <2>1 DEF TailAt
<1>10. ReadsAt(Empty, rep, 1, 0, whole, tidy)
  BY <1>8, <1>9 DEF ReadsAt, s
<1>11. 1 \in 1 .. Pieced(rep) + 1 /\ 0 \in 0 .. EventLength(rep, 1) /\ 0 = Offset(rep, 1 - 1) + 0
  BY <1>1, <1>2
<1> QED
  BY <1>10, <1>11 DEF Placed

LEMMA PlacedAtEnd ==
  ASSUME NEW rep \in AllReplies, NEW S, S = Streams[rep], NEW whole \in BOOLEAN,
         NEW r \in Readers, Placed(r, rep, Len(S), whole, TRUE)
  PROVE  r.done /\ (Plain(rep) => Heard(r.contents, rep, Pieced(rep), whole))
<1> DEFINE n == Pieced(rep)
           k == n + 1
           x == Len(S)
<1>1. PICK i \in 1 .. k : \E o \in 0 .. EventLength(rep, i) :
            x = Offset(rep, i - 1) + o /\ ReadsAt(r, rep, i, o, whole, TRUE)
  BY DEF Placed
<1>2. PICK o \in 0 .. EventLength(rep, i) :
            x = Offset(rep, i - 1) + o /\ ReadsAt(r, rep, i, o, whole, TRUE)
  BY <1>1
<1>3. n \in Nat /\ k \in Nat
  BY ReplyFacts
<1>4. /\ Offset(rep, k) = x
      /\ \A j \in 1 .. k : /\ Offset(rep, j - 1) \in Nat
                           /\ Offset(rep, j) = Offset(rep, j - 1) + EventLength(rep, j)
                           /\ Offset(rep, j) <= x
  BY StreamPlaces
<1>5. \A j \in 1 .. k : /\ EventLength(rep, j) \in Nat /\ LineLength(rep, j) \in Nat
                        /\ EventLength(rep, j) > LineLength(rep, j) + 1
                        /\ EventLength(rep, j) > 0
  <2>1. \A j \in 1 .. k : LineLength(rep, j) \in Nat /\ LineLength(rep, j) >= 2 /\ Len(rep.eol) \in {1, 2}
    BY ReplyFacts
  <2>2. \A l \in Nat : \A f \in {1, 2} : l + 2 * f \in Nat /\ l + 2 * f > l + 1 /\ l + 2 * f > 0
    OBVIOUS
  <2> QED
    BY <2>1, <2>2 DEF EventLength
<1> HIDE DEF n, k, x
<1>6. i = k
  <2> SUFFICES ASSUME i # k PROVE FALSE
    OBVIOUS
  <2> DEFINE j == i + 1
  <2>1. j \in 1 .. k /\ j - 1 = i
    BY <1>3
  <2> HIDE DEF j
  <2>2. Offset(rep, j) = Offset(rep, i) + EventLength(rep, j) /\ Offset(rep, j) <= x
        /\ Offset(rep, i) = Offset(rep, i - 1) + EventLength(rep, i) /\ Offset(rep, i - 1) \in Nat
        /\ EventLength(rep, j) \in Nat /\ EventLength(rep, j) > 0 /\ EventLength(rep, i) \in Nat
    BY <1>4, <1>5, <2>1
  <2>3. o \in Nat /\ o <= EventLength(rep, i) /\ x = Offset(rep, i - 1) + o
    BY <1>2, <2>2
  <2> DEFINE o1 == Offset(rep, i - 1)
             e1 == EventLength(rep, i)
             e2 == EventLength(rep, j)
  <2>4. (o1 + e1) + e2 <= x /\ x = o1 + o /\ o <= e1
        /\ o1 \in Nat /\ e1 \in Nat /\ e2 \in Nat /\ e2 > 0 /\ o \in Nat
    BY <2>2, <2>3
  <2> HIDE DEF o1, e1, e2
  <2> QED
    BY <2>4
<1>7. o = EventLength(rep, i)
  <2>1. o \in Nat /\ x = Offset(rep, i - 1) + o /\ x = Offset(rep, i - 1) + EventLength(rep, i)
        /\ Offset(rep, i - 1) \in Nat /\ EventLength(rep, i) \in Nat
    BY <1>2, <1>4, <1>5, <1>6
  <2> QED
    BY <2>1
<1>8. i > n /\ ~(i <= n)
  BY <1>3, <1>6 DEF k
<1> DEFINE s == Standing(r)
<1>9. Beyond(s, rep, i, whole)
  <2>1. ~(o <= LineLength(rep, i)) /\ ~(o = LineLength(rep, i) + 1)
    BY <1>5, <1>7
  <2>2. StandsAt(s, rep, i, o, whole)
    BY <1>2 DEF ReadsAt
  <2> HIDE DEF s
  <2> QED
    BY <2>1, <2>2 DEF StandsAt
<1>10. r.buffer = <<>>
  <2>1. TailAt(r.buffer, rep, o, TRUE)
    BY <1>2, <1>8 DEF ReadsAt, n
  <2>2. o = 2 + 2 * Len(rep.eol)
    BY <1>7, <1>8 DEF EventLength, LineLength, n
  <2> QED
    BY <2>1, <2>2 DEF TailAt
<1>11. s.acc = r
  <2>1. s = [acc |-> r, line |-> <<>>]
    BY <1>10, StandingOfEmpty
  <2> QED
    BY <2>1
<1> HIDE DEF s
<1> QED
  BY <1>8, <1>9, <1>11 DEF Beyond, n

\* What has been received ends in a whole character, unless the transport cut it.
Unbroken(r) == "character" \notin cut[r] => received[r] = 0 \/ Stream(r)[received[r]] # "hi"

\* The reader of a request stands where it has received.
Stands(r) ==
    \A whole, tidy \in BOOLEAN :
        (whole => "character" \notin cut[r]) /\ (tidy => "last line end" \notin cut[r]) =>
            Placed(acc[r], reply[r], received[r], whole, tidy)

ReadInv ==
    /\ acc \in [Requests -> Readers]
    /\ \A r \in Requests : Unbroken(r) /\ Stands(r)

LEMMA LastByte ==
  ASSUME NEW rep \in AllReplies, NEW S, S = Streams[rep]
  PROVE  S \in Seq(Symbols) /\ Len(S) \in Nat /\ S[Len(S)] = LF
<1> DEFINE k == Pieced(rep) + 1
           b == Offset(rep, k - 1)
           n == b + 2
           z == Len(S)
           f == Len(rep.eol)
<1>1. k \in 1 .. k /\ ~(k <= Pieced(rep)) /\ Pieced(rep) \in Nat
  <2>1. Pieced(rep) \in Nat
    BY ReplyFacts
  <2> QED
    BY <2>1
<1>2. /\ S \in Seq(Symbols) /\ b \in Nat /\ EventAt(rep, S, k, b) /\ z = b + EventLength(rep, k)
  BY <1>1, StreamPlaces
<1>3. EventLength(rep, k) = 2 + 2 * f /\ LineLength(rep, k) = 2
  BY <1>1 DEF EventLength, LineLength
<1>4. z \in Nat
  BY <1>2
<1> HIDE DEF b, z, f, k
<1>5. CASE rep.eol = <<LF>>
  <2>1. S[n + 2] = LF
    BY <1>2, <1>3, <1>5 DEF EventAt
  <2>2. f = 1
    BY <1>5 DEF f
  <2>3. z = n + 2
    BY <1>2, <1>3, <2>2
  <2> QED
    BY <1>2, <1>4, <2>1, <2>3 DEF z
<1>6. CASE rep.eol = <<CR, LF>>
  <2>1. S[n + 4] = LF
    BY <1>2, <1>3, <1>6 DEF EventAt
  <2>2. f = 2
    BY <1>6 DEF f
  <2>3. z = n + 4
    BY <1>2, <1>3, <2>2
  <2> QED
    BY <1>2, <1>4, <2>1, <2>3 DEF z
<1> QED
  BY <1>5, <1>6, ReplyFacts

LEMMA ReadReceive == ASSUME FlowInv, ReadInv, NEW r \in Requests, Receive(r) PROVE ReadInv'
<1> DEFINE rep == reply[r]
           S == Stream(r)
           a == received[r]
<1>1. PICK m \in Pieces(r, received[r], relayed[r]) :
         /\ received' = [received EXCEPT ![r] = m]
         /\ acc' = [acc EXCEPT ![r] = Feed(acc[r], Bytes(r, received[r], m))]
         /\ cut' = [cut EXCEPT ![r] = cut[r] \cup CutsText(r, m)]
  BY DEF Receive
<1>2. reply' = reply
  BY DEF Receive
<1>3. /\ relayed[r] \in Nat /\ a \in Nat /\ FlowType /\ a <= relayed[r] /\ relayed[r] <= written[r]
      /\ written[r] \in Nat /\ written[r] <= Len(S) /\ rep \in AllReplies
  BY DEF FlowInv, FlowType, Flows
<1>4. S = Streams[rep] /\ S \in Seq(Symbols) /\ Len(S) \in Nat /\ S[Len(S)] = LF
  BY <1>3, LastByte DEF Stream
<1>5. m \in Nat /\ a < m /\ m <= relayed[r]
  BY <1>3, PieceOf
<1> DEFINE raw == Bytes(r, a, m)
<1> HIDE DEF S, rep
<1>6. m <= Len(S) /\ a + 1 \in Int
  BY <1>3, <1>4, <1>5
<1>7. raw \in Seq(Symbols) /\ ChunkOf(raw, S, a, m)
  <2>1. raw = SubSeq(S, a + 1, m)
    BY DEF Bytes, S
  <2>2. \A p \in a + 1 .. m : p \in 1 .. Len(S)
    BY <1>3, <1>4, <1>5, <1>6
  <2>3. \A p \in a + 1 .. m : S[p] \in Symbols
    BY <1>4, <2>2
  <2> DEFINE u == SubSeq(S, a + 1, m)
             c == a + 1
  <2>4. c \in Int /\ m \in Int /\ c <= m /\ \A p \in c .. m : S[p] \in Symbols
    BY <1>3, <1>5, <2>3
  <2> HIDE DEF a
  <2>5. /\ u \in Seq(Symbols) /\ Len(u) = IF c <= m THEN m - c + 1 ELSE 0
        /\ \A p \in 1 .. m - c + 1 : u[p] = S[c + p - 1]
    <3> HIDE DEF c
    <3>1. /\ SubSeq(S, c, m) \in Seq(Symbols) /\ Len(SubSeq(S, c, m)) = IF c <= m THEN m - c + 1 ELSE 0
          /\ \A p \in 1 .. m - c + 1 : SubSeq(S, c, m)[p] = S[c + p - 1]
      BY <2>4, SubSeqProperties
    <3> QED
      BY <3>1 DEF c
  <2> HIDE DEF u
  <2>6. m - c + 1 = m - a /\ \A p \in 1 .. m - a : c + p - 1 = a + p
    BY <1>3, <1>5
  <2>7. Len(u) = m - a /\ \A p \in 1 .. m - a : u[p] = S[a + p]
    BY <2>4, <2>5, <2>6
  <2> QED
    BY <1>3, <1>5, <1>6, <2>1, <2>5, <2>7 DEF ChunkOf, u
<1> HIDE DEF raw, a
<1>8. acc[r] \in Readers /\ Unbroken(r) /\ Stands(r) /\ acc \in [Requests -> Readers]
  BY DEF ReadInv
<1> DEFINE more == cut[r] \cup CutsText(r, m)
<1>9. /\ "character" \notin more => S[m] # "hi" /\ (a = 0 \/ S[a] # "hi")
      /\ "last line end" \notin more => ~(m = Len(S) - 1 /\ S[m] = CR)
  <2>1. "character" \notin more => ~(m < Len(S) /\ S[m] = "hi")
    BY DEF CutsText, S
  <2>2. m = Len(S) => S[m] # "hi"
    BY <1>4 DEF LF
  <2>3. m < Len(S) \/ m = Len(S)
    BY <1>4, <1>5, <1>6
  <2>4. "character" \notin more => (a = 0 \/ S[a] # "hi")
    BY <1>8 DEF Unbroken, S, a
  <2>5. "last line end" \notin more => ~(m = Len(S) - 1 /\ S[m] = CR)
    BY DEF CutsText, S
  <2> QED
    BY <2>1, <2>2, <2>3, <2>4, <2>5
<1> DEFINE x == Feed(acc[r], raw)
<1>10. ASSUME NEW whole \in BOOLEAN, NEW tidy \in BOOLEAN,
              whole => "character" \notin more, tidy => "last line end" \notin more
       PROVE  x \in Readers /\ Placed(x, rep, m, whole, tidy)
  <2>1. Placed(acc[r], rep, a, whole, tidy)
    BY <1>8, <1>10 DEF Stands, rep, a
  <2>2. CutsNone(S, a, m, whole) /\ CutsNoEnd(S, m, tidy)
    BY <1>9, <1>10 DEF CutsNone, CutsNoEnd
  <2> HIDE DEF more, x
  <2> QED
    BY <1>3, <1>4, <1>7, <1>8, <2>1, <2>2, ChunkRead DEF x
<1>11. x \in Readers
  BY <1>10
<1>12. received'[r] = m /\ acc'[r] = x /\ cut'[r] = more
  BY <1>1, <1>3, <1>8 DEF FlowType, raw, a
<1>13. acc' \in [Requests -> Readers]
  BY <1>1, <1>8, <1>11 DEF raw, a
<1> HIDE DEF x, more
<1>14. ASSUME NEW q \in Requests PROVE (Unbroken(q) /\ Stands(q))'
  <2>1. Stream(q)' = Stream(q) /\ reply'[q] = reply[q]
    BY <1>2 DEF Stream
  <2>2. CASE q = r
    <3>1. Unbroken(r)'
      BY <1>9, <1>12, <2>1, <2>2 DEF Unbroken, S
    <3>2. Stands(r)'
      BY <1>10, <1>12, <2>1, <2>2 DEF Stands, rep
    <3> QED
      BY <2>2, <3>1, <3>2
  <2>3. CASE q # r
    <3>1. received'[q] = received[q] /\ acc'[q] = acc[q] /\ cut'[q] = cut[q]
      BY <1>1, <1>3, <1>8, <2>3 DEF FlowType
    <3> QED
      BY <2>1, <3>1 DEF ReadInv, Unbroken, Stands
  <2> QED
    BY <2>2, <2>3
<1> QED
  BY <1>13, <1>14 DEF ReadInv

\* A marker that is cut on its way to the router is none of the reader's.
LEMMA ReadRelay == ASSUME FlowInv, ReadInv, NEW r \in Requests, Relay(r) PROVE ReadInv'
<1>1. PICK n : cut' = [cut EXCEPT ![r] = cut[r] \cup CutsMarker(r, n)]
  BY DEF Relay
<1>2. UNCHANGED <<reply, acc, received>>
  BY DEF Relay, clientVars
<1>3. ASSUME NEW q \in Requests, NEW c \in {"character", "last line end"}
      PROVE  c \in cut'[q] <=> c \in cut[q]
  <2>1. c \notin CutsMarker(r, n)
    BY DEF CutsMarker
  <2> QED
    BY <1>1, <2>1 DEF FlowInv, FlowType
<1>4. ASSUME NEW q \in Requests PROVE (Unbroken(q) /\ Stands(q))'
  <2>1. Stream(q)' = Stream(q)
    BY <1>2 DEF Stream
  <2>2. ("character" \in cut'[q] <=> "character" \in cut[q])
        /\ ("last line end" \in cut'[q] <=> "last line end" \in cut[q])
    BY <1>3
  <2> QED
    BY <1>2, <2>1, <2>2 DEF ReadInv, Unbroken, Stands
<1> QED
  BY <1>2, <1>4 DEF ReadInv

LEMMA ReadStep == FlowInv /\ ReadInv /\ [Next]_vars => ReadInv'
<1> SUFFICES ASSUME FlowInv, ReadInv, [Next]_vars PROVE ReadInv'
  OBVIOUS
<1>1. ASSUME UNCHANGED <<reply, received, acc, cut>> PROVE ReadInv'
  BY <1>1 DEF ReadInv, Unbroken, Stands, Stream
<1>2. ASSUME NEW r \in Requests,
             \/ Send(r) \/ ForeignAnswers(r) \/ (\E fails \in BOOLEAN : Answer(r, fails))
             \/ Begin(r) \/ Write(r) \/ Finish(r) \/ Cancelled(r) \/ RelayEnds(r) \/ UpstreamLost(r)
             \/ Read(r) \/ ReadFails(r) \/ GiveUp(r)
      PROVE  UNCHANGED <<reply, received, acc, cut>>
  BY <1>2 DEF Send, ForeignAnswers, Answer, Begin, Write, Finish, Cancelled, RelayEnds, UpstreamLost,
              Read, ReadFails, GiveUp, clientVars
<1>3. Reset \/ UNCHANGED vars => UNCHANGED <<reply, received, acc, cut>>
  BY DEF Reset, vars, clientVars
<1> QED
  BY <1>1, <1>2, <1>3, ReadReceive, ReadRelay DEF Next

LEMMA ReadInit == Init => ReadInv
<1> SUFFICES ASSUME Init PROVE ReadInv
  OBVIOUS
<1>1. acc = [r \in Requests |-> Empty] /\ received = [r \in Requests |-> 0]
      /\ reply \in [Requests -> AllReplies]
  BY DEF Init
<1>2. ASSUME NEW r \in Requests, NEW whole \in BOOLEAN, NEW tidy \in BOOLEAN
      PROVE  Placed(acc[r], reply[r], received[r], whole, tidy)
  BY <1>1, PlacedAtStart
<1> QED
  BY <1>1, <1>2, EmptyIsReader DEF ReadInv, Unbroken, Stands

\* Wherever the transport cuts the stream of a reply, the reader that has been
\* given all of it has noted the end and read what the server meant, but for
\* the characters, the last line end and the contents that the property names
\* (sse.py 13-34, run_benchmark.py 126-130).
THEOREM StreamsAreRead == Spec => []ReadAsMeant
<1>1. FlowInv /\ ReadInv => ReadAsMeant
  <2> SUFFICES ASSUME FlowInv, ReadInv, NEW r \in Requests
               PROVE  /\ client[r] = "success" => received[r] = Len(Stream(r))
                      /\ received[r] = Len(Stream(r)) /\ "last line end" \notin cut[r] =>
                           /\ acc[r].done
                           /\ ~Has(r, "ls") =>
                               LET meant == Meant(reply[r].bodies)[Len(reply[r].bodies)]
                               IN  /\ Len(acc[r].contents) = Len(meant)
                                   /\ "character" \notin cut[r] => acc[r].contents = meant
    BY DEF ReadAsMeant
  <2>1. client[r] = "success" => received[r] = Len(Stream(r))
    BY DEF FlowInv, Flows
  <2>2. ASSUME received[r] = Len(Stream(r)), "last line end" \notin cut[r]
        PROVE  /\ acc[r].done
               /\ ~Has(r, "ls") =>
                   LET meant == Meant(reply[r].bodies)[Len(reply[r].bodies)]
                   IN  /\ Len(acc[r].contents) = Len(meant)
                       /\ "character" \notin cut[r] => acc[r].contents = meant
    <3> DEFINE whole == "character" \notin cut[r]
               rep == reply[r]
               S == Stream(r)
    <3>1. whole \in BOOLEAN /\ TRUE \in BOOLEAN /\ acc[r] \in Readers /\ Stands(r)
          /\ rep \in AllReplies /\ S = Streams[rep]
      BY DEF ReadInv, FlowInv, FlowType, Stream
    <3>2. Placed(acc[r], rep, Len(S), whole, TRUE)
      BY <2>2, <3>1 DEF Stands
    <3>3. ~Has(r, "ls") => Plain(rep)
      BY DEF Has, Plain
    <3> HIDE DEF whole, rep, S
    <3>4. acc[r].done /\ (Plain(rep) => Heard(acc[r].contents, rep, Pieced(rep), whole))
      BY <3>1, <3>2, PlacedAtEnd
    <3> QED
      BY <3>3, <3>4 DEF Heard, Pieced, whole, rep
  <2> QED
    BY <2>1, <2>2
<1>2. Init => FlowInv /\ ReadInv
  BY FlowInit, ReadInit
<1>3. (FlowInv /\ ReadInv) /\ [Next]_vars => (FlowInv /\ ReadInv)'
  BY FlowStep, ReadStep
<1> QED
  BY <1>1, <1>2, <1>3, PTL DEF Spec
=============================================================================
