----------------------------- MODULE Streaming -----------------------------
(***************************************************************************)
(* How one answer travels: a backend generates it (router/mock_backend.py, *)
(* or a foreign server that writes UTF-8 and its own line ends), the       *)
(* router relays it chunk by chunk and decides whether it was complete     *)
(* (stream in router/app.py), the load generator reads it (_request in     *)
(* benchmarks/run_benchmark.py with the reader of SSE).                    *)
(*                                                                         *)
(* The transport cuts the stream anywhere, on either connection; either    *)
(* may be lost, the client may give up, and the mock may be reset meanwhile. *)
(* Which backend a request is sent to is the matter of the module Router.  *)
(***************************************************************************)
EXTENDS Integers, Sequences, FiniteSets, SSE

CONSTANTS
    Mocked,           \* requests to the mock backend
    Foreign,          \* a request to a foreign server
    Prefix,           \* of a request to the mock
    Asked,            \* X-Expected-Output-Tokens
    OutputChunks,     \* OUTPUT_CHUNKS
    ForeignReplies,   \* the replies of a foreign server
    CutAnywhere,      \* bound: the requests whose streams are cut anywhere;
                      \* what is there of the others arrives in one piece
    MaxResets, MaxFaults   \* bounds

Requests == Mocked \cup {Foreign}
Chars == {"x", "hi", "lo", "ls", "data:", "[DONE]"}
Replies == [eol : {<<LF>>, <<CR, LF>>}, bodies : Seq(Seq(Chars))]

ASSUME StreamingAssumption ==
    /\ IsFiniteSet(Mocked) /\ Foreign \notin Mocked
    /\ Asked \in [Mocked -> Nat] /\ OutputChunks \in Nat
    /\ ForeignReplies \subseteq Replies
    /\ CutAnywhere \subseteq Requests
    /\ MaxResets \in Nat /\ MaxFaults \in Nat

VARIABLES
    mocked,     \* which of the two servers is up
    reply,      \* what the server answers to a request
    seen, rng, draws, active,   \* the mock: seen_prefix_hashes, the position
                \* of rng, the numbers the seed stands for, active_requests
    round,      \* history: the resets
    handled,    \* history: the handled requests of each round, in order
    handler,    \* of a request: none, waiting, admitted, running, over, gone
    hit,        \* X-Mock-Cache-Hit
    written, relayed, received,   \* the bytes that left each of the three
    relay,      \* the router's stream: none, open, closed, broken
    completed,  \* its completed
    client,     \* none, waiting, reading, success, failed
    acc,        \* its reader
    cut,        \* history: what the transport cut in two
    faults

mockVars == <<seen, rng, draws, active, round, handled>>
routerVars == <<relayed, relay, completed>>
clientVars == <<received, client, acc>>
vars == <<mocked, reply, mockVars, handler, hit, written, routerVars, clientVars, cut, faults>>

Senders == IF mocked THEN Mocked ELSE {Foreign}

----------------------------------------------------------------------------
(* The stream of a reply. *)

\* chunk_count
ChunkCount(asked) ==
    LET fewest == IF OutputChunks < asked THEN OutputChunks ELSE asked
    IN IF fewest > 1 THEN fewest ELSE 1

MockReply(r) == [eol |-> <<LF>>, bodies |-> [i \in 1 .. ChunkCount(Asked[r]) |-> <<"x">>]]

EventsOf(rep) == [i \in DOMAIN rep.bodies |-> Content(rep.bodies[i], rep.eol)] \o <<End(rep.eol)>>
AllReplies == ForeignReplies \cup {MockReply(r) : r \in Mocked}
Streams == [rep \in AllReplies |-> FlattenSeq(EventsOf(rep))]
\* The places in a stream where an event ends.
Ends == [rep \in AllReplies |->
            {Len(FlattenSeq(SubSeq(EventsOf(rep), 1, i))) : i \in DOMAIN EventsOf(rep)}]

Stream(r) == Streams[reply[r]]
Bytes(r, from, to) == SubSeq(Stream(r), from + 1, to)

Init ==
    /\ mocked \in BOOLEAN
    /\ reply \in {f \in [Requests -> AllReplies] :
                    /\ \A r \in Mocked : f[r] = MockReply(r)
                    /\ f[Foreign] \in ForeignReplies}
    /\ seen = {} /\ rng = 0 /\ draws = <<>> /\ active = 0
    /\ round = 0 /\ handled = [i \in 0 .. MaxResets |-> <<>>]
    /\ handler = [r \in Requests |-> "none"] /\ hit = [r \in Requests |-> FALSE]
    /\ written = [r \in Requests |-> 0]
    /\ relayed = [r \in Requests |-> 0] /\ received = [r \in Requests |-> 0]
    /\ relay = [r \in Requests |-> "none"]
    /\ completed = [r \in Requests |-> FALSE]
    /\ client = [r \in Requests |-> "none"]
    /\ acc = [r \in Requests |-> Empty]
    /\ cut = [r \in Requests |-> {}]
    /\ faults = 0

----------------------------------------------------------------------------
(* The mock backend. *)

Send(r) ==
    /\ client[r] = "none" /\ r \in Senders
    /\ client' = [client EXCEPT ![r] = "waiting"]
    /\ handler' = [handler EXCEPT ![r] = "waiting"]
    /\ UNCHANGED <<mocked, reply, mockVars, hit, written, routerVars, received, acc, cut, faults>>

\* rng.random() < failure_rate, at the position of rng: the numbers that
\* follow a seed are always the same.
Draw(fails) ==
    /\ IF rng < Len(draws) THEN fails = draws[rng + 1] /\ UNCHANGED draws
       ELSE draws' = Append(draws, fails)
    /\ rng' = rng + 1

\* Nothing is awaited between the look at the cache and the entry in it.
\* An error, 503, is relayed as it is, and fails the client.
Answer(r, fails) ==
    /\ handler[r] = "waiting" /\ mocked
    /\ Draw(fails)
    /\ hit' = [hit EXCEPT ![r] = Prefix[r] \in seen]
    /\ seen' = IF fails THEN seen ELSE seen \cup {Prefix[r]}
    /\ handled' = [handled EXCEPT ![round] = Append(@, [request |-> r, fails |-> fails])]
    /\ handler' = [handler EXCEPT ![r] = IF fails THEN "gone" ELSE "admitted"]
    /\ client' = [client EXCEPT ![r] = IF fails THEN "failed" ELSE "reading"]
    /\ relay' = [relay EXCEPT ![r] = IF fails THEN "closed" ELSE "open"]
    /\ UNCHANGED <<mocked, reply, active, round, written, relayed, completed,
                   received, acc, cut, faults>>

ForeignAnswers(r) ==
    /\ handler[r] = "waiting" /\ ~mocked
    /\ handler' = [handler EXCEPT ![r] = "admitted"]
    /\ client' = [client EXCEPT ![r] = "reading"]
    /\ relay' = [relay EXCEPT ![r] = "open"]
    /\ UNCHANGED <<mocked, reply, mockVars, hit, written, relayed, completed,
                   received, acc, cut, faults>>

\* events() is entered: a request that is left before is never counted.
Begin(r) ==
    /\ handler[r] = "admitted"
    /\ handler' = [handler EXCEPT ![r] = "running"]
    /\ active' = IF mocked THEN active + 1 ELSE active
    /\ UNCHANGED <<mocked, reply, seen, rng, draws, round, handled, hit, written,
                   routerVars, clientVars, cut, faults>>

Write(r) ==
    /\ handler[r] = "running" /\ written[r] < Len(Stream(r))
    /\ written' = [written EXCEPT ![r] = Min({n \in Ends[reply[r]] : n > @})]
    /\ UNCHANGED <<mocked, reply, mockVars, handler, hit, routerVars, clientVars, cut, faults>>

\* finally.  Mutant: only a stream that was written to its end is counted off.
FinishedAtEnd(r) ==
    active' = IF mocked /\ handler[r] = "running" /\ written[r] = Len(Stream(r))
              THEN active - 1 ELSE active
Finished(r) == active' = IF mocked /\ handler[r] = "running" THEN active - 1 ELSE active

Finish(r) ==
    /\ handler[r] = "running" /\ written[r] = Len(Stream(r))
    /\ handler' = [handler EXCEPT ![r] = "over"]
    /\ Finished(r)
    /\ UNCHANGED <<mocked, reply, seen, rng, draws, round, handled, hit, written,
                   routerVars, clientVars, cut, faults>>

\* The router is gone: the response is cancelled, before it began or within.
Cancelled(r) ==
    /\ handler[r] \in {"admitted", "running"} /\ relay[r] \in {"closed", "broken"}
    /\ handler' = [handler EXCEPT ![r] = "gone"]
    /\ Finished(r)
    /\ UNCHANGED <<mocked, reply, seen, rng, draws, round, handled, hit, written,
                   routerVars, clientVars, cut, faults>>

\* Mutant: the random numbers go on.
ResetHalf ==
    /\ mocked /\ round < MaxResets
    /\ seen' = {} /\ round' = round + 1
    /\ UNCHANGED <<mocked, reply, rng, draws, active, handled, handler, hit, written,
                   routerVars, clientVars, cut, faults>>

Reset ==
    /\ mocked /\ round < MaxResets
    /\ seen' = {} /\ rng' = 0 /\ round' = round + 1
    /\ UNCHANGED <<mocked, reply, draws, active, handled, handler, hit, written,
                   routerVars, clientVars, cut, faults>>

----------------------------------------------------------------------------
(* The router. *)

\* b"data: [DONE]" in chunk.  Mutant: any chunk with data will do.
HasData(chunk) == \E i \in DOMAIN chunk : chunk[i] = "data:"
HasMarker(chunk) ==
    \E i \in 1 .. Len(chunk) - 1 : SubSeq(chunk, i, i + 1) = Marker

\* What a cut after n bytes takes apart: the end marker, a character, or the
\* line end that ends the stream.
EndOfMarker(r) == Len(Stream(r)) - 2 * Len(reply[r].eol)
CutsMarker(r, n) == IF n = EndOfMarker(r) - 1 THEN {"marker"} ELSE {}
CutsText(r, n) ==
    LET all == Stream(r) IN
    (IF n < Len(all) /\ all[n] = "hi" THEN {"character"} ELSE {})
        \cup (IF n = Len(all) - 1 /\ all[n] = CR THEN {"last line end"} ELSE {})

\* iter_any: whatever is there, at least one byte.
Pieces(r, from, to) ==
    IF r \in CutAnywhere THEN from + 1 .. to ELSE {to} \ {from}

Relay(r) ==
    /\ relay[r] = "open"
    /\ \E n \in Pieces(r, relayed[r], written[r]) :
        /\ relayed' = [relayed EXCEPT ![r] = n]
        /\ completed' = [completed EXCEPT ![r] = @ \/ HasMarker(Bytes(r, relayed[r], n))]
        /\ cut' = [cut EXCEPT ![r] = @ \cup CutsMarker(r, n)]
    /\ UNCHANGED <<mocked, reply, mockVars, handler, hit, written, relay, clientVars, faults>>

RelayEnds(r) ==
    /\ relay[r] = "open" /\ handler[r] = "over" /\ relayed[r] = written[r]
    /\ relay' = [relay EXCEPT ![r] = "closed"]
    /\ UNCHANGED <<mocked, reply, mockVars, handler, hit, written, relayed, completed,
                   clientVars, cut, faults>>

\* The connection to the backend is lost: the answer to the client is cut off.
UpstreamLost(r) ==
    /\ faults < MaxFaults /\ faults' = faults + 1
    /\ relay[r] = "open"
    /\ relay' = [relay EXCEPT ![r] = "broken"]
    /\ UNCHANGED <<mocked, reply, mockVars, handler, hit, written, relayed, completed, clientVars, cut>>

----------------------------------------------------------------------------
(* The load generator. *)

Receive(r) ==
    /\ client[r] = "reading"
    /\ \E n \in Pieces(r, received[r], relayed[r]) :
        /\ received' = [received EXCEPT ![r] = n]
        /\ acc' = [acc EXCEPT ![r] = Feed(@, Bytes(r, received[r], n))]
        /\ cut' = [cut EXCEPT ![r] = @ \cup CutsText(r, n)]
    /\ UNCHANGED <<mocked, reply, mockVars, handler, hit, written, routerVars, client, faults>>

\* The chunked body has ended: validation_error decides.
Read(r) ==
    /\ client[r] = "reading" /\ relay[r] = "closed" /\ received[r] = relayed[r]
    /\ client' = [client EXCEPT ![r] = IF ValidationError(acc[r]) THEN "failed" ELSE "success"]
    /\ UNCHANGED <<mocked, reply, mockVars, handler, hit, written, routerVars,
                   received, acc, cut, faults>>

\* ClientError of a body that was cut off.
ReadFails(r) ==
    /\ client[r] = "reading" /\ relay[r] = "broken"
    /\ client' = [client EXCEPT ![r] = "failed"]
    /\ UNCHANGED <<mocked, reply, mockVars, handler, hit, written, routerVars,
                   received, acc, cut, faults>>

\* TimeoutError: the router's generator is closed where it stands.
GiveUp(r) ==
    /\ faults < MaxFaults /\ faults' = faults + 1
    /\ client[r] = "reading"
    /\ client' = [client EXCEPT ![r] = "failed"]
    /\ relay' = [relay EXCEPT ![r] = IF @ = "open" THEN "closed" ELSE @]
    /\ UNCHANGED <<mocked, reply, mockVars, handler, hit, written, relayed, completed,
                   received, acc, cut>>

----------------------------------------------------------------------------
Next ==
    \/ \E r \in Requests :
        \/ Send(r) \/ ForeignAnswers(r) \/ (\E fails \in BOOLEAN : Answer(r, fails))
        \/ Begin(r) \/ Write(r) \/ Finish(r) \/ Cancelled(r)
        \/ Relay(r) \/ RelayEnds(r) \/ UpstreamLost(r)
        \/ Receive(r) \/ Read(r) \/ ReadFails(r) \/ GiveUp(r)
    \/ Reset

Spec == Init /\ [][Next]_vars
----------------------------------------------------------------------------
(* Correctness. *)

\* active_requests of the mock counts the generators that run: those that ended,
\* broke off, were cancelled or never began are not in it, whatever is reset.
StreamsCounted == active = Cardinality({r \in Mocked : handler[r] = "running"})

\* A reset takes the mock back to where it started: whatever streams are still
\* open, the requests of a round fail at the same positions as those of any
\* other round, and of the requests that did not fail, the first of its prefix
\* in the round is a miss and the others are hits.
RoundsAlike ==
    /\ \A i, j \in 0 .. MaxResets : \A k \in DOMAIN handled[i] \cap DOMAIN handled[j] :
        handled[i][k].fails = handled[j][k].fails
    /\ \A i \in 0 .. MaxResets : \A k \in DOMAIN handled[i] :
        LET Before(l) == /\ l < k /\ ~handled[i][l].fails
                         /\ Prefix[handled[i][l].request] = Prefix[handled[i][k].request]
        IN hit[handled[i][k].request] <=> \E l \in DOMAIN handled[i] : Before(l)

Has(r, c) == \E i \in DOMAIN reply[r].bodies : \E j \in DOMAIN reply[r].bodies[i] :
                 reply[r].bodies[i][j] = c

\* What the server meant: the texts of the pieces, of which the reader skips
\* the empty ones.
Meant(bodies) ==
    LET meant[i \in 0 .. Len(bodies)] ==
          IF i = 0 THEN <<>>
          ELSE IF bodies[i] = <<>> THEN meant[i - 1] ELSE Append(meant[i - 1], Text(bodies[i]))
    IN  meant

\* A client that counts a success has read the whole stream, and what it read
\* of a whole stream is what the server meant, however the transport cut it,
\* but for three cuts and contents: a character that was cut, whose text is
\* replaced; a cut in the CRLF that ends the stream, which loses the [DONE] and
\* the events that were not closed before it; and events whose content has a
\* character that splitlines takes for a line end.
ReadAsMeant ==
    \A r \in Requests :
        /\ client[r] = "success" => received[r] = Len(Stream(r))
        /\ received[r] = Len(Stream(r)) /\ "last line end" \notin cut[r] =>
            /\ acc[r].done
            /\ ~Has(r, "ls") =>
                LET meant == Meant(reply[r].bodies)[Len(reply[r].bodies)]
                IN  /\ Len(acc[r].contents) = Len(meant)
                    /\ "character" \notin cut[r] => acc[r].contents = meant

\* The router and the client agree on an answer: what the client counts as a
\* success is complete for the router, unless the marker was cut on its way to
\* the router; and what is complete for the router was relayed up to the end
\* marker, unless the content itself quotes the marker.
RouterAgrees ==
    \A r \in Requests :
        /\ client[r] = "success" => completed[r] \/ "marker" \in cut[r]
        /\ completed[r] => relayed[r] >= EndOfMarker(r) \/ Has(r, "[DONE]")
=============================================================================
