-------------------------------- MODULE SSE --------------------------------
(***************************************************************************)
(* The client's reader of server-sent events, benchmarks/sse.py.           *)
(*                                                                         *)
(* Bytes are abstract: "data:" and "[DONE]" are what the reader looks for, *)
(* "begin" and "end" stand for the JSON around a piece of content, "hi"    *)
(* and "lo" are the two bytes of one character, "x" is an ASCII character  *)
(* and "ls" one such as U+2028, which str.splitlines takes for a line end. *)
(* What is done from left to right is a recursive function of the place.   *)
(***************************************************************************)
EXTENDS Integers, Sequences, SequencesExt

CR == "CR"   \* a carriage return
LF == "LF"   \* a line feed

Empty == [buffer |-> <<>>, contents |-> <<>>, done |-> FALSE]

\* What a server writes for one piece of content, and at the end.
Content(body, eol) == <<"data:", "begin">> \o body \o <<"end">> \o eol \o eol
Marker == <<"data:", "[DONE]">>
End(eol) == Marker \o eol \o eol

\* decode(errors="replace") and replace("\r\n", "\n"): what the byte n of a
\* chunk adds to its text.  The two bytes of a character are told at the first
\* one, and half a character becomes U+FFFD, "?".
Symbol(raw, n) ==
    LET next(c) == n < Len(raw) /\ raw[n + 1] = c
    IN CASE raw[n] = "hi" -> IF next("lo") THEN <<"hi-lo">> ELSE <<"?">>
         [] raw[n] = "lo" -> IF n > 1 /\ raw[n - 1] = "hi" THEN <<>> ELSE <<"?">>
         [] raw[n] = CR -> IF next(LF) THEN <<>> ELSE <<CR>>
         [] OTHER -> <<raw[n]>>

\* The text of the first n bytes.
Texts(raw) ==
    LET text[n \in 0 .. Len(raw)] == IF n = 0 THEN <<>> ELSE text[n - 1] \o Symbol(raw, n)
    IN  text
Text(raw) == Texts(raw)[Len(raw)]

\* json.loads and the path to the content, when they succeed.
IsContent(data) ==
    /\ Len(data) > 2 /\ data[1] = "begin" /\ data[Len(data)] = "end"
    /\ \A i \in 2 .. Len(data) - 1 : data[i] \notin {"begin", "end", CR, LF}

ReadLine(acc, line) ==
    IF line = <<>> \/ line[1] # "data:" THEN acc
    ELSE LET data == Tail(line) IN
         CASE data = <<"[DONE]">> -> [acc EXCEPT !.done = TRUE]
           [] IsContent(data) ->
                [acc EXCEPT !.contents = Append(@, SubSeq(data, 2, Len(data) - 1))]
           [] OTHER -> acc

\* splitlines, character by character: a line that is over is read, and the
\* rest is the line under way.  A line end of two characters leaves an empty
\* line behind it, which holds no data.
ReadCharacter(state, c) ==
    IF c \in {CR, LF, "ls"}
    THEN [acc |-> ReadLine(state.acc, state.line), line |-> <<>>]
    ELSE [acc |-> state.acc, line |-> Append(state.line, c)]

Lines(acc, event) ==
    LET after[n \in 0 .. Len(event)] ==
          IF n = 0 THEN [acc |-> acc, line |-> <<>>] ELSE ReadCharacter(after[n - 1], event[n])
    IN  after

ReadEvent(acc, event) ==
    LET end == Lines(acc, event)[Len(event)] IN ReadLine(end.acc, end.line)

\* An event is over where the first blank line ends.
ReadSymbol(acc, c) ==
    LET n == Len(acc.buffer) IN
    IF c = LF /\ n > 0 /\ acc.buffer[n] = LF
    THEN ReadEvent([acc EXCEPT !.buffer = <<>>], Front(acc.buffer))
    ELSE [acc EXCEPT !.buffer = Append(@, c)]

ReadText(acc, text) == IF text = <<>> THEN acc ELSE ReadSymbol(acc, text[1])

\* The reader after the first n bytes of a chunk.
Reader(acc, raw) ==
    LET fed[n \in 0 .. Len(raw)] ==
          IF n = 0 THEN acc ELSE ReadText(fed[n - 1], Symbol(raw, n))
    IN  fed

\* Mutant: the text that is left behind the last event of a chunk is dropped.
FeedForgetful(acc, raw) == [Reader(acc, raw)[Len(raw)] EXCEPT !.buffer = <<>>]

Feed(acc, raw) == Reader(acc, raw)[Len(raw)]

ValidationError(acc) == ~acc.done \/ acc.contents = <<>>
=============================================================================
