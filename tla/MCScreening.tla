---------------------------- MODULE MCScreening ----------------------------
(* Constants of Screening for TLC. *)
EXTENDS Screening

Row(request, session, turn, tokens) ==
    [request |-> request, session |-> session, turn |-> turn, tokens |-> tokens]

\* Three sessions, one of each length, which grow and skip turns, and any two
\* of which fit into the cache; the same turn or the same request twice; a
\* fourth session; a session that is used after another one grew; lengths of
\* which one is missing; and sessions that shrink, are empty, or are larger
\* than the cache.
Regular ==
    <<Row(1, 1, 0, 1), Row(2, 2, 1, 2), Row(3, 1, 2, 3), Row(4, 3, 0, 3), Row(5, 2, 0, 2)>>
Odd ==
    <<Row(1, 1, 0, 1), Row(2, 2, 0, 2), Row(3, 3, 0, 7), Row(4, 1, 1, 0), Row(5, 2, 1, 5),
      Row(6, 1, 2, 4)>>
MCWorkloads == {
    Regular,
    Append(Regular, Row(6, 2, 1, 1)),
    Append(Regular, Row(4, 3, 1, 1)),
    Append(Regular, Row(6, 4, 0, 1)),
    Append(Regular, Row(6, 3, 3, 3)),
    <<Row(1, 1, 0, 1), Row(2, 2, 0, 1)>>,
    Odd }
=============================================================================
