-------------------------- MODULE MCRegexDoctor --------------------------
(* Small values for RegexQuestionDoctor: two patterns and files with        *)
(* malformed lines between patterns, a short line before the end, and none  *)
(* at all; an index of three tables, one with the wrong number of fields,   *)
(* with words of one, two and four bytes, some in several rows; all         *)
(* questions of up to seven bytes.                                          *)
EXTENDS RegexQuestionDoctor

CONSTANTS p, q

MCContents == {<<>>, <<p, q>>, <<q, Malformed, p, Short, q>>}

Row(word, pids) == [word |-> word, pids |-> pids]
MCTables ==
  << <<Row(<<1, 2>>, <<1, 3>>), Row(<<1, 2>>, <<2>>), Row(<<1, 1, 2, 2>>, <<3>>)>>,
     WrongFields,
     <<Row(<<1, 2>>, <<4>>), Row(<<1, 2, 1, 1>>, <<5>>), Row(<<2, 2>>, <<1, 6>>),
       Row(<<2, 1>>, <<>>), Row(<<1>>, <<3, 7>>), Row(<<2, 2, 1, 1>>, <<5, 6>>)>> >>

MCQuestion == UNION {[1..n -> {1, 2}] : n \in 1..7}
=============================================================================
