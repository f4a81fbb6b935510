---------------------------- MODULE ReverseIndex ----------------------------
(***************************************************************************)
(* The reverse index of RegexQuestionDoctor (regex_question_doctor.cc) and *)
(* the connection it is read over (CommDB, comm_db.cc): LoadRind reads     *)
(* five tables from a MySQL server whose calls may fail; SplitAndCheck     *)
(* looks for a question's parts in what was read.                          *)
(*                                                                         *)
(* A word or a question is a sequence of bytes.  A table is the sequence   *)
(* of its rows [word, pids], or has the wrong number of fields.            *)
(***************************************************************************)
EXTENDS Integers, Sequences, FiniteSets, Places

CONSTANTS
  m_allow_token,  \* LoadRind runs
  Tables,         \* the tables in the order they are read
  WrongFields,    \* a table that has not three fields
  u_size,         \* bytes of the character the questions are cut by
  MaxFaults       \* bound on the calls of the MySQL library that fail

ASSUME ReverseIndexAssumption ==
  /\ m_allow_token \in BOOLEAN /\ MaxFaults \in Nat /\ u_size \in Nat \ {0}
  /\ WrongFields \notin Seq([word : Seq(Nat), pids : Seq(Nat)])
  /\ Tables \in Seq(Seq([word : Seq(Nat), pids : Seq(Nat)]) \cup {WrongFields})
  /\ Tables # <<>>

VARIABLES
  rind_map,  \* word -> pids
  rind,      \* LoadRind: [pc, table]
  mysql,     \* CommDB's handle: "NULL", initialised only, or connected
  read,      \* the tables in the index (history)
  faults,    \* calls that failed (history)
  unstored   \* one of them was mysql_store_result (history)

rindVars == <<rind_map, rind, mysql, read, faults, unstored>>

InitRind ==
  /\ rind_map = <<>> /\ mysql = "NULL" /\ read = {} /\ faults = 0 /\ unstored = FALSE
  /\ rind = [pc |-> IF m_allow_token THEN "connect" ELSE "done", table |-> 1]

At(pc) == rind.pc = pc
Goto(pc) == rind' = [rind EXCEPT !.pc = pc]
Fault == faults < MaxFaults /\ faults' = faults + 1
NoFault == UNCHANGED faults

NextTable ==
  rind' = IF rind.table < Len(Tables) THEN [pc |-> "query", table |-> rind.table + 1]
          ELSE [pc |-> "close", table |-> rind.table]
-----------------------------------------------------------------------------
(* mysql_init and mysql_real_connect.  The handle stays initialised when    *)
(* the connection fails.                                                    *)
Open ==
  \/ Fault /\ mysql' = "NULL"
  \/ Fault /\ mysql' = "initialised"
  \/ NoFault /\ mysql' = "connected"

(* LoadRind does not look at what Connect returns. *)
Connect ==
  /\ At("connect") /\ Open /\ Goto("query")
  /\ UNCHANGED <<rind_map, read, unstored>>

(* A statement on a connection: it runs, the connection is lost, or there   *)
(* is another error.  Without a connection it is lost at once.              *)
Query(ran, lost, failed) ==
  /\ mysql # "NULL"
  /\ \/ mysql = "connected" /\ NoFault /\ UNCHANGED mysql /\ ran
     \/ mysql = "connected" /\ Fault /\ mysql' = "initialised" /\ lost
     \/ mysql = "initialised" /\ NoFault /\ UNCHANGED mysql /\ lost
     \/ mysql = "connected" /\ Fault /\ UNCHANGED mysql /\ failed
  /\ UNCHANGED <<rind_map, read, unstored>>

(* SelectData: a statement that fails is sent once more, over a new         *)
(* connection if the old one is lost.                                       *)
FirstQuery == At("query") /\ Query(Goto("store"), Goto("reconnect"), Goto("retry"))

(* Close, and the same as Connect. *)
ReConnect ==
  /\ At("reconnect") /\ Open
  /\ IF mysql' = "connected" THEN Goto("retry") ELSE NextTable
  /\ UNCHANGED <<rind_map, read, unstored>>

Retry == At("retry") /\ Query(Goto("store"), NextTable, NextTable)

(* A statement on no handle. *)
Crash ==
  /\ rind.pc \in {"query", "retry"} /\ mysql = "NULL" /\ Goto("crashed")
  /\ UNCHANGED <<rind_map, mysql, read, faults, unstored>>

(* Mutant: a word's later row replaces the earlier. *)
Replace(map, row) ==
  [word \in DOMAIN map \cup {row.word} |-> IF word = row.word THEN row.pids ELSE map[word]]
(* The pids of a word's later row are added to a copy of the list, which is *)
(* dropped.                                                                 *)
InsertRow(map, row) ==
  [word \in DOMAIN map \cup {row.word} |->
     IF word \in DOMAIN map THEN map[word] ELSE row.pids]

(* The rows of a table, one after the other. *)
InsertRows(map, rows) ==
  LET upto[k \in 0..Len(rows)] ==
        IF k = 0 THEN map ELSE InsertRow(upto[k - 1], rows[k])
  IN  upto[Len(rows)]

StoreResult ==
  /\ At("store") /\ NextTable /\ UNCHANGED mysql
  /\ \/ Fault /\ unstored' = TRUE /\ UNCHANGED <<rind_map, read>>
     \/ /\ Tables[rind.table] = WrongFields
        /\ NoFault /\ UNCHANGED <<rind_map, read, unstored>>
     \/ /\ Tables[rind.table] # WrongFields
        /\ rind_map' = InsertRows(rind_map, Tables[rind.table])
        /\ read' = read \cup {rind.table}
        /\ NoFault /\ UNCHANGED unstored

(* The connection is closed, and what became of it forgotten. *)
Close ==
  /\ At("close") /\ Goto("done")
  /\ mysql' = "NULL" /\ faults' = 0 /\ unstored' = FALSE
  /\ UNCHANGED <<rind_map, read>>

LoadRind == Connect \/ FirstQuery \/ ReConnect \/ Retry \/ Crash \/ StoreResult \/ Close
-----------------------------------------------------------------------------
Pids(f) == IF f \in DOMAIN rind_map THEN rind_map[f] ELSE <<>>

(* The point of a pair is the second word's length if it is listed, else    *)
(* the first's; an empty string that is not listed adds one.                *)
MatchPoint(f1, f2) ==
  LET left == IF f1 \in DOMAIN rind_map THEN Len(f1) ELSE IF f1 = <<>> THEN 1 ELSE 0 IN
  IF f2 \in DOMAIN rind_map THEN Len(f2) ELSE IF f2 = <<>> THEN left + 1 ELSE left

In(pid, pids) == \E k \in DOMAIN pids : pids[k] = pid

Common(pids, others) == AtPlaces(pids, {k \in 1..Len(pids) : In(pids[k], others)})

(* Mutant: the pids of the second word, if only it is listed. *)
EitherPids(f1, f2) ==
  IF Pids(f1) = <<>> THEN Pids(f2)
  ELSE IF Pids(f2) = <<>> THEN Pids(f1) ELSE Common(Pids(f1), Pids(f2))

(* Those listed under both words, or under the first if only it is listed;  *)
(* if only the second is, the loop runs over the first's, which are none.   *)
MatchPid(f1, f2) ==
  IF Pids(f2) = <<>> THEN Pids(f1) ELSE Common(Pids(f1), Pids(f2))

CheckPid(f1, f2) ==
  [ret |-> Pids(f1) # <<>> \/ Pids(f2) # <<>>,
   point |-> MatchPoint(f1, f2), pids |-> MatchPid(f1, f2)]

Prefix(qu, k) == SubSeq(qu, 1, k)
Ending(qu, k) == SubSeq(qu, k + 1, Len(qu))

Characters(qu) == Len(qu) \div u_size
SplitAt(qu, i) == CheckPid(Prefix(qu, i * u_size), Ending(qu, i * u_size))
Nothing == [ret |-> FALSE, point |-> 0, pids |-> <<>>]
Better(c, best) == IF c.ret /\ c.point > best.point THEN c ELSE best

(* The first split with the highest point. *)
BestSplit(qu) ==
  LET best[i \in 0..Characters(qu)] ==
        IF i = 0 THEN Nothing ELSE Better(SplitAt(qu, i), best[i - 1])
  IN  best[Characters(qu)]

(* A question of two characters or less is looked up as a whole, but its    *)
(* pids are not handed over; a longer one is split after each character.    *)
SplitAndCheck(qu) ==
  IF Characters(qu) <= 2
  THEN [ret |-> CheckPid(qu, <<>>).ret, pids |-> <<>>]
  ELSE [ret |-> TRUE, pids |-> BestSplit(qu).pids]
-----------------------------------------------------------------------------
RindTypeOK ==
  /\ rind \in [pc : {"connect", "query", "reconnect", "retry", "store", "close", "done",
                     "crashed"},
               table : 1..Len(Tables)]
  /\ mysql \in {"NULL", "initialised", "connected"}
  /\ \A word \in DOMAIN rind_map : rind_map[word] \in Seq(Nat)
  /\ read \subseteq DOMAIN Tables /\ faults \in 0..MaxFaults /\ unstored \in BOOLEAN

(* The rows of the tables that were read, in the order they were.           *)
RowsRead == UNION {{t} \X DOMAIN Tables[t] : t \in read}
Before(p, r) == p[1] < r[1] \/ (p[1] = r[1] /\ p[2] < r[2])

(* Each word of the tables that were read has the pids of its first row and *)
(* none of its later ones (regex_question_doctor.cc:211-242).               *)
FirstRowsOnly ==
  /\ DOMAIN rind_map = {Tables[p[1]][p[2]].word : p \in RowsRead}
  /\ \A p \in RowsRead :
       LET row == Tables[p[1]][p[2]] IN
       rind_map[row.word] = row.pids
         \/ \E r \in RowsRead : Before(r, p) /\ Tables[r[1]][r[2]].word = row.word

(* One failing call loses no table: a refused connection is made again, a   *)
(* failed statement sent again, unless it is the result that could not be   *)
(* stored; only failing to make a handle kills the process                  *)
(* (comm_db.cc:15-119, regex_question_doctor.cc:188-210).                   *)
OneFaultLosesNoTable ==
  faults <= 1 /\ ~unstored /\ At("close") =>
     read = {t \in DOMAIN Tables : Tables[t] # WrongFields}

(* Types, and an index of whole tables and their words' first rows          *)
(* (regex_question_doctor.cc:182-246, comm_db.cc:15-119).                   *)
IndexInv == RindTypeOK /\ FirstRowsOnly /\ OneFaultLosesNoTable

(* Where a question may be cut after a word with pids, and before a listed *)
(* one.                                                                     *)
Cuts(qu) == {i * u_size : i \in 1..Characters(qu)}
Beginnings(qu) == {k \in Cuts(qu) : Pids(Prefix(qu, k)) # <<>>}
Endings(qu) == {k \in Cuts(qu) : Ending(qu, k) \in DOMAIN rind_map}

(* Pids are found only of a word the question begins with. *)
OnlyOfBeginnings(qu) ==
  \A n \in DOMAIN SplitAndCheck(qu).pids :
    \E k \in Beginnings(qu) : In(SplitAndCheck(qu).pids[n], Pids(Prefix(qu, k)))

(* They are those of the longest such word when it ends with no listed one. *)
ThoseOfTheLongest(qu) ==
  \A k \in Beginnings(qu) :
    /\ Characters(qu) > 2 /\ Endings(qu) = {}
    /\ \A j \in Beginnings(qu) : j <= k
    => SplitAndCheck(qu).pids = Pids(Prefix(qu, k))

(* There are none if it is of two characters or less, and none if the       *)
(* longest word it ends with has pids and is longer than all it begins      *)
(* with, and what is before it has none.                                    *)
NoneForAnEnding(qu) ==
  /\ Characters(qu) <= 2 => SplitAndCheck(qu).pids = <<>>
  /\ \A first \in Endings(qu) :
       /\ \A j \in Endings(qu) : first <= j
       /\ Pids(Ending(qu, first)) # <<>> /\ first \notin Beginnings(qu)
       /\ \A k \in Beginnings(qu) : Len(qu) - first > k
       => SplitAndCheck(qu).pids = <<>>

(* What a question finds (regex_question_doctor.cc:128-180, 248-302).       *)
FindsByBeginnings(qu) ==
  OnlyOfBeginnings(qu) /\ ThoseOfTheLongest(qu) /\ NoneForAnEnding(qu)
=============================================================================
