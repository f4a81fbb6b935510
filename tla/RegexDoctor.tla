---------------------------- MODULE RegexDoctor ----------------------------
(***************************************************************************)
(* RegexQuestionDoctor's pattern table (regex_question_doctor.cc): the     *)
(* notifier's thread reloads it when the pattern file has changed, while   *)
(* request threads match questions against it, MatchQuery under            *)
(* m_regex_mutex and Tokenizer without.                                    *)
(*                                                                         *)
(* A question is the set of the patterns that match it.  A line is a       *)
(* pattern, a malformed line (not three fields) or a short one (at most 5  *)
(* bytes, which is also how ReadLine reports the end of the file).         *)
(***************************************************************************)
EXTENDS Integers, Sequences, Places

CONSTANTS
  Handler,        \* request threads
  Pattern, Malformed, Short,
  Contents,       \* what the pattern file may hold: sequences of lines
  Missing,        \* there is no file
  None,           \* no pattern matches; the mutex is free
  Loader,         \* the notifier's thread, as the holder of the mutex
  MaxEdits,       \* bound on the changes of the file
  MaxQuestions    \* bound on the questions of a thread

ASSUME RegexDoctorAssumption ==
  /\ Contents \subseteq Seq(Pattern \cup {Malformed, Short})
  /\ Malformed \notin Pattern /\ Short \notin Pattern /\ Malformed # Short
  /\ Missing \notin Contents
  /\ None \notin Pattern /\ None \notin Handler /\ Loader \notin Handler \cup {None}
  /\ MaxEdits \in Nat /\ MaxQuestions \in Nat

VARIABLES
  file, changed, edits,
  pattern_vec,
  m_regex_mutex,  \* who holds it
  loader,         \* [pc, lines: what the open file holds, at: the next line]
  handler,        \* thread -> [pc, question, at: the iterator, answer, asked]
  valid,          \* the threads whose iterator is valid
  opened, mixed,  \* what the last load opened; it was rewritten while open (history)
  table           \* the table the last load left (history)

fileVars == <<file, changed, edits>>
loadVars == <<loader, opened, mixed, table>>
vars == <<fileVars, loadVars, pattern_vec, m_regex_mutex, handler, valid>>

Init ==
  /\ file \in Contents \cup {Missing} /\ changed = TRUE /\ edits = 0
  /\ pattern_vec = <<>> /\ m_regex_mutex = None
  /\ loader = [pc |-> "wait", lines |-> <<>>, at |-> 1]
  /\ handler = [h \in Handler |->
                  [pc |-> "idle", question |-> {}, at |-> 1, answer |-> None, asked |-> 0]]
  /\ valid = Handler
  /\ opened = <<>> /\ mixed = FALSE /\ table = <<>>
-----------------------------------------------------------------------------
(* The file is replaced by a new one, which leaves an open file alone, or   *)
(* is written in place.                                                     *)
Edit ==
  /\ edits < MaxEdits
  /\ edits' = edits + 1 /\ changed' = TRUE
  /\ file' \in (Contents \cup {Missing}) \ {file}
  /\ UNCHANGED <<pattern_vec, m_regex_mutex, handler, valid, opened, table>>
  /\ \/ UNCHANGED <<loader, mixed>>
     \/ /\ loader.pc # "wait" /\ file' # Missing
        /\ loader' = [loader EXCEPT !.lines = file'] /\ mixed' = TRUE

(* The notifier looks at the file every 60 seconds and calls                *)
(* LoadRegexPattern, which opens it.                                        *)
OpenPatterns ==
  /\ loader.pc = "wait" /\ changed /\ changed' = FALSE
  /\ IF file = Missing THEN UNCHANGED loadVars
     ELSE /\ loader' = [pc |-> "lock", lines |-> file, at |-> 1]
          /\ opened' = file /\ mixed' = FALSE
          /\ UNCHANGED table
  /\ UNCHANGED <<file, edits, pattern_vec, m_regex_mutex, handler, valid>>

(* Mutant: the table is not cleared. *)
KeepPattern == pattern_vec
ClearPattern == <<>>

(* Mutant: the loader does not look at the mutex. *)
LockNothing == TRUE
LockIsFree == m_regex_mutex = None

LockTable ==
  /\ loader.pc = "lock" /\ LockIsFree
  /\ m_regex_mutex' = Loader
  /\ pattern_vec' = ClearPattern /\ valid' = {}
  /\ loader' = [loader EXCEPT !.pc = "read"]
  /\ UNCHANGED <<fileVars, handler, opened, mixed, table>>

(* What ReadLine yields at line k; past the last it returns 0.              *)
ReadLine(k) == IF k \in DOMAIN loader.lines THEN loader.lines[k] ELSE Short

(* Mutant: a malformed line ends the load. *)
StopAtMalformed(line) == line = Short \/ line = Malformed
Ends(line) == line = Short

HasThreeFields(line) == line \in Pattern

AddPattern ==
  LET line == ReadLine(loader.at) IN
  /\ loader.pc = "read" /\ ~Ends(line)
  /\ loader' = [loader EXCEPT !.at = @ + 1]
  /\ IF HasThreeFields(line)
       THEN pattern_vec' = Append(pattern_vec, line) /\ valid' = {}
       ELSE UNCHANGED <<pattern_vec, valid>>
  /\ UNCHANGED <<fileVars, m_regex_mutex, handler, opened, mixed, table>>

EndLoad ==
  /\ loader.pc = "read" /\ Ends(ReadLine(loader.at))
  /\ loader' = [loader EXCEPT !.pc = "wait"]
  /\ m_regex_mutex' = None
  /\ table' = pattern_vec
  /\ UNCHANGED <<fileVars, pattern_vec, handler, valid, opened, mixed>>

LoadRegexPattern == OpenPatterns \/ LockTable \/ AddPattern \/ EndLoad
-----------------------------------------------------------------------------
Begin(h, pc, q) ==
  /\ handler[h].pc = "idle" /\ handler[h].asked < MaxQuestions
  /\ handler' = [handler EXCEPT ![h] =
       [pc |-> pc, question |-> q, at |-> 1, answer |-> None, asked |-> @.asked + 1]]
  /\ valid' = valid \cup {h}
  /\ UNCHANGED <<fileVars, loadVars, pattern_vec>>

(* Empty questions return before the lock; they match nothing.              *)
MatchQuery(h) ==
  /\ m_regex_mutex = None /\ m_regex_mutex' = h
  /\ \E q \in SUBSET Pattern : Begin(h, "MatchQuery", q)

Tokenizer(h) ==
  /\ UNCHANGED m_regex_mutex
  /\ \E q \in SUBSET Pattern : Begin(h, "Tokenizer", q)

Scanning(h) == handler[h].pc \in {"MatchQuery", "Tokenizer"}

Current(h) == handler[h].at

(* The call returns: its locals are gone, and the mutex if it held it. *)
Return(h, pc, answer) ==
  /\ handler' = [handler EXCEPT ![h] =
       [pc |-> pc, question |-> {}, at |-> 1, answer |-> answer, asked |-> @.asked]]
  /\ m_regex_mutex' = IF m_regex_mutex = h THEN None ELSE m_regex_mutex

(* One turn of the loop. *)
ScanStep(h) ==
  LET k == Current(h) IN
  /\ Scanning(h) /\ h \in valid
  /\ \/ /\ k <= Len(pattern_vec) /\ pattern_vec[k] \notin handler[h].question
        /\ handler' = [handler EXCEPT ![h].at = @ + 1]
        /\ UNCHANGED m_regex_mutex
     \/ /\ k <= Len(pattern_vec) /\ pattern_vec[k] \in handler[h].question
        /\ Return(h, "idle", pattern_vec[k])
     \/ /\ k > Len(pattern_vec)
        /\ Return(h, "idle", None)
  /\ UNCHANGED <<fileVars, loadVars, pattern_vec, valid>>

(* The vector was cleared or has grown under the iterator: the behaviour is *)
(* undefined, the thread finds any pattern, none, or is lost.               *)
ScanUndefined(h) ==
  /\ Scanning(h) /\ h \notin valid
  /\ \/ \E found \in Pattern \cup {None} : Return(h, "idle", found)
     \/ Return(h, "lost", None)
  /\ UNCHANGED <<fileVars, loadVars, pattern_vec, valid>>

Scan(h) == ScanStep(h) \/ ScanUndefined(h)

Next ==
  \/ Edit
  \/ LoadRegexPattern
  \/ \E h \in Handler : MatchQuery(h) \/ Tokenizer(h) \/ Scan(h)

(* The notifier keeps looking and a thread that has begun a scan runs.      *)
Fairness == WF_vars(LoadRegexPattern) /\ \A h \in Handler : WF_vars(Scan(h))

Spec == Init /\ [][Next]_vars /\ Fairness
-----------------------------------------------------------------------------
(* Type invariant. *)
TypeOK ==
  /\ file \in Contents \cup {Missing} /\ changed \in BOOLEAN /\ edits \in 0..MaxEdits
  /\ pattern_vec \in Seq(Pattern) /\ table \in Seq(Pattern)
  /\ m_regex_mutex \in Handler \cup {Loader, None}
  /\ loader \in [pc : {"wait", "lock", "read"}, lines : Contents \cup {<<>>}, at : Nat \ {0}]
  /\ handler \in [Handler -> [pc : {"idle", "MatchQuery", "Tokenizer", "lost"},
                              question : SUBSET Pattern, at : Nat \ {0},
                              answer : Pattern \cup {None}, asked : 0..MaxQuestions]]
  /\ valid \subseteq Handler
  /\ opened \in Contents \cup {<<>>} /\ mixed \in BOOLEAN

(* The first pattern of a table that matches q. *)
FirstMatch(tab, q) ==
  IF \E k \in DOMAIN tab : tab[k] \in q
  THEN tab[CHOOSE k \in DOMAIN tab : tab[k] \in q /\ \A j \in 1..(k - 1) : tab[j] \notin q]
  ELSE None

(* MatchQuery answers from a whole table, the one the last load left: the   *)
(* pattern it returns is the first of that table that matches, whatever     *)
(* loads and edits go on around it.  So does Tokenizer, without the mutex,  *)
(* if no load touches the table while it looks and none is under way when   *)
(* it returns (regex_question_doctor.cc:51-69, 79-110 against :319-337).    *)
MatchesAWholeTable ==
  [][\A h \in Handler :
        (\/ handler[h].pc = "MatchQuery"
         \/ handler[h].pc = "Tokenizer" /\ h \in valid /\ loader.pc # "read")
          /\ handler'[h].pc # handler[h].pc =>
        /\ handler'[h].pc = "idle"
        /\ handler'[h].answer = FirstMatch(table, handler[h].question)]_vars

(* The patterns of the lines before the first short one. *)
Usable(lines) ==
  LET cut == {k \in DOMAIN lines : lines[k] = Short}
      end == IF cut = {} THEN Len(lines)
             ELSE (CHOOSE k \in cut : \A j \in cut : k <= j) - 1
  IN  AtPlaces(lines, {k \in 1..end : lines[k] \in Pattern})

(* A load whose file was not written while it was read leaves the patterns  *)
(* of that one version, malformed lines passed by, nothing of an earlier    *)
(* table left (regex_question_doctor.cc:320-338).                           *)
LoadsOneVersion == ~mixed /\ loader.pc = "wait" => table = Usable(opened)

(* Types, and a load of one version (regex_question_doctor.cc:320-338).     *)
LoadInv == TypeOK /\ LoadsOneVersion

(* Once the file is left alone, the table becomes what it holds, or stays   *)
(* if it was removed, even when the change came while an earlier load was   *)
(* under way (regex_question_doctor.cc:19, 304-338).                        *)
EditsTakeEffect == <>[](file # Missing => pattern_vec = Usable(file))
=============================================================================
