------------------------- MODULE RegexDoctorProofs -------------------------
(***************************************************************************)
(* RegexQuestionDoctor, for any number of request threads and patterns and *)
(* any files, tables and questions.                                        *)
(*                                                                         *)
(* The pattern table: the mutex excludes the loader from MatchQuery, and   *)
(* who scans an untouched table answers from the whole of it.  The         *)
(* inductive invariant ties the mutex to the program counters, the table   *)
(* between loads to the one the last load left, and an iterator to the     *)
(* patterns it has passed.  What a load leaves is one version of the file, *)
(* or it was written to meanwhile.                                         *)
(*                                                                         *)
(* The reverse index: it holds the first rows of the tables that were      *)
(* read, and which words of a question decide what a lookup finds.         *)
(***************************************************************************)
EXTENDS RegexQuestionDoctor, DataLemmas

(* Who is where holds the mutex, and nobody else does. *)
HolderIsWithin ==
  /\ loader.pc = "read" <=> m_regex_mutex = Loader
  /\ \A h \in Handler : handler[h].pc = "MatchQuery" <=> m_regex_mutex = h

(* Outside a load the vector is the table the last one left. *)
TableStands == loader.pc # "read" => pattern_vec = table

(* A MatchQuery's iterator is valid, and behind a valid iterator no pattern *)
(* matches.                                                                 *)
IteratorsHold ==
  \A h \in Handler :
    /\ handler[h].pc = "MatchQuery" => h \in valid
    /\ Scanning(h) /\ h \in valid =>
         /\ handler[h].at <= Len(pattern_vec) + 1
         /\ \A j \in 1..(handler[h].at - 1) : pattern_vec[j] \notin handler[h].question

ScanInv == TypeOK /\ HolderIsWithin /\ TableStands /\ IteratorsHold
-----------------------------------------------------------------------------
LEMMA InitScan == Init => ScanInv
<1> SUFFICES ASSUME Init PROVE ScanInv
  OBVIOUS
<1>1. TypeOK
  <2>1. changed \in BOOLEAN /\ mixed \in BOOLEAN
    BY DEF Init
  <2>2. <<>> \in Seq(Pattern)
    OBVIOUS
  <2> QED
    BY <2>1, <2>2, RegexDoctorAssumption DEF Init, TypeOK
<1>2. HolderIsWithin /\ TableStands /\ IteratorsHold
  BY RegexDoctorAssumption DEF Init, HolderIsWithin, TableStands, IteratorsHold, Scanning
<1> QED
  BY <1>1, <1>2 DEF ScanInv

LEMMA EditKeepsInv == ASSUME ScanInv, Edit PROVE ScanInv'
<1>1. TypeOK'
  <2>1. changed' \in BOOLEAN /\ mixed' \in BOOLEAN
    BY DEF Edit, ScanInv, TypeOK
  <2>2. file' \in Contents \cup {Missing} /\ edits' \in 0..MaxEdits
    BY RegexDoctorAssumption DEF Edit, ScanInv, TypeOK
  <2>3. loader' \in [pc : {"wait", "lock", "read"}, lines : Contents \cup {<<>>}, at : Nat \ {0}]
    BY <2>2 DEF Edit, ScanInv, TypeOK
  <2>4. UNCHANGED <<pattern_vec, m_regex_mutex, handler, valid, opened, table>>
    BY DEF Edit
  <2> QED
    BY <2>1, <2>2, <2>3, <2>4 DEF ScanInv, TypeOK
<1>2. loader'.pc = loader.pc
  BY DEF ScanInv, TypeOK, Edit
<1>3. UNCHANGED <<pattern_vec, m_regex_mutex, handler, valid, table>>
  BY DEF Edit
<1> QED
  BY <1>1, <1>2, <1>3 DEF ScanInv, HolderIsWithin, TableStands, IteratorsHold, Scanning

LEMMA OpenKeepsInv == ASSUME ScanInv, OpenPatterns PROVE ScanInv'
<1>1. TypeOK'
  <2>1. changed' \in BOOLEAN /\ mixed' \in BOOLEAN
    BY DEF OpenPatterns, ScanInv, TypeOK, loadVars
  <2>2. /\ loader' \in [pc : {"wait", "lock", "read"}, lines : Contents \cup {<<>>}, at : Nat \ {0}]
        /\ opened' \in Contents \cup {<<>>}
    BY DEF OpenPatterns, ScanInv, TypeOK, loadVars
  <2>3. UNCHANGED <<file, edits, pattern_vec, m_regex_mutex, handler, valid, table>>
    BY DEF OpenPatterns, loadVars
  <2> QED
    BY <2>1, <2>2, <2>3 DEF ScanInv, TypeOK
<1>2. (loader'.pc = "read") = (loader.pc = "read")
  BY DEF OpenPatterns, loadVars
<1>3. UNCHANGED <<pattern_vec, m_regex_mutex, handler, valid, table>>
  BY DEF OpenPatterns, loadVars
<1> QED
  BY <1>1, <1>2, <1>3 DEF ScanInv, HolderIsWithin, TableStands, IteratorsHold, Scanning

LEMMA LockKeepsInv == ASSUME ScanInv, LockTable PROVE ScanInv'
<1>1. TypeOK'
  <2>1. loader' \in [pc : {"wait", "lock", "read"}, lines : Contents \cup {<<>>}, at : Nat \ {0}]
    BY DEF LockTable, ScanInv, TypeOK
  <2>2. /\ pattern_vec' = <<>> /\ <<>> \in Seq(Pattern)
        /\ valid' = {} /\ m_regex_mutex' = Loader
        /\ UNCHANGED <<file, changed, edits, handler, opened, mixed, table>>
    BY DEF LockTable, ClearPattern, fileVars
  <2> QED
    BY <2>1, <2>2 DEF ScanInv, TypeOK
<1>2. /\ loader'.pc = "read" /\ m_regex_mutex' = Loader /\ m_regex_mutex = None
      /\ valid' = {} /\ handler' = handler
  BY DEF ScanInv, TypeOK, LockTable, LockIsFree
<1>3. \A h \in Handler : handler[h].pc # "MatchQuery"
  BY <1>2, RegexDoctorAssumption DEF ScanInv, HolderIsWithin
<1> QED
  BY <1>1, <1>2, <1>3, RegexDoctorAssumption
     DEF ScanInv, HolderIsWithin, TableStands, IteratorsHold

LEMMA AddKeepsInv == ASSUME ScanInv, AddPattern PROVE ScanInv'
<1> DEFINE line == ReadLine(loader.at)
<1>0. /\ loader.pc = "read" /\ loader'.pc = "read" /\ m_regex_mutex' = m_regex_mutex
      /\ handler' = handler /\ table' = table
  BY DEF ScanInv, TypeOK, AddPattern
<1>1. TypeOK'
  <2>1. \/ line \in Pattern /\ pattern_vec' = Append(pattern_vec, line) /\ valid' = {}
        \/ UNCHANGED <<pattern_vec, valid>>
    BY DEF AddPattern, HasThreeFields
  <2>2. pattern_vec \in Seq(Pattern) /\ valid \subseteq Handler
    BY DEF ScanInv, TypeOK
  <2>3. pattern_vec' \in Seq(Pattern) /\ valid' \subseteq Handler
    <3>1. CASE line \in Pattern /\ pattern_vec' = Append(pattern_vec, line) /\ valid' = {}
      <4>1. \A x \in Pattern : Append(pattern_vec, x) \in Seq(Pattern)
        BY <2>2
      <4> QED
        BY <3>1, <4>1
    <3>2. CASE UNCHANGED <<pattern_vec, valid>>
      BY <2>2, <3>2
    <3> QED
      BY <2>1, <3>1, <3>2
  <2>4. loader' \in [pc : {"wait", "lock", "read"}, lines : Contents \cup {<<>>}, at : Nat \ {0}]
    <3>1. loader' = [loader EXCEPT !.at = @ + 1]
      BY DEF AddPattern
    <3>2. loader.at + 1 \in Nat \ {0}
      BY DEF ScanInv, TypeOK
    <3> QED
      BY <3>1, <3>2 DEF ScanInv, TypeOK
  <2>5. UNCHANGED <<file, changed, edits, m_regex_mutex, handler, opened, mixed, table>>
    BY DEF AddPattern, fileVars
  <2> QED
    BY <2>3, <2>4, <2>5 DEF ScanInv, TypeOK
<1>2. \/ valid' = {}
      \/ UNCHANGED <<pattern_vec, valid>>
  BY DEF AddPattern
<1>3. \A h \in Handler : handler[h].pc # "MatchQuery"
  BY <1>0, RegexDoctorAssumption DEF ScanInv, HolderIsWithin
<1> QED
  BY <1>0, <1>1, <1>2, <1>3
     DEF ScanInv, HolderIsWithin, TableStands, IteratorsHold, Scanning

LEMMA EndKeepsInv == ASSUME ScanInv, EndLoad PROVE ScanInv'
<1>1. TypeOK'
  BY RegexDoctorAssumption DEF ScanInv, TypeOK, EndLoad, fileVars
<1>2. /\ loader.pc = "read" /\ loader'.pc = "wait" /\ m_regex_mutex' = None
      /\ table' = pattern_vec /\ UNCHANGED <<pattern_vec, handler, valid>>
  BY DEF ScanInv, TypeOK, EndLoad
<1> QED
  BY <1>1, <1>2, RegexDoctorAssumption
     DEF ScanInv, HolderIsWithin, TableStands, IteratorsHold, Scanning

(* A call that begins, with the mutex or without. *)
LEMMA BeginKeepsInv ==
  ASSUME ScanInv, NEW h \in Handler, MatchQuery(h) \/ Tokenizer(h)
  PROVE  ScanInv'
<1>1. PICK pc \in {"MatchQuery", "Tokenizer"}, q \in SUBSET Pattern :
        /\ Begin(h, pc, q)
        /\ IF pc = "MatchQuery" THEN m_regex_mutex = None /\ m_regex_mutex' = h
           ELSE UNCHANGED m_regex_mutex
  <2>1. CASE MatchQuery(h)
    BY <2>1 DEF MatchQuery
  <2>2. CASE Tokenizer(h)
    BY <2>2 DEF Tokenizer
  <2> QED
    BY <2>1, <2>2
<1>2. /\ handler[h].pc = "idle" /\ handler[h].asked < MaxQuestions
      /\ handler' = [handler EXCEPT ![h] =
           [pc |-> pc, question |-> q, at |-> 1, answer |-> None, asked |-> @.asked + 1]]
      /\ valid' = valid \cup {h}
      /\ UNCHANGED <<fileVars, loadVars, pattern_vec>>
  BY <1>1 DEF Begin
<1>3. TypeOK'
  <2>1. handler[h].asked + 1 \in 0..MaxQuestions
    BY <1>2, RegexDoctorAssumption DEF ScanInv, TypeOK
  <2>2. handler' \in [Handler -> [pc : {"idle", "MatchQuery", "Tokenizer", "lost"},
                                  question : SUBSET Pattern, at : Nat \ {0},
                                  answer : Pattern \cup {None}, asked : 0..MaxQuestions]]
    BY <1>2, <2>1 DEF ScanInv, TypeOK
  <2>3. m_regex_mutex' \in Handler \cup {Loader, None}
    BY <1>1 DEF ScanInv, TypeOK
  <2> QED
    BY <1>2, <2>2, <2>3 DEF ScanInv, TypeOK, fileVars, loadVars
<1>4. /\ handler'[h].pc = pc /\ handler'[h].at = 1 /\ handler'[h].question = q
      /\ \A g \in Handler \ {h} : handler'[g] = handler[g]
  BY <1>2 DEF ScanInv, TypeOK
<1>5. HolderIsWithin'
  <2>1. loader' = loader /\ m_regex_mutex # h
    BY <1>2 DEF loadVars, ScanInv, HolderIsWithin
  <2>2. CASE pc = "MatchQuery"
    BY <1>1, <1>4, <2>1, <2>2, RegexDoctorAssumption DEF ScanInv, HolderIsWithin
  <2>3. CASE pc = "Tokenizer"
    BY <1>1, <1>4, <2>1, <2>3, RegexDoctorAssumption DEF ScanInv, HolderIsWithin
  <2> QED
    BY <2>2, <2>3
<1>6. TableStands'
  BY <1>2 DEF loadVars, ScanInv, TableStands
<1>7. IteratorsHold'
  <2> SUFFICES ASSUME NEW g \in Handler
               PROVE  /\ handler'[g].pc = "MatchQuery" => g \in valid'
                      /\ Scanning(g)' /\ g \in valid' =>
                           /\ handler'[g].at <= Len(pattern_vec') + 1
                           /\ \A j \in 1..(handler'[g].at - 1) :
                                pattern_vec'[j] \notin handler'[g].question
    BY DEF IteratorsHold
  <2>1. CASE g = h
    BY <1>2, <1>4, <2>1 DEF ScanInv, TypeOK
  <2>2. CASE g # h
    BY <1>2, <1>4, <2>2 DEF ScanInv, IteratorsHold, Scanning
  <2> QED
    BY <2>1, <2>2
<1> QED
  BY <1>3, <1>5, <1>6, <1>7 DEF ScanInv

(* A call that returns gives the mutex back if it has it. *)
LEMMA ReturnKeepsInv ==
  ASSUME ScanInv, NEW h \in Handler, NEW pc \in {"idle", "lost"},
         NEW answer \in Pattern \cup {None}, Return(h, pc, answer),
         UNCHANGED <<fileVars, loadVars, pattern_vec, valid>>
  PROVE  ScanInv'
<1>1. /\ handler'[h].pc = pc
      /\ \A g \in Handler \ {h} : handler'[g] = handler[g]
  BY DEF Return, ScanInv, TypeOK
<1>2. TypeOK'
  <2>1. handler' \in [Handler -> [pc : {"idle", "MatchQuery", "Tokenizer", "lost"},
                                  question : SUBSET Pattern, at : Nat \ {0},
                                  answer : Pattern \cup {None}, asked : 0..MaxQuestions]]
    <3>1. /\ handler[h].asked \in 0..MaxQuestions /\ {} \in SUBSET Pattern
          /\ 1 \in Nat \ {0} /\ pc \in {"idle", "MatchQuery", "Tokenizer", "lost"}
      BY DEF ScanInv, TypeOK
    <3>2. handler' = [handler EXCEPT ![h] =
            [pc |-> pc, question |-> {}, at |-> 1, answer |-> answer, asked |-> handler[h].asked]]
      BY DEF Return
    <3> QED
      BY <3>1, <3>2 DEF ScanInv, TypeOK
  <2>2. m_regex_mutex' \in Handler \cup {Loader, None}
    BY DEF Return, ScanInv, TypeOK
  <2> QED
    BY <2>1, <2>2 DEF ScanInv, TypeOK, fileVars, loadVars
<1>3. HolderIsWithin'
  <2>1. m_regex_mutex' = IF m_regex_mutex = h THEN None ELSE m_regex_mutex
    BY DEF Return
  <2> QED
    BY <1>1, <2>1, RegexDoctorAssumption DEF ScanInv, HolderIsWithin, loadVars
<1>4. TableStands' /\ IteratorsHold'
  BY <1>1 DEF ScanInv, TableStands, IteratorsHold, Scanning, loadVars
<1> QED
  BY <1>2, <1>3, <1>4 DEF ScanInv

(* The iterator goes on past a pattern that does not match. *)
LEMMA ScanKeepsInv ==
  ASSUME ScanInv, NEW h \in Handler, Scan(h)
  PROVE  ScanInv'
<1>0. UNCHANGED <<fileVars, loadVars, pattern_vec, valid>>
  BY DEF Scan, ScanStep, ScanUndefined
<1>1. CASE \E pc \in {"idle", "lost"}, answer \in Pattern \cup {None} : Return(h, pc, answer)
  BY <1>0, <1>1, ReturnKeepsInv
<1>2. CASE /\ Scanning(h) /\ h \in valid
           /\ handler[h].at <= Len(pattern_vec)
           /\ pattern_vec[handler[h].at] \notin handler[h].question
           /\ handler' = [handler EXCEPT ![h].at = @ + 1]
           /\ UNCHANGED m_regex_mutex
  <2>1. TypeOK'
    <3>1. handler[h].at + 1 \in Nat \ {0}
      BY DEF ScanInv, TypeOK
    <3>2. [handler[h] EXCEPT !.at = @ + 1]
            \in [pc : {"idle", "MatchQuery", "Tokenizer", "lost"},
                question : SUBSET Pattern, at : Nat \ {0},
                answer : Pattern \cup {None}, asked : 0..MaxQuestions]
      BY <3>1 DEF ScanInv, TypeOK
    <3>3. handler' = [handler EXCEPT ![h] = [handler[h] EXCEPT !.at = @ + 1]]
      BY <1>2
    <3>4. handler' \in [Handler -> [pc : {"idle", "MatchQuery", "Tokenizer", "lost"},
                                    question : SUBSET Pattern, at : Nat \ {0},
                                    answer : Pattern \cup {None}, asked : 0..MaxQuestions]]
      BY <3>2, <3>3 DEF ScanInv, TypeOK
    <3> QED
      BY <1>0, <1>2, <3>4 DEF ScanInv, TypeOK, fileVars, loadVars
  <2>2. /\ handler'[h].at = handler[h].at + 1
        /\ \A g \in Handler : /\ handler'[g].pc = handler[g].pc
                              /\ handler'[g].question = handler[g].question
                              /\ g # h => handler'[g].at = handler[g].at
    BY <1>2 DEF ScanInv, TypeOK
  <2>3. HolderIsWithin' /\ TableStands'
    BY <1>0, <1>2, <2>2 DEF ScanInv, HolderIsWithin, TableStands, loadVars
  <2>4. IteratorsHold'
    <3> SUFFICES ASSUME NEW g \in Handler, Scanning(g), g \in valid
                 PROVE  /\ handler'[g].at <= Len(pattern_vec) + 1
                        /\ \A j \in 1..(handler'[g].at - 1) :
                             pattern_vec[j] \notin handler[g].question
      BY <1>0, <2>2 DEF ScanInv, IteratorsHold, Scanning
    <3>1. CASE g # h
      BY <2>2, <3>1 DEF ScanInv, IteratorsHold
    <3>2. CASE g = h
      <4>1. handler[h].at \in Nat /\ Len(pattern_vec) \in Nat
        BY DEF ScanInv, TypeOK
      <4>2. \A j \in 1..(handler[h].at - 1) : pattern_vec[j] \notin handler[h].question
        BY <1>2 DEF ScanInv, IteratorsHold
      <4> QED
        BY <1>2, <2>2, <3>2, <4>1, <4>2
    <3> QED
      BY <3>1, <3>2
  <2> QED
    BY <2>1, <2>3, <2>4 DEF ScanInv
<1>3. ASSUME ScanStep(h), \A pc \in {"idle", "lost"}, answer \in Pattern \cup {None} :
                            ~Return(h, pc, answer)
      PROVE  /\ Scanning(h) /\ h \in valid
             /\ handler[h].at <= Len(pattern_vec)
             /\ pattern_vec[handler[h].at] \notin handler[h].question
             /\ handler' = [handler EXCEPT ![h].at = @ + 1]
             /\ UNCHANGED m_regex_mutex
  <2>1. ASSUME handler[h].at <= Len(pattern_vec) PROVE pattern_vec[handler[h].at] \in Pattern
    BY <2>1 DEF ScanInv, TypeOK
  <2> QED
    BY <1>3, <2>1 DEF ScanStep, Current
<1>4. CASE ScanUndefined(h)
  BY <1>1, <1>4 DEF ScanUndefined
<1> QED
  BY <1>1, <1>2, <1>3, <1>4 DEF Scan

LEMMA NextKeepsInv == ScanInv /\ [Next]_vars => ScanInv'
<1> SUFFICES ASSUME ScanInv, [Next]_vars PROVE ScanInv'
  OBVIOUS
<1>1. CASE Edit
  BY <1>1, EditKeepsInv
<1>2. CASE LoadRegexPattern
  BY <1>2, OpenKeepsInv, LockKeepsInv, AddKeepsInv, EndKeepsInv DEF LoadRegexPattern
<1>3. CASE \E h \in Handler : MatchQuery(h) \/ Tokenizer(h) \/ Scan(h)
  BY <1>3, BeginKeepsInv, ScanKeepsInv
<1>4. CASE UNCHANGED vars
  BY <1>4 DEF vars, fileVars, loadVars, ScanInv, TypeOK, HolderIsWithin, TableStands,
              IteratorsHold, Scanning
<1> QED
  BY <1>1, <1>2, <1>3, <1>4 DEF Next
-----------------------------------------------------------------------------
(* Where the first match is, and that there is none. *)
LEMMA FirstMatchIs ==
  ASSUME NEW tab \in Seq(Pattern), NEW q, NEW k \in 1..Len(tab), tab[k] \in q,
         \A j \in 1..(k - 1) : tab[j] \notin q
  PROVE  FirstMatch(tab, q) = tab[k]
<1>1. \A i \in DOMAIN tab : tab[i] \in q /\ (\A j \in 1..(i - 1) : tab[j] \notin q) => i = k
  OBVIOUS
<1>2. (CHOOSE i \in DOMAIN tab : tab[i] \in q /\ \A j \in 1..(i - 1) : tab[j] \notin q) = k
  BY <1>1
<1> QED
  BY <1>2 DEF FirstMatch

(* What a step of a scan that returns gives. *)
LEMMA ReturnsFirstMatch ==
  ASSUME ScanInv, NEW h \in Handler, ScanStep(h), handler'[h].pc # handler[h].pc
  PROVE  /\ handler'[h].pc = "idle"
         /\ handler'[h].answer = FirstMatch(pattern_vec, handler[h].question)
<1> DEFINE k == handler[h].at  q == handler[h].question
<1>0. /\ pattern_vec \in Seq(Pattern) /\ k \in Nat \ {0} /\ k <= Len(pattern_vec) + 1
      /\ \A j \in 1..(k - 1) : pattern_vec[j] \notin q
  BY DEF ScanStep, ScanInv, TypeOK, IteratorsHold
<1>1. ~(handler' = [handler EXCEPT ![h].at = @ + 1])
  BY DEF ScanInv, TypeOK
<1>2. CASE k <= Len(pattern_vec) /\ pattern_vec[k] \in q /\ Return(h, "idle", pattern_vec[k])
  <2>1. handler'[h].pc = "idle" /\ handler'[h].answer = pattern_vec[k]
    BY <1>2 DEF Return, ScanInv, TypeOK
  <2> QED
    BY <1>0, <1>2, <2>1, FirstMatchIs
<1>3. CASE k > Len(pattern_vec) /\ Return(h, "idle", None)
  <2>1. handler'[h].pc = "idle" /\ handler'[h].answer = None
    BY <1>3 DEF Return, ScanInv, TypeOK
  <2>2. \A i \in DOMAIN pattern_vec : pattern_vec[i] \notin q
    BY <1>0, <1>3
  <2> QED
    BY <2>1, <2>2 DEF FirstMatch
<1> QED
  BY <1>1, <1>2, <1>3 DEF ScanStep, Current

(* Only its own scan ends a call. *)
LEMMA OthersLeaveACallAlone ==
  ASSUME ScanInv, [Next]_vars, NEW h \in Handler, Scanning(h), ~Scan(h)
  PROVE  handler'[h].pc = handler[h].pc
<1>1. CASE \E g \in Handler : MatchQuery(g) \/ Tokenizer(g)
  <2>1. PICK g \in Handler, pc \in {"MatchQuery", "Tokenizer"}, q \in SUBSET Pattern :
          Begin(g, pc, q)
    <3>1. PICK g \in Handler : MatchQuery(g) \/ Tokenizer(g)
      BY <1>1
    <3>2. CASE MatchQuery(g)
      BY <3>2 DEF MatchQuery
    <3>3. CASE Tokenizer(g)
      BY <3>3 DEF Tokenizer
    <3> QED
      BY <3>1, <3>2, <3>3
  <2>2. g # h
    BY <2>1 DEF Begin, Scanning
  <2> QED
    BY <2>1, <2>2 DEF Begin, ScanInv, TypeOK
<1>2. CASE \E g \in Handler : Scan(g)
  <2>1. PICK g \in Handler : Scan(g) /\ g # h
    BY <1>2
  <2> QED
    BY <2>1 DEF Scan, ScanStep, ScanUndefined, Return, ScanInv, TypeOK
<1>3. CASE Edit \/ LoadRegexPattern \/ UNCHANGED vars
  BY <1>3 DEF Edit, LoadRegexPattern, OpenPatterns, LockTable, AddPattern, EndLoad, vars
<1> QED
  BY <1>1, <1>2, <1>3 DEF Next

LEMMA StepMatchesAWholeTable ==
  ASSUME ScanInv, [Next]_vars, NEW h \in Handler,
         \/ handler[h].pc = "MatchQuery"
         \/ handler[h].pc = "Tokenizer" /\ h \in valid /\ loader.pc # "read",
         handler'[h].pc # handler[h].pc
  PROVE  /\ handler'[h].pc = "idle"
         /\ handler'[h].answer = FirstMatch(table, handler[h].question)
<1>1. Scanning(h) /\ h \in valid
  BY DEF ScanInv, IteratorsHold, Scanning
<1>2. ScanStep(h)
  BY <1>1, OthersLeaveACallAlone DEF Scan, ScanUndefined
<1>3. pattern_vec = table
  BY RegexDoctorAssumption DEF ScanInv, HolderIsWithin, TableStands
<1> QED
  BY <1>2, <1>3, ReturnsFirstMatch
-----------------------------------------------------------------------------
(* What a load has taken so far: the patterns among the lines it has passed, *)
(* of the version it opened as long as that was not written meanwhile.       *)
PatternsUpTo(lines, end) == AtPlaces(lines, {k \in 1..end : lines[k] \in Pattern})

VersionSoFar ==
  /\ loader.pc = "lock" => loader.at = 1
  /\ ~mixed /\ loader.pc # "wait" => loader.lines = opened
  /\ ~mixed /\ loader.pc = "read" =>
       /\ loader.at <= Len(opened) + 1
       /\ \A k \in 1..(loader.at - 1) : opened[k] # Short
       /\ pattern_vec = PatternsUpTo(opened, loader.at - 1)

VersionInv == ScanInv /\ VersionSoFar /\ LoadsOneVersion

Line == Pattern \cup {Malformed, Short}

LEMMA FilesAreSequences == \A lines \in Contents \cup {<<>>} : lines \in Seq(Line)
<1>1. <<>> \in Seq(Line)
  OBVIOUS
<1> QED
  BY <1>1, RegexDoctorAssumption DEF Line

(* Of no lines, no patterns; of one line more, at most one pattern more.    *)
LEMMA PatternsUpToNone == ASSUME NEW lines PROVE PatternsUpTo(lines, 0) = <<>>
<1>1. {k \in 1..0 : lines[k] \in Pattern} = {}
  OBVIOUS
<1> QED
  BY <1>1, AtNoPlace DEF PatternsUpTo

LEMMA PatternsUpToNext ==
  ASSUME NEW lines, NEW k \in Nat
  PROVE  PatternsUpTo(lines, k + 1) =
           IF lines[k + 1] \in Pattern THEN Append(PatternsUpTo(lines, k), lines[k + 1])
           ELSE PatternsUpTo(lines, k)
<1> DEFINE P == {i \in 1..k : lines[i] \in Pattern}
           Q == {i \in 1..(k + 1) : lines[i] \in Pattern}
<1>1. CASE lines[k + 1] \in Pattern
  <2>1. Q = P \cup {k + 1} /\ P \in SUBSET (1..k)
    BY <1>1
  <2>2. \A i \in P \cup {k + 1} : lines[i] \in Pattern
    BY <1>1
  <2> HIDE DEF P, Q
  <2>3. AtPlaces(lines, P \cup {k + 1}) = Append(AtPlaces(lines, P), lines[k + 1])
    BY <2>1, <2>2, AtOneMorePlace
  <2> QED
    BY <1>1, <2>1, <2>3 DEF PatternsUpTo, P, Q
<1>2. CASE lines[k + 1] \notin Pattern
  <2>1. Q = P
    BY <1>2
  <2> QED
    BY <1>2, <2>1 DEF PatternsUpTo
<1> QED
  BY <1>1, <1>2

(* All lines before the first short one have been passed when it, or the    *)
(* end of the file, is reached.                                             *)
LEMMA UsableIsUpToTheEnd ==
  ASSUME NEW lines \in Seq(Line), NEW at \in 1..(Len(lines) + 1),
         \A k \in 1..(at - 1) : lines[k] # Short,
         at \in DOMAIN lines => lines[at] = Short
  PROVE  Usable(lines) = PatternsUpTo(lines, at - 1)
<1> DEFINE cut == {k \in DOMAIN lines : lines[k] = Short}
<1>1. CASE at \in DOMAIN lines
  <2>1. \A k \in cut : at <= k
    OBVIOUS
  <2>2. at \in cut /\ cut # {}
    BY <1>1
  <2>3. \A k \in cut : (\A j \in cut : k <= j) => k = at
    BY <2>1, <2>2
  <2>4. (CHOOSE k \in cut : \A j \in cut : k <= j) = at
    BY <2>1, <2>2, <2>3
  <2> QED
    BY <2>2, <2>4 DEF Usable, PatternsUpTo
<1>2. CASE at \notin DOMAIN lines
  <2>1. at = Len(lines) + 1 /\ Len(lines) \in Nat
    BY <1>2
  <2>2. cut = {} /\ at - 1 = Len(lines)
    BY <2>1
  <2> QED
    BY <2>2 DEF Usable, PatternsUpTo
<1> QED
  BY <1>1, <1>2

LEMMA VersionInit == Init => VersionInv
<1> SUFFICES ASSUME Init PROVE VersionInv
  OBVIOUS
<1>1. ScanInv
  BY InitScan
<1>2. VersionSoFar
  BY DEF Init, VersionSoFar
<1>3. Usable(<<>>) = <<>>
  <2>1. {k \in DOMAIN <<>> : <<>>[k] = Short} = {} /\ Len(<<>>) = 0
    OBVIOUS
  <2>2. Usable(<<>>) = PatternsUpTo(<<>>, 0)
    BY <2>1 DEF Usable, PatternsUpTo
  <2> QED
    BY <2>2, PatternsUpToNone
<1> QED
  BY <1>1, <1>2, <1>3 DEF VersionInv, LoadsOneVersion, Init

(* A file that is written while it is read is a mixture from then on.       *)
LEMMA EditKeepsVersion ==
  ASSUME VersionInv, Edit
  PROVE  VersionSoFar' /\ LoadsOneVersion'
<1>1. UNCHANGED <<pattern_vec, opened, table>>
  BY DEF Edit
<1>2. CASE UNCHANGED <<loader, mixed>>
  BY <1>1, <1>2 DEF VersionInv, VersionSoFar, LoadsOneVersion
<1>3. CASE loader' = [loader EXCEPT !.lines = file'] /\ mixed' = TRUE
  <2>1. loader'.pc = loader.pc /\ loader'.at = loader.at
    BY <1>3 DEF VersionInv, ScanInv, TypeOK
  <2> QED
    BY <1>1, <1>3, <2>1 DEF VersionInv, VersionSoFar, LoadsOneVersion
<1> QED
  BY <1>2, <1>3 DEF Edit

LEMMA LoadKeepsVersion ==
  ASSUME VersionInv, LoadRegexPattern
  PROVE  VersionSoFar' /\ LoadsOneVersion'
<1> USE DEF VersionInv
<1>1. CASE OpenPatterns
  <2>1. CASE file = Missing
    BY <1>1, <2>1 DEF OpenPatterns, loadVars, VersionSoFar, LoadsOneVersion
  <2>2. CASE file # Missing
    BY <1>1, <2>2 DEF OpenPatterns, VersionSoFar, LoadsOneVersion
  <2> QED
    BY <2>1, <2>2
<1>2. CASE LockTable
  <2>1. /\ loader.pc = "lock" /\ loader'.pc = "read" /\ loader'.at = loader.at
        /\ loader'.lines = loader.lines /\ pattern_vec' = <<>>
        /\ UNCHANGED <<opened, mixed, table>>
    BY <1>2 DEF LockTable, ClearPattern, ScanInv, TypeOK
  <2>2. loader'.at = 1 /\ opened \in Seq(Line)
    BY <2>1, FilesAreSequences DEF VersionSoFar, ScanInv, TypeOK
  <2>3. PatternsUpTo(opened, loader'.at - 1) = <<>> /\ 1 <= Len(opened) + 1
    BY <2>2, PatternsUpToNone
  <2> QED
    BY <2>1, <2>2, <2>3 DEF VersionSoFar, LoadsOneVersion
<1>3. CASE AddPattern
  <2> DEFINE at == loader.at  line == ReadLine(loader.at)
  <2>1. /\ loader.pc = "read" /\ loader'.pc = "read" /\ loader'.at = at + 1
        /\ loader'.lines = loader.lines /\ UNCHANGED <<opened, mixed, table>>
        /\ at \in Nat \ {0} /\ opened \in Seq(Line)
    BY <1>3, FilesAreSequences DEF AddPattern, ScanInv, TypeOK
  <2> SUFFICES ASSUME ~mixed
               PROVE  /\ at + 1 <= Len(opened) + 1
                      /\ \A k \in 1..at : opened[k] # Short
                      /\ pattern_vec' = PatternsUpTo(opened, at)
    BY <2>1 DEF VersionSoFar, LoadsOneVersion
  <2>2. /\ loader.lines = opened /\ at <= Len(opened) + 1
        /\ \A k \in 1..(at - 1) : opened[k] # Short
        /\ pattern_vec = PatternsUpTo(opened, at - 1)
    BY <2>1 DEF VersionSoFar
  <2>3. at \in 1..Len(opened) /\ line = opened[at] /\ line # Short
    BY <1>3, <2>1, <2>2 DEF AddPattern, Ends, ReadLine
  <2>4. \A k \in 1..at : k = at \/ k \in 1..(at - 1)
    BY <2>1
  <2>5. pattern_vec' = IF opened[at] \in Pattern THEN Append(pattern_vec, opened[at])
                       ELSE pattern_vec
    BY <1>3, <2>3 DEF AddPattern, HasThreeFields
  <2>6. at - 1 \in Nat /\ (at - 1) + 1 = at
    BY <2>1
  <2>7. PatternsUpTo(opened, at) =
          IF opened[at] \in Pattern THEN Append(PatternsUpTo(opened, at - 1), opened[at])
          ELSE PatternsUpTo(opened, at - 1)
    <3> DEFINE k == at - 1
    <3>1. k \in Nat /\ k + 1 = at
      BY <2>6
    <3> HIDE DEF k
    <3>2. PatternsUpTo(opened, k + 1) =
            IF opened[k + 1] \in Pattern THEN Append(PatternsUpTo(opened, k), opened[k + 1])
            ELSE PatternsUpTo(opened, k)
      BY <3>1, PatternsUpToNext
    <3> QED
      BY <3>1, <3>2 DEF k
  <2>8. pattern_vec' = PatternsUpTo(opened, at)
    BY <2>2, <2>5, <2>7
  <2>9. \A k \in 1..at : opened[k] # Short
    BY <2>2, <2>3, <2>4
  <2> QED
    BY <2>1, <2>3, <2>8, <2>9
<1>4. CASE EndLoad
  <2> DEFINE at == loader.at
  <2>1. /\ loader.pc = "read" /\ loader'.pc = "wait" /\ table' = pattern_vec
        /\ UNCHANGED <<opened, mixed>> /\ Ends(ReadLine(at))
        /\ at \in Nat \ {0} /\ opened \in Seq(Line)
    BY <1>4, FilesAreSequences DEF EndLoad, ScanInv, TypeOK
  <2> SUFFICES ASSUME ~mixed PROVE pattern_vec = Usable(opened)
    BY <2>1 DEF VersionSoFar, LoadsOneVersion
  <2>2. /\ loader.lines = opened /\ at \in 1..(Len(opened) + 1)
        /\ \A k \in 1..(at - 1) : opened[k] # Short
        /\ pattern_vec = PatternsUpTo(opened, at - 1)
    BY <2>1 DEF VersionSoFar
  <2>3. at \in DOMAIN opened => opened[at] = Short
    BY <2>1, <2>2 DEF Ends, ReadLine
  <2> HIDE DEF at
  <2> QED
    BY <2>1, <2>2, <2>3, UsableIsUpToTheEnd
<1> QED
  BY <1>1, <1>2, <1>3, <1>4 DEF LoadRegexPattern

LEMMA VersionStep == VersionInv /\ [Next]_vars => VersionInv'
<1> SUFFICES ASSUME VersionInv, [Next]_vars PROVE VersionInv'
  OBVIOUS
<1>1. ScanInv'
  BY NextKeepsInv DEF VersionInv
<1>2. CASE Edit
  BY <1>1, <1>2, EditKeepsVersion DEF VersionInv
<1>3. CASE LoadRegexPattern
  BY <1>1, <1>3, LoadKeepsVersion DEF VersionInv
<1>4. CASE (\E h \in Handler : MatchQuery(h) \/ Tokenizer(h) \/ Scan(h)) \/ UNCHANGED vars
  <2>1. UNCHANGED <<loader, opened, mixed, table, pattern_vec>>
    BY <1>4 DEF MatchQuery, Tokenizer, Begin, Scan, ScanStep, ScanUndefined, loadVars, vars
  <2> QED
    BY <1>1, <2>1 DEF VersionInv, VersionSoFar, LoadsOneVersion
<1> QED
  BY <1>2, <1>3, <1>4 DEF Next
-----------------------------------------------------------------------------
(* The reverse index and the restarts of its constructor leave the patterns *)
(* alone (regex_question_doctor.cc:14-20).                                  *)
LEMMA DoctorStepsArePatternSteps ==
  /\ DoctorInit => Init
  /\ [DoctorNext]_doctorVars => [Next]_vars
  BY DEF DoctorInit, DoctorNext, doctorVars, ReadIndex, StartAgain, EditFile, Patterns, Next

(* Holder, table and iterators, whatever the threads and the constructor do *)
(* (regex_question_doctor.cc:51-110, 304-338).                              *)
THEOREM ScanCorrect == DoctorSpec => []ScanInv
  BY InitScan, NextKeepsInv, DoctorStepsArePatternSteps, PTL DEF DoctorSpec

(* The loader and a MatchQuery, or two of these, never run within the mutex *)
(* at once (regex_question_doctor.cc:79, 319).                              *)
MutualExclusion ==
  \A h \in Handler : handler[h].pc = "MatchQuery" =>
    /\ loader.pc # "read"
    /\ \A g \in Handler : handler[g].pc = "MatchQuery" => g = h

THEOREM MutualExclusionCorrect == DoctorSpec => []MutualExclusion
<1>1. ScanInv => MutualExclusion
  BY RegexDoctorAssumption DEF ScanInv, HolderIsWithin, MutualExclusion
<1> QED
  BY <1>1, ScanCorrect, PTL

(* MatchQuery, and Tokenizer when no load touches the table, answer from    *)
(* the whole table the last load left (regex_question_doctor.cc:51-110).    *)
THEOREM MatchesAWholeTableCorrect == DoctorSpec => MatchesAWholeTable
<1> DEFINE Step ==
      \A h \in Handler :
        (\/ handler[h].pc = "MatchQuery"
         \/ handler[h].pc = "Tokenizer" /\ h \in valid /\ loader.pc # "read")
          /\ handler'[h].pc # handler[h].pc =>
        /\ handler'[h].pc = "idle"
        /\ handler'[h].answer = FirstMatch(table, handler[h].question)
<1>1. ScanInv /\ [Next]_vars => [Step]_vars
  BY StepMatchesAWholeTable
<1>2. [DoctorNext]_doctorVars => [Next]_vars
  BY DoctorStepsArePatternSteps
<1> QED
  BY <1>1, <1>2, ScanCorrect, PTL DEF DoctorSpec, MatchesAWholeTable

(* A load of a file that is not written while it is read leaves exactly the *)
(* patterns of that version before its first short line, for any file and   *)
(* whatever was in the table (regex_question_doctor.cc:320-338).            *)
THEOREM LoadsOneVersionCorrect == DoctorSpec => []LoadInv
<1>1. VersionInv => LoadInv
  BY DEF VersionInv, ScanInv, LoadInv
<1> QED
  BY <1>1, VersionInit, VersionStep, DoctorStepsArePatternSteps, PTL DEF DoctorSpec
-----------------------------------------------------------------------------
(* The reverse index *)

TableRow == [word : Seq(Nat), pids : Seq(Nat)]

LEMMA TablesHaveRows ==
  /\ Len(Tables) \in Nat \ {0}
  /\ \A t \in DOMAIN Tables : Tables[t] # WrongFields => Tables[t] \in Seq(TableRow)
BY ReverseIndexAssumption DEF TableRow

(* A word of the map keeps its pids; another has those of the first of the  *)
(* rows that has it.                                                        *)
FirstAt(rows, n, word) ==
  CHOOSE k \in 1..n : rows[k].word = word /\ \A j \in 1..(k - 1) : rows[j].word # word
WithRows(map, rows, n) ==
  [word \in DOMAIN map \cup {rows[k].word : k \in 1..n} |->
     IF word \in DOMAIN map THEN map[word] ELSE rows[FirstAt(rows, n, word)].pids]

LEMMA FirstAtIsFirst ==
  ASSUME NEW rows, NEW n \in Nat, NEW k \in 1..n, NEW word, rows[k].word = word,
         \A j \in 1..(k - 1) : rows[j].word # word
  PROVE  FirstAt(rows, n, word) = k
<1> DEFINE Is(m) == rows[m].word = word /\ \A j \in 1..(m - 1) : rows[j].word # word
<1>1. ASSUME NEW m \in 1..n, Is(m) PROVE m = k
  <2>1. CASE m < k
    BY <1>1, <2>1
  <2>2. CASE k < m
    BY <1>1, <2>2
  <2> QED
    BY <2>1, <2>2
<1>2. k \in 1..n /\ Is(k)
  OBVIOUS
<1> QED
  BY <1>1, <1>2 DEF FirstAt

LEMMA AWordHasAFirstRow ==
  ASSUME NEW rows, NEW i \in Nat \ {0}
  PROVE  \E k \in 1..i : /\ rows[k].word = rows[i].word
                         /\ \A j \in 1..(k - 1) : rows[j].word # rows[i].word
<1> DEFINE T == {k \in 1..i : rows[k].word = rows[i].word}
<1>1. T \in SUBSET Nat /\ T # {}
  OBVIOUS
<1>2. PICK k \in T : \A j \in T : k <= j
  <2> HIDE DEF T
  <2> QED
    BY <1>1, LeastNumber
<1>3. \A j \in 1..(k - 1) : j \notin T
  BY <1>2
<1>4. \A j \in 1..(k - 1) : j \in 1..i
  BY <1>2
<1> QED
  BY <1>2, <1>3, <1>4

LEMMA WithOneMoreRow ==
  ASSUME NEW map, NEW rows, NEW k \in Nat \ {0}
  PROVE  WithRows(map, rows, k) = InsertRow(WithRows(map, rows, k - 1), rows[k])
<1> DEFINE before == WithRows(map, rows, k - 1)
           after == WithRows(map, rows, k)
<1>1. /\ DOMAIN before = DOMAIN map \cup {rows[j].word : j \in 1..(k - 1)}
      /\ DOMAIN after = DOMAIN map \cup {rows[j].word : j \in 1..k}
  BY DEF WithRows
<1>2. DOMAIN after = DOMAIN before \cup {rows[k].word}
  <2>1. 1..k = 1..(k - 1) \cup {k}
    OBVIOUS
  <2> QED
    BY <1>1, <2>1
<1>3. ASSUME NEW word \in DOMAIN before PROVE after[word] = before[word]
  <2>1. CASE word \in DOMAIN map
    BY <1>3, <1>2, <1>1, <2>1 DEF WithRows
  <2>2. CASE word \notin DOMAIN map
    <3>1. PICK i \in 1..(k - 1) : rows[i].word = word
      BY <1>1, <1>3, <2>2
    <3>2. k - 1 \in Nat /\ k \in Nat /\ i \in Nat \ {0}
      OBVIOUS
    <3>3. PICK m \in 1..i : rows[m].word = word /\ \A j \in 1..(m - 1) : rows[j].word # word
      BY <3>1, <3>2, AWordHasAFirstRow
    <3>4. m \in 1..(k - 1) /\ m \in 1..k
      OBVIOUS
    <3>5. ASSUME NEW n \in Nat, m \in 1..n PROVE FirstAt(rows, n, word) = m
      BY <3>3, <3>5, FirstAtIsFirst
    <3>6. FirstAt(rows, k, word) = m /\ FirstAt(rows, k - 1, word) = m
      BY <3>2, <3>4, <3>5
    <3> QED
      BY <1>1, <1>2, <1>3, <2>2, <3>6 DEF WithRows
  <2> QED
    BY <2>1, <2>2
<1>4. ASSUME rows[k].word \notin DOMAIN before PROVE after[rows[k].word] = rows[k].pids
  <2>1. \A j \in 1..(k - 1) : rows[j].word # rows[k].word
    BY <1>1, <1>4
  <2>2. FirstAt(rows, k, rows[k].word) = k
    BY <2>1, FirstAtIsFirst
  <2> QED
    BY <1>1, <1>2, <1>4, <2>2 DEF WithRows
<1>5. after = [word \in DOMAIN after |-> after[word]]
  BY DEF WithRows
<1> HIDE DEF before, after
<1>6. \A word \in DOMAIN after :
        after[word] = IF word \in DOMAIN before THEN before[word] ELSE rows[k].pids
  BY <1>2, <1>3, <1>4
<1>7. after = InsertRow(before, rows[k])
  BY <1>2, <1>5, <1>6 DEF InsertRow
<1> QED
  BY <1>7 DEF before, after

IsAFunction(f) == f = [x \in DOMAIN f |-> f[x]]

(* The loop of LoadRind over a table's rows, for any table. *)
LEMMA InsertRowsAddsFirstRows ==
  ASSUME NEW map, IsAFunction(map), NEW rows \in Seq(TableRow)
  PROVE  InsertRows(map, rows) = WithRows(map, rows, Len(rows))
<1> DEFINE n == Len(rows)
           Step(f) == [k \in 0..n |-> IF k = 0 THEN map ELSE InsertRow(f[k - 1], rows[k])]
           g == [k \in 0..n |-> WithRows(map, rows, k)]
<1>1. n \in Nat
  OBVIOUS
<1>2. WithRows(map, rows, 0) = map
  <2>1. 1..0 = {}
    OBVIOUS
  <2>2. DOMAIN map \cup {rows[k].word : k \in 1..0} = DOMAIN map
    BY <2>1
  <2> QED
    BY <2>2 DEF WithRows, IsAFunction
<1>3. \A k \in 1..n : WithRows(map, rows, k) = InsertRow(WithRows(map, rows, k - 1), rows[k])
  BY <1>1, WithOneMoreRow
<1>4. g = Step(g)
  <2>1. \A k \in 0..n : k # 0 => k - 1 \in 0..n /\ k \in 1..n
    BY <1>1
  <2> QED
    BY <1>2, <1>3, <2>1
<1>5. ASSUME NEW f, f = Step(f) PROVE f[n] = WithRows(map, rows, n)
  <2> DEFINE S == {k \in 0..n : f[k] = WithRows(map, rows, k)}
  <2>1. \A k \in 0..n : f[k] = IF k = 0 THEN map ELSE InsertRow(f[k - 1], rows[k])
    BY <1>5
  <2>2. 0 \in S
    BY <1>1, <1>2, <2>1
  <2>3. ASSUME NEW k \in 0..(n - 1), k \in S PROVE k + 1 \in S
    <3>1. k + 1 \in 1..n /\ (k + 1) - 1 = k /\ k + 1 # 0
      BY <1>1
    <3>2. f[k + 1] = InsertRow(f[k], rows[k + 1])
      BY <2>1, <3>1
    <3>3. WithRows(map, rows, k + 1) = InsertRow(WithRows(map, rows, k), rows[k + 1])
      BY <1>3, <3>1
    <3> QED
      BY <2>3, <3>1, <3>2, <3>3
  <2> HIDE DEF S
  <2>4. \A k \in 0..n : k \in S
    BY <1>1, <2>2, <2>3, UpToInduction
  <2> QED
    BY <1>1, <2>4 DEF S
<1> HIDE DEF g
<1>6. InsertRows(map, rows) = (CHOOSE f : f = Step(f))[n]
  BY DEF InsertRows
<1> HIDE DEF Step
<1>7. (CHOOSE f : f = Step(f)) = Step(CHOOSE f : f = Step(f))
  BY <1>4
<1> QED
  BY <1>5, <1>6, <1>7
-----------------------------------------------------------------------------
(* The tables that are done with. *)
TablesPast == IF rind.pc \in {"close", "done"} THEN Len(Tables) ELSE rind.table - 1

(* Only whole tables of those are read, and all of them as long as there    *)
(* was one fault and every result was stored: a lost connection is one      *)
(* fault, and a statement is sent again only after one.                     *)
TablesSoFar ==
  /\ read \subseteq {t \in 1..TablesPast : Tables[t] # WrongFields}
  /\ rind.pc # "done" /\ faults <= 1 /\ ~unstored =>
       read = {t \in 1..TablesPast : Tables[t] # WrongFields}
  /\ rind.pc = "connect" => rind.table = 1
  /\ rind.pc = "reconnect" => mysql = "initialised"
  /\ rind.pc = "retry" => mysql = "connected" /\ faults >= 1
  /\ mysql = "initialised" => faults >= 1

RindInv == RindTypeOK /\ IsAFunction(rind_map) /\ FirstRowsOnly /\ TablesSoFar

LEMMA RindInit == InitRind => RindInv
<1> SUFFICES ASSUME InitRind PROVE RindInv
  OBVIOUS
<1>1. RindTypeOK
  <2>1. unstored \in BOOLEAN
    BY DEF InitRind
  <2> QED
    BY <2>1, TablesHaveRows, ReverseIndexAssumption DEF InitRind, RindTypeOK
<1>2. RowsRead = {} /\ DOMAIN rind_map = {} /\ IsAFunction(rind_map)
  BY DEF InitRind, RowsRead, IsAFunction
<1>3. TablesSoFar
  BY TablesHaveRows, ReverseIndexAssumption DEF InitRind, TablesSoFar, TablesPast
<1> QED
  BY <1>1, <1>2, <1>3 DEF RindInv, FirstRowsOnly

(* All but a table's rows: who calls the library, and what it answers.      *)
LEMMA CallsKeepTables ==
  ASSUME RindInv, Connect \/ FirstQuery \/ ReConnect \/ Retry \/ Crash \/ Close
  PROVE  RindInv'
<1> USE TablesHaveRows, ReverseIndexAssumption
<1>1. UNCHANGED <<rind_map, read>> /\ unstored' \in BOOLEAN
  BY DEF Connect, FirstQuery, ReConnect, Retry, Query, Crash, Close, RindInv, RindTypeOK
<1>2. IsAFunction(rind_map') /\ FirstRowsOnly'
  BY <1>1 DEF RindInv, FirstRowsOnly, RowsRead, IsAFunction
<1>3. CASE Connect
  <2>1. RindTypeOK'
    BY <1>1, <1>3 DEF Connect, Open, At, Goto, Fault, NoFault, RindInv, RindTypeOK
  <2>2. TablesSoFar'
    <3>1. rind.pc = "connect" /\ rind.table = 1 /\ rind' = [rind EXCEPT !.pc = "query"]
      BY <1>3 DEF Connect, At, Goto, RindInv, TablesSoFar
    <3>2. rind'.pc = "query" /\ rind'.table = 1
      BY <3>1 DEF RindInv, RindTypeOK
    <3>3. TablesPast = 0 /\ TablesPast' = 0
      BY <3>1, <3>2 DEF TablesPast
    <3>4. {u \in 1..0 : Tables[u] # WrongFields} = {}
      OBVIOUS
    <3>5. mysql' = "initialised" => faults' >= 1
      BY <1>3 DEF Connect, Open, Fault, NoFault, RindInv, RindTypeOK
    <3>6. read = {} /\ read' = {}
      BY <1>1, <3>3, <3>4 DEF RindInv, TablesSoFar
    <3> QED
      BY <3>2, <3>3, <3>4, <3>5, <3>6 DEF TablesSoFar
  <2> QED
    BY <1>2, <2>1, <2>2 DEF RindInv
<1>4. CASE FirstQuery
  <2>1. RindTypeOK'
    BY <1>1, <1>4 DEF FirstQuery, Query, At, Goto, Fault, NoFault, RindInv, RindTypeOK
  <2>2. /\ rind.pc = "query" /\ rind'.pc \in {"store", "reconnect", "retry"}
        /\ rind'.table = rind.table
    BY <1>4 DEF FirstQuery, Query, At, Goto, RindInv, RindTypeOK
  <2>3. TablesPast' = TablesPast
    BY <2>2 DEF TablesPast
  <2>4. faults <= faults' /\ unstored' = unstored
    BY <1>4 DEF FirstQuery, Query, Fault, NoFault, RindInv, RindTypeOK
  <2>5. /\ rind'.pc = "reconnect" => mysql' = "initialised"
        /\ rind'.pc = "retry" => mysql' = "connected" /\ faults' >= 1
        /\ mysql' = "initialised" => faults' >= 1
    BY <1>4, <2>1
    DEF FirstQuery, Query, At, Goto, Fault, NoFault, RindInv, RindTypeOK, TablesSoFar
  <2>6. faults' <= 1 => faults <= 1
    BY <2>1, <2>4 DEF RindInv, RindTypeOK
  <2>7. TablesSoFar'
    BY <1>1, <2>2, <2>3, <2>4, <2>5, <2>6 DEF RindInv, TablesSoFar
  <2> QED
    BY <1>2, <2>1, <2>7 DEF RindInv
<1>5. CASE ReConnect
  <2>1. RindTypeOK'
    BY <1>1, <1>5
    DEF ReConnect, Open, At, Goto, NextTable, Fault, NoFault, RindInv, RindTypeOK
  <2>2. TablesSoFar'
    BY <1>1, <1>5
    DEF ReConnect, Open, At, Goto, NextTable, Fault, NoFault, RindInv, RindTypeOK,
        TablesSoFar, TablesPast
  <2> QED
    BY <1>2, <2>1, <2>2 DEF RindInv
<1>6. CASE Retry
  <2>1. RindTypeOK'
    BY <1>1, <1>6
    DEF Retry, Query, At, Goto, NextTable, Fault, NoFault, RindInv, RindTypeOK
  <2>2. TablesSoFar'
    BY <1>1, <1>6
    DEF Retry, Query, At, Goto, NextTable, Fault, NoFault, RindInv, RindTypeOK,
        TablesSoFar, TablesPast
  <2> QED
    BY <1>2, <2>1, <2>2 DEF RindInv
<1>7. CASE Crash \/ Close
  <2>1. RindTypeOK'
    BY <1>1, <1>7 DEF Crash, Close, At, Goto, RindInv, RindTypeOK
  <2>2. TablesSoFar'
    BY <1>1, <1>7 DEF Crash, Close, At, Goto, RindInv, RindTypeOK, TablesSoFar, TablesPast
  <2> QED
    BY <1>2, <2>1, <2>2 DEF RindInv
<1> QED
  BY <1>3, <1>4, <1>5, <1>6, <1>7

(* The next table is behind all that were read, and its rows are added.     *)
LEMMA StoreKeepsRows ==
  ASSUME RindInv, StoreResult PROVE RindInv'
<1> USE TablesHaveRows, ReverseIndexAssumption
<1> DEFINE t == rind.table
           rows == Tables[t]
<1>1. /\ rind.pc = "store" /\ t \in 1..Len(Tables) /\ read \subseteq 1..(t - 1)
      /\ mysql' = mysql /\ t \notin read
  BY DEF StoreResult, At, RindInv, RindTypeOK, TablesSoFar, TablesPast
<1>0. \A u \in read : u < t
  BY <1>1
<1>2. /\ rind' \in [pc : {"query", "close"}, table : 1..Len(Tables)]
      /\ TablesPast' = t
  BY <1>1 DEF StoreResult, NextTable, TablesPast
<1>3. CASE UNCHANGED <<rind_map, read>>
           /\ (unstored' = TRUE \/ (rows = WrongFields /\ UNCHANGED unstored))
           /\ (Fault \/ NoFault)
  <2>0. unstored' \in BOOLEAN
    BY <1>3 DEF RindInv, RindTypeOK
  <2>1. unstored' \in BOOLEAN /\ faults' \in 0..MaxFaults /\ faults <= faults'
    BY <1>3, <2>0 DEF Fault, NoFault, RindInv, RindTypeOK
  <2>2. RindTypeOK'
    BY <1>1, <1>2, <1>3, <2>1 DEF RindInv, RindTypeOK
  <2>3. IsAFunction(rind_map') /\ FirstRowsOnly'
    BY <1>3 DEF RindInv, FirstRowsOnly, RowsRead, IsAFunction
  <2>4. /\ {u \in 1..t : Tables[u] # WrongFields}
            = {u \in 1..(t - 1) : Tables[u] # WrongFields}
              \cup {u \in {t} : Tables[u] # WrongFields}
        /\ TablesPast = t - 1
    BY <1>1 DEF TablesPast
  <2>5. TablesSoFar'
    BY <1>1, <1>2, <1>3, <2>1, <2>4 DEF RindInv, RindTypeOK, TablesSoFar
  <2> QED
    BY <2>2, <2>3, <2>5 DEF RindInv
<1>4. CASE /\ rows # WrongFields /\ rind_map' = InsertRows(rind_map, rows)
           /\ read' = read \cup {t} /\ NoFault /\ UNCHANGED unstored
  <2> DEFINE n == Len(rows)
  <2>1. rows \in Seq(TableRow) /\ n \in Nat /\ DOMAIN rows = 1..n
    BY <1>1, <1>4
  <2>2. rind_map' = WithRows(rind_map, rows, n)
    BY <1>4, <2>1, InsertRowsAddsFirstRows DEF RindInv
  <2>3. /\ DOMAIN rind_map' = DOMAIN rind_map \cup {rows[k].word : k \in 1..n}
        /\ \A word \in DOMAIN rind_map : rind_map'[word] = rind_map[word]
        /\ \A word \in DOMAIN rind_map' \ DOMAIN rind_map :
             rind_map'[word] = rows[FirstAt(rows, n, word)].pids
        /\ IsAFunction(rind_map')
    BY <2>2 DEF WithRows, IsAFunction
  <2>4. RowsRead' = RowsRead \cup {t} \X (1..n)
    BY <1>1, <1>4, <2>1 DEF RowsRead
  <2>5. \A k \in 1..n : \E m \in 1..k :
          /\ rows[m].word = rows[k].word /\ FirstAt(rows, n, rows[k].word) = m
    <3> SUFFICES ASSUME NEW k \in 1..n
                 PROVE  \E m \in 1..k : /\ rows[m].word = rows[k].word
                                        /\ FirstAt(rows, n, rows[k].word) = m
      OBVIOUS
    <3>0. n \in Nat /\ k \in Nat \ {0} /\ \A m \in 1..k : m \in 1..n
      BY <2>1
    <3> HIDE DEF rows, n
    <3>1. PICK m \in 1..k : /\ rows[m].word = rows[k].word
                            /\ \A j \in 1..(m - 1) : rows[j].word # rows[k].word
      BY <3>0, AWordHasAFirstRow
    <3>2. FirstAt(rows, n, rows[k].word) = m
      BY <3>0, <3>1, FirstAtIsFirst
    <3> QED
      BY <3>1, <3>2
  <2>6. \A word \in DOMAIN rind_map' : rind_map'[word] \in Seq(Nat)
    <3>1. ASSUME NEW k \in 1..n, rows[k].word \notin DOMAIN rind_map
          PROVE  rind_map'[rows[k].word] \in Seq(Nat)
      <4> HIDE DEF rows, n
      <4>1. PICK m \in 1..k : FirstAt(rows, n, rows[k].word) = m
        BY <2>5
      <4>2. rows[k].word \in DOMAIN rind_map' \ DOMAIN rind_map /\ m \in 1..n
        BY <2>1, <2>3, <3>1
      <4>3. rind_map'[rows[k].word] = rows[m].pids
        BY <2>3, <4>1, <4>2
      <4>4. rows[m] \in TableRow
        BY <2>1, <4>2
      <4> QED
        BY <4>3, <4>4 DEF TableRow
    <3> QED
      BY <2>3, <3>1 DEF RindInv, RindTypeOK
  <2>7. RindTypeOK'
    <3>1. unstored' \in BOOLEAN /\ faults' \in 0..MaxFaults
      BY <1>4 DEF NoFault, RindInv, RindTypeOK
    <3> QED
      BY <1>1, <1>2, <1>4, <2>6, <3>1 DEF RindInv, RindTypeOK
  <2>8. FirstRowsOnly'
    <3>1. DOMAIN rind_map' = {Tables[p[1]][p[2]].word : p \in RowsRead'}
      <4>1. \A k \in 1..n : rows[k].word = Tables[<<t, k>>[1]][<<t, k>>[2]].word
        OBVIOUS
      <4>2. \A p \in {t} \X (1..n) : \E k \in 1..n : p = <<t, k>>
        OBVIOUS
      <4>3. DOMAIN rind_map = {Tables[p[1]][p[2]].word : p \in RowsRead}
        BY DEF RindInv, FirstRowsOnly
      <4> HIDE DEF n
      <4>4. \A word \in DOMAIN rind_map' : word \in {Tables[p[1]][p[2]].word : p \in RowsRead'}
        <5>1. \A k \in 1..n : <<t, k>> \in RowsRead'
          BY <2>4
        <5>2. \A word \in DOMAIN rind_map : \E p \in RowsRead' : word = Tables[p[1]][p[2]].word
          BY <2>4, <4>3
        <5>3. \A k \in 1..n : \E p \in RowsRead' : rows[k].word = Tables[p[1]][p[2]].word
          BY <4>1, <5>1
        <5> QED
          BY <2>3, <5>2, <5>3
      <4>5. \A p \in RowsRead' : Tables[p[1]][p[2]].word \in DOMAIN rind_map'
        BY <2>3, <2>4, <4>1, <4>2, <4>3
      <4> QED
        BY <4>4, <4>5
    <3>2. ASSUME NEW p \in RowsRead
          PROVE  \/ rind_map'[Tables[p[1]][p[2]].word] = Tables[p[1]][p[2]].pids
                 \/ \E r \in RowsRead' :
                      Before(r, p) /\ Tables[r[1]][r[2]].word = Tables[p[1]][p[2]].word
      BY <2>3, <2>4 DEF RindInv, FirstRowsOnly
    <3>3. ASSUME NEW k \in 1..n
          PROVE  \/ rind_map'[rows[k].word] = rows[k].pids
                 \/ \E r \in RowsRead' : Before(r, <<t, k>>) /\ Tables[r[1]][r[2]].word = rows[k].word
      <4>1. CASE rows[k].word \in DOMAIN rind_map
        <5>1. PICK r \in RowsRead : Tables[r[1]][r[2]].word = rows[k].word
          BY <4>1 DEF RindInv, FirstRowsOnly
        <5>2. r[1] \in read
          BY DEF RowsRead
        <5>3. r[1] < t
          BY <1>0, <5>2
        <5>4. Before(r, <<t, k>>)
          BY <5>3 DEF Before
        <5> QED
          BY <2>4, <5>1, <5>4
      <4>2. CASE rows[k].word \notin DOMAIN rind_map
        <5>1. PICK m \in 1..k : /\ rows[m].word = rows[k].word
                                /\ FirstAt(rows, n, rows[k].word) = m
          BY <2>5
        <5>2. rind_map'[rows[k].word] = rows[m].pids
          BY <2>1, <2>3, <4>2, <5>1
        <5>3. m # k => <<t, m>> \in RowsRead' /\ Before(<<t, m>>, <<t, k>>)
          BY <2>1, <2>4 DEF Before
        <5> QED
          BY <5>1, <5>2, <5>3
      <4> QED
        BY <4>1, <4>2
    <3>4. \A p \in RowsRead' :
            \/ rind_map'[Tables[p[1]][p[2]].word] = Tables[p[1]][p[2]].pids
            \/ \E r \in RowsRead' :
                 Before(r, p) /\ Tables[r[1]][r[2]].word = Tables[p[1]][p[2]].word
      BY <2>4, <3>2, <3>3
    <3> QED
      BY <3>1, <3>4 DEF FirstRowsOnly
  <2>9. TablesSoFar'
    <3>1. {u \in 1..t : Tables[u] # WrongFields}
            = {u \in 1..(t - 1) : Tables[u] # WrongFields} \cup {t}
      BY <1>1, <1>4
    <3>2. TablesPast = t - 1
      BY <1>1 DEF TablesPast
    <3> QED
      BY <1>1, <1>2, <1>4, <3>1, <3>2 DEF NoFault, RindInv, RindTypeOK, TablesSoFar
  <2> QED
    BY <2>3, <2>7, <2>8, <2>9 DEF RindInv
<1> QED
  BY <1>3, <1>4 DEF StoreResult

LEMMA DoctorKeepsIndex == RindInv /\ [DoctorNext]_doctorVars => RindInv'
<1> SUFFICES ASSUME RindInv, [DoctorNext]_doctorVars PROVE RindInv'
  OBVIOUS
<1>1. CASE ReadIndex
  BY <1>1, CallsKeepTables, StoreKeepsRows DEF ReadIndex, LoadRind
<1>2. CASE StartAgain
  <2>1. unstored' \in BOOLEAN
    BY <1>2 DEF StartAgain
  <2>2. RindTypeOK'
    BY <1>2, <2>1, TablesHaveRows DEF StartAgain, RindInv, RindTypeOK
  <2>3. RowsRead' = {} /\ DOMAIN rind_map' = {} /\ IsAFunction(rind_map')
    BY <1>2 DEF StartAgain, RowsRead, IsAFunction
  <2>4. TablesSoFar'
    BY <1>2 DEF StartAgain, TablesSoFar, TablesPast
  <2> QED
    BY <2>2, <2>3, <2>4 DEF RindInv, FirstRowsOnly
<1>3. CASE UNCHANGED rindVars
  BY <1>3
  DEF rindVars, RindInv, RindTypeOK, FirstRowsOnly, RowsRead, IsAFunction, TablesSoFar, TablesPast
<1> QED
  BY <1>1, <1>2, <1>3 DEF DoctorNext, EditFile, Patterns, doctorVars

(* The index has every word of the tables that were read with the pids of   *)
(* its first row, and of a read with one failing call no table is missing,  *)
(* for any tables (regex_question_doctor.cc:182-246, comm_db.cc:15-119).    *)
THEOREM IndexCorrect == DoctorSpec => []IndexInv
<1>1. DoctorInit => RindInv
  BY RindInit DEF DoctorInit
<1>2. RindInv => IndexInv
  BY TablesHaveRows DEF RindInv, IndexInv, OneFaultLosesNoTable, At, TablesSoFar, TablesPast
<1> QED
  BY <1>1, <1>2, DoctorKeepsIndex, PTL DEF DoctorSpec
-----------------------------------------------------------------------------
(* Lookups *)

LEMMA CutsGrow ==
  ASSUME NEW i \in Nat, NEW j \in Nat, NEW u \in Nat \ {0}, i < j
  PROVE  i * u < j * u /\ i * u \in Nat
<1>1. j - i - 1 \in Nat
  OBVIOUS
<1>2. (j - i - 1) * u >= 0
  BY <1>1
<1>3. j * u = i * u + u + (j - i - 1) * u
  OBVIOUS
<1> QED
  BY <1>2, <1>3

(* A question is cut at growing places within it. *)
LEMMA CutsAreWithin ==
  ASSUME NEW qu \in Seq(Nat)
  PROVE  /\ Characters(qu) \in Nat
         /\ \A i \in 1..Characters(qu) : i * u_size \in 1..Len(qu)
         /\ \A i, j \in 1..Characters(qu) : i < j <=> i * u_size < j * u_size
<1> DEFINE n == Characters(qu)
<1>1. u_size \in Nat \ {0} /\ Len(qu) \in Nat
  BY ReverseIndexAssumption
<1>2. n \in Nat /\ n * u_size <= Len(qu)
  BY <1>1 DEF Characters
<1> HIDE DEF n
<1>3. ASSUME NEW i \in 1..n PROVE i * u_size \in 1..Len(qu)
  <2>1. i * u_size \in Nat /\ 0 * u_size < i * u_size
    BY <1>1, <1>2, CutsGrow
  <2>2. i = n \/ i * u_size < n * u_size
    BY <1>1, <1>2, CutsGrow
  <2> QED
    BY <1>1, <1>2, <2>1, <2>2
<1>4. ASSUME NEW i \in 1..n, NEW j \in 1..n, i < j
      PROVE  i * u_size < j * u_size
  BY <1>1, <1>2, <1>4, CutsGrow
<1>5. \A i \in 1..n : i * u_size \in Int
  BY <1>3
<1>6. ASSUME NEW i \in 1..n, NEW j \in 1..n, i * u_size < j * u_size PROVE i < j
  <2>1. i < j \/ i = j \/ j < i
    BY <1>2
  <2>2. ~(j * u_size < i * u_size)
    BY <1>5, <1>6
  <2> QED
    BY <1>4, <1>5, <1>6, <2>1, <2>2
<1> QED
  BY <1>2, <1>3, <1>4, <1>6 DEF n

LEMMA WordsOfACut ==
  ASSUME NEW qu \in Seq(Nat), NEW k \in 1..Len(qu)
  PROVE  /\ Len(Prefix(qu, k)) = k /\ Prefix(qu, k) # <<>>
         /\ Len(Ending(qu, k)) = Len(qu) - k
         /\ Ending(qu, k) = <<>> <=> k = Len(qu)
<1> DEFINE a == SubSeq(qu, 1, k)
           b == SubSeq(qu, k + 1, Len(qu))
<1>1. a \in Seq(Nat) /\ b \in Seq(Nat)
  OBVIOUS
<1>2. Len(a) = k
  OBVIOUS
<1>3. Len(b) = Len(qu) - k
  OBVIOUS
<1> HIDE DEF a, b
<1>4. a # <<>> /\ (b = <<>> <=> Len(b) = 0)
  BY <1>1, <1>2
<1> QED
  BY <1>2, <1>3, <1>4 DEF a, b, Prefix, Ending

LEMMA PidsType ==
  ASSUME RindTypeOK, NEW word
  PROVE  Pids(word) \in Seq(Nat) /\ (Pids(word) # <<>> => word \in DOMAIN rind_map)
BY DEF RindTypeOK, Pids

LEMMA CommonType ==
  ASSUME NEW pids \in Seq(Nat), NEW others
  PROVE  /\ Common(pids, others) \in Seq(Nat)
         /\ \A n \in DOMAIN Common(pids, others) : In(Common(pids, others)[n], pids)
<1> DEFINE P == {k \in 1..Len(pids) : In(pids[k], others)}
           common == AtPlaces(pids, P)
<1>1. /\ P \in SUBSET (1..Len(pids)) /\ Len(pids) \in Nat
      /\ \A k \in P : pids[k] \in Nat /\ k \in DOMAIN pids
  OBVIOUS
<1> HIDE DEF P
<1>2. /\ common \in Seq(Nat) /\ Len(common) = Cardinality(P)
      /\ \A r \in 1..Cardinality(P) : common[r] = pids[Nth(r, P)] /\ Nth(r, P) \in P
  <2>1. \A r \in 1..Cardinality(P) : Nth(r, P) \in P
    BY <1>1, NthPlace
  <2>2. /\ common \in Seq(Nat) /\ Len(common) = Cardinality(P)
        /\ \A r \in 1..Cardinality(P) : common[r] = pids[Nth(r, P)]
    <3>1. \A k \in P : pids[k] \in Nat
      BY <1>1
    <3> QED
      BY <1>1, <3>1, AtPlacesType
  <2> QED
    BY <2>1, <2>2
<1> HIDE DEF common
<1>3. \A r \in 1..Cardinality(P) : Nth(r, P) \in DOMAIN pids
  BY <1>1, <1>2
<1>4. \A r \in DOMAIN common : r \in 1..Cardinality(P)
  BY <1>2
<1>5. common = Common(pids, others)
  BY DEF common, P, Common
<1> QED
  BY <1>2, <1>3, <1>4, <1>5 DEF In

(* Pids are those of the first word, or none. *)
LEMMA MatchPidIsOfTheFirst ==
  ASSUME RindTypeOK, NEW f1, NEW f2
  PROVE  /\ MatchPid(f1, f2) \in Seq(Nat)
         /\ \A n \in DOMAIN MatchPid(f1, f2) : In(MatchPid(f1, f2)[n], Pids(f1))
         /\ Pids(f1) = <<>> => MatchPid(f1, f2) = <<>>
<1>1. Pids(f1) \in Seq(Nat)
  BY PidsType
<1>2. Common(Pids(f1), Pids(f2)) \in Seq(Nat)
  BY <1>1, CommonType
<1>3. \A n \in DOMAIN Common(Pids(f1), Pids(f2)) : In(Common(Pids(f1), Pids(f2))[n], Pids(f1))
  BY <1>1, CommonType
<1>4. \A n \in DOMAIN Pids(f1) : In(Pids(f1)[n], Pids(f1))
  BY DEF In
<1>5. Common(<<>>, Pids(f2)) = <<>>
  <2>1. {k \in 1..Len(<<>>) : In(<<>>[k], Pids(f2))} = {}
    OBVIOUS
  <2> QED
    BY <2>1, AtNoPlace DEF Common
<1> QED
  BY <1>1, <1>2, <1>3, <1>4, <1>5 DEF MatchPid

(* SplitAndCheck's loop has a best split after each character. *)
LEMMA BestSplitIsReached ==
  ASSUME NEW qu \in Seq(Nat)
  PROVE  \E best : /\ BestSplit(qu) = best[Characters(qu)]
                   /\ best[0] = Nothing
                   /\ \A i \in 1..Characters(qu) : best[i] = Better(SplitAt(qu, i), best[i - 1])
<1> DEFINE n == Characters(qu)
           Step(m, f) == [i \in 0..m |->
                            IF i = 0 THEN Nothing ELSE Better(SplitAt(qu, i), f[i - 1])]
           S == {m \in 0..n : \E f : f = Step(m, f)}
<1>1. n \in Nat
  BY CutsAreWithin
<1>2. 0 \in S
  <2> DEFINE g == [i \in 0..0 |-> Nothing]
  <2>1. g = Step(0, g)
    OBVIOUS
  <2> HIDE DEF g
  <2>2. \E f : f = Step(0, f)
    BY <2>1
  <2> QED
    BY <1>1, <2>2
<1>3. ASSUME NEW m \in 0..(n - 1), m \in S PROVE m + 1 \in S
  <2>1. PICK f : f = Step(m, f)
    BY <1>3
  <2>2. m \in Nat /\ m + 1 \in 0..n
    BY <1>1
  <2> DEFINE g == [i \in 0..(m + 1) |->
                     IF i = m + 1 THEN Better(SplitAt(qu, m + 1), f[m]) ELSE f[i]]
  <2>3. \A i \in 0..m : f[i] = IF i = 0 THEN Nothing ELSE Better(SplitAt(qu, i), f[i - 1])
    BY <2>1
  <2>4. ASSUME NEW i \in 0..(m + 1)
        PROVE  g[i] = IF i = 0 THEN Nothing ELSE Better(SplitAt(qu, i), g[i - 1])
    <3>1. CASE i = m + 1
      <4>1. g[i] = Better(SplitAt(qu, i), f[m]) /\ i # 0 /\ i - 1 = m
        BY <2>2, <3>1
      <4>2. g[m] = f[m]
        BY <2>2
      <4> HIDE DEF g
      <4> QED
        BY <4>1, <4>2
    <3>2. CASE i # m + 1
      <4>1. i \in 0..m /\ g[i] = f[i]
        BY <2>2, <3>2
      <4>2. i # 0 => g[i - 1] = f[i - 1]
        BY <2>2, <4>1
      <4> HIDE DEF g
      <4> QED
        BY <2>3, <4>1, <4>2
    <3> QED
      BY <3>1, <3>2
  <2>5. g = [i \in 0..(m + 1) |-> g[i]]
    OBVIOUS
  <2> HIDE DEF g
  <2>6. g = Step(m + 1, g)
    BY <2>4, <2>5
  <2> QED
    BY <2>2, <2>6
<1>4. n \in S
  <2> HIDE DEF S, n
  <2>1. \A k \in 0..n : k \in S
    BY <1>1, <1>2, <1>3, UpToInduction
  <2> QED
    BY <1>1, <2>1
<1>5. \E f : f = Step(n, f)
  BY <1>4
<1> DEFINE best == CHOOSE f : f = Step(n, f)
<1>6. best = Step(n, best)
  BY <1>5
<1>7. BestSplit(qu) = best[n]
  BY DEF BestSplit
<1> HIDE DEF best
<1>8. best[0] = Nothing /\ \A i \in 1..n : best[i] = Better(SplitAt(qu, i), best[i - 1])
  BY <1>1, <1>6
<1> QED
  BY <1>7, <1>8

(* What CheckPid says of a split before, at and after the end. *)
LEMMA SplitPoints ==
  ASSUME RindTypeOK, NEW qu \in Seq(Nat), NEW i \in 1..Characters(qu), NEW k, k = i * u_size
  PROVE  /\ SplitAt(qu, i).pids = MatchPid(Prefix(qu, k), Ending(qu, k))
         /\ SplitAt(qu, i).ret <=> (Pids(Prefix(qu, k)) # <<>> \/ Pids(Ending(qu, k)) # <<>>)
         /\ k \in Endings(qu) => SplitAt(qu, i).point = Len(qu) - k
         /\ k \notin Endings(qu) /\ k \in Beginnings(qu) =>
              SplitAt(qu, i).point = IF k = Len(qu) THEN k + 1 ELSE k
<1>1. k \in 1..Len(qu) /\ k \in Cuts(qu)
  BY CutsAreWithin DEF Cuts
<1>2. k \in Endings(qu) <=> Ending(qu, k) \in DOMAIN rind_map
  BY <1>1 DEF Endings
<1>3. k \in Beginnings(qu) => Prefix(qu, k) \in DOMAIN rind_map
  BY PidsType DEF Beginnings
<1>4. /\ Len(Prefix(qu, k)) = k /\ Len(Ending(qu, k)) = Len(qu) - k
      /\ Ending(qu, k) = <<>> <=> k = Len(qu)
  BY <1>1, WordsOfACut
<1>5. SplitAt(qu, i) = [ret |-> Pids(Prefix(qu, k)) # <<>> \/ Pids(Ending(qu, k)) # <<>>,
                        point |-> MatchPoint(Prefix(qu, k), Ending(qu, k)),
                        pids |-> MatchPid(Prefix(qu, k), Ending(qu, k))]
  BY DEF SplitAt, CheckPid
<1>6. k \in Endings(qu) => MatchPoint(Prefix(qu, k), Ending(qu, k)) = Len(qu) - k
  BY <1>2, <1>4 DEF MatchPoint
<1>7. k \notin Endings(qu) /\ k \in Beginnings(qu) =>
        MatchPoint(Prefix(qu, k), Ending(qu, k)) = IF k = Len(qu) THEN k + 1 ELSE k
  BY <1>2, <1>3, <1>4 DEF MatchPoint
<1>8. SplitAt(qu, i).pids = MatchPid(Prefix(qu, k), Ending(qu, k))
  BY <1>5
<1>9. SplitAt(qu, i).point = MatchPoint(Prefix(qu, k), Ending(qu, k))
  BY <1>5
<1>10. SplitAt(qu, i).ret = (Pids(Prefix(qu, k)) # <<>> \/ Pids(Ending(qu, k)) # <<>>)
  BY <1>5
<1> QED
  BY <1>6, <1>7, <1>8, <1>9, <1>10

(* What the loop has after i characters is of the words it began with.      *)
LEMMA BestIsOfBeginnings ==
  ASSUME RindTypeOK, NEW qu \in Seq(Nat)
  PROVE  /\ BestSplit(qu).pids \in Seq(Nat)
         /\ \A n \in DOMAIN BestSplit(qu).pids :
              \E k \in Beginnings(qu) : In(BestSplit(qu).pids[n], Pids(Prefix(qu, k)))
<1> DEFINE n == Characters(qu)
           Good(pids) == /\ pids \in Seq(Nat)
                         /\ \A m \in DOMAIN pids :
                              \E k \in Beginnings(qu) : In(pids[m], Pids(Prefix(qu, k)))
<1>1. PICK best : /\ BestSplit(qu) = best[n] /\ best[0] = Nothing
                  /\ \A i \in 1..n : best[i] = Better(SplitAt(qu, i), best[i - 1])
  BY BestSplitIsReached
<1>2. n \in Nat
  BY CutsAreWithin
<1>3. ASSUME NEW i \in 1..n PROVE Good(SplitAt(qu, i).pids)
  <2> DEFINE k == i * u_size
             pids == MatchPid(Prefix(qu, k), Ending(qu, k))
  <2>1. SplitAt(qu, i).pids = pids
    BY SplitPoints
  <2>2. k \in Cuts(qu)
    BY DEF Cuts
  <2> HIDE DEF k
  <2>3. /\ pids \in Seq(Nat) /\ \A m \in DOMAIN pids : In(pids[m], Pids(Prefix(qu, k)))
        /\ Pids(Prefix(qu, k)) = <<>> => pids = <<>>
    BY MatchPidIsOfTheFirst
  <2>4. DOMAIN <<>> = {}
    OBVIOUS
  <2> HIDE DEF pids
  <2>5. ASSUME NEW m \in DOMAIN pids PROVE k \in Beginnings(qu)
    BY <2>2, <2>3, <2>4, <2>5 DEF Beginnings
  <2> QED
    BY <2>1, <2>3, <2>5
<1> DEFINE S == {i \in 0..n : Good(best[i].pids)}
<1>4. 0 \in S
  <2>1. best[0].pids = <<>>
    BY <1>1 DEF Nothing
  <2>2. Good(<<>>)
    OBVIOUS
  <2> HIDE DEF Good
  <2> QED
    BY <1>2, <2>1, <2>2
<1>5. ASSUME NEW i \in 0..(n - 1), i \in S PROVE i + 1 \in S
  <2>1. i + 1 \in 1..n /\ (i + 1) - 1 = i /\ i + 1 \in 0..n
    BY <1>2
  <2>2. best[i + 1] = Better(SplitAt(qu, i + 1), best[i])
    BY <1>1, <2>1
  <2>3. best[i + 1] = SplitAt(qu, i + 1) \/ best[i + 1] = best[i]
    BY <2>2 DEF Better
  <2> HIDE DEF Good
  <2>4. Good(SplitAt(qu, i + 1).pids) /\ Good(best[i].pids)
    BY <1>3, <1>5, <2>1
  <2> QED
    BY <2>1, <2>3, <2>4
<1>6. n \in S
  <2> HIDE DEF S, n
  <2>1. \A k \in 0..n : k \in S
    BY <1>2, <1>4, <1>5, UpToInduction
  <2> QED
    BY <1>2, <2>1
<1> QED
  BY <1>1, <1>6

(* A split that counts has pids on one side. *)
LEMMA CountedSplits ==
  ASSUME RindTypeOK, NEW qu \in Seq(Nat), NEW i \in 1..Characters(qu), SplitAt(qu, i).ret
  PROVE  i * u_size \in Beginnings(qu) \/ i * u_size \in Endings(qu)
<1> DEFINE k == i * u_size
<1>1. k \in Cuts(qu)
  BY DEF Cuts
<1> HIDE DEF k
<1>2. Pids(Prefix(qu, k)) # <<>> \/ Pids(Ending(qu, k)) # <<>>
  BY SplitPoints DEF k
<1>3. k \in Beginnings(qu) \/ k \in Endings(qu)
  BY <1>1, <1>2, PidsType DEF Beginnings, Endings
<1> QED
  BY <1>3 DEF k

LEMMA LongestBeginningWins ==
  ASSUME RindTypeOK, NEW qu \in Seq(Nat), NEW k \in Beginnings(qu), Endings(qu) = {},
         \A j \in Beginnings(qu) : j <= k
  PROVE  BestSplit(qu).pids = Pids(Prefix(qu, k))
<1> DEFINE n == Characters(qu)
<1>1. PICK best : /\ BestSplit(qu) = best[n] /\ best[0] = Nothing
                  /\ \A i \in 1..n : best[i] = Better(SplitAt(qu, i), best[i - 1])
  BY BestSplitIsReached
<1>2. /\ n \in Nat /\ \A i \in 1..n : i * u_size \in 1..Len(qu)
      /\ \A i, j \in 1..n : i < j <=> i * u_size < j * u_size
  BY CutsAreWithin
<1>3. PICK b \in 1..n : k = b * u_size
  BY DEF Beginnings, Cuts
<1>4. k \in 1..Len(qu) /\ Len(qu) \in Nat
  BY <1>2, <1>3
<1>5. ASSUME NEW i \in 1..n, SplitAt(qu, i).ret
      PROVE  /\ i <= b
             /\ i * u_size \in Beginnings(qu)
             /\ SplitAt(qu, i).point =
                  IF i * u_size = Len(qu) THEN i * u_size + 1 ELSE i * u_size
  <2>1. i * u_size \in Beginnings(qu)
    BY <1>5, CountedSplits
  <2>2. ~(k < i * u_size)
    BY <1>2, <1>4, <2>1
  <2> QED
    BY <1>2, <1>3, <2>1, <2>2, SplitPoints
<1>6. SplitAt(qu, b).ret /\ SplitAt(qu, b).pids = Pids(Prefix(qu, k))
  <2>1. Pids(Ending(qu, k)) = <<>>
    <3>1. k \in Cuts(qu)
      BY DEF Beginnings
    <3>2. Ending(qu, k) \notin DOMAIN rind_map
      BY <3>1 DEF Endings
    <3> QED
      BY <3>2 DEF Pids
  <2>2. /\ SplitAt(qu, b).pids = MatchPid(Prefix(qu, k), Ending(qu, k))
        /\ Pids(Prefix(qu, k)) # <<>> => SplitAt(qu, b).ret
    BY <1>3, SplitPoints
  <2>3. MatchPid(Prefix(qu, k), Ending(qu, k)) = Pids(Prefix(qu, k))
    BY <2>1 DEF MatchPid
  <2> QED
    BY <2>2, <2>3 DEF Beginnings
<1> DEFINE S == {i \in 0..n : IF i < b THEN best[i].point \in Nat /\ best[i].point < k
                              ELSE best[i].pids = Pids(Prefix(qu, k))}
<1>7. 0 \in S
  BY <1>1, <1>2, <1>4 DEF Nothing
<1>8. ASSUME NEW i \in 0..(n - 1), i \in S PROVE i + 1 \in S
  <2> DEFINE c == SplitAt(qu, i + 1)
  <2>1. i + 1 \in 1..n /\ i + 1 \in 0..n /\ (i + 1) - 1 = i
    BY <1>2
  <2>2. best[i + 1] = IF c.ret /\ c.point > best[i].point THEN c ELSE best[i]
    BY <1>1, <2>1 DEF Better
  <2>3. c.ret => /\ i + 1 <= b
                 /\ c.point = IF (i + 1) * u_size = Len(qu) THEN (i + 1) * u_size + 1
                              ELSE (i + 1) * u_size
    BY <1>5, <2>1
  <2>4. (i + 1) * u_size \in 1..Len(qu) /\ (i + 1 < b => (i + 1) * u_size < k)
    BY <1>2, <1>3, <2>1
  <2>5. CASE i + 1 < b
    <3>1. c.ret => c.point \in Nat /\ c.point < k
      BY <1>4, <2>3, <2>4, <2>5
    <3>2. best[i].point \in Nat /\ best[i].point < k
      BY <1>8, <2>5
    <3> HIDE DEF c
    <3>3. best[i + 1].point \in Nat /\ best[i + 1].point < k
      BY <2>2, <3>1, <3>2
    <3> QED
      BY <2>1, <2>5, <3>3
  <2>6. CASE i + 1 = b
    <3>1. c.ret /\ c.pids = Pids(Prefix(qu, k)) /\ c.point >= k /\ c.point \in Nat
      BY <1>3, <1>4, <1>6, <2>3, <2>6
    <3>2. best[i].point \in Nat /\ best[i].point < k
      BY <1>8, <2>6
    <3> HIDE DEF c
    <3>3. best[i + 1] = c
      BY <1>4, <2>2, <3>1, <3>2
    <3> QED
      BY <2>1, <2>6, <3>1, <3>3
  <2>7. CASE b < i + 1
    <3>1. ~c.ret
      BY <2>3, <2>7
    <3>2. best[i].pids = Pids(Prefix(qu, k))
      BY <1>8, <2>7
    <3> HIDE DEF c
    <3>3. best[i + 1] = best[i]
      BY <2>2, <3>1
    <3> QED
      BY <2>1, <2>7, <3>2, <3>3
  <2> QED
    BY <2>5, <2>6, <2>7
<1>9. n \in S
  <2> HIDE DEF S, n
  <2>1. \A j \in 0..n : j \in S
    BY <1>2, <1>7, <1>8, UpToInduction
  <2> QED
    BY <1>2, <2>1
<1> QED
  BY <1>1, <1>3, <1>9

LEMMA LongestEndingWins ==
  ASSUME RindTypeOK, NEW qu \in Seq(Nat), NEW first \in Endings(qu),
         \A j \in Endings(qu) : first <= j,
         Pids(Ending(qu, first)) # <<>>, first \notin Beginnings(qu),
         \A k \in Beginnings(qu) : Len(qu) - first > k
  PROVE  BestSplit(qu).pids = <<>>
<1> DEFINE n == Characters(qu)
           p == Len(qu) - first
<1>1. PICK best : /\ BestSplit(qu) = best[n] /\ best[0] = Nothing
                  /\ \A i \in 1..n : best[i] = Better(SplitAt(qu, i), best[i - 1])
  BY BestSplitIsReached
<1>2. /\ n \in Nat /\ \A i \in 1..n : i * u_size \in 1..Len(qu)
      /\ \A i, j \in 1..n : i < j <=> i * u_size < j * u_size
  BY CutsAreWithin
<1>3. PICK b \in 1..n : first = b * u_size
  BY DEF Endings, Cuts
<1>4. first \in 1..Len(qu) /\ Len(qu) \in Nat /\ p \in Nat
  BY <1>2, <1>3
<1>5. CASE Beginnings(qu) = {}
  <2>1. BestSplit(qu).pids \in Seq(Nat) /\ DOMAIN BestSplit(qu).pids = {}
    BY <1>5, BestIsOfBeginnings
  <2> DEFINE pids == BestSplit(qu).pids
  <2> HIDE DEF pids
  <2>2. pids \in Seq(Nat) /\ DOMAIN pids = {} => pids = <<>>
    <3>1. ASSUME pids \in Seq(Nat), DOMAIN pids = {} PROVE Len(pids) = 0
      <4>1. 1 \notin 1..Len(pids) /\ Len(pids) \in Nat
        BY <3>1
      <4> QED
        BY <4>1
    <3> QED
      BY <3>1
  <2> QED
    BY <2>1, <2>2 DEF pids
<1>6. CASE Beginnings(qu) # {}
  <2>1. p > 0
    <3>1. PICK k \in Beginnings(qu) : TRUE
      BY <1>6
    <3>2. k \in 1..Len(qu)
      BY <1>2 DEF Beginnings, Cuts
    <3> QED
      BY <1>4, <3>2
  <2>2. /\ SplitAt(qu, b).ret /\ SplitAt(qu, b).point = p /\ SplitAt(qu, b).pids = <<>>
    <3>1. Pids(Prefix(qu, first)) = <<>>
      BY DEF Beginnings, Endings
    <3>2. MatchPid(Prefix(qu, first), Ending(qu, first)) = <<>>
      BY <3>1, MatchPidIsOfTheFirst
    <3> QED
      BY <1>3, <3>2, SplitPoints
  <2>3. ASSUME NEW i \in 1..n, i # b, SplitAt(qu, i).ret
        PROVE  SplitAt(qu, i).point \in Nat /\ SplitAt(qu, i).point <= p
               /\ (i < b => SplitAt(qu, i).point < p)
    <3> DEFINE j == i * u_size
    <3>1. j \in 1..Len(qu) /\ (i < b <=> j < first) /\ j # first
      <4>1. i < b \/ b < i
        BY <1>2, <2>3
      <4>2. /\ i * u_size \in 1..Len(qu) /\ (i < b <=> i * u_size < b * u_size)
            /\ (b < i <=> b * u_size < i * u_size)
        BY <1>2
      <4> QED
        BY <1>3, <1>4, <4>1, <4>2
    <3>2. CASE j \in Endings(qu)
      <4>1. SplitAt(qu, i).point = Len(qu) - j /\ first <= j
        BY <3>2, SplitPoints
      <4> QED
        BY <1>4, <3>1, <4>1
    <3>3. CASE j \notin Endings(qu)
      <4>1. j \in Beginnings(qu)
        BY <2>3, <3>3, CountedSplits
      <4>2. SplitAt(qu, i).point = IF j = Len(qu) THEN j + 1 ELSE j
        BY <3>3, <4>1, SplitPoints
      <4>3. p > j
        BY <4>1
      <4> HIDE DEF j
      <4> QED
        BY <1>4, <3>1, <4>2, <4>3
    <3> QED
      BY <3>2, <3>3
  <2> DEFINE S == {i \in 0..n : IF i < b THEN best[i].point \in Nat /\ best[i].point < p
                                ELSE best[i].point = p /\ best[i].pids = <<>>}
  <2>4. 0 \in S
    BY <1>1, <1>2, <1>4, <2>1 DEF Nothing
  <2>5. ASSUME NEW i \in 0..(n - 1), i \in S PROVE i + 1 \in S
    <3> DEFINE c == SplitAt(qu, i + 1)
    <3>1. i + 1 \in 1..n /\ i + 1 \in 0..n /\ (i + 1) - 1 = i
      BY <1>2
    <3>2. best[i + 1] = IF c.ret /\ c.point > best[i].point THEN c ELSE best[i]
      BY <1>1, <3>1 DEF Better
    <3>3. i + 1 # b /\ c.ret =>
            c.point \in Nat /\ c.point <= p /\ (i + 1 < b => c.point < p)
      BY <2>3, <3>1
    <3>4. i + 1 = b => c.ret /\ c.point = p /\ c.pids = <<>>
      BY <2>2
    <3> HIDE DEF c, p
    <3>5. CASE i + 1 < b
      <4>1. best[i].point \in Nat /\ best[i].point < p
        BY <2>5, <3>5
      <4>2. best[i + 1].point \in Nat /\ best[i + 1].point < p
        BY <3>2, <3>3, <3>5, <4>1
      <4> QED
        BY <3>1, <3>5, <4>2
    <3>6. CASE i + 1 = b
      <4>1. best[i].point \in Nat /\ best[i].point < p
        BY <2>5, <3>6
      <4>2. best[i + 1] = c
        BY <1>4, <3>2, <3>4, <3>6, <4>1
      <4> QED
        BY <3>1, <3>4, <3>6, <4>2
    <3>7. CASE b < i + 1
      <4>1. best[i].point = p /\ best[i].pids = <<>>
        BY <2>5, <3>7
      <4>2. best[i + 1] = best[i]
        BY <1>4, <3>2, <3>3, <3>7, <4>1
      <4> QED
        BY <3>1, <3>7, <4>1, <4>2
    <3> QED
      BY <3>5, <3>6, <3>7
  <2>6. n \in S
    <3> HIDE DEF S, n
    <3>1. \A j \in 0..n : j \in S
      BY <1>2, <2>4, <2>5, UpToInduction
    <3> QED
      BY <1>2, <3>1
  <2> QED
    BY <1>1, <1>3, <2>6
<1> QED
  BY <1>5, <1>6

(* In any index, of any question.                                           *)
LEMMA LookupsFindByBeginnings ==
  ASSUME RindTypeOK, NEW qu \in Seq(Nat)
  PROVE  FindsByBeginnings(qu)
<1>1. SplitAndCheck(qu).pids = IF Characters(qu) <= 2 THEN <<>> ELSE BestSplit(qu).pids
  BY DEF SplitAndCheck
<1>2. OnlyOfBeginnings(qu)
  <2>1. CASE Characters(qu) <= 2
    BY <1>1, <2>1 DEF OnlyOfBeginnings
  <2>2. CASE ~(Characters(qu) <= 2)
    BY <1>1, <2>2, BestIsOfBeginnings DEF OnlyOfBeginnings
  <2> QED
    BY <2>1, <2>2
<1>3. ThoseOfTheLongest(qu)
  <2>1. Characters(qu) > 2 => ~(Characters(qu) <= 2)
    BY CutsAreWithin
  <2> QED
    BY <1>1, <2>1, LongestBeginningWins DEF ThoseOfTheLongest
<1>4. NoneForAnEnding(qu)
  BY <1>1, LongestEndingWins DEF NoneForAnEnding
<1> QED
  BY <1>2, <1>3, <1>4 DEF FindsByBeginnings

(* What a question finds in the index that was read, for any tables and     *)
(* questions (regex_question_doctor.cc:128-180, 248-302).                   *)
THEOREM LookupsCorrect == DoctorSpec => LookupsGoByBeginnings
<1> DEFINE Finds == \A qu \in Question : FindsByBeginnings(qu)
<1>1. RindInv => Finds
  BY LookupsFindByBeginnings, QuestionAssumption DEF RindInv
<1>2. DoctorInit => RindInv
  BY RindInit DEF DoctorInit
<1> HIDE DEF Finds
<1>3. DoctorSpec => [][At("close") /\ rind'.pc = "done" => Finds']_doctorVars
  BY <1>1, <1>2, DoctorKeepsIndex, PTL DEF DoctorSpec
<1> QED
  BY <1>3 DEF Finds, LookupsGoByBeginnings
=============================================================================
