------------------------ MODULE RegexQuestionDoctor ------------------------
(***************************************************************************)
(* The whole RegexQuestionDoctor: the constructor reads the reverse index  *)
(* (if m_allow_token), then the notifier's thread and the requests begin.  *)
(* A crash of the constructor is one of the process, which is started      *)
(* again.                                                                  *)
(***************************************************************************)
EXTENDS RegexDoctor, ReverseIndex

CONSTANT Question  \* what SplitAndCheck may be asked

ASSUME QuestionAssumption == Question \subseteq Seq(Nat)

DoctorInit == Init /\ InitRind

ReadIndex == LoadRind /\ UNCHANGED vars

(* The new process has its faults counted on. *)
StartAgain ==
  /\ At("crashed")
  /\ rind_map' = <<>> /\ mysql' = "NULL" /\ read' = {} /\ unstored' = FALSE
  /\ rind' = [pc |-> "connect", table |-> 1]
  /\ UNCHANGED <<vars, faults>>

EditFile == Edit /\ UNCHANGED rindVars

Patterns ==
  /\ At("done") /\ UNCHANGED rindVars
  /\ \/ LoadRegexPattern
     \/ \E h \in Handler : MatchQuery(h) \/ Tokenizer(h) \/ Scan(h)

DoctorNext == ReadIndex \/ StartAgain \/ EditFile \/ Patterns

doctorVars == <<vars, rindVars>>

(* The constructor runs, the process is started again, the notifier keeps   *)
(* looking and a thread that has begun a scan runs.                         *)
DoctorFairness ==
  /\ WF_doctorVars(ReadIndex \/ StartAgain)
  /\ WF_doctorVars(At("done") /\ LoadRegexPattern /\ UNCHANGED rindVars)
  /\ \A h \in Handler : WF_doctorVars(At("done") /\ Scan(h) /\ UNCHANGED rindVars)

DoctorSpec == DoctorInit /\ [][DoctorNext]_doctorVars /\ DoctorFairness
-----------------------------------------------------------------------------
(* When the index has been read, every question finds what its beginnings   *)
(* list (regex_question_doctor.cc:128-180, 248-302).                        *)
LookupsGoByBeginnings ==
  [][At("close") /\ rind'.pc = "done" => (\A qu \in Question : FindsByBeginnings(qu))']_doctorVars
=============================================================================
