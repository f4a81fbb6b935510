---------------------------- MODULE JokeLibrary ----------------------------
(***************************************************************************)
(* The class JokeInfo as the joke server uses it (joke.cc): Init loads the *)
(* two files, and only when it returned true does Run begin and call       *)
(* GetJokes, with the style GetJokeTypeId gives a type word, or with 0     *)
(* (wqa_mcd_proc.cc:96-97, 281-290).                                       *)
(***************************************************************************)
EXTENDS JokeInfo, GetJokes

vars == <<loadVars, callVars>>

Init == InitJokeInfo /\ IdleCall
-----------------------------------------------------------------------------
Load == LoadNext /\ UNCHANGED callVars

loadedVars == <<files, phase, line, idx, m_joke_num, m_joke_types>>

Ask ==
  /\ phase = "ready"
  /\ Call(0) \/ \E word \in Words : Call(GetJokeTypeId(word))
  /\ UNCHANGED loadedVars

Draw == (Pick \/ Crash) /\ UNCHANGED loadedVars

Answer == Return /\ UNCHANGED loadedVars

Next == Load \/ Ask \/ Draw \/ Answer

(* mcd's only thread runs; rand() reaches every value (see GetJokes). *)
Fairness == WF_vars(Load) /\ WF_vars(Draw) /\ WF_vars(Answer)

Spec == Init /\ [][Next]_vars /\ Fairness
-----------------------------------------------------------------------------
(* Type invariant. *)
TypeOK == LoadTypeOK /\ CallTypeOK

(* An answer is right: different jokes, each of a style that was asked for  *)
(* and in the dictionary the loader left.                                   *)
AnswersAreRight == AnswersAreDistinct /\ AnswersAreStocked
=============================================================================
