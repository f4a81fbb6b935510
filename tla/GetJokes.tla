------------------------------ MODULE GetJokes ------------------------------
(***************************************************************************)
(* JokeInfo::GetJokes (joke.cc): rejection sampling of MAX_JOKE_NUM        *)
(* different jokes out of the dictionary JokeInfo::Init loaded.            *)
(*                                                                         *)
(* A joke is its number (Joke.idx).  Every call of rand() is one step, so  *)
(* a call that never ends is visible, and so is a division by zero         *)
(* (gpc = "crashed").                                                      *)
(***************************************************************************)
EXTENDS JokeDictionary, Sequences

CONSTANTS
  Dictionaries,   \* what m_jokes can be once JokeInfo::Init returned true
                  \* (proved of its steps: JokeLibraryProofs, DictionaryCorrect)
  MAX_JOKE_NUM,   \* joke.h: how many jokes an answer has
  QueryStyles     \* the style ids callers pass, 0 ("any style") among them

ASSUME GetJokesAssumption ==
  /\ \A d \in Dictionaries : IsDictionary(d)
  /\ MAX_JOKE_NUM \in Nat \ {0}
  /\ QueryStyles \subseteq Int

VARIABLES
  gpc,                \* "idle", "any", "one": where GetJokes is; "crashed"
  style,              \* the argument of the running (or last) call
  his_idx,            \* jokes already picked by this call
  ans_vec             \* the caller's answer vector

dictVars == <<m_jokes, m_joke_style_num>>
callVars == <<gpc, style, his_idx, ans_vec>>
jokeVars == <<m_jokes, m_joke_style_num, gpc, style, his_idx, ans_vec>>

Joke == [style : Int, idx : Nat]

StyleNum(d) == Cardinality(DOMAIN d)

LoadDictionary(d) ==
  /\ m_jokes = d
  /\ m_joke_style_num = StyleNum(d)

IdleCall == gpc = "idle" /\ style = 0 /\ his_idx = {} /\ ans_vec = <<>>

JokeInit == (\E d \in Dictionaries : LoadDictionary(d)) /\ IdleCall

-----------------------------------------------------------------------------
Branch(s) == IF s = 0 THEN "any" ELSE IF s \in DOMAIN m_jokes THEN "one" ELSE "idle"

(* Mutant: the history is a member, and outlives the call. *)
CallKeepingHistory(s) ==
  /\ gpc = "idle"
  /\ style' = s /\ ans_vec' = <<>> /\ his_idx' = his_idx
  /\ gpc' = Branch(s)
  /\ UNCHANGED dictVars

(* The call: clear both the answer and the history, then branch. *)
Call(s) ==
  /\ gpc = "idle"
  /\ style' = s
  /\ ans_vec' = <<>>
  /\ his_idx' = {}
  /\ gpc' = Branch(s)
  /\ UNCHANGED dictVars

(* Mutant: the history is looked up and never written. *)
KeepUnrecorded(s, j) ==
  /\ j \notin his_idx
  /\ ans_vec' = Append(ans_vec, [style |-> s, idx |-> j])
  /\ his_idx' = his_idx

(* A pick is kept only when its number is not in the history. *)
KeepIfNew(s, j) ==
  /\ j \notin his_idx
  /\ ans_vec' = Append(ans_vec, [style |-> s, idx |-> j])
  /\ his_idx' = his_idx \cup {j}

(* Mutant: off by one. *)
EnoughButOne(n) == n + 1 >= MAX_JOKE_NUM
Enough(n) == n >= MAX_JOKE_NUM

Sampling(branch) == gpc = branch /\ ~Enough(Len(ans_vec))

(* rand() % m_joke_style_num + 1.  Mutant: without the + 1. *)
AnyStyleFromZero == 0..(m_joke_style_num - 1)
AnyStyle == 1..m_joke_style_num

(* Style 0: a style in 1 .. m_joke_style_num, then a joke of that style. *)
PickAny(s, j) ==
  /\ Sampling("any")
  /\ s \in AnyStyle /\ s \in DOMAIN m_jokes /\ j \in m_jokes[s]
  /\ KeepIfNew(s, j)
  /\ UNCHANGED <<m_jokes, m_joke_style_num, gpc, style>>

PickOne(j) ==
  /\ Sampling("one")
  /\ j \in m_jokes[style]
  /\ KeepIfNew(style, j)
  /\ UNCHANGED <<m_jokes, m_joke_style_num, gpc, style>>

(* rand() % 0 when no style was loaded. *)
NoStyleCrash ==
  /\ Sampling("any")
  /\ m_joke_style_num = 0
  /\ gpc' = "crashed"
  /\ UNCHANGED <<m_jokes, m_joke_style_num, style, his_idx, ans_vec>>

(* rand() % size() of the empty vector operator[] has just inserted for a   *)
(* style that is not there; the vector is lost with the process.            *)
GapCrash(s) ==
  /\ Sampling("any")
  /\ s \in AnyStyle /\ s \notin DOMAIN m_jokes
  /\ gpc' = "crashed"
  /\ UNCHANGED <<m_jokes, m_joke_style_num, style, his_idx, ans_vec>>

Return ==
  /\ gpc \in {"any", "one"}
  /\ Enough(Len(ans_vec))
  /\ gpc' = "idle"
  /\ UNCHANGED <<m_jokes, m_joke_style_num, style, his_idx, ans_vec>>

(* A pick that is already in the history changes nothing: it is a           *)
(* stuttering step, and needs no action.                                    *)
Pick ==
  \/ \E s \in DOMAIN m_jokes : \E j \in m_jokes[s] : PickAny(s, j)
  \/ \E s \in DOMAIN m_jokes : s = style /\ \E j \in m_jokes[s] : PickOne(j)

Crash == NoStyleCrash \/ \E s \in AnyStyle : GapCrash(s)

CallNext ==
  \/ \E s \in QueryStyles : Call(s)
  \/ Pick
  \/ Crash
  \/ Return

(***************************************************************************)
(* The loop never blocks, and rand() reaches every value: a joke that has  *)
(* not been picked yet is picked eventually, unless the process dies.      *)
(***************************************************************************)
CallFairness == WF_jokeVars(Pick \/ Crash) /\ WF_jokeVars(Return)

CallSpec == JokeInit /\ [][CallNext]_jokeVars /\ CallFairness
-----------------------------------------------------------------------------
(* Where the jokes of a call come from: the styles it can reach. *)
Reachable(s) ==
  IF s = 0 THEN DOMAIN m_jokes \cap (1..m_joke_style_num) ELSE {s} \cap DOMAIN m_jokes

Stock(s) == UNION {m_jokes[t] : t \in Reachable(s)}

(* Type invariant of the sampling state. *)
CallTypeOK ==
  /\ m_joke_style_num \in Nat
  /\ DOMAIN m_jokes \subseteq Int /\ IsFiniteSet(DOMAIN m_jokes)
  /\ \A s \in DOMAIN m_jokes : m_jokes[s] \subseteq Nat
  /\ IsFiniteSet(UNION {m_jokes[s] : s \in DOMAIN m_jokes})
  /\ gpc \in {"idle", "any", "one", "crashed"}
  /\ style \in Int
  /\ his_idx \subseteq Nat
  /\ ans_vec \in Seq(Joke)

(* The answers never repeat a joke, none is of a style other than the one   *)
(* asked for, and each is in the dictionary under the style it is labelled  *)
(* with: joke.cc 149-168 and 177-198, whose only defence is his_idx.        *)
AnswersAreDistinct ==
  \A i, j \in DOMAIN ans_vec : i # j => ans_vec[i].idx # ans_vec[j].idx

AnswersAreStocked ==
  \A i \in DOMAIN ans_vec :
    /\ ans_vec[i].style \in Reachable(style)
    /\ ans_vec[i].idx \in m_jokes[ans_vec[i].style]

(* The process dies only on a call for any style, and only when the loaded *)
(* styles are not exactly 1 .. m_joke_style_num (joke.cc:150-152).          *)
CrashOnlyOnGap ==
  gpc = "crashed" =>
    /\ style = 0
    /\ \/ m_joke_style_num = 0
       \/ \E s \in 1..m_joke_style_num : s \notin DOMAIN m_jokes

(* A call returns either nothing, for a style without jokes, or exactly     *)
(* MAX_JOKE_NUM jokes; so a call for a style with fewer can never return    *)
(* (joke.cc:149, 177: i only advances on a new joke).                       *)
ReturnsAllOrNothing ==
  gpc = "idle" => Len(ans_vec) \in {0, MAX_JOKE_NUM}

NoReturnWhenScarce ==
  [][(gpc \in {"any", "one"} /\ gpc' = "idle")
       => Cardinality(Stock(style)) >= MAX_JOKE_NUM]_jokeVars

(* A call on a dictionary that is dense and has enough jokes does return.   *)
Dense == m_joke_style_num > 0 /\ 1..m_joke_style_num \subseteq DOMAIN m_jokes

CallReturns ==
  (/\ gpc \in {"any", "one"}
   /\ style = 0 => Dense
   /\ Cardinality(Stock(style)) >= MAX_JOKE_NUM) ~> (gpc = "idle")
=============================================================================
