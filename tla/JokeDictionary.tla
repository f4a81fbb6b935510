--------------------------- MODULE JokeDictionary ---------------------------
(***************************************************************************)
(* What LoadJokeData leaves in m_jokes and GetJokes takes for granted: a   *)
(* map from style ids to non-empty sets of joke numbers, each number in    *)
(* one of them only.  (A style's vector is the set of the numbers in it:   *)
(* the position in the vector is only ever the result of rand().)          *)
(***************************************************************************)
EXTENDS Integers, FiniteSets

VARIABLES
  m_jokes,            \* style id -> the jokes of that style
  m_joke_style_num    \* number of styles counted at load time

IsDictionary(d) ==
  /\ IsFiniteSet(DOMAIN d)
  /\ DOMAIN d \subseteq Int
  /\ \A s \in DOMAIN d : d[s] # {} /\ d[s] \subseteq Nat
  /\ IsFiniteSet(UNION {d[s] : s \in DOMAIN d})
  /\ \A s, t \in DOMAIN d : s # t => d[s] \cap d[t] = {}
=============================================================================
