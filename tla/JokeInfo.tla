------------------------------ MODULE JokeInfo ------------------------------
(***************************************************************************)
(* JokeInfo::Init (joke.cc): reads joke_info.dat and joke_types.dat line   *)
(* by line into m_jokes and m_joke_types.                                  *)
(*                                                                         *)
(* A line of joke_info.dat is the style id atoi() finds in its first       *)
(* field, or Skip for a line the loop ignores ('#', empty, not exactly two *)
(* fields); a line of joke_types.dat is a pair <<word, id>>, or Skip.      *)
(***************************************************************************)
EXTENDS JokeDictionary, Sequences

CONSTANTS
  JokeFiles,      \* possible contents of joke_info.dat
  TypeFiles,      \* possible contents of joke_types.dat
  Words,          \* the words a type can be named by
  Skip,           \* a line the loader ignores
  Missing,        \* fopen() failed
  W32             \* 2^32: one past the largest uint32_t

ASSUME JokeInfoAssumption ==
  /\ Skip \notin Int /\ Skip \notin Words \X Int
  /\ \A f \in JokeFiles : f = Missing \/ f \in Seq(Int \cup {Skip})
  /\ \A f \in TypeFiles : f = Missing \/ f \in Seq((Words \X Int) \cup {Skip})
  /\ W32 \in Nat \ {0}

VARIABLES
  joke_file, type_file,  \* what the two files hold
  phase,                 \* "open", "jokes", "types", "ready", "failed"
  line,                  \* the line getline() reads next
  idx,                   \* LoadJokeData's counter of jokes
  m_joke_num, m_joke_types

loadVars == <<joke_file, type_file, phase, line, idx,
          m_jokes, m_joke_num, m_joke_style_num, m_joke_types>>

files == <<joke_file, type_file>>

InitJokeInfo ==
  /\ joke_file \in JokeFiles /\ type_file \in TypeFiles
  /\ phase = "open" /\ line = 1 /\ idx = 0
  /\ m_jokes = <<>> /\ m_joke_num = 0 /\ m_joke_style_num = 0
  /\ m_joke_types = <<>>
-----------------------------------------------------------------------------
(* LoadJokeData *)
OpenJokeInfo ==
  /\ phase = "open"
  /\ phase' = IF joke_file = Missing THEN "failed" ELSE "jokes"
  /\ UNCHANGED <<files, line, idx, m_jokes, m_joke_num, m_joke_style_num,
                 m_joke_types>>

NextLine(n) == n + 1

SkipLine(ph, file) ==
  /\ phase = ph /\ line \in DOMAIN file /\ file[line] = Skip
  /\ line' = NextLine(line)
  /\ UNCHANGED <<files, phase, idx, m_jokes, m_joke_num, m_joke_style_num,
                 m_joke_types>>

(* Mutant: the style's vector is replaced, not appended to. *)
PushBackNew(style_id, i) ==
  [s \in DOMAIN m_jokes \cup {style_id} |-> IF s = style_id THEN {i} ELSE m_jokes[s]]

(* m_jokes with joke number i added at the end of style_id's vector. *)
PushBack(style_id, i) ==
  [s \in DOMAIN m_jokes \cup {style_id} |->
     (IF s \in DOMAIN m_jokes THEN m_jokes[s] ELSE {})
       \cup (IF s = style_id THEN {i} ELSE {})]

LoadJoke ==
  /\ phase = "jokes" /\ line \in DOMAIN joke_file /\ joke_file[line] # Skip
  /\ m_jokes' = PushBack(joke_file[line], idx)
  /\ idx' = idx + 1
  /\ line' = NextLine(line)
  /\ UNCHANGED <<files, phase, m_joke_num, m_joke_style_num, m_joke_types>>

(* m_joke_num = idx - 1, a uint32_t.  Mutant: the difference is not wrapped. *)
SignedJokeNum(n) == n - 1
JokeNum(n) == (n - 1) % W32

(* End of joke_info.dat, then LodaTypes opens joke_types.dat. *)
EndOfJokes ==
  /\ phase = "jokes" /\ line \notin DOMAIN joke_file
  /\ m_joke_num' = JokeNum(idx)
  /\ m_joke_style_num' = Cardinality(DOMAIN m_jokes)
  /\ phase' = IF type_file = Missing THEN "failed" ELSE "types"
  /\ line' = 1
  /\ UNCHANGED <<files, idx, m_jokes, m_joke_types>>

(* map::insert: the first line naming a word decides. *)
Insert(word, id) ==
  [w \in DOMAIN m_joke_types \cup {word} |->
     IF w \in DOMAIN m_joke_types THEN m_joke_types[w] ELSE id]

LoadType ==
  /\ phase = "types" /\ line \in DOMAIN type_file /\ type_file[line] # Skip
  /\ m_joke_types' = Insert(type_file[line][1], type_file[line][2])
  /\ line' = NextLine(line)
  /\ UNCHANGED <<files, phase, idx, m_jokes, m_joke_num, m_joke_style_num>>

EndOfTypes ==
  /\ phase = "types" /\ line \notin DOMAIN type_file
  /\ phase' = "ready"
  /\ UNCHANGED <<files, line, idx, m_jokes, m_joke_num, m_joke_style_num,
                 m_joke_types>>

(* GetJokeTypeId: an unknown word is style 0, which GetJokes reads as "any". *)
GetJokeTypeId(word) ==
  IF word \in DOMAIN m_joke_types THEN m_joke_types[word] ELSE 0

LoadNext ==
  \/ OpenJokeInfo
  \/ SkipLine("jokes", joke_file)
  \/ LoadJoke
  \/ EndOfJokes
  \/ SkipLine("types", type_file)
  \/ LoadType
  \/ EndOfTypes

LoadSpec == InitJokeInfo /\ [][LoadNext]_loadVars /\ WF_loadVars(LoadNext)
-----------------------------------------------------------------------------
(* Type invariant of the loader. *)
LoadTypeOK ==
  /\ joke_file \in JokeFiles /\ type_file \in TypeFiles
  /\ phase \in {"open", "jokes", "types", "ready", "failed"}
  /\ phase \in {"jokes", "types", "ready"} => joke_file # Missing
  /\ phase \in {"types", "ready"} => type_file # Missing
  /\ line \in Nat \ {0}
  /\ idx \in Nat
  /\ DOMAIN m_jokes \subseteq Int /\ IsFiniteSet(DOMAIN m_jokes)
  /\ m_joke_num \in 0..(W32 - 1)
  /\ m_joke_style_num \in Nat
  /\ DOMAIN m_joke_types \subseteq Words
  /\ \A w \in DOMAIN m_joke_types : m_joke_types[w] \in Int

(* The vectors partition the numbers handed out so far: none is empty, no   *)
(* number is in two of them, none is skipped.  GetJokes relies on it: a     *)
(* number names one joke (his_idx), and size() of a style found is not 0.   *)
JokesPartitioned ==
  /\ \A s \in DOMAIN m_jokes : m_jokes[s] # {}
  /\ \A s, t \in DOMAIN m_jokes : s # t => m_jokes[s] \cap m_jokes[t] = {}
  /\ UNION {m_jokes[s] : s \in DOMAIN m_jokes} = 0..(idx - 1)

(* The reference the loop is compared with: style s holds the numbers of    *)
(* the lines of that style, numbering the joke lines from 0.                *)
JokeLines(f) == {i \in DOMAIN f : f[i] # Skip}
Number(f, i) == Cardinality({h \in JokeLines(f) : h < i})
Grouped(f) == [s \in {f[i] : i \in JokeLines(f)} |->
                 {Number(f, i) : i \in {h \in JokeLines(f) : f[h] = s}}]

(* LoadJokeData computes that grouping of the file it read (joke.cc:44-84), *)
(* and the style count it leaves is the number of styles in the file.       *)
LoadsTheFile ==
  phase \in {"types", "ready"} =>
    /\ m_jokes = Grouped(joke_file)
    /\ m_joke_style_num = Cardinality({joke_file[i] : i \in JokeLines(joke_file)})
=============================================================================
