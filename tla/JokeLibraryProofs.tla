-------------------------- MODULE JokeLibraryProofs --------------------------
(***************************************************************************)
(* The dictionary of jokes, for all files, all words and any number of     *)
(* answers: what JokeInfo::Init leaves in m_jokes, how GetJokes draws from  *)
(* it, and the library as a whole.  What the loader leaves is what GetJokes *)
(* assumes (DictionaryAssumed), and neither disturbs the other, so the      *)
(* invariants of the two parts hold of their composition.                   *)
(*                                                                         *)
(* Then the text helpers its files are read with, for all texts: Split,     *)
(* which takes their lines apart, the lower-casings, the kinds of words.    *)
(***************************************************************************)
EXTENDS JokeLibrary, Words, DataLemmas

(* The loader: what JokeInfo::Init leaves in m_jokes. *)
LEMMA FileLines ==
  ASSUME LoadTypeOK
  PROVE  /\ phase = "jokes" => joke_file \in Seq(Int \cup {Skip})
         /\ phase = "types" => type_file \in Seq((Words \X Int) \cup {Skip})
  BY JokeInfoAssumption DEF LoadTypeOK

LEMMA LoadTypeInit == InitJokeInfo => LoadTypeOK
<1> SUFFICES ASSUME InitJokeInfo PROVE LoadTypeOK
  OBVIOUS
<1>1. /\ DOMAIN m_jokes = {} /\ DOMAIN m_joke_types = {}
      /\ IsFiniteSet({})
  BY FS_EmptySet DEF InitJokeInfo
<1>2. m_joke_num \in 0..(W32 - 1)
  BY JokeInfoAssumption DEF InitJokeInfo
<1>3. QED
  BY <1>1, <1>2 DEF InitJokeInfo, LoadTypeOK

LEMMA LoadTypeStep == LoadTypeOK /\ [LoadNext]_loadVars => LoadTypeOK'
<1> SUFFICES ASSUME LoadTypeOK, [LoadNext]_loadVars PROVE LoadTypeOK'
  OBVIOUS
<1>1. CASE UNCHANGED loadVars
  BY <1>1 DEF loadVars, LoadTypeOK
<1>2. CASE OpenJokeInfo
  BY <1>2 DEF OpenJokeInfo, files, LoadTypeOK
<1>3. ASSUME NEW ph \in {"jokes", "types"}, NEW file, SkipLine(ph, file)
      PROVE  LoadTypeOK'
  BY <1>3 DEF SkipLine, NextLine, files, LoadTypeOK
<1>4. CASE LoadJoke
  <2>1. joke_file[line] \in Int
    BY <1>4, FileLines DEF LoadJoke
  <2>2. DOMAIN m_jokes' = DOMAIN m_jokes \cup {joke_file[line]}
    BY <1>4 DEF LoadJoke, PushBack
  <2>3. DOMAIN m_jokes' \subseteq Int /\ IsFiniteSet(DOMAIN m_jokes')
    BY <2>1, <2>2, FS_AddElement DEF LoadTypeOK
  <2>4. QED
    BY <1>4, <2>3 DEF LoadJoke, NextLine, files, LoadTypeOK
<1>5. CASE EndOfJokes
  <2>1. (idx - 1) % W32 \in 0..(W32 - 1)
    BY JokeInfoAssumption DEF LoadTypeOK
  <2>2. Cardinality(DOMAIN m_jokes) \in Nat
    BY FS_CardinalityType DEF LoadTypeOK
  <2>3. QED
    BY <1>5, <2>1, <2>2 DEF EndOfJokes, JokeNum, files, LoadTypeOK
<1>6. CASE LoadType
  <2> DEFINE word == type_file[line][1]
             id   == type_file[line][2]
  <2>1. word \in Words /\ id \in Int
    BY <1>6, FileLines DEF LoadType
  <2>2. m_joke_types' = [w \in DOMAIN m_joke_types \cup {word} |->
                           IF w \in DOMAIN m_joke_types THEN m_joke_types[w] ELSE id]
    BY <1>6 DEF LoadType, Insert
  <2> HIDE DEF word, id
  <2>3. /\ DOMAIN m_joke_types' \subseteq Words
        /\ \A w \in DOMAIN m_joke_types' : m_joke_types'[w] \in Int
    BY <2>1, <2>2 DEF LoadTypeOK
  <2>4. /\ line' = line + 1
        /\ UNCHANGED <<files, phase, idx, m_jokes, m_joke_num, m_joke_style_num>>
    BY <1>6 DEF LoadType, NextLine
  <2>5. QED
    BY <2>3, <2>4 DEF files, LoadTypeOK
<1>7. CASE EndOfTypes
  BY <1>7 DEF EndOfTypes, files, LoadTypeOK
<1>8. QED
  BY <1>1, <1>2, <1>3, <1>4, <1>5, <1>6, <1>7 DEF LoadNext

(* The loader's variables keep their types, whatever the files hold. *)
THEOREM LoadTypeCorrect == LoadSpec => []LoadTypeOK
  BY LoadTypeInit, LoadTypeStep, PTL DEF LoadSpec
-----------------------------------------------------------------------------
LEMMA PartitionInit == InitJokeInfo => JokesPartitioned
<1> SUFFICES ASSUME InitJokeInfo PROVE JokesPartitioned
  OBVIOUS
<1>1. DOMAIN m_jokes = {} /\ 0..(idx - 1) = {}
  BY DEF InitJokeInfo
<1>2. QED
  BY <1>1 DEF JokesPartitioned

(* Number i, the next one, goes to exactly one vector. *)
LEMMA PushBackPartitions ==
  ASSUME LoadTypeOK, JokesPartitioned, NEW style_id \in Int,
         m_jokes' = PushBack(style_id, idx), idx' = idx + 1
  PROVE  JokesPartitioned'
<1>1. /\ DOMAIN m_jokes' = DOMAIN m_jokes \cup {style_id}
      /\ \A s \in DOMAIN m_jokes' :
           m_jokes'[s] = (IF s \in DOMAIN m_jokes THEN m_jokes[s] ELSE {})
                           \cup (IF s = style_id THEN {idx} ELSE {})
  BY DEF PushBack
<1>2. /\ idx \in Nat
      /\ \A s \in DOMAIN m_jokes : m_jokes[s] \subseteq 0..(idx - 1)
  BY DEF JokesPartitioned, LoadTypeOK
<1>3. \A s \in DOMAIN m_jokes : idx \notin m_jokes[s]
  BY <1>2
<1>4. \A s \in DOMAIN m_jokes' : m_jokes'[s] # {}
  BY <1>1 DEF JokesPartitioned
<1>5. \A s, t \in DOMAIN m_jokes' : s # t => m_jokes'[s] \cap m_jokes'[t] = {}
  BY <1>1, <1>3 DEF JokesPartitioned
<1>6. UNION {m_jokes'[s] : s \in DOMAIN m_jokes'} = 0..(idx - 1) \cup {idx}
  <2>1. ASSUME NEW s \in DOMAIN m_jokes', NEW j \in m_jokes'[s]
        PROVE  j \in 0..(idx - 1) \cup {idx}
    BY <1>1, <1>2
  <2>2. ASSUME NEW j \in 0..(idx - 1)
        PROVE  \E s \in DOMAIN m_jokes' : j \in m_jokes'[s]
    <3>1. PICK s \in DOMAIN m_jokes : j \in m_jokes[s]
      BY DEF JokesPartitioned
    <3>2. QED
      BY <1>1, <3>1
  <2>3. \E s \in DOMAIN m_jokes' : idx \in m_jokes'[s]
    BY <1>1
  <2>4. QED
    BY <2>1, <2>2, <2>3
<1>7. 0..(idx - 1) \cup {idx} = 0..(idx' - 1)
  BY <1>2
<1>8. QED
  BY <1>4, <1>5, <1>6, <1>7 DEF JokesPartitioned

LEMMA PartitionStep == LoadTypeOK /\ JokesPartitioned /\ [LoadNext]_loadVars => JokesPartitioned'
<1> SUFFICES ASSUME LoadTypeOK, JokesPartitioned, [LoadNext]_loadVars PROVE JokesPartitioned'
  OBVIOUS
<1>1. CASE LoadJoke
  <2>1. joke_file[line] \in Int
    BY <1>1, FileLines DEF LoadJoke
  <2>2. QED
    BY <1>1, <2>1, PushBackPartitions DEF LoadJoke
<1>2. CASE ~LoadJoke
  <2>1. UNCHANGED <<idx, m_jokes>>
    BY <1>2 DEF LoadNext, loadVars, OpenJokeInfo, SkipLine, EndOfJokes, LoadType, EndOfTypes
  <2>2. QED
    BY <2>1 DEF JokesPartitioned
<1>3. QED
  BY <1>1, <1>2

(* No vector of m_jokes is empty, and a joke's number is in one of them.    *)
THEOREM PartitionCorrect == LoadSpec => []JokesPartitioned
  BY PartitionInit, PartitionStep, LoadTypeCorrect, PTL DEF LoadSpec
-----------------------------------------------------------------------------
(* How far the grouping has come: the joke lines before `line' are in       *)
(* m_jokes, each under its number, and idx counts them.                     *)
LinesRead == {i \in JokeLines(joke_file) : i < line}

Part(f, lines) == [s \in {f[i] : i \in lines} |->
                     {Number(f, i) : i \in {h \in lines : f[h] = s}}]

GroupedSoFar ==
  phase \in {"open", "jokes"} =>
    /\ phase = "open" => line = 1
    /\ m_jokes = (IF phase = "open" THEN <<>> ELSE Part(joke_file, LinesRead))
    /\ idx = (IF phase = "open" THEN 0 ELSE Cardinality(LinesRead))

LoadInv == LoadTypeOK /\ GroupedSoFar /\ LoadsTheFile

LEMMA LinesReadFinite ==
  ASSUME LoadTypeOK, phase = "jokes"
  PROVE  IsFiniteSet(LinesRead) /\ LinesRead \subseteq 1..(line - 1)
<1>1. LinesRead \subseteq 1..(line - 1)
  BY FileLines DEF LinesRead, JokeLines, LoadTypeOK
<1>2. IsFiniteSet(1..(line - 1))
  BY FS_Interval DEF LoadTypeOK
<1>3. QED
  BY <1>1, <1>2, FS_Subset

(* A skipped line leaves the part read as it is. *)
LEMMA SkipKeepsPart ==
  ASSUME LoadTypeOK, GroupedSoFar, SkipLine("jokes", joke_file)
  PROVE  GroupedSoFar'
<1>1. /\ phase = "jokes" /\ line' = line + 1
      /\ UNCHANGED <<phase, joke_file, m_jokes, idx>>
      /\ line \notin JokeLines(joke_file)
  BY DEF SkipLine, NextLine, files, JokeLines
<1>2. line \in Nat /\ JokeLines(joke_file) \subseteq Nat
  BY <1>1, FileLines DEF JokeLines, LoadTypeOK
<1>3. LinesRead' = LinesRead
  BY <1>1, <1>2 DEF LinesRead, JokeLines
<1>4. Part(joke_file, LinesRead)' = Part(joke_file, LinesRead)
  BY <1>1, <1>3 DEF Part, Number, JokeLines
<1>5. QED
  BY <1>1, <1>3, <1>4 DEF GroupedSoFar

(* A joke line adds itself, under the number idx. *)
LEMMA LoadJokeAddsLine ==
  ASSUME LoadTypeOK, GroupedSoFar, LoadJoke
  PROVE  GroupedSoFar'
<1> DEFINE f == joke_file
<1>1. /\ phase = "jokes" /\ line \in JokeLines(f) /\ f' = f /\ line \in Nat
      /\ JokeLines(f) \subseteq Nat
  BY FileLines DEF LoadJoke, files, JokeLines, LoadTypeOK
<1>2. LinesRead' = LinesRead \cup {line} /\ line \notin LinesRead
  BY <1>1 DEF LoadJoke, NextLine, LinesRead, JokeLines
<1>3. Number(f, line) = Cardinality(LinesRead)
  BY DEF Number, LinesRead
<1>4. Cardinality(LinesRead') = Cardinality(LinesRead) + 1
  BY <1>1, <1>2, LinesReadFinite, FS_AddElement
<1>5. m_jokes = Part(f, LinesRead) /\ idx = Cardinality(LinesRead)
  BY <1>1 DEF GroupedSoFar
<1>6. Part(f, LinesRead \cup {line}) = PushBack(f[line], Number(f, line))
  <2> DEFINE old == {f[i] : i \in LinesRead}
             new == {f[i] : i \in LinesRead \cup {line}}
             nums(s, lines) == {Number(f, i) : i \in {h \in lines : f[h] = s}}
  <2>1. new = old \cup {f[line]} /\ DOMAIN m_jokes = old
    BY <1>5 DEF Part
  <2>2. ASSUME NEW s \in new
        PROVE  nums(s, LinesRead \cup {line}) =
                 (IF s \in old THEN m_jokes[s] ELSE {})
                   \cup (IF s = f[line] THEN {Number(f, line)} ELSE {})
    <3>1. s \in old => m_jokes[s] = nums(s, LinesRead)
      BY <1>5 DEF Part
    <3>2. s \notin old => {h \in LinesRead : f[h] = s} = {}
      OBVIOUS
    <3>3. s \notin old => nums(s, LinesRead) = {}
      BY <3>2
    <3>4. {h \in LinesRead \cup {line} : f[h] = s} =
            {h \in LinesRead : f[h] = s} \cup (IF s = f[line] THEN {line} ELSE {})
      OBVIOUS
    <3>5. nums(s, LinesRead \cup {line}) =
            nums(s, LinesRead) \cup (IF s = f[line] THEN {Number(f, line)} ELSE {})
      BY <3>4
    <3>6. QED
      BY <3>1, <3>3, <3>5
  <2>3. QED
    BY <2>1, <2>2 DEF Part, PushBack
<1>7. QED
  BY <1>1, <1>2, <1>3, <1>4, <1>5, <1>6 DEF LoadJoke, GroupedSoFar, Part, Number, JokeLines

(* At the end of the file the part read is the whole. *)
LEMMA EndGroups ==
  ASSUME LoadTypeOK, GroupedSoFar, EndOfJokes
  PROVE  LoadsTheFile'
<1>1. LinesRead = JokeLines(joke_file)
  BY FileLines DEF EndOfJokes, LinesRead, JokeLines, LoadTypeOK
<1>2. m_jokes = Grouped(joke_file)
  BY <1>1 DEF EndOfJokes, GroupedSoFar, Part, Grouped
<1>3. DOMAIN Grouped(joke_file) = {joke_file[i] : i \in JokeLines(joke_file)}
  BY DEF Grouped
<1>4. /\ m_jokes' = m_jokes /\ joke_file' = joke_file
      /\ m_joke_style_num' = Cardinality(DOMAIN m_jokes)
  BY DEF EndOfJokes, files
<1>5. QED
  BY <1>2, <1>3, <1>4 DEF LoadsTheFile, Grouped, JokeLines, Number

LEMMA InvInit == InitJokeInfo => LoadInv
<1>1. InitJokeInfo => GroupedSoFar /\ LoadsTheFile
  BY DEF InitJokeInfo, GroupedSoFar, LoadsTheFile
<1>2. QED
  BY <1>1, LoadTypeInit DEF LoadInv

LEMMA InvStep == LoadInv /\ [LoadNext]_loadVars => LoadInv'
<1> SUFFICES ASSUME LoadTypeOK, GroupedSoFar, LoadsTheFile, [LoadNext]_loadVars
             PROVE  GroupedSoFar' /\ LoadsTheFile'
  BY LoadTypeStep DEF LoadInv
<1>1. CASE UNCHANGED loadVars
  <2>1. UNCHANGED <<joke_file, phase, line, idx, m_jokes, m_joke_style_num>>
    BY <1>1 DEF loadVars
  <2>2. LinesRead' = LinesRead
    BY <2>1 DEF LinesRead, JokeLines
  <2>3. Part(joke_file, LinesRead)' = Part(joke_file, LinesRead)
    BY <2>1, <2>2 DEF Part, Number, JokeLines
  <2>4. GroupedSoFar'
    BY <2>1, <2>2, <2>3 DEF GroupedSoFar
  <2>5. LoadsTheFile'
    BY <2>1 DEF LoadsTheFile, Grouped, Number, JokeLines
  <2>6. QED
    BY <2>4, <2>5
<1>2. CASE OpenJokeInfo
  <2>1. CASE phase' = "failed"
    BY <1>2, <2>1 DEF OpenJokeInfo, GroupedSoFar, LoadsTheFile
  <2>2. CASE phase' = "jokes"
    <3>1. joke_file \in Seq(Int \cup {Skip}) /\ joke_file' = joke_file /\ line' = 1
      BY <1>2, <2>2, JokeInfoAssumption DEF OpenJokeInfo, GroupedSoFar, files, LoadTypeOK
    <3>2. LinesRead' = {}
      BY <3>1 DEF LinesRead, JokeLines
    <3>3. Part(joke_file, {}) = <<>> /\ Cardinality({}) = 0
      BY FS_EmptySet DEF Part
    <3>4. m_jokes' = <<>> /\ idx' = 0
      BY <1>2 DEF OpenJokeInfo, GroupedSoFar
    <3>5. Part(joke_file, LinesRead)' = Part(joke_file, {})
      BY <3>1, <3>2 DEF Part, Number, JokeLines
    <3>6. QED
      BY <1>2, <2>2, <3>2, <3>3, <3>4, <3>5 DEF GroupedSoFar, LoadsTheFile
  <2>3. QED
    BY <1>2, <2>1, <2>2 DEF OpenJokeInfo
<1>3. CASE SkipLine("jokes", joke_file)
  BY <1>3, SkipKeepsPart DEF SkipLine, LoadsTheFile
<1>4. CASE LoadJoke
  BY <1>4, LoadJokeAddsLine DEF LoadJoke, LoadsTheFile
<1>5. CASE EndOfJokes
  BY <1>5, EndGroups DEF EndOfJokes, GroupedSoFar
<1>6. CASE SkipLine("types", type_file) \/ LoadType \/ EndOfTypes
  <2>1. /\ phase = "types" /\ phase' \in {"types", "ready"}
        /\ UNCHANGED <<joke_file, m_jokes, m_joke_style_num>>
    BY <1>6 DEF SkipLine, LoadType, EndOfTypes, files
  <2>2. QED
    BY <2>1 DEF GroupedSoFar, LoadsTheFile, Grouped, Number, JokeLines
<1>7. QED
  BY <1>1, <1>2, <1>3, <1>4, <1>5, <1>6 DEF LoadNext

(* InitJokeInfo groups the joke lines of the file by style, numbering them in       *)
(* order, and counts the styles, whatever the file holds.                   *)
THEOREM LoadsTheFileCorrect == LoadSpec => []LoadsTheFile
<1>1. LoadInv => LoadsTheFile
  BY DEF LoadInv
<1>2. QED
  BY <1>1, InvInit, InvStep, PTL DEF LoadSpec

(* What GetJokes assumes of the map it samples from.                        *)
THEOREM DictionaryCorrect == LoadSpec => []IsDictionary(m_jokes)
<1>1. ASSUME LoadTypeOK, JokesPartitioned
      PROVE  IsDictionary(m_jokes)
  <2>1. UNION {m_jokes[s] : s \in DOMAIN m_jokes} = 0..(idx - 1)
    BY <1>1 DEF JokesPartitioned
  <2>2. IsFiniteSet(0..(idx - 1)) /\ 0..(idx - 1) \subseteq Nat
    BY <1>1, FS_Interval DEF LoadTypeOK
  <2>3. \A s \in DOMAIN m_jokes : m_jokes[s] \subseteq 0..(idx - 1)
    BY <2>1
  <2>4. QED
    BY <1>1, <2>1, <2>2, <2>3 DEF IsDictionary, JokesPartitioned, LoadTypeOK
<1>2. QED
  BY <1>1, LoadTypeCorrect, PartitionCorrect, PTL
-----------------------------------------------------------------------------
(* A call of GetJokes, for every dictionary. *)
(* his_idx is the set of the numbers in ans_vec; a running call is on a     *)
(* branch its style leads to; the answers are not more than asked for.      *)
Picked == {ans_vec[i].idx : i \in DOMAIN ans_vec}

Bookkeeping ==
  /\ his_idx = Picked
  /\ IsFiniteSet(his_idx) /\ Cardinality(his_idx) = Len(ans_vec)
  /\ gpc = "any" => style = 0
  /\ gpc = "one" => style # 0 /\ style \in DOMAIN m_jokes
  /\ Len(ans_vec) <= MAX_JOKE_NUM

SamplingInv ==
  /\ CallTypeOK
  /\ Bookkeeping
  /\ AnswersAreDistinct
  /\ AnswersAreStocked
  /\ CrashOnlyOnGap
  /\ ReturnsAllOrNothing

LEMMA SamplingInit == JokeInit => SamplingInv
<1> SUFFICES ASSUME JokeInit PROVE SamplingInv
  OBVIOUS
<1>1. PICK d \in Dictionaries : LoadDictionary(d)
  BY DEF JokeInit
<1>a. IsDictionary(d)
  BY GetJokesAssumption
<1>2. m_jokes = d /\ m_joke_style_num \in Nat
  BY <1>1, <1>a, FS_CardinalityType DEF LoadDictionary, StyleNum, IsDictionary
<1>3. gpc = "idle" /\ style = 0 /\ his_idx = {} /\ ans_vec = <<>>
  BY DEF JokeInit, IdleCall
<1>4. CallTypeOK
  <2>1. /\ DOMAIN m_jokes \subseteq Int /\ IsFiniteSet(DOMAIN m_jokes)
        /\ \A s \in DOMAIN m_jokes : m_jokes[s] \subseteq Nat
        /\ IsFiniteSet(UNION {m_jokes[s] : s \in DOMAIN m_jokes})
    BY <1>a, <1>2, Zenon DEF IsDictionary
  <2>2. /\ gpc \in {"idle", "any", "one", "crashed"} /\ style \in Int
        /\ his_idx \subseteq Nat /\ ans_vec \in Seq(Joke)
    BY <1>3
  <2> QED
    BY <1>2, <2>1, <2>2, Zenon DEF CallTypeOK
<1>5. Picked = {} /\ IsFiniteSet({}) /\ Cardinality({}) = 0
  BY <1>3, FS_EmptySet DEF Picked
<1>6. Bookkeeping
  BY <1>3, <1>5, GetJokesAssumption DEF Bookkeeping
<1>7. AnswersAreDistinct /\ AnswersAreStocked /\ CrashOnlyOnGap /\ ReturnsAllOrNothing
  BY <1>3 DEF AnswersAreDistinct, AnswersAreStocked, CrashOnlyOnGap, ReturnsAllOrNothing
<1>8. QED
  BY <1>4, <1>6, <1>7 DEF SamplingInv

(* A call starts with nothing picked. *)
LEMMA CallKeepsInv ==
  ASSUME SamplingInv, NEW s \in Int, Call(s)
  PROVE  SamplingInv'
<1>1. /\ style' = s /\ ans_vec' = <<>> /\ his_idx' = {}
      /\ UNCHANGED <<m_jokes, m_joke_style_num>>
      /\ gpc' = IF s = 0 THEN "any" ELSE IF s \in DOMAIN m_jokes THEN "one" ELSE "idle"
  BY DEF Call, Branch, dictVars
<1>2. CallTypeOK'
  BY <1>1 DEF SamplingInv, CallTypeOK
<1>3. Picked' = {} /\ IsFiniteSet({}) /\ Cardinality({}) = 0
  BY <1>1, FS_EmptySet DEF Picked
<1>4. Bookkeeping'
  BY <1>1, <1>3, GetJokesAssumption DEF Bookkeeping
<1>5. AnswersAreDistinct' /\ AnswersAreStocked' /\ CrashOnlyOnGap' /\ ReturnsAllOrNothing'
  BY <1>1 DEF AnswersAreDistinct, AnswersAreStocked, CrashOnlyOnGap, ReturnsAllOrNothing
<1>6. QED
  BY <1>2, <1>4, <1>5 DEF SamplingInv

(* A kept pick is new, and of a style the call can reach. *)
LEMMA PickKeepsInv ==
  ASSUME SamplingInv, gpc \in {"any", "one"}, Len(ans_vec) < MAX_JOKE_NUM,
         NEW s \in Reachable(style), NEW j \in m_jokes[s],
         KeepIfNew(s, j), UNCHANGED <<m_jokes, m_joke_style_num, gpc, style>>
  PROVE  SamplingInv'
<1> DEFINE joke == [style |-> s, idx |-> j]
<1>1. /\ CallTypeOK /\ Bookkeeping /\ AnswersAreDistinct /\ AnswersAreStocked
      /\ ans_vec \in Seq(Joke)
  BY DEF SamplingInv, CallTypeOK
<1>2. s \in DOMAIN m_jokes /\ s \in Int /\ j \in Nat /\ joke \in Joke
  BY <1>1 DEF Reachable, CallTypeOK, Joke
<1>3. /\ j \notin his_idx /\ his_idx' = his_idx \cup {j}
      /\ ans_vec' = Append(ans_vec, joke)
  BY DEF KeepIfNew
<1>4. /\ ans_vec' \in Seq(Joke) /\ Len(ans_vec') = Len(ans_vec) + 1
      /\ DOMAIN ans_vec' = DOMAIN ans_vec \cup {Len(ans_vec) + 1}
      /\ Len(ans_vec) + 1 \notin DOMAIN ans_vec
      /\ \A i \in DOMAIN ans_vec : ans_vec'[i] = ans_vec[i]
      /\ ans_vec'[Len(ans_vec) + 1] = joke
  BY <1>1, <1>2, <1>3
<1>5. CallTypeOK'
  BY <1>1, <1>2, <1>3, <1>4 DEF CallTypeOK
<1>6. Picked' = his_idx'
  BY <1>1, <1>3, <1>4 DEF Picked, Bookkeeping
<1>7. IsFiniteSet(his_idx') /\ Cardinality(his_idx') = Len(ans_vec')
  <2>1. IsFiniteSet(his_idx) /\ Cardinality(his_idx) = Len(ans_vec)
    BY <1>1 DEF Bookkeeping
  <2>2. /\ IsFiniteSet(his_idx \cup {j})
        /\ Cardinality(his_idx \cup {j}) = Cardinality(his_idx) + 1
    BY <1>3, <2>1, FS_AddElement
  <2>3. QED
    BY <1>3, <1>4, <2>1, <2>2
<1>8. Bookkeeping'
  BY <1>1, <1>4, <1>6, <1>7, GetJokesAssumption DEF Bookkeeping
<1>9. \A i \in DOMAIN ans_vec : ans_vec[i].idx # j
  BY <1>1, <1>3 DEF Bookkeeping, Picked
<1>10. AnswersAreDistinct'
  BY <1>1, <1>4, <1>9 DEF AnswersAreDistinct
<1>11. AnswersAreStocked'
  BY <1>1, <1>4 DEF AnswersAreStocked, Reachable
<1>12. CrashOnlyOnGap' /\ ReturnsAllOrNothing'
  BY DEF CrashOnlyOnGap, ReturnsAllOrNothing
<1>13. QED
  BY <1>5, <1>8, <1>10, <1>11, <1>12 DEF SamplingInv

LEMMA ReturnKeepsInv ==
  ASSUME SamplingInv, Return
  PROVE  SamplingInv'
<1>1. gpc' = "idle" /\ UNCHANGED <<m_jokes, m_joke_style_num, style, his_idx, ans_vec>>
  BY DEF Return
<1>2. Len(ans_vec) = MAX_JOKE_NUM
  BY GetJokesAssumption DEF Return, Enough, SamplingInv, Bookkeeping, CallTypeOK
<1>3. CallTypeOK' /\ Bookkeeping'
  BY <1>1 DEF SamplingInv, CallTypeOK, Bookkeeping, Picked
<1>4. AnswersAreDistinct' /\ AnswersAreStocked' /\ CrashOnlyOnGap' /\ ReturnsAllOrNothing'
  BY <1>1, <1>2 DEF SamplingInv, AnswersAreDistinct, AnswersAreStocked, Reachable,
                    CrashOnlyOnGap, ReturnsAllOrNothing
<1>5. QED
  BY <1>3, <1>4 DEF SamplingInv

LEMMA CrashKeepsInv ==
  ASSUME SamplingInv, Crash
  PROVE  SamplingInv'
<1>1. /\ gpc = "any" /\ gpc' = "crashed" /\ style = 0
      /\ UNCHANGED <<m_jokes, m_joke_style_num, style, his_idx, ans_vec>>
  BY DEF Crash, NoStyleCrash, GapCrash, Sampling, SamplingInv, Bookkeeping
<1>2. m_joke_style_num = 0 \/ \E s \in 1..m_joke_style_num : s \notin DOMAIN m_jokes
  BY DEF Crash, NoStyleCrash, GapCrash, AnyStyle
<1>3. CallTypeOK' /\ Bookkeeping'
  BY <1>1 DEF SamplingInv, CallTypeOK, Bookkeeping, Picked
<1>4. AnswersAreDistinct' /\ AnswersAreStocked' /\ CrashOnlyOnGap' /\ ReturnsAllOrNothing'
  BY <1>1, <1>2 DEF SamplingInv, AnswersAreDistinct, AnswersAreStocked, Reachable,
                    CrashOnlyOnGap, ReturnsAllOrNothing
<1>5. QED
  BY <1>3, <1>4 DEF SamplingInv

LEMMA SamplingStep == SamplingInv /\ [CallNext]_jokeVars => SamplingInv'
<1> SUFFICES ASSUME SamplingInv, [CallNext]_jokeVars
             PROVE  SamplingInv'
  OBVIOUS
<1>1. CASE UNCHANGED jokeVars
  BY <1>1 DEF jokeVars, SamplingInv, CallTypeOK, Bookkeeping, Picked, AnswersAreDistinct,
              AnswersAreStocked, Reachable, CrashOnlyOnGap, ReturnsAllOrNothing
<1>2. ASSUME NEW s \in QueryStyles, Call(s)
      PROVE  SamplingInv'
  BY <1>2, CallKeepsInv, GetJokesAssumption
<1>3. CASE Pick
  <2>1. ASSUME NEW s \in DOMAIN m_jokes, NEW j \in m_jokes[s], PickAny(s, j)
        PROVE  SamplingInv'
    <3>1. s \in Reachable(style)
      BY <2>1 DEF PickAny, AnyStyle, Sampling, SamplingInv, Bookkeeping, Reachable
    <3>2. QED
      BY <2>1, <3>1, PickKeepsInv, GetJokesAssumption DEF PickAny, Sampling, Enough, SamplingInv, CallTypeOK
  <2>2. ASSUME NEW j \in m_jokes[style], style \in DOMAIN m_jokes, PickOne(j)
        PROVE  SamplingInv'
    <3>1. style \in Reachable(style)
      BY <2>2 DEF PickOne, Sampling, SamplingInv, Bookkeeping, Reachable
    <3>2. QED
      BY <2>2, <3>1, PickKeepsInv, GetJokesAssumption DEF PickOne, Sampling, Enough, SamplingInv, CallTypeOK
  <2>3. QED
    BY <1>3, <2>1, <2>2 DEF Pick
<1>4. CASE Return
  BY <1>4, ReturnKeepsInv
<1>5. CASE Crash
  BY <1>5, CrashKeepsInv
<1>6. QED
  BY <1>1, <1>2, <1>3, <1>4, <1>5 DEF CallNext

THEOREM SamplingCorrect == CallSpec => []SamplingInv
  BY SamplingInit, SamplingStep, PTL DEF CallSpec

(* No answer repeats a joke, however the picks fall. *)
THEOREM AnswersAreDistinctCorrect == CallSpec => []AnswersAreDistinct
<1>1. SamplingInv => AnswersAreDistinct
  BY DEF SamplingInv
<1>2. QED
  BY <1>1, SamplingCorrect, PTL

(* Every answer is of the style asked for and in the dictionary under it. *)
THEOREM AnswersAreStockedCorrect == CallSpec => []AnswersAreStocked
<1>1. SamplingInv => AnswersAreStocked
  BY DEF SamplingInv
<1>2. QED
  BY <1>1, SamplingCorrect, PTL

(* A crash needs a call for any style and a gap in the loaded styles. *)
THEOREM CrashOnlyOnGapCorrect == CallSpec => []CrashOnlyOnGap
<1>1. SamplingInv => CrashOnlyOnGap
  BY DEF SamplingInv
<1>2. QED
  BY <1>1, SamplingCorrect, PTL

(* A call returns nothing or exactly MAX_JOKE_NUM jokes. *)
THEOREM ReturnsAllOrNothingCorrect == CallSpec => []ReturnsAllOrNothing
<1>1. SamplingInv => ReturnsAllOrNothing
  BY DEF SamplingInv
<1>2. QED
  BY <1>1, SamplingCorrect, PTL

(* A call that is sampling returns only if the style has MAX_JOKE_NUM jokes: *)
(* for a scarcer one it samples for ever.                                    *)
THEOREM NoReturnWhenScarceCorrect == CallSpec => NoReturnWhenScarce
<1> DEFINE Stocked == (gpc \in {"any", "one"} /\ gpc' = "idle")
                        => Cardinality(Stock(style)) >= MAX_JOKE_NUM
<1>1. SamplingInv /\ [CallNext]_jokeVars => [Stocked]_jokeVars
  <2> SUFFICES ASSUME SamplingInv, CallNext, gpc \in {"any", "one"}, gpc' = "idle"
               PROVE  Cardinality(Stock(style)) >= MAX_JOKE_NUM
    OBVIOUS
  <2>1. Return
    BY DEF CallNext, Call, Pick, PickAny, PickOne, Sampling, Crash, NoStyleCrash,
           GapCrash
  <2>2. Cardinality(his_idx) >= MAX_JOKE_NUM
    BY <2>1 DEF Return, Enough, SamplingInv, Bookkeeping
  <2>3. his_idx \subseteq Stock(style)
    BY DEF SamplingInv, Bookkeeping, Picked, AnswersAreStocked, Stock
  <2>4. IsFiniteSet(Stock(style))
    <3>1. Stock(style) \subseteq UNION {m_jokes[s] : s \in DOMAIN m_jokes}
      BY DEF Stock, Reachable
    <3>2. QED
      BY <3>1, FS_Subset DEF SamplingInv, CallTypeOK
  <2>5. /\ Cardinality(his_idx) <= Cardinality(Stock(style))
        /\ Cardinality(his_idx) \in Nat /\ Cardinality(Stock(style)) \in Nat
    BY <2>3, <2>4, FS_Subset, FS_CardinalityType
  <2>6. QED
    BY <2>2, <2>5, GetJokesAssumption
<1>2. QED
  BY <1>1, SamplingCorrect, PTL DEF CallSpec, NoReturnWhenScarce
-----------------------------------------------------------------------------
(* The library. *)
(* The dictionary is loaded before the first call, and then stays as it is. *)
LibraryInv ==
  /\ LoadInv /\ JokesPartitioned
  /\ phase = "ready" => SamplingInv
  /\ phase # "ready" => IdleCall

(* A dictionary as the loader leaves it has the types GetJokes relies on.   *)
LEMMA DictionaryAssumed ==
  ASSUME LoadTypeOK, JokesPartitioned
  PROVE  /\ IsDictionary(m_jokes)
         /\ IsFiniteSet(UNION {m_jokes[s] : s \in DOMAIN m_jokes})
         /\ \A s \in DOMAIN m_jokes : m_jokes[s] \subseteq Nat
<1>1. UNION {m_jokes[s] : s \in DOMAIN m_jokes} = 0..(idx - 1)
  BY DEF JokesPartitioned
<1>2. IsFiniteSet(0..(idx - 1)) /\ 0..(idx - 1) \subseteq Nat
  BY FS_Interval DEF LoadTypeOK
<1>3. \A s \in DOMAIN m_jokes : m_jokes[s] \subseteq 0..(idx - 1)
  BY <1>1
<1>4. QED
  BY <1>1, <1>2, <1>3 DEF IsDictionary, JokesPartitioned, LoadTypeOK

(* While no call has been made, the sampling invariant asks only for types. *)
LEMMA IdleSampling ==
  ASSUME LoadTypeOK, JokesPartitioned, IdleCall
  PROVE  SamplingInv
<1>1. CallTypeOK
  BY DictionaryAssumed DEF LoadTypeOK, IdleCall, CallTypeOK
<1>2. Picked = {} /\ IsFiniteSet({}) /\ Cardinality({}) = 0
  BY FS_EmptySet DEF IdleCall, Picked
<1>3. Bookkeeping
  BY <1>2, GetJokesAssumption DEF IdleCall, Bookkeeping
<1>4. /\ AnswersAreDistinct /\ AnswersAreStocked
      /\ CrashOnlyOnGap /\ ReturnsAllOrNothing
  BY DEF IdleCall, AnswersAreDistinct, AnswersAreStocked, CrashOnlyOnGap, ReturnsAllOrNothing
<1>5. QED
  BY <1>1, <1>3, <1>4 DEF SamplingInv

LEMMA LibraryInit == Init => LibraryInv
<1> SUFFICES ASSUME Init PROVE LibraryInv
  OBVIOUS
<1>1. LoadInv /\ JokesPartitioned
  BY InvInit, PartitionInit DEF Init
<1>2. phase # "ready"
  BY DEF Init, InitJokeInfo
<1>3. QED
  BY <1>1, <1>2 DEF Init, LibraryInv

(* The loader's steps: no call is under way; with the last one the dictionary *)
(* is complete and GetJokes can begin.                                        *)
LEMMA LoadKeepsInv ==
  ASSUME LibraryInv, Load
  PROVE  LibraryInv'
<1>1. LoadInv' /\ JokesPartitioned'
  BY InvStep, PartitionStep DEF Load, LibraryInv, LoadInv
<1>2. phase # "ready"
  BY DEF Load, LoadNext, OpenJokeInfo, SkipLine, LoadJoke, EndOfJokes, LoadType, EndOfTypes
<1>3. IdleCall /\ IdleCall'
  BY <1>2 DEF Load, LibraryInv, callVars, IdleCall
<1>4. ASSUME phase' = "ready" PROVE SamplingInv'
  <2>1. UNCHANGED jokeVars
    BY <1>2, <1>4 DEF Load, LoadNext, OpenJokeInfo, SkipLine, LoadJoke, EndOfJokes,
                      LoadType, EndOfTypes, callVars, jokeVars
  <2>2. SamplingInv
    BY <1>3, IdleSampling DEF LibraryInv, LoadInv
  <2>3. QED
    BY <2>1, <2>2, SamplingStep
<1>5. QED
  BY <1>1, <1>3, <1>4 DEF LibraryInv

(* The steps of a call: the loader's variables stay, the dictionary's too. *)
LEMMA CallKeepsLibraryInv ==
  ASSUME LibraryInv, Ask \/ Draw \/ Answer
  PROVE  LibraryInv'
<1>1. phase = "ready" /\ SamplingInv
  <2>1. phase # "ready" => gpc = "idle"
    BY DEF LibraryInv, IdleCall
  <2>2. Draw \/ Answer => gpc \in {"any", "one"}
    BY DEF Draw, Answer, Return, Pick, PickAny, PickOne, Crash, NoStyleCrash, GapCrash, Sampling
  <2>3. phase = "ready"
    BY <2>1, <2>2 DEF Ask
  <2>4. QED
    BY <2>3 DEF LibraryInv
<1>2. UNCHANGED loadVars
  BY DEF Ask, Draw, Answer, loadedVars, files, loadVars, Call, dictVars, Pick, PickAny,
         PickOne, Crash, NoStyleCrash, GapCrash, Return
<1>3. LoadInv' /\ JokesPartitioned'
  BY <1>2, InvStep, PartitionStep DEF LibraryInv, LoadInv
<1>4. SamplingInv'
  <2>1. CASE Ask
    <3>1. ASSUME NEW word \in Words PROVE GetJokeTypeId(word) \in Int
      BY DEF GetJokeTypeId, LibraryInv, LoadInv, LoadTypeOK
    <3>2. PICK s \in Int : Call(s)
      BY <2>1, <3>1 DEF Ask
    <3>3. QED
      BY <1>1, <3>2, CallKeepsInv
  <2>2. CASE Draw \/ Answer
    <3>1. CallNext
      BY <2>2 DEF Draw, Answer, CallNext
    <3>2. QED
      BY <1>1, <3>1, SamplingStep
  <2>3. QED
    BY <2>1, <2>2
<1>5. phase' = "ready"
  BY <1>1, <1>2 DEF loadVars
<1>6. QED
  BY <1>3, <1>4, <1>5 DEF LibraryInv

LEMMA LibraryStep == LibraryInv /\ [Next]_vars => LibraryInv'
<1> SUFFICES ASSUME LibraryInv, [Next]_vars PROVE LibraryInv'
  OBVIOUS
<1>1. CASE UNCHANGED vars
  <2>1. UNCHANGED loadVars /\ UNCHANGED callVars
    BY <1>1 DEF vars
  <2>2. UNCHANGED jokeVars /\ phase' = phase
    BY <2>1 DEF loadVars, callVars, jokeVars
  <2>3. LoadInv' /\ JokesPartitioned'
    BY <2>1, InvStep, PartitionStep DEF LibraryInv, LoadInv
  <2>4. phase = "ready" => SamplingInv'
    BY <2>2, SamplingStep DEF LibraryInv
  <2>5. phase # "ready" => IdleCall'
    BY <2>1 DEF LibraryInv, IdleCall, callVars
  <2>6. QED
    BY <2>2, <2>3, <2>4, <2>5 DEF LibraryInv
<1>2. CASE Load
  BY <1>2, LoadKeepsInv
<1>3. CASE Ask \/ Draw \/ Answer
  BY <1>3, CallKeepsLibraryInv
<1>4. QED
  BY <1>1, <1>2, <1>3 DEF Next

THEOREM LibraryCorrect == Spec => []LibraryInv
  BY LibraryInit, LibraryStep, PTL DEF Spec

(* A call never finds a dictionary other than one Init has finished, with   *)
(* no empty style and no joke under two (joke.cc:44-84 against :150-190).   *)
THEOREM CallsFindADictionary == Spec => [](gpc # "idle" => IsDictionary(m_jokes))
<1>1. LibraryInv => (gpc # "idle" => IsDictionary(m_jokes))
  BY DictionaryAssumed DEF LibraryInv, LoadInv
<1>2. QED
  BY <1>1, LibraryCorrect, PTL

(* The dictionary is the file's, also while calls are answered from it.     *)
THEOREM LibraryLoadsTheFile == Spec => []LoadsTheFile
<1>1. LibraryInv => LoadsTheFile
  BY DEF LibraryInv, LoadInv
<1>2. QED
  BY <1>1, LibraryCorrect, PTL

(* Whatever the files hold and whoever asks, the state keeps its types:     *)
(* m_joke_num within 32 bits, the answer a sequence of jokes.               *)
THEOREM LibraryTypes == Spec => []TypeOK
<1>1. LibraryInv => SamplingInv
  BY IdleSampling DEF LibraryInv, LoadInv
<1>2. LibraryInv => TypeOK
  BY <1>1 DEF LibraryInv, LoadInv, SamplingInv, TypeOK
<1>3. QED
  BY <1>2, LibraryCorrect, PTL

(* Whatever the files hold, an answer has no joke twice, and only jokes     *)
(* that the dictionary has under the style asked for.                       *)
THEOREM LibraryAnswers == Spec => []AnswersAreRight
<1>1. LibraryInv => AnswersAreRight
  BY DEF LibraryInv, SamplingInv, IdleCall, AnswersAreRight, AnswersAreDistinct,
         AnswersAreStocked
<1>2. QED
  BY <1>1, LibraryCorrect, PTL

(* Whatever the files hold, a crash needs a call for any style and a gap.   *)
THEOREM LibraryCrashes == Spec => []CrashOnlyOnGap
<1>1. LibraryInv => CrashOnlyOnGap
  BY DEF LibraryInv, SamplingInv, IdleCall, CrashOnlyOnGap
<1>2. QED
  BY <1>1, LibraryCorrect, PTL
-----------------------------------------------------------------------------
(* The function behind Rejoined, which the parts determine. *)
LEMMA RejoinedStepwise ==
  ASSUME NEW C, NEW d \in Seq(C), NEW strs \in Seq(Seq(C)), strs # <<>>
  PROVE  \E w \in [1..Len(strs) -> Seq(C)] :
           /\ w[1] = strs[1] /\ \A n \in 2..Len(strs) : w[n] = w[n - 1] \o d \o strs[n]
           /\ Rejoined(strs, d) = w[Len(strs)]
<1> DEFINE m == Len(strs)
           D == 1..m
           Body(w, n) == IF n = 1 THEN strs[1] ELSE w[n - 1] \o d \o strs[n]
           Step(w) == [n \in D |-> Body(w, n)]
           G == [n \in D |-> [w \in [D -> Seq(C)] |-> Body(w, n)]]
           rank == [n \in D |-> n]
           f0 == [n \in D |-> d]
<1>1. m \in Nat \ {0} /\ \A n \in D : strs[n] \in Seq(C)
  OBVIOUS
<1> HIDE DEF m
<1>2. rank \in [D -> 0..m] /\ f0 \in [D -> Seq(C)] /\ \A n \in D : rank[n] = n
  OBVIOUS
<1> HIDE DEF rank, f0
<1>3. ASSUME NEW n \in D, NEW w \in [D -> Seq(C)] PROVE Body(w, n) \in Seq(C)
  <2>1. CASE n = 1
    BY <1>1, <2>1
  <2>2. CASE n # 1
    <3>1. n - 1 \in D
      BY <1>1, <2>2
    <3> QED
      BY <1>1, <2>2, <3>1
  <2> QED
    BY <2>1, <2>2
<1>4. /\ G \in [D -> [[D -> Seq(C)] -> Seq(C)]]
      /\ \A n \in D : \A w \in [D -> Seq(C)] : G[n][w] = Body(w, n)
  <2> HIDE DEF Body
  <2>1. \A n \in D : \A w \in [D -> Seq(C)] : Body(w, n) \in Seq(C)
    BY <1>3
  <2> QED
    BY <2>1
<1>5. ASSUME NEW k \in D, NEW f, NEW g, \A j \in D : rank[j] < rank[k] => f[j] = g[j]
      PROVE  Body(f, k) = Body(g, k)
  <2>1. CASE k = 1
    BY <2>1
  <2>2. CASE k # 1
    <3>1. k - 1 \in D /\ rank[k - 1] < rank[k]
      BY <1>1, <1>2, <2>2
    <3> QED
      BY <1>5, <3>1
  <2> QED
    BY <2>1, <2>2
<1> HIDE DEF Body, G
<1>6. \A k \in D : \A f, g \in [D -> Seq(C)] :
        (\A j \in D : rank[j] < rank[k] => f[j] = g[j]) => G[k][f] = G[k][g]
  <2> SUFFICES ASSUME NEW k \in D, NEW f \in [D -> Seq(C)], NEW g \in [D -> Seq(C)],
                      \A j \in D : rank[j] < rank[k] => f[j] = g[j]
               PROVE  G[k][f] = G[k][g]
    OBVIOUS
  <2>1. Body(f, k) = Body(g, k)
    BY <1>5
  <2> QED
    BY <1>4, <2>1
<1>7. m \in Nat
  BY <1>1
<1> HIDE DEF D
<1>8. PICK w \in [D -> Seq(C)] : \A k \in D : w[k] = G[k][w]
  <2>1. LowerDecide(G, D, Seq(C), rank)
    BY <1>4, <1>6 DEF LowerDecide
  <2>2. Ranked(D, rank, m) /\ f0 \in [D -> Seq(C)]
    BY <1>2, <1>7 DEF Ranked
  <2>3. \E w \in [D -> Seq(C)] : Solves(w, G, D)
    BY <2>1, <2>2, SolutionByRank, Zenon
  <2> QED
    BY <2>3 DEF Solves
<1>9. w = Step(w)
  BY <1>4, <1>8
<1>10. \E v : v = Step(v)
  BY <1>9
<1> DEFINE u == CHOOSE v : v = Step(v)
<1>11. Rejoined(strs, d) = u[m]
  BY DEF Rejoined, Body, m, D
<1>12. u = Step(u)
  BY <1>10
<1> HIDE DEF u
<1>13. \A k \in D : u[k] = w[k]
  <2> DEFINE B == {k \in D : u[k] # w[k]}
  <2> SUFFICES ASSUME B # {} PROVE FALSE
    OBVIOUS
  <2>1. B \in SUBSET D
    OBVIOUS
  <2>2. PICK k \in B : \A j \in B : rank[k] <= rank[j]
    <3> HIDE DEF B
    <3> QED
      BY <1>2, <1>7, <2>1, LeastByRank
  <2>3. \A j \in D : rank[j] < rank[k] => u[j] = w[j]
    <3>1. \A j \in D : rank[j] \in Int
      BY <1>2
    <3> QED
      BY <2>2, <3>1
  <2>4. Body(u, k) = Body(w, k)
    BY <1>5, <2>3
  <2>5. u[k] = Body(u, k) /\ w[k] = Body(w, k)
    BY <1>9, <1>12
  <2> QED
    BY <2>4, <2>5
<1>14. Rejoined(strs, d) = w[m]
  BY <1>1, <1>11, <1>13 DEF D
<1>15. w[1] = strs[1] /\ \A n \in 2..m : w[n] = w[n - 1] \o d \o strs[n]
  <2>1. \A n \in D : w[n] = Body(w, n)
    BY <1>9
  <2>2. 1 \in D /\ \A n \in 2..m : n \in D /\ n # 1
    BY <1>1 DEF D
  <2> QED
    BY <2>1, <2>2 DEF Body
<1> QED
  BY <1>14, <1>15 DEF m, D

LEMMA OnePartRejoined ==
  \A C : \A d \in Seq(C), str \in Seq(C) : Rejoined(<<str>>, d) = str
<1> SUFFICES ASSUME NEW C, NEW d \in Seq(C), NEW str \in Seq(C)
             PROVE  Rejoined(<<str>>, d) = str
  BY Zenon
<1> DEFINE strs == <<str>>
<1>1. strs \in Seq(Seq(C)) /\ strs # <<>> /\ Len(strs) = 1 /\ strs[1] = str
  OBVIOUS
<1> HIDE DEF strs
<1>2. \A s \in Seq(Seq(C)) : s # <<>> => \E w \in [1..Len(s) -> Seq(C)] :
          /\ w[1] = s[1] /\ \A n \in 2..Len(s) : w[n] = w[n - 1] \o d \o s[n]
          /\ Rejoined(s, d) = w[Len(s)]
  BY RejoinedStepwise
<1>3. PICK w \in [1..Len(strs) -> Seq(C)] : w[1] = strs[1] /\ Rejoined(strs, d) = w[Len(strs)]
  BY <1>1, <1>2, Zenon
<1>4. Rejoined(strs, d) = str
  BY <1>1, <1>3, Zenon
<1> QED
  BY <1>4 DEF strs

(* A part more, at the end. *)
LEMMA RejoinedWithMore ==
  \A C : \A d \in Seq(C), strs \in Seq(Seq(C)), str \in Seq(C) :
    strs # <<>> => Rejoined(Append(strs, str), d) = Rejoined(strs, d) \o d \o str
<1> SUFFICES ASSUME NEW C, NEW d \in Seq(C), NEW strs \in Seq(Seq(C)), NEW str \in Seq(C),
                    strs # <<>>
             PROVE  Rejoined(Append(strs, str), d) = Rejoined(strs, d) \o d \o str
  BY Zenon
<1> DEFINE more == Append(strs, str)
           m == Len(strs)
<1>1. /\ m \in Nat /\ more \in Seq(Seq(C)) /\ Len(more) = m + 1 /\ more # <<>>
      /\ more[m + 1] = str /\ \A n \in 1..m : more[n] = strs[n]
      /\ strs = <<>> <=> m = 0
  OBVIOUS
<1> HIDE DEF more
<1>2. PICK w \in [1..(m + 1) -> Seq(C)] :
        /\ w[1] = more[1] /\ \A n \in 2..(m + 1) : w[n] = w[n - 1] \o d \o more[n]
        /\ Rejoined(more, d) = w[m + 1]
  <2>1. \A s \in Seq(Seq(C)) : s # <<>> => \E w \in [1..Len(s) -> Seq(C)] :
          /\ w[1] = s[1] /\ \A n \in 2..Len(s) : w[n] = w[n - 1] \o d \o s[n]
          /\ Rejoined(s, d) = w[Len(s)]
    BY RejoinedStepwise
  <2>2. more \in Seq(Seq(C)) /\ more # <<>>
    BY <1>1
  <2>3. \E w \in [1..Len(more) -> Seq(C)] :
          /\ w[1] = more[1] /\ \A n \in 2..Len(more) : w[n] = w[n - 1] \o d \o more[n]
          /\ Rejoined(more, d) = w[Len(more)]
    BY <2>1, <2>2, Zenon
  <2> QED
    BY <1>1, <2>3
<1>3. PICK v \in [1..m -> Seq(C)] :
        /\ v[1] = strs[1] /\ \A n \in 2..m : v[n] = v[n - 1] \o d \o strs[n]
        /\ Rejoined(strs, d) = v[m]
  BY RejoinedStepwise
<1> HIDE DEF m
<1> DEFINE S == {n \in 0..m : n = 0 \/ v[n] = w[n]}
<1>4. 0 \in S
  BY <1>1
<1>5. ASSUME NEW n \in 0..(m - 1), n \in S PROVE n + 1 \in S
  <2>1. n + 1 \in 1..m /\ (n + 1) - 1 = n /\ n + 1 \in 0..m /\ n \in Nat
    BY <1>1
  <2>2. more[n + 1] = strs[n + 1]
    BY <1>1, <2>1
  <2>3. CASE n = 0
    BY <1>2, <1>3, <2>1, <2>2, <2>3
  <2>4. CASE n # 0
    <3>1. n + 1 \in 2..m /\ n + 1 \in 2..(m + 1)
      BY <1>1, <2>1, <2>4
    <3>2. v[n + 1] = v[n] \o d \o strs[n + 1] /\ w[n + 1] = w[n] \o d \o more[n + 1]
      BY <1>2, <1>3, <2>1, <3>1
    <3> QED
      BY <1>5, <2>1, <2>2, <2>4, <3>2
  <2> QED
    BY <2>3, <2>4
<1> HIDE DEF S
<1>6. \A n \in 0..m : n \in S
  BY <1>1, <1>4, <1>5, UpToInduction
<1>7. m \in 1..m /\ m + 1 \in 2..(m + 1) /\ (m + 1) - 1 = m /\ m \in 0..m /\ m # 0
  BY <1>1
<1>8. v[m] = w[m] /\ v[m] \in Seq(C)
  BY <1>3, <1>6, <1>7 DEF S
<1>9. w[m + 1] = w[m] \o d \o more[m + 1]
  BY <1>2, <1>7
<1> QED
  BY <1>1, <1>2, <1>3, <1>8, <1>9 DEF more
-----------------------------------------------------------------------------
(* Split *)
LEMMA CutsJoin ==
  ASSUME NEW C, NEW t \in Seq(C), NEW s \in 1..(Len(t) + 1), NEW e \in s..(Len(t) + 1)
  PROVE  /\ SubSeq(t, s, e - 1) \in Seq(C)
         /\ SubSeq(t, 1, s - 1) \o SubSeq(t, s, e - 1) = SubSeq(t, 1, e - 1)
         /\ SubSeq(t, 1, Len(t)) = t
<1> DEFINE a == SubSeq(t, 1, s - 1)
           b == SubSeq(t, s, e - 1)
           c == SubSeq(t, 1, e - 1)
<1>0. Len(t) \in Nat /\ s \in Int /\ e \in Int /\ 1 <= s /\ s <= e /\ e <= Len(t) + 1
  OBVIOUS
<1>1. a \in Seq(C) /\ Len(a) = s - 1 /\ \A k \in 1..(s - 1) : a[k] = t[k]
  BY <1>0
<1>2. b \in Seq(C) /\ Len(b) = e - s /\ \A k \in 1..(e - s) : b[k] = t[s + k - 1]
  BY <1>0
<1>3. c \in Seq(C) /\ Len(c) = e - 1 /\ \A k \in 1..(e - 1) : c[k] = t[k]
  BY <1>0
<1>4. SubSeq(t, 1, Len(t)) = t
  OBVIOUS
<1> HIDE DEF a, b, c
<1>5. a \o b \in Seq(C) /\ Len(a \o b) = e - 1
  <2>1. a \o b \in Seq(C) /\ Len(a \o b) = Len(a) + Len(b)
    BY <1>1, <1>2, LengthsAdd, Zenon
  <2>2. (s - 1) + (e - s) = e - 1
    BY <1>0
  <2> QED
    BY <1>1, <1>2, <2>1, <2>2, Zenon
<1>6. ASSUME NEW k \in 1..(e - 1) PROVE (a \o b)[k] = c[k]
  <2>1. CASE k <= s - 1
    <3>1. k \in 1..(s - 1)
      BY <1>0, <2>1
    <3>2. (a \o b)[k] = a[k]
      BY <1>1, <1>2, <3>1
    <3> QED
      BY <1>1, <1>3, <3>1, <3>2
  <2>2. CASE k > s - 1
    <3>1. (a \o b)[k] = b[k - (s - 1)] /\ k - (s - 1) \in 1..(e - s)
      BY <1>0, <1>1, <1>2, <2>2
    <3>2. b[k - (s - 1)] = t[k]
      BY <1>0, <1>2, <3>1
    <3> QED
      BY <1>3, <3>1, <3>2
  <2>3. k <= s - 1 \/ k > s - 1
    BY <1>0
  <2> QED
    BY <2>1, <2>2, <2>3, Zenon
<1>7. a \o b = c
  BY <1>3, <1>5, <1>6, SameSequence, Zenon
<1> QED
  BY <1>2, <1>4, <1>7 DEF a, b, c

(* FirstFrom is empty exactly if the delimiter is nowhere from there on.    *)
LEMMA NoFirstNowhere ==
  ASSUME NEW t \in Seq(Chars), NEW d, d \in Seq(Chars) \ {<<>>},
         NEW s \in Nat \ {0}, FirstFrom(d, t, s) = {}
  PROVE  \A j \in s..Len(t) : ~Occurs(d, t, j)
<1> DEFINE T == {j \in s..Len(t) : Occurs(d, t, j)}
<1> SUFFICES ASSUME T # {} PROVE FALSE
  OBVIOUS
<1>1. T \in SUBSET Nat
  OBVIOUS
<1>2. PICK x \in T : \A y \in T : x <= y
  <2> HIDE DEF T
  <2> QED
    BY <1>1, LeastNumber
<1>3. \A j \in s..(x - 1) : ~Occurs(d, t, j)
  <2> SUFFICES ASSUME NEW j \in s..(x - 1), Occurs(d, t, j) PROVE FALSE
    OBVIOUS
  <2>1. j \in s..Len(t)
    BY <1>2
  <2> QED
    BY <1>2, <2>1
<1>4. x \in FirstFrom(d, t, s)
  BY <1>2, <1>3 DEF FirstFrom
<1> QED
  BY <1>4

(* What is cut out before the delimiter does not hold it. *)
LEMMA NotWithinAPart ==
  ASSUME NEW t \in Seq(Chars), NEW d, d \in Seq(Chars) \ {<<>>},
         NEW s \in 1..(Len(t) + 1), NEW e \in s..(Len(t) + 1),
         \A j \in s..(e - 1) : ~Occurs(d, t, j)
  PROVE  FirstFrom(d, SubSeq(t, s, e - 1), 1) = {}
<1> DEFINE p == SubSeq(t, s, e - 1)
           len == Len(d)
<1>1. p \in Seq(Chars) /\ Len(p) = e - s /\ \A k \in 1..(e - s) : p[k] = t[s + k - 1]
  OBVIOUS
<1>2. len \in Nat \ {0} /\ \A k \in 1..len : d[k] \in Chars
  OBVIOUS
<1> HIDE DEF p
<1> SUFFICES ASSUME NEW k \in 1..Len(p), Occurs(d, p, k) PROVE FALSE
  BY DEF FirstFrom, p
<1>3. k + len - 1 <= Len(p) /\ SubSeq(p, k, k + len - 1) = d
  BY DEF Occurs
<1>4. Len(t) \in Nat /\ s \in Int /\ e \in Int /\ 1 <= s /\ s <= e /\ e <= Len(t) + 1 /\ k \in Int
  OBVIOUS
<1> DEFINE i == s + k - 1
           q == SubSeq(p, k, k + len - 1)
           r == SubSeq(t, i, i + len - 1)
<1>5. i \in s..(e - 1) /\ i \in 1..Len(t) /\ i + len - 1 <= Len(t)
  BY <1>1, <1>2, <1>3, <1>4
<1>6. q \in Seq(Chars) /\ Len(q) = len /\ \A j \in 1..len : q[j] = p[k + j - 1]
  BY <1>1, <1>2, <1>3, <1>4
<1> HIDE DEF i
<1>7. r \in Seq(Chars) /\ Len(r) = len /\ \A j \in 1..len : r[j] = t[i + j - 1]
  BY <1>2, <1>5
<1> HIDE DEF q, r
<1>8. ASSUME NEW j \in 1..len PROVE q[j] = r[j]
  <2>1. k + j - 1 \in 1..(e - s) /\ s + (k + j - 1) - 1 = i + j - 1
    BY <1>1, <1>2, <1>3, <1>4 DEF i
  <2> QED
    BY <1>1, <1>6, <1>7, <2>1
<1>9. q = r
  BY <1>2, <1>6, <1>7, <1>8
<1>10. Occurs(d, t, i)
  BY <1>3, <1>5, <1>9 DEF Occurs, q, r
<1> QED
  BY <1>5, <1>10

(* SplitInv is not inductive: it speaks of the last step.  Before that, the *)
(* parts and the delimiter behind each give what has been read of the text. *)
NoneWithin == \A n \in DOMAIN parts : FirstFrom(delimer, parts[n], 1) = {}

ReadSoFar ==
  IF parts = <<>> THEN sidx = 1
  ELSE Rejoined(parts, delimer) \o delimer = SubSeq(text, 1, sidx - 1)

SplittingInv ==
  /\ WordsTypeOK
  /\ pc = "split" => delimer # <<>> /\ NoneWithin /\ ReadSoFar
  /\ pc = "done" => NoneWithin /\ Rejoined(parts, delimer) = text

LEMMA SplittingInit == InitWords => SplittingInv
<1>1. code = NoCode => code \in Byte \X Byte
  BY DEF NoCode, Byte
<1> QED
  BY <1>1, WordsAssumption DEF InitWords, SplittingInv, WordsTypeOK

LEMMA OneMoreElement ==
  ASSUME NEW S, NEW seq \in Seq(S), NEW e \in S
  PROVE  /\ Append(seq, e) \in Seq(S) /\ Append(seq, e) # <<>>
         /\ DOMAIN Append(seq, e) = DOMAIN seq \cup {Len(seq) + 1}
         /\ \A n \in DOMAIN seq : Append(seq, e)[n] = seq[n]
         /\ Append(seq, e)[Len(seq) + 1] = e
  OBVIOUS

(* A part more: what it adds, and what it may not hold. *)
LEMMA OnePartMore ==
  ASSUME SplittingInv, pc = "split", NEW e \in sidx..(Len(text) + 1),
         parts' = Append(parts, SubSeq(text, sidx, e - 1)), UNCHANGED <<text, delimer>>,
         \A j \in sidx..(e - 1) : ~Occurs(delimer, text, j)
  PROVE  /\ parts' \in Seq(Seq(Chars)) /\ parts' # <<>> /\ NoneWithin'
         /\ Rejoined(parts', delimer') \in Seq(Chars)
         /\ Rejoined(parts', delimer') = SubSeq(text, 1, e - 1)
<1> DEFINE p == SubSeq(text, sidx, e - 1)
<1>1. /\ text \in Seq(Chars) /\ parts \in Seq(Seq(Chars)) /\ sidx \in 1..(Len(text) + 1)
      /\ delimer \in Seq(Chars) \ {<<>>} /\ NoneWithin /\ ReadSoFar
  BY WordsAssumption DEF SplittingInv, WordsTypeOK
<1>2. /\ p \in Seq(Chars)
      /\ SubSeq(text, 1, sidx - 1) \o p = SubSeq(text, 1, e - 1)
  BY <1>1, CutsJoin
<1>3. FirstFrom(delimer, p, 1) = {}
  BY <1>1, NotWithinAPart
<1> HIDE DEF p
<1>4. parts' = Append(parts, p) /\ delimer' = delimer
  BY DEF p
<1>d. delimer \in Seq(Chars)
  BY <1>1
<1>5. /\ parts' \in Seq(Seq(Chars)) /\ parts' # <<>>
      /\ DOMAIN parts' = DOMAIN parts \cup {Len(parts) + 1}
      /\ \A n \in DOMAIN parts : parts'[n] = parts[n]
      /\ parts'[Len(parts) + 1] = p
  <2> DEFINE T == Seq(Chars)
  <2>1. parts \in Seq(T) /\ p \in T
    BY <1>1, <1>2
  <2> HIDE DEF T
  <2>2. /\ Append(parts, p) \in Seq(T) /\ Append(parts, p) # <<>>
        /\ DOMAIN Append(parts, p) = DOMAIN parts \cup {Len(parts) + 1}
        /\ \A n \in DOMAIN parts : Append(parts, p)[n] = parts[n]
        /\ Append(parts, p)[Len(parts) + 1] = p
    BY <2>1, OneMoreElement
  <2> QED
    BY <1>4, <2>2, Zenon DEF T
<1>6. NoneWithin'
  BY <1>1, <1>3, <1>4, <1>5 DEF NoneWithin, FirstFrom, Occurs
<1>7. Rejoined(parts', delimer) = SubSeq(text, 1, e - 1)
  <2>1. CASE parts = <<>>
    <3>1. sidx = 1
      BY <1>1, <2>1 DEF ReadSoFar
    <3>2. p = SubSeq(text, 1, e - 1)
      BY <3>1 DEF p
    <3>3. Rejoined(<<p>>, delimer) = p
      BY <1>2, <1>d, OnePartRejoined, Zenon
    <3>4. parts' = <<p>>
      BY <1>4, <2>1
    <3> QED
      BY <3>2, <3>3, <3>4
  <2>2. CASE parts # <<>>
    <3>0. parts \in Seq(Seq(Chars)) /\ p \in Seq(Chars)
      BY <1>1, <1>2
    <3>1. Rejoined(Append(parts, p), delimer) = Rejoined(parts, delimer) \o delimer \o p
      BY <1>d, <2>2, <3>0, RejoinedWithMore, Zenon
    <3>2. Rejoined(parts, delimer) \o delimer = SubSeq(text, 1, sidx - 1)
      BY <1>1, <2>2 DEF ReadSoFar
    <3> QED
      BY <1>2, <1>4, <3>1, <3>2
  <2> QED
    BY <2>1, <2>2
<1>8. SubSeq(text, 1, e - 1) \in Seq(Chars)
  BY <1>1
<1> QED
  BY <1>4, <1>5, <1>6, <1>7, <1>8

LEMMA SplittingStep == SplittingInv /\ [WordsNext]_wordVars => SplittingInv'
<1> SUFFICES ASSUME SplittingInv, [WordsNext]_wordVars PROVE SplittingInv'
  OBVIOUS
<1> USE WordsAssumption
<1>1. CASE UNCHANGED wordVars
  BY <1>1 DEF wordVars, split, SplittingInv, WordsTypeOK, NoneWithin, ReadSoFar
<1>2. CASE Type
  <2>1. pc' = "idle"
    BY <1>2 DEF Type, split
  <2>2. text' \in Seq(Chars) /\ Len(text') = Len(text) + 1
    BY <1>2 DEF Type, SplittingInv, WordsTypeOK
  <2> QED
    BY <1>2, <2>1, <2>2 DEF Type, split, SplittingInv, WordsTypeOK
<1>3. CASE TypeCode
  BY <1>3 DEF TypeCode, split, SplittingInv, WordsTypeOK
<1>4. CASE TypeAddress
  <2>1. address' \in Seq(Pieces)
    BY <1>4 DEF TypeAddress, SplittingInv, WordsTypeOK
  <2> QED
    BY <1>4, <2>1 DEF TypeAddress, split, SplittingInv, WordsTypeOK
<1>5. CASE Clear
  <2>1. code' \in Byte \X Byte /\ address' \in Seq(Pieces)
    BY <1>5 DEF Clear, NoCode, Byte
  <2> QED
    BY <1>5, <2>1 DEF Clear, split, SplittingInv, WordsTypeOK, NoneWithin, ReadSoFar
<1>6. ASSUME NEW d \in Delimiters, CallSplit(d) PROVE SplittingInv'
  <2>1. d # <<>>
    OBVIOUS
  <2>2. parts' = <<>> /\ parts' \in Seq(Seq(Chars)) /\ DOMAIN parts' = {} /\ sidx' = 1
    BY <1>6 DEF CallSplit
  <2> QED
    BY <1>6, <2>1, <2>2 DEF CallSplit, SplittingInv, WordsTypeOK, NoneWithin, ReadSoFar
<1>7. CASE SplitStep
  <2>0. /\ pc = "split" /\ UNCHANGED <<text, code, address, delimer>>
        /\ text \in Seq(Chars) /\ Len(text) \in Nat /\ sidx \in 1..(Len(text) + 1)
        /\ delimer \in Seq(Chars) \ {<<>>} /\ Len(delimer) \in Nat \ {0}
    BY <1>7 DEF SplitStep, SplittingInv, WordsTypeOK
  <2>1. ASSUME NEW eidx \in FirstFrom(delimer, text, sidx),
               parts' = Append(parts, SubSeq(text, sidx, eidx - 1)),
               sidx' = Past(eidx), UNCHANGED pc
        PROVE  SplittingInv'
    <3>1. /\ eidx \in sidx..Len(text) /\ Occurs(delimer, text, eidx)
          /\ \A j \in sidx..(eidx - 1) : ~Occurs(delimer, text, j)
      BY DEF FirstFrom
    <3>2. eidx \in sidx..(Len(text) + 1)
      BY <2>0, <3>1
    <3>3. /\ parts' \in Seq(Seq(Chars)) /\ parts' # <<>> /\ NoneWithin'
          /\ Rejoined(parts', delimer') = SubSeq(text, 1, eidx - 1)
      BY <2>0, <2>1, <3>1, <3>2, OnePartMore
    <3>4. /\ sidx' = eidx + Len(delimer) /\ sidx' - 1 = eidx + Len(delimer) - 1
          /\ eidx + Len(delimer) - 1 <= Len(text) /\ sidx' \in 1..(Len(text) + 1)
          /\ sidx' \in eidx..(Len(text) + 1) /\ eidx \in 1..(Len(text) + 1)
          /\ SubSeq(text, eidx, sidx' - 1) = delimer
      BY <2>0, <2>1, <3>1 DEF Past, Occurs
    <3>5. SubSeq(text, 1, eidx - 1) \o delimer = SubSeq(text, 1, sidx' - 1)
      BY <2>0, <3>4, CutsJoin
    <3>6. ReadSoFar'
      BY <2>0, <3>3, <3>5 DEF ReadSoFar
    <3>7. WordsTypeOK'
      BY <2>0, <2>1, <3>3, <3>4 DEF SplittingInv, WordsTypeOK
    <3> QED
      BY <2>0, <2>1, <3>3, <3>6, <3>7 DEF SplittingInv
  <2>2. ASSUME FirstFrom(delimer, text, sidx) = {},
               parts' = Append(parts, SubSeq(text, sidx, Len(text))),
               pc' = "done", UNCHANGED sidx
        PROVE  SplittingInv'
    <3>1. \A j \in sidx..Len(text) : ~Occurs(delimer, text, j)
      BY <2>0, <2>2, NoFirstNowhere
    <3> DEFINE e == Len(text) + 1
    <3>2. e \in sidx..(Len(text) + 1) /\ e - 1 = Len(text)
      BY <2>0
    <3>3. parts' = Append(parts, SubSeq(text, sidx, e - 1))
      BY <2>2, <3>2
    <3>4. \A j \in sidx..(e - 1) : ~Occurs(delimer, text, j)
      BY <3>1, <3>2
    <3>5. UNCHANGED <<text, delimer>>
      BY <2>0
    <3> HIDE DEF e
    <3>6. /\ parts' \in Seq(Seq(Chars)) /\ NoneWithin'
          /\ Rejoined(parts', delimer') = SubSeq(text, 1, e - 1)
      BY <2>0, <3>2, <3>3, <3>4, <3>5, OnePartMore
    <3>7. SubSeq(text, 1, e - 1) = text'
      BY <2>0, <3>2
    <3>8. WordsTypeOK'
      BY <2>0, <2>2, <3>6 DEF SplittingInv, WordsTypeOK
    <3> QED
      BY <2>2, <3>6, <3>7, <3>8 DEF SplittingInv
  <2> QED
    BY <1>7, <2>1, <2>2 DEF SplitStep
<1>8. CASE ReturnParts
  <2>1. parts' \in Seq(Seq(Chars)) /\ sidx' = 1 /\ pc' = "idle" /\ delimer' = <<>>
    BY <1>8 DEF ReturnParts
  <2> QED
    BY <1>8, <2>1 DEF ReturnParts, SplittingInv, WordsTypeOK
<1> QED
  BY <1>1, <1>2, <1>3, <1>4, <1>5, <1>6, <1>7, <1>8 DEF WordsNext

LEMMA SplittingCorrect == WordsSpec => []SplittingInv
<1>1. InitWords => SplittingInv
  BY SplittingInit
<1> QED
  BY <1>1, SplittingStep, PTL DEF WordsSpec

(* The parts give any text back, whatever the delimiter, and hold none.     *)
THEOREM SplitCorrect == WordsSpec => []SplitInv
<1>1. SplittingInv => SplitInv
  BY DEF SplittingInv, SplitInv, SplitIsInvertible, NoneWithin
<1> QED
  BY <1>1, SplittingCorrect, PTL
-----------------------------------------------------------------------------
(* Lower case *)
LEMMA LowerOfClass == \A c \in Classes : Lower(c) \in Classes /\ Lower(Lower(c)) = Lower(c)
  BY DEF Classes, Lower

(* The function behind ToLower. *)
LoweredFrom(F, str, n) ==
  /\ F \in [1..(n + 2) -> [1..n -> Classes]]
  /\ F[n + 1] = str /\ F[n + 2] = str
  /\ \A k \in 1..n :
       /\ str[k] = "high" => F[k] = F[k + 2]
       /\ str[k] # "high" => F[k] = [F[k + 1] EXCEPT ![k] = Lower(str[k])]

LEMMA ToLowerStepwise ==
  ASSUME NEW n \in Nat, NEW str, str \in [1..n -> Classes], Len(str) = n
  PROVE  \E F : LoweredFrom(F, str, n) /\ ToLower(str) = F[1]
<1> DEFINE D == 1..(n + 2)
           S == [1..n -> Classes]
           Body(w, k) == IF k > n THEN str
                         ELSE IF str[k] = "high" THEN w[k + 2]
                         ELSE [w[k + 1] EXCEPT ![k] = Lower(str[k])]
           Step(w) == [k \in D |-> Body(w, k)]
           G == [k \in D |-> [w \in [D -> S] |-> Body(w, k)]]
           m == n + 2
           rank == [k \in D |-> m - k]
           f0 == [k \in D |-> str]
<1>1. Ranked(D, rank, m) /\ f0 \in [D -> S] /\ \A k \in D : rank[k] = m - k
  BY DEF Ranked
<1>2. ASSUME NEW k \in D, k <= n
      PROVE  k \in 1..n /\ k + 1 \in D /\ k + 2 \in D /\ rank[k + 1] < rank[k]
             /\ rank[k + 2] < rank[k] /\ Lower(str[k]) \in Classes
  BY <1>2, LowerOfClass
<1>d. \A k \in D : k > n \/ k <= n
  OBVIOUS
<1> HIDE DEF rank, f0, m
<1>3. ASSUME NEW k \in D, NEW w \in [D -> S] PROVE Body(w, k) \in S
  <2>1. CASE k > n
    BY <2>1
  <2>2. CASE k <= n
    <3>1. w[k + 1] \in S /\ w[k + 2] \in S /\ Lower(str[k]) \in Classes /\ k \in 1..n
      BY <1>2, <2>2
    <3> QED
      BY <3>1
  <2> QED
    BY <1>d, <2>1, <2>2
<1>4. ASSUME NEW k \in D, NEW f, NEW g, \A j \in D : rank[j] < rank[k] => f[j] = g[j]
      PROVE  Body(f, k) = Body(g, k)
  <2>1. CASE k > n
    BY <2>1
  <2>2. CASE k <= n
    <3>1. f[k + 1] = g[k + 1] /\ f[k + 2] = g[k + 2]
      BY <1>2, <1>4, <2>2
    <3> QED
      BY <3>1
  <2> QED
    BY <1>d, <2>1, <2>2
<1> HIDE DEF Body
<1>5. \A k \in D : \A w \in [D -> S] : G[k][w] = Body(w, k)
  OBVIOUS
<1>6. LowerDecide(G, D, S, rank)
  <2>1. G \in [D -> [[D -> S] -> S]]
    BY <1>3
  <2> HIDE DEF G
  <2>2. ASSUME NEW k \in D, NEW f \in [D -> S], NEW g \in [D -> S],
               \A j \in D : rank[j] < rank[k] => f[j] = g[j]
        PROVE  G[k][f] = G[k][g]
    <3>1. Body(f, k) = Body(g, k)
      BY <1>4, <2>2
    <3>2. G[k][f] = Body(f, k) /\ G[k][g] = Body(g, k)
      BY <1>5, <2>2
    <3> QED
      BY <3>1, <3>2
  <2> QED
    BY <2>1, <2>2 DEF LowerDecide
<1> DEFINE u == CHOOSE v : v = Step(v)
<1>7. ToLower(str) = u[1]
  BY DEF ToLower, Body
<1> HIDE DEF G
<1>8. PICK w \in [D -> S] : Solves(w, G, D)
  <2> HIDE DEF D, S
  <2> QED
    BY <1>1, <1>6, SolutionByRank, Zenon
<1>9. w = Step(w)
  BY <1>5, <1>8 DEF Solves
<1> HIDE DEF S
<1>10. u = Step(u)
  <2>1. \E v : v = Step(v)
    BY <1>9
  <2> QED
    BY <2>1
<1> HIDE DEF u, D
<1>11. \A k \in D : u[k] = w[k]
  <2> DEFINE B == {k \in D : u[k] # w[k]}
  <2> SUFFICES ASSUME B # {} PROVE FALSE
    OBVIOUS
  <2>1. B \in SUBSET D
    OBVIOUS
  <2>2. PICK k \in B : \A j \in B : rank[k] <= rank[j]
    <3> HIDE DEF B
    <3> QED
      BY <1>1, <2>1, LeastByRank DEF Ranked
  <2>3. \A j \in D : rank[j] < rank[k] => u[j] = w[j]
    <3>1. \A j \in D : rank[j] \in Int
      BY <1>1 DEF Ranked
    <3> QED
      BY <2>2, <3>1
  <2>4. Body(u, k) = Body(w, k)
    BY <1>4, <2>3
  <2>5. u[k] = Body(u, k) /\ w[k] = Body(w, k)
    BY <1>9, <1>10
  <2> QED
    BY <2>4, <2>5
<1>12. 1 \in D /\ n + 1 \in D /\ n + 2 \in D /\ \A k \in 1..n : k \in D
  BY DEF D
<1>13. \A k \in D : w[k] = Body(w, k)
  BY <1>9
<1>14. w[n + 1] = str /\ w[n + 2] = str
  BY <1>12, <1>13 DEF Body
<1>15. ASSUME NEW k \in 1..n
       PROVE  /\ str[k] = "high" => w[k] = w[k + 2]
              /\ str[k] # "high" => w[k] = [w[k + 1] EXCEPT ![k] = Lower(str[k])]
  <2>1. ~(k > n) /\ w[k] = Body(w, k)
    BY <1>12, <1>13
  <2> QED
    BY <2>1 DEF Body
<1>16. ToLower(str) = w[1]
  BY <1>7, <1>11, <1>12
<1>17. w \in [1..(n + 2) -> [1..n -> Classes]]
  BY DEF D, S
<1>18. LoweredFrom(w, str, n)
  BY <1>14, <1>15, <1>17 DEF LoweredFrom
<1> QED
  BY <1>16, <1>18

(* What it leaves of the text behind a place, whatever is there.            *)
Lowered(str, n, F) ==
  \A k \in 0..n :
    /\ \A i \in 1..k : F[k + 1][i] = str[i]
    /\ \A i \in 1..n : F[k + 1][i] \in {str[i], Lower(str[i])}

LEMMA OnlyCasesChange ==
  ASSUME NEW n \in Nat, NEW str, str \in [1..n -> Classes], NEW F, LoweredFrom(F, str, n)
  PROVE  Lowered(str, n, F)
<1>0. /\ F \in [1..(n + 2) -> [1..n -> Classes]] /\ F[n + 1] = str /\ F[n + 2] = str
      /\ \A k \in 1..n :
           /\ str[k] = "high" => F[k] = F[k + 2]
           /\ str[k] # "high" => F[k] = [F[k + 1] EXCEPT ![k] = Lower(str[k])]
  BY DEF LoweredFrom
<1> DEFINE P(k) == /\ \A i \in 1..n : i <= k => F[k + 1][i] = str[i]
                   /\ \A i \in 1..n : F[k + 1][i] \in {str[i], Lower(str[i])}
           S == {k \in 0..(n + 1) : P(k)}
<1> SUFFICES \A k \in 0..n : P(k)
  <2> SUFFICES ASSUME NEW k \in 0..n, P(k)
               PROVE  /\ \A i \in 1..k : F[k + 1][i] = str[i]
                      /\ \A i \in 1..n : F[k + 1][i] \in {str[i], Lower(str[i])}
    BY DEF Lowered
  <2>1. \A i \in 1..k : i \in 1..n /\ i <= k
    OBVIOUS
  <2> QED
    BY <2>1
<1> HIDE DEF P
<1>1. ASSUME NEW k \in 0..(n + 1), \A j \in 0..(n + 1) : j > k => j \in S PROVE k \in S
  <2> SUFFICES P(k)
    OBVIOUS
  <2>4. \A j \in 0..(n + 1) : j > k => P(j)
    BY <1>1
  <2> USE DEF P
  <2>1. \A i \in 1..n : str[i] \in Classes /\ Lower(str[i]) \in Classes
    BY LowerOfClass
  <2>2. CASE k >= n
    <3>0. k = n \/ k = n + 1
      BY <2>2
    <3>1. F[k + 1] = str
      <4>1. CASE k = n
        BY <1>0, <4>1
      <4>2. CASE k = n + 1
        <5>1. k + 1 = n + 2
          BY <4>2
        <5> QED
          BY <1>0, <5>1
      <4> QED
        BY <3>0, <4>1, <4>2
    <3>2. P(k)
      BY <3>1
    <3> QED
      BY <3>2
  <2>3. CASE k < n
    <3> DEFINE c == k + 1
    <3>1. c \in 1..n /\ k = c - 1 /\ k + 1 = c
      BY <2>3
    <3>2. /\ \A i \in 1..n : i <= c => F[c + 1][i] = str[i]
          /\ \A i \in 1..n : F[c + 1][i] \in {str[i], Lower(str[i])}
      <4>1. c \in 0..(n + 1) /\ c > k
        BY <3>1
      <4>2. P(c)
        BY <2>4, <4>1
      <4> QED
        BY <4>2
    <3>3. /\ \A i \in 1..n : i <= c + 1 => F[c + 2][i] = str[i]
          /\ \A i \in 1..n : F[c + 2][i] \in {str[i], Lower(str[i])}
      <4>1. c + 1 \in 0..(n + 1) /\ c + 1 > k /\ (c + 1) + 1 = c + 2
        BY <3>1
      <4>2. P(c + 1)
        BY <2>4, <4>1
      <4> QED
        BY <4>1, <4>2
    <3> HIDE DEF c
    <3>4. \A i \in 1..n : (i <= k => i <= c /\ i <= c + 1 /\ i # c) /\ i \in Int
      BY <3>1
    <3>5. CASE str[c] = "high"
      <4>1. F[c] = F[c + 2]
        BY <1>0, <3>1, <3>5
      <4>2. P(k)
        BY <3>1, <3>3, <3>4, <4>1
      <4> QED
        BY <4>2
    <3>6. CASE str[c] # "high"
      <4>0. F[c + 1] \in [1..n -> Classes]
        <5>1. c + 1 \in 1..(n + 2)
          BY <3>1
        <5> QED
          BY <1>0, <5>1
      <4>1. F[c] = [F[c + 1] EXCEPT ![c] = Lower(str[c])]
        BY <1>0, <3>1, <3>6, Zenon
      <4>2. F[c][c] = Lower(str[c]) /\ \A i \in 1..n : i # c => F[c][i] = F[c + 1][i]
        BY <3>1, <4>0, <4>1
      <4>3. \A i \in 1..n : i <= k => F[c][i] = str[i]
        BY <3>2, <3>4, <4>2
      <4>4. \A i \in 1..n : F[c][i] \in {str[i], Lower(str[i])}
        BY <3>2, <4>2
      <4>5. P(k)
        BY <3>1, <4>3, <4>4
      <4> QED
        BY <4>5
    <3> QED
      BY <3>5, <3>6
  <2> QED
    BY <2>2, <2>3
<1>2. \A k \in 0..(n + 1) : k \in S
  <2> DEFINE m == n + 1
  <2> HIDE DEF S
  <2>1. m \in Nat /\ \A k \in 0..m : (\A j \in 0..m : j > k => j \in S) => k \in S
    BY <1>1
  <2> HIDE DEF m
  <2>2. \A k \in 0..m : k \in S
    BY <2>1, DownwardInduction
  <2> QED
    BY <2>2 DEF m
<1> QED
  BY <1>2

LEMMA ShortCuts ==
  ASSUME NEW C, NEW r \in Seq(C)
  PROVE  /\ 1 <= Len(r) => SubSeq(r, 1, 1) = <<r[1]>>
         /\ 2 <= Len(r) => SubSeq(r, 1, 2) = <<r[1], r[2]>>
<1>1. ASSUME 1 <= Len(r) PROVE SubSeq(r, 1, 1) = <<r[1]>>
  <2> DEFINE s == SubSeq(r, 1, 1)
  <2>1. s \in Seq(C) /\ Len(s) = 1 /\ s[1] = r[1]
    BY <1>1
  <2> HIDE DEF s
  <2>2. s = <<s[1]>>
    BY <2>1
  <2> QED
    BY <2>1, <2>2 DEF s
<1>2. ASSUME 2 <= Len(r) PROVE SubSeq(r, 1, 2) = <<r[1], r[2]>>
  <2> DEFINE s == SubSeq(r, 1, 2)
  <2>1. s \in Seq(C) /\ Len(s) = 2 /\ s[1] = r[1] /\ s[2] = r[2]
    BY <1>2
  <2> HIDE DEF s
  <2>2. s = <<s[1], s[2]>>
    BY <2>1
  <2> QED
    BY <2>1, <2>2 DEF s
<1> QED
  BY <1>1, <1>2

LEMMA RestOfText ==
  ASSUME NEW n \in Nat, NEW str, str \in Seq(Classes), Len(str) = n, NEW k \in 0..n
  PROVE  /\ SubSeq(str, k + 1, n) \in Seq(Classes) /\ Len(SubSeq(str, k + 1, n)) = n - k
         /\ (SubSeq(str, k + 1, n) = <<>>) <=> (k = n)
         /\ k < n => /\ Head(SubSeq(str, k + 1, n)) = str[k + 1]
                     /\ SubSeq(SubSeq(str, k + 1, n), 1, 1) = <<str[k + 1]>>
         /\ k + 1 < n => SubSeq(SubSeq(str, k + 1, n), 1, 2) = <<str[k + 1], str[k + 2]>>
<1> DEFINE r == SubSeq(str, k + 1, n)
<1>1. r \in Seq(Classes) /\ Len(r) = n - k /\ \A i \in 1..(n - k) : r[i] = str[k + i]
  OBVIOUS
<1> HIDE DEF r
<1>2. r = <<>> <=> k = n
  BY <1>1
<1>3. k < n => Head(r) = str[k + 1] /\ SubSeq(r, 1, 1) = <<str[k + 1]>>
  <2> SUFFICES ASSUME k < n PROVE Head(r) = str[k + 1] /\ SubSeq(r, 1, 1) = <<str[k + 1]>>
    OBVIOUS
  <2>1. 1 \in 1..(n - k) /\ 1 <= Len(r)
    BY <1>1
  <2>2. r[1] = str[k + 1]
    BY <1>1, <2>1
  <2>3. SubSeq(r, 1, 1) = <<r[1]>>
    BY <1>1, <2>1, ShortCuts
  <2>4. Head(r) = r[1]
    BY <1>1, <2>1
  <2> QED
    BY <2>2, <2>3, <2>4
<1>4. k + 1 < n => SubSeq(r, 1, 2) = <<str[k + 1], str[k + 2]>>
  <2> SUFFICES ASSUME k + 1 < n PROVE SubSeq(r, 1, 2) = <<str[k + 1], str[k + 2]>>
    OBVIOUS
  <2>1. 1 \in 1..(n - k) /\ 2 \in 1..(n - k) /\ 2 <= Len(r)
    BY <1>1
  <2>2. r[1] = str[k + 1] /\ r[2] = str[k + 2]
    BY <1>1, <2>1
  <2>3. SubSeq(r, 1, 2) = <<r[1], r[2]>>
    BY <1>1, <2>1, ShortCuts
  <2> QED
    BY <2>2, <2>3
<1> QED
  BY <1>1, <1>2, <1>3, <1>4 DEF r

(* The function behind TranToLower. *)
LEMMA TranToLowerStepwise ==
  ASSUME NEW n \in Nat, NEW str, str \in Seq(Classes), Len(str) = n
  PROVE  \E R \in [0..n -> Seq(Classes)] :
           /\ R[n] = <<>>
           /\ \A k \in 0..(n - 1) :
                /\ str[k + 1] = "high" /\ k + 1 = n => R[k] = <<str[k + 1]>> \o R[k + 1]
                /\ str[k + 1] = "high" /\ k + 1 < n =>
                     R[k] = <<str[k + 1], str[k + 2]>> \o R[k + 2]
                /\ str[k + 1] # "high" => R[k] = <<Lower(str[k + 1])>> \o R[k + 1]
           /\ TranToLower(str) = R[0]
<1> DEFINE D == 0..n
           rest(k) == SubSeq(str, k + 1, Len(str))
           Body(w, k) ==
             IF rest(k) = <<>> THEN <<>>
             ELSE LET step == IF Head(rest(k)) = "high" THEN CharWidth(rest(k)) ELSE 1
                      done == IF Head(rest(k)) = "high" THEN SubSeq(rest(k), 1, step)
                              ELSE <<Lower(Head(rest(k)))>>
                  IN  done \o w[k + step]
           Step(w) == [k \in D |-> Body(w, k)]
           u == CHOOSE v : v = Step(v)
<1>1. TranToLower(str) = u[0]
  BY DEF TranToLower
<1>2. ASSUME NEW w, NEW k \in D
      PROVE  /\ k = n => Body(w, k) = <<>>
             /\ k < n => /\ str[k + 1] = "high" /\ k + 1 = n =>
                              Body(w, k) = <<str[k + 1]>> \o w[k + 1]
                         /\ str[k + 1] = "high" /\ k + 1 < n =>
                              Body(w, k) = <<str[k + 1], str[k + 2]>> \o w[k + 2]
                         /\ str[k + 1] # "high" =>
                              Body(w, k) = <<Lower(str[k + 1])>> \o w[k + 1]
  <2>1. /\ Len(rest(k)) = n - k /\ ((rest(k) = <<>>) <=> (k = n))
        /\ k < n => Head(rest(k)) = str[k + 1] /\ SubSeq(rest(k), 1, 1) = <<str[k + 1]>>
        /\ k + 1 < n => SubSeq(rest(k), 1, 2) = <<str[k + 1], str[k + 2]>>
    BY RestOfText
  <2> HIDE DEF rest
  <2>2. k = n => Body(w, k) = <<>>
    BY <2>1
  <2>3. ASSUME k < n, str[k + 1] = "high", k + 1 = n
        PROVE  Body(w, k) = <<str[k + 1]>> \o w[k + 1]
    <3>1. CharWidth(rest(k)) = 1
      BY <2>1, <2>3 DEF CharWidth
    <3> QED
      BY <2>1, <2>3, <3>1
  <2>4. ASSUME k < n, str[k + 1] = "high", k + 1 < n
        PROVE  Body(w, k) = <<str[k + 1], str[k + 2]>> \o w[k + 2]
    <3>1. CharWidth(rest(k)) = 2
      BY <2>1, <2>4 DEF CharWidth
    <3>2. /\ Head(rest(k)) = "high" /\ rest(k) # <<>>
          /\ SubSeq(rest(k), 1, 2) = <<str[k + 1], str[k + 2]>>
      BY <2>1, <2>4
    <3> QED
      BY <3>1, <3>2
  <2>5. ASSUME k < n, str[k + 1] # "high"
        PROVE  Body(w, k) = <<Lower(str[k + 1])>> \o w[k + 1]
    BY <2>1, <2>5
  <2> HIDE DEF Body
  <2> QED
    BY <2>2, <2>3, <2>4, <2>5
<1> HIDE DEF Body, u
<1> DEFINE S == Seq(Classes)
           G == [k \in D |-> [w \in [D -> S] |-> Body(w, k)]]
           rank == [k \in D |-> n - k]
           f0 == [k \in D |-> str]
<1>3. Ranked(D, rank, n) /\ f0 \in [D -> S] /\ \A k \in D : rank[k] = n - k
  BY DEF Ranked
<1>4. ASSUME NEW k \in D, k < n
      PROVE  /\ k + 1 \in D /\ rank[k + 1] < rank[k] /\ str[k + 1] \in Classes
             /\ k + 1 < n => k + 2 \in D /\ rank[k + 2] < rank[k] /\ str[k + 2] \in Classes
             /\ k + 1 = n \/ k + 1 < n
  BY <1>4
<1>d. \A k \in D : k = n \/ k < n
  OBVIOUS
<1> HIDE DEF rank, f0
<1>5. ASSUME NEW k \in D, NEW w \in [D -> S] PROVE Body(w, k) \in S
  <2>1. CASE k = n
    <3>1. Body(w, k) = <<>>
      BY <1>2, <2>1
    <3> QED
      BY <3>1
  <2>2. ASSUME k < n, str[k + 1] = "high", k + 1 = n PROVE Body(w, k) \in S
    <3>1. w[k + 1] \in S /\ <<str[k + 1]>> \in S
      BY <1>4, <2>2
    <3>2. Body(w, k) = <<str[k + 1]>> \o w[k + 1]
      BY <1>2, <2>2
    <3> QED
      BY <3>1, <3>2
  <2>3. ASSUME k < n, str[k + 1] = "high", k + 1 < n PROVE Body(w, k) \in S
    <3>1. w[k + 2] \in S /\ <<str[k + 1], str[k + 2]>> \in S
      BY <1>4, <2>3
    <3>2. Body(w, k) = <<str[k + 1], str[k + 2]>> \o w[k + 2]
      BY <1>2, <2>3
    <3> QED
      BY <3>1, <3>2
  <2>4. ASSUME k < n, str[k + 1] # "high" PROVE Body(w, k) \in S
    <3>1. w[k + 1] \in S /\ <<Lower(str[k + 1])>> \in S
      BY <1>4, <2>4, LowerOfClass
    <3>2. Body(w, k) = <<Lower(str[k + 1])>> \o w[k + 1]
      BY <1>2, <2>4
    <3> QED
      BY <3>1, <3>2
  <2> QED
    BY <1>4, <1>d, <2>1, <2>2, <2>3, <2>4
<1>6. ASSUME NEW k \in D, NEW f, NEW g, \A j \in D : rank[j] < rank[k] => f[j] = g[j]
      PROVE  Body(f, k) = Body(g, k)
  <2>1. CASE k = n
    BY <1>2, <2>1
  <2>2. CASE k < n
    <3>1. f[k + 1] = g[k + 1] /\ (k + 1 < n => f[k + 2] = g[k + 2])
      BY <1>4, <1>6, <2>2
    <3>2. CASE str[k + 1] = "high" /\ k + 1 = n
      BY <1>2, <2>2, <3>1, <3>2
    <3>3. CASE str[k + 1] = "high" /\ k + 1 < n
      BY <1>2, <2>2, <3>1, <3>3
    <3>4. CASE str[k + 1] # "high"
      BY <1>2, <2>2, <3>1, <3>4
    <3> QED
      BY <1>4, <2>2, <3>2, <3>3, <3>4
  <2> QED
    BY <1>d, <2>1, <2>2
<1>7. \A k \in D : \A w \in [D -> S] : G[k][w] = Body(w, k)
  OBVIOUS
<1>8. LowerDecide(G, D, S, rank)
  <2> HIDE DEF S
  <2>1. G \in [D -> [[D -> S] -> S]]
    BY <1>5
  <2> HIDE DEF G
  <2>2. ASSUME NEW k \in D, NEW f \in [D -> S], NEW g \in [D -> S],
               \A j \in D : rank[j] < rank[k] => f[j] = g[j]
        PROVE  G[k][f] = G[k][g]
    <3>1. Body(f, k) = Body(g, k)
      BY <1>6, <2>2
    <3>2. G[k][f] = Body(f, k) /\ G[k][g] = Body(g, k)
      BY <1>7, <2>2
    <3> QED
      BY <3>1, <3>2
  <2> QED
    BY <2>1, <2>2 DEF LowerDecide
<1> HIDE DEF G
<1>9. PICK w \in [D -> S] : Solves(w, G, D)
  <2> HIDE DEF D, S
  <2> QED
    BY <1>3, <1>8, SolutionByRank, Zenon
<1> HIDE DEF S
<1>10. w = Step(w)
  BY <1>7, <1>9 DEF Solves
<1>11. u = Step(u)
  <2>1. \E v : v = Step(v)
    BY <1>10
  <2> QED
    BY <2>1 DEF u
<1> HIDE DEF D
<1>12. \A k \in D : u[k] = w[k]
  <2> DEFINE B == {k \in D : u[k] # w[k]}
  <2> SUFFICES ASSUME B # {} PROVE FALSE
    OBVIOUS
  <2>1. B \in SUBSET D
    OBVIOUS
  <2>2. PICK k \in B : \A j \in B : rank[k] <= rank[j]
    <3> HIDE DEF B
    <3> QED
      BY <1>3, <2>1, LeastByRank DEF Ranked
  <2>3. \A j \in D : rank[j] < rank[k] => u[j] = w[j]
    <3>1. \A j \in D : rank[j] \in Int
      BY <1>3 DEF Ranked
    <3> QED
      BY <2>2, <3>1
  <2>4. Body(u, k) = Body(w, k)
    BY <1>6, <2>3
  <2>5. u[k] = Body(u, k) /\ w[k] = Body(w, k)
    BY <1>10, <1>11
  <2> QED
    BY <2>4, <2>5
<1>13. 0 \in D /\ n \in D /\ \A k \in 0..(n - 1) : k \in D /\ k < n
  BY DEF D
<1>14. \A k \in D : w[k] = Body(w, k)
  BY <1>10
<1>15. w[n] = <<>>
  BY <1>2, <1>13, <1>14
<1>16. ASSUME NEW k \in 0..(n - 1)
       PROVE  /\ str[k + 1] = "high" /\ k + 1 = n => w[k] = <<str[k + 1]>> \o w[k + 1]
              /\ str[k + 1] = "high" /\ k + 1 < n =>
                   w[k] = <<str[k + 1], str[k + 2]>> \o w[k + 2]
              /\ str[k + 1] # "high" => w[k] = <<Lower(str[k + 1])>> \o w[k + 1]
  BY <1>2, <1>13, <1>14
<1>17. TranToLower(str) = w[0]
  BY <1>1, <1>12, <1>13
<1> QED
  BY <1>15, <1>16, <1>17 DEF D, S

LEMMA OneBehindTheOther ==
  ASSUME NEW C, NEW a \in Seq(C), NEW b \in Seq(C)
  PROVE  /\ Len(a \o b) = Len(a) + Len(b)
         /\ \A i \in 1..Len(a) : (a \o b)[i] = a[i]
         /\ \A i \in 1..Len(b) : (a \o b)[Len(a) + i] = b[i]
  OBVIOUS

LEMMA TwoInFront ==
  ASSUME NEW C, NEW x \in C, NEW y \in C, NEW s \in Seq(C)
  PROVE  /\ Len(<<x, y>> \o s) = Len(s) + 2
         /\ (<<x, y>> \o s)[1] = x /\ (<<x, y>> \o s)[2] = y
         /\ \A i \in 3..(Len(s) + 2) : (<<x, y>> \o s)[i] = s[i - 2]
<1>0. PICK p : p = <<x, y>>
  OBVIOUS
<1>1. p \in Seq(C) /\ Len(p) = 2 /\ p[1] = x /\ p[2] = y
  BY <1>0
<1>2. /\ Len(p \o s) = Len(s) + 2 /\ (p \o s)[1] = x /\ (p \o s)[2] = y
      /\ \A i \in 3..(Len(s) + 2) : (p \o s)[i] = s[i - 2]
  <2>0. Len(s) \in Nat
    OBVIOUS
  <2>1. /\ Len(p \o s) = Len(p) + Len(s)
        /\ \A i \in 1..Len(p) : (p \o s)[i] = p[i]
        /\ \A i \in 1..Len(s) : (p \o s)[Len(p) + i] = s[i]
    <3>1. p \in Seq(C)
      BY <1>1
    <3> QED
      BY <3>1, OneBehindTheOther
  <2>2. ASSUME NEW i \in 3..(Len(s) + 2) PROVE (p \o s)[i] = s[i - 2]
    <3>1. i - 2 \in 1..Len(s) /\ Len(p) + (i - 2) = i
      BY <1>1, <2>0
    <3> QED
      BY <2>1, <3>1
  <2>3. 1 \in 1..Len(p) /\ 2 \in 1..Len(p) /\ Len(p) + Len(s) = Len(s) + 2
    BY <1>1, <2>0
  <2> QED
    BY <1>1, <2>1, <2>2, <2>3
<1> QED
  BY <1>0, <1>2

LEMMA NextOne ==
  \A n \in Nat : \A k \in 1..n : k \in 1..(k + 1) /\ k + 1 \in 1..(k + 1)
  OBVIOUS

LEMMA LowerCasingsDoTheSame ==
  ASSUME NEW str, str \in Seq(Classes)
  PROVE  TranToLower(str) = ToLower(str) /\ Strcmpcase(str, ToLower(str))
<1> DEFINE n == Len(str)
<1>0. n \in Nat /\ str \in [1..n -> Classes] /\ Len(str) = n
  OBVIOUS
<1> HIDE DEF n
<1>f. PICK F : LoweredFrom(F, str, n) /\ ToLower(str) = F[1]
  BY <1>0, ToLowerStepwise
<1>1. /\ F \in [1..(n + 2) -> [1..n -> Classes]] /\ F[n + 1] = str /\ F[n + 2] = str
      /\ \A k \in 1..n :
           /\ str[k] = "high" => F[k] = F[k + 2]
           /\ str[k] # "high" => F[k] = [F[k + 1] EXCEPT ![k] = Lower(str[k])]
      /\ ToLower(str) = F[1]
  BY <1>f DEF LoweredFrom
<1>2. PICK R \in [0..n -> Seq(Classes)] :
        /\ R[n] = <<>>
        /\ \A k \in 0..(n - 1) :
             /\ str[k + 1] = "high" /\ k + 1 = n => R[k] = <<str[k + 1]>> \o R[k + 1]
             /\ str[k + 1] = "high" /\ k + 1 < n =>
                  R[k] = <<str[k + 1], str[k + 2]>> \o R[k + 2]
             /\ str[k + 1] # "high" => R[k] = <<Lower(str[k + 1])>> \o R[k + 1]
        /\ TranToLower(str) = R[0]
  BY <1>0, TranToLowerStepwise
<1>3. Lowered(str, n, F)
  BY <1>0, <1>f, OnlyCasesChange
<1>4. Strcmpcase(str, F[1])
  <2>0. 0 \in 0..n /\ 0 + 1 = 1 /\ 1 \in 1..(n + 2)
    BY <1>0
  <2>1. F[1] \in [1..n -> Classes] /\ Len(F[1]) = n
    BY <1>0, <1>1, <2>0
  <2>2. \A i \in 1..n : F[1][i] \in {str[i], Lower(str[i])}
    BY <1>3, <2>0 DEF Lowered
  <2>3. \A i \in 1..n : Lower(str[i]) = Lower(F[1][i])
    BY <1>0, <2>2, LowerOfClass
  <2> QED
    BY <1>0, <2>1, <2>3 DEF Strcmpcase
<1> DEFINE P(k) == Len(R[k]) = n - k /\ \A i \in 1..(n - k) : R[k][i] = F[k + 1][k + i]
           S == {k \in 0..n : P(k)}
<1> HIDE DEF P
<1>5. ASSUME NEW k \in 0..n, \A j \in 0..n : j > k => j \in S PROVE k \in S
  <2> SUFFICES P(k)
    OBVIOUS
  <2>1. \A j \in 0..n : j > k => P(j)
    BY <1>5
  <2>2. CASE k = n
    BY <1>0, <1>2, <2>2 DEF P
  <2>3. CASE k < n
    <3> DEFINE c == k + 1
    <3>1. /\ c \in 1..n /\ k \in 0..(n - 1) /\ k + 1 = c /\ n \in Int /\ k \in Int /\ k = c - 1
          /\ str[c] \in Classes /\ R[c] \in Seq(Classes) /\ c + 1 = k + 2
          /\ F[c] \in [1..n -> Classes] /\ F[c + 1] \in [1..n -> Classes]
      BY <1>0, <1>1, <2>3
    <3>2. Len(R[c]) = n - c /\ \A i \in 1..(n - c) : R[c][i] = F[c + 1][c + i]
      <4>1. P(c)
        BY <2>1, <3>1
      <4> QED
        BY <4>1 DEF P
    <3> HIDE DEF c
    <3>3. CASE str[c] = "high" /\ c = n
      <4>1. R[c] = <<>> /\ R[k] = <<str[c]>> \o R[c]
        BY <1>2, <3>1, <3>3
      <4>2. R[k] = <<str[c]>>
        BY <3>1, <4>1
      <4>3. F[c] = str
        BY <1>1, <3>1, <3>3
      <4>4. n - k = 1 /\ k + 1 = c
        BY <3>1, <3>3
      <4> QED
        BY <4>2, <4>3, <4>4 DEF P
    <3>4. CASE str[c] = "high" /\ c < n
      <4> DEFINE d == c + 1
      <4>1. /\ d \in 2..n /\ d = k + 2 /\ R[d] \in Seq(Classes) /\ str[d] \in Classes
            /\ d \in 0..n /\ d > k /\ c + 2 = d + 1
        BY <1>0, <3>1, <3>4
      <4>2. Len(R[d]) = n - d /\ \A i \in 1..(n - d) : R[d][i] = F[d + 1][d + i]
        <5>1. P(d)
          BY <2>1, <4>1
        <5> QED
          BY <5>1 DEF P
      <4>c. c \in 1..d /\ d \in 1..d
        BY <1>0, <3>1, NextOne, Zenon
      <4> HIDE DEF d
      <4>3. R[k] = <<str[c], str[d]>> \o R[d]
        BY <1>2, <3>1, <3>4, <4>1
      <4>4. F[c] = F[d + 1]
        BY <1>1, <3>1, <3>4, <4>1
      <4>5. F[d + 1][c] = str[c] /\ F[d + 1][d] = str[d]
        BY <1>3, <4>1, <4>c DEF Lowered
      <4>6. /\ Len(R[k]) = n - k /\ R[k][1] = str[c] /\ R[k][2] = str[d]
            /\ \A i \in 3..(n - k) : R[k][i] = R[d][i - 2] /\ i - 2 \in 1..(n - d)
        <5>1. /\ Len(R[k]) = Len(R[d]) + 2 /\ R[k][1] = str[c] /\ R[k][2] = str[d]
              /\ \A i \in 3..(Len(R[d]) + 2) : R[k][i] = R[d][i - 2]
          BY <3>1, <4>1, <4>3, TwoInFront
        <5>2. \A i \in 3..(n - k) : i - 2 \in 1..(n - d)
          BY <3>1, <4>1
        <5>3. Len(R[d]) + 2 = n - k
          BY <3>1, <4>1, <4>2
        <5> QED
          BY <5>1, <5>2, <5>3
      <4>7. ASSUME NEW i \in 1..(n - k) PROVE R[k][i] = F[c][k + i]
        <5>1. CASE i = 1
          BY <3>1, <4>4, <4>5, <4>6, <5>1
        <5>2. CASE i = 2
          <6>1. k + i = d
            BY <3>1, <4>1, <5>2
          <6>2. R[k][i] = str[d]
            BY <4>6, <5>2
          <6>3. F[c][d] = str[d]
            BY <4>4, <4>5
          <6> QED
            BY <6>1, <6>2, <6>3
        <5>3. CASE i >= 3
          <6>1. i \in 3..(n - k) /\ d + (i - 2) = k + i
            BY <3>1, <4>1, <5>3
          <6> QED
            BY <4>2, <4>4, <4>6, <6>1
        <5>4. i = 1 \/ i = 2 \/ i >= 3
          BY <3>1
        <5> QED
          BY <5>1, <5>2, <5>3, <5>4
      <4> QED
        BY <3>1, <4>6, <4>7 DEF P
    <3>5. CASE str[c] # "high"
      <4>1. R[k] = <<Lower(str[c])>> \o R[c] /\ Lower(str[c]) \in Classes
        BY <1>2, <3>1, <3>5, LowerOfClass
      <4>2. F[c] = [F[c + 1] EXCEPT ![c] = Lower(str[c])]
        BY <1>1, <3>1, <3>5
      <4>3. F[c][c] = Lower(str[c]) /\ \A i \in 1..n : i # c => F[c][i] = F[c + 1][i]
        BY <3>1, <4>2
      <4>4. /\ Len(R[k]) = n - k /\ R[k][1] = Lower(str[c])
            /\ \A i \in 2..(n - k) : R[k][i] = R[c][i - 1] /\ i - 1 \in 1..(n - c)
        <5> DEFINE l == Lower(str[c])
        <5>1. R[k] = <<l>> \o R[c] /\ l \in Classes
          BY <4>1
        <5> HIDE DEF l
        <5>2. Len(R[k]) = Len(R[c]) + 1 /\ R[k][1] = l
              /\ \A i \in 2..(Len(R[c]) + 1) : R[k][i] = R[c][i - 1]
          BY <3>1, <5>1
        <5>3. \A i \in 2..(n - k) : i - 1 \in 1..(n - c)
          BY <3>1
        <5>4. Len(R[c]) + 1 = n - k
          BY <3>1, <3>2
        <5> QED
          BY <5>2, <5>3, <5>4 DEF l
      <4>5. ASSUME NEW i \in 1..(n - k) PROVE R[k][i] = F[c][k + i]
        <5>1. CASE i = 1
          BY <3>1, <4>3, <4>4, <5>1
        <5>2. CASE i >= 2
          <6>1. i \in 2..(n - k) /\ c + (i - 1) = k + i /\ k + i \in 1..n /\ k + i # c
            BY <3>1, <5>2
          <6> QED
            BY <3>2, <4>3, <4>4, <6>1
        <5> QED
          BY <3>1, <5>1, <5>2
      <4> QED
        BY <3>1, <4>4, <4>5 DEF P
    <3> QED
      BY <3>1, <3>3, <3>4, <3>5
  <2> QED
    BY <1>0, <2>2, <2>3
<1> HIDE DEF S
<1>6. 0 \in S
  <2>1. \A k \in 0..n : k \in S
    BY <1>0, <1>5, DownwardInduction
  <2> QED
    BY <1>0, <2>1
<1>7. Len(R[0]) = n /\ \A i \in 1..n : R[0][i] = F[1][i]
  <2>1. n - 0 = n /\ 0 + 1 = 1 /\ \A i \in 1..n : 0 + i = i
    BY <1>0
  <2> QED
    BY <1>6, <2>1 DEF S, P
<1>8. R[0] = F[1]
  <2>1. F[1] \in [1..n -> Classes] /\ R[0] \in Seq(Classes)
    <3>1. 1 \in 1..(n + 2) /\ 0 \in 0..n
      BY <1>0
    <3> QED
      BY <1>1, <3>1
  <2> DEFINE a == R[0]
             b == F[1]
  <2>2. a \in Seq(Classes) /\ b \in [1..n -> Classes] /\ Len(a) = n /\ \A i \in 1..n : a[i] = b[i]
    BY <1>7, <2>1
  <2> HIDE DEF a, b
  <2>3. a \in [1..n -> Classes]
    BY <2>2
  <2>4. a = b
    BY <2>2, <2>3
  <2> QED
    BY <2>4 DEF a, b
<1> QED
  BY <1>1, <1>2, <1>4, <1>8

(* The two lower-casings do the same to every text, and Strcmpcase does not *)
(* see it.                                                                  *)
THEOREM LowerCasingsCorrect == WordsSpec => []LowerCasingsAgree
<1>1. SplittingInv => LowerCasingsAgree
  <2> SUFFICES ASSUME SplittingInv PROVE LowerCasingsAgree
    OBVIOUS
  <2>1. text \in Seq(Classes)
    BY WordsAssumption DEF SplittingInv, WordsTypeOK
  <2> QED
    BY <2>1, LowerCasingsDoTheSame DEF LowerCasingsAgree
<1> QED
  BY <1>1, SplittingCorrect, PTL
-----------------------------------------------------------------------------
(* The kinds of words: first those of two-byte codes, ranges of bytes.      *)
LEMMA CodesNest ==
  ASSUME code \in Byte \X Byte
  PROVE  CodesAreNested
<1> SUFFICES ASSUME NEW beyond \in BOOLEAN
             PROVE  LET strays == {\hA2, \hA4, \hA5} \X {\hFF}
                        unread == {\hA1} \X (0..(\hA0 - 1))
                    IN /\ IsGBK(code) => IsNotChar(code)
                       /\ ~(IsChinese(code) /\ IsReservedGBK(code, beyond))
                       /\ IsChinese(code) => IsStrictGBKChar(code)
                       /\ IsReservedGBK(code, beyond) /\ code \notin unread =>
                            IsStrictGBKChar(code) /\ (IsGBK(code) \/ code \in strays)
                       /\ code \in strays => IsValidGBK(code, beyond) /\ ~IsGBK(code)
  BY DEF CodesAreNested
<1> DEFINE c1 == code[1]
           c2 == code[2]
           strays == {\hA2, \hA4, \hA5} \X {\hFF}
           unread == {\hA1} \X (0..(\hA0 - 1))
<1>1. c1 \in 0..255 /\ c2 \in 0..255 /\ code = <<c1, c2>>
  BY DEF Byte
<1>2. /\ code \in strays <=> (c1 \in {\hA2, \hA4, \hA5} /\ c2 = \hFF)
      /\ code \in unread <=> (c1 = \hA1 /\ c2 < \hA0)
  BY <1>1
<1> HIDE DEF strays, unread
<1>3. /\ IsGBK(code) <=> (\h81 <= c1 /\ c1 <= \hFE /\ \h40 <= c2 /\ c2 <= \hFE)
      /\ IsGBK(code) => IsNotChar(code)
  BY <1>1 DEF IsGBK, IsNotChar, Within
<1>4. IsChinese(code) => (c1 < \hA1 \/ c1 > \hA9) /\ IsStrictGBKChar(code)
  BY <1>1 DEF IsChinese, IsStrictGBKChar, Within
<1>5. /\ \hA1 <= c1 /\ c1 <= \hA9 /\ c2 >= \hA0 => IsStrictGBKChar(code)
      /\ \hA8 <= c1 /\ c1 <= \hA9 /\ c2 >= \h40 => IsStrictGBKChar(code)
  BY <1>1 DEF IsStrictGBKChar, Within
<1> DEFINE Fine == IsStrictGBKChar(code) /\ (IsGBK(code) \/ code \in strays)
<1>6. ASSUME IsReservedGBK(code, beyond)
      PROVE  /\ \hA1 <= c1 /\ c1 <= \hA9
             /\ code \notin unread => Fine
  <2>1. CASE c1 = \hA1 /\ IsReservedA1(c2, beyond)
    <3>1. ASSUME c2 >= 160 PROVE c2 <= \hFE
      <4>1. c2 - 160 \in A1char
        BY <1>1, <2>1, <3>1 DEF IsReservedA1
      <4> QED
        BY <1>1, <4>1 DEF A1char
    <3>2. c2 < 160 => code \in unread
      BY <1>2, <2>1
    <3> QED
      BY <1>1, <1>3, <1>5, <2>1, <3>1, <3>2
  <2>2. CASE c1 \in {\hA2, \hA4, \hA5} /\ c2 >= \hA0
    <3>1. IsStrictGBKChar(code)
      BY <1>1, <1>5, <2>2
    <3>2. CASE c2 = \hFF
      BY <1>2, <2>2, <3>1, <3>2
    <3>3. CASE c2 # \hFF
      BY <1>1, <1>3, <2>2, <3>1, <3>3
    <3> QED
      BY <3>2, <3>3
  <2>3. CASE c1 \in {\hA3, \hA6, \hA7} /\ c2 \in \hA1..\hF5
    BY <1>1, <1>3, <1>5, <2>3
  <2>4. CASE c1 \in {\hA8, \hA9} /\ c2 \in \h44..\hE9
    BY <1>1, <1>3, <1>5, <2>4
  <2>5. \/ c1 = \hA1 /\ IsReservedA1(c2, beyond)
        \/ c1 \in {\hA2, \hA4, \hA5} /\ c2 >= \hA0
        \/ c1 \in {\hA3, \hA6, \hA7} /\ c2 \in \hA1..\hF5
        \/ c1 \in {\hA8, \hA9} /\ c2 \in \h44..\hE9
    BY <1>1, <1>6 DEF IsReservedGBK, Within
  <2> QED
    BY <2>1, <2>2, <2>3, <2>4, <2>5
<1>7. ASSUME code \in strays PROVE IsValidGBK(code, beyond) /\ ~IsGBK(code)
  <2>1. c1 \in {\hA2, \hA4, \hA5} /\ c2 = \hFF
    BY <1>2, <1>7
  <2>2. IsReservedGBK(code, beyond)
    BY <2>1 DEF IsReservedGBK
  <2> QED
    BY <1>3, <2>1, <2>2 DEF IsValidGBK
<1>8. ~(IsChinese(code) /\ IsReservedGBK(code, beyond))
  BY <1>1, <1>4, <1>6
<1>9. IsReservedGBK(code, beyond) /\ code \notin unread => Fine
  BY <1>6
<1> QED
  BY <1>3, <1>4, <1>7, <1>8, <1>9 DEF strays, unread

LEMMA DotsAreCounted ==
  ASSUME NEW str, str \in Seq(Classes)
  PROVE  Dots(str) \in Nat
<1>1. IsFiniteSet(2..Len(str))
  BY FS_Interval
<1>2. IsFiniteSet({k \in 2..Len(str) : ~IsPuncChar(str, k) /\ str[k] = "dot"})
  BY <1>1, FS_Subset
<1> QED
  BY <1>2, FS_CardinalityType DEF Dots

(* Two loops over the same characters, and two halves of one count.         *)
LEMMA WordsAreOneKind ==
  ASSUME text \in Seq(Classes)
  PROVE  KindsAreExclusive
<1>1. Dots(text) \in Nat
  BY DotsAreCounted
<1>2. Dots(text) < 2 \/ Dots(text) > 1
  BY <1>1
<1>3. ~(Dots(text) < 2 /\ Dots(text) > 1)
  BY <1>1
<1>4. \A k \in 2..Len(text) : k \in DOMAIN text
  OBVIOUS
<1> QED
  BY <1>2, <1>3, <1>4, Zenon
     DEF KindsAreExclusive, IsLetterNumberWord, IsLetterNumberPuncWord

(* A word of digits and dots, none of them at its beginning. *)
LEMMA NumbersCountDots ==
  ASSUME text \in Seq(Classes)
  PROVE  NumbersAreLetterNumbers
<1> DEFINE n == Len(text)
           ds == {k \in DOMAIN text : text[k] = "dot"}
<1>1. n \in Nat /\ DOMAIN text = 1..n
  OBVIOUS
<1> HIDE DEF n
<1>2. ASSUME IsNumberWord(text)
      PROVE  /\ n >= 1 /\ text[1] = "digit" /\ IsValidCharWord(text)
             /\ \A k \in 1..n : text[k] \in {"digit", "dot"}
  <2>1. \A k \in 1..n : text[k] \in {"digit", "dot"}
    BY <1>1, <1>2 DEF IsNumberWord, IsNumber
  <2>2. n >= 1
    BY <1>1, <1>2 DEF IsNumberWord, IsValidCharWord, n
  <2>3. text[1] = "digit"
    BY <1>2, <2>1, <2>2 DEF IsNumberWord, IsValidCharWord, IsLetter, IsNumberExact
  <2> QED
    BY <1>2, <2>1, <2>2, <2>3 DEF IsNumberWord
<1>3. \A k \in 1..n : IsNumber(text[k]) => IsValidChar(text[k]) /\ ~IsReservedChar(text[k])
  BY DEF IsNumber, IsValidChar, IsReservedChar
<1>4. ds \in SUBSET (1..n) /\ IsFiniteSet(ds) /\ Cardinality(ds) \in Nat
  <2>1. IsFiniteSet(1..n) /\ ds \in SUBSET (1..n)
    BY <1>1, FS_Interval
  <2>2. IsFiniteSet(ds)
    BY <2>1, FS_Subset
  <2> QED
    BY <2>1, <2>2, FS_CardinalityType
<1>5. ASSUME IsNumberWord(text), NEW k \in 2..n
      PROVE  IsPuncChar(text, k) <=>
               text[k] = "dot" /\ ~(text[k - 1] = "digit" /\ k < n /\ text[k + 1] = "digit")
  <2>1. ~IsReservedChar(text[k])
    <3>1. k \in 1..n
      BY <1>1
    <3> QED
      BY <1>2, <1>3, <1>5, <3>1 DEF IsNumber
  <2> QED
    BY <2>1 DEF IsPuncChar, IsNumberExact, n
<1>6. ASSUME IsNumberWord(text), \A k \in 2..n : ~IsPuncChar(text, k)
      PROVE  Dots(text) = Cardinality(ds) /\ text[n] # "dot"
  <2>1. {k \in 2..n : ~IsPuncChar(text, k) /\ text[k] = "dot"} = ds
    <3>1. \A k \in 1..n : text[k] = "dot" => k \in 2..n
      BY <1>1, <1>2, <1>6
    <3>2. \A k \in 2..n : k \in 1..n
      BY <1>1
    <3> QED
      BY <1>1, <1>6, <3>1, <3>2
  <2>2. text[n] # "dot"
    <3> SUFFICES ASSUME text[n] = "dot" PROVE FALSE
      OBVIOUS
    <3>1. n \in 2..n
      BY <1>1, <1>2, <1>6
    <3>2. IsPuncChar(text, n)
      BY <1>1, <1>5, <1>6, <3>1
    <3> QED
      BY <1>6, <3>1, <3>2
  <2> QED
    BY <2>1, <2>2 DEF Dots, n
<1>7. ASSUME IsNumberWord(text), Cardinality(ds) <= 1, text[n] # "dot", NEW k \in 2..n
      PROVE  ~IsPuncChar(text, k)
  <2> SUFFICES ASSUME text[k] = "dot" PROVE text[k - 1] = "digit" /\ k < n /\ text[k + 1] = "digit"
    BY <1>5, <1>7
  <2>1. k \in Int /\ 2 <= k /\ k <= n /\ k # n
    BY <1>1, <1>7
  <2>2. k \in ds /\ k - 1 \in 1..n /\ k + 1 \in 1..n /\ k < n /\ k - 1 # k /\ k + 1 # k
    BY <1>1, <2>1
  <2>3. \A j \in ds : j = k
    <3> SUFFICES ASSUME NEW j \in ds, j # k PROVE FALSE
      OBVIOUS
    <3>0. k \notin {j}
      OBVIOUS
    <3>1. {j, k} \in SUBSET ds
      BY <2>2
    <3>2. Cardinality({j, k}) = 2
      <4>1. IsFiniteSet({j}) /\ Cardinality({j}) = 1
        BY FS_Singleton
      <4>2. Cardinality({j} \cup {k}) = 1 + 1
        BY <3>0, <4>1, FS_AddElement
      <4>3. {j} \cup {k} = {j, k}
        OBVIOUS
      <4> QED
        BY <4>2, <4>3
    <3>3. Cardinality({j, k}) <= Cardinality(ds)
      BY <1>4, <3>1, FS_Subset
    <3> QED
      BY <1>4, <1>7, <3>2, <3>3
  <2>4. k - 1 \notin ds /\ k + 1 \notin ds
    BY <2>2, <2>3
  <2>5. text[k - 1] # "dot" /\ text[k + 1] # "dot"
    BY <1>1, <2>2, <2>4
  <2> QED
    BY <1>2, <1>7, <2>2, <2>5
<1>8. ASSUME IsNumberWord(text)
      PROVE  IsLetterNumberWord(text) <=> Cardinality(ds) <= 1 /\ text[n] # "dot"
  <2>1. \A k \in 2..n : IsValidChar(text[k])
    <3>1. \A k \in 2..n : k \in 1..n
      BY <1>1
    <3> QED
      BY <1>2, <1>3, <1>8, <3>1 DEF IsNumber
  <2>2. ASSUME IsLetterNumberWord(text) PROVE Cardinality(ds) <= 1 /\ text[n] # "dot"
    <3>1. (\A k \in 2..n : ~IsPuncChar(text, k)) /\ Dots(text) < 2
      BY <2>2 DEF IsLetterNumberWord, n
    <3> QED
      BY <1>4, <1>6, <1>8, <3>1
  <2>3. ASSUME Cardinality(ds) <= 1, text[n] # "dot" PROVE IsLetterNumberWord(text)
    <3>1. \A k \in 2..n : ~IsPuncChar(text, k)
      BY <1>7, <1>8, <2>3
    <3>2. Dots(text) < 2
      BY <1>4, <1>6, <1>8, <2>3, <3>1
    <3> QED
      BY <1>2, <1>8, <2>1, <3>1, <3>2 DEF IsLetterNumberWord, n
  <2> QED
    BY <2>2, <2>3
<1>9. ASSUME IsNumberExactWord(text) PROVE IsNumberWord(text) /\ IsLetterNumberWord(text)
  <2>1. IsNumberWord(text) /\ ds = {} /\ text[n] # "dot"
    <3>1. \A k \in DOMAIN text : text[k] = "digit"
      BY <1>9 DEF IsNumberExactWord, IsNumberExact
    <3>2. IsNumberWord(text)
      BY <1>9, <3>1 DEF IsNumberExactWord, IsNumberWord, IsNumber
    <3>3. n \in DOMAIN text
      BY <1>1, <1>2, <3>2
    <3> QED
      BY <3>1, <3>2, <3>3
  <2>2. Cardinality(ds) = 0
    BY <2>1, FS_EmptySet
  <2> QED
    BY <1>8, <2>1, <2>2
<1> QED
  BY <1>8, <1>9 DEF NumbersAreLetterNumbers, n

(* Where an address ends when its slashes are cut off. *)
LastPiece(word, k) ==
  /\ k \in DOMAIN word /\ word[k] # "/"
  /\ \A j \in (k + 1)..Len(word) : word[j] = "/"

LEMMA LastPieceExists ==
  ASSUME NEW S, NEW word \in Seq(S), ~OnlySlashes(word)
  PROVE  \E k \in 1..Len(word) : LastPiece(word, k)
<1> DEFINE n == Len(word)
           D == 1..n
           r == [k \in D |-> n - k]
           B == {k \in D : word[k] # "/"}
<1>1. n \in Nat /\ DOMAIN word = D
  OBVIOUS
<1> HIDE DEF n
<1>2. r \in [D -> 0..n] /\ B \in SUBSET D /\ B # {} /\ \A k \in D : r[k] = n - k
  BY <1>1 DEF OnlySlashes
<1>3. PICK k \in B : \A j \in B : r[k] <= r[j]
  <2> HIDE DEF D, r, B
  <2> QED
    BY <1>1, <1>2, LeastByRank
<1>4. ASSUME NEW j \in (k + 1)..n PROVE word[j] = "/"
  <2>1. j \in D /\ k \in D /\ j > k
    BY <1>1
  <2>2. j \notin B
    BY <1>1, <1>2, <1>3, <2>1
  <2> QED
    BY <2>1, <2>2
<1> QED
  BY <1>1, <1>4 DEF LastPiece, n

(* There is one such place: Slashes does not depend on which is chosen.     *)
LEMMA CutAfterLastPiece ==
  ASSUME NEW S, NEW word \in Seq(S), NEW k \in 1..Len(word), LastPiece(word, k)
  PROVE  CutSlashes(word) = SubSeq(word, 1, k)
<1> DEFINE last == CHOOSE i \in DOMAIN word :
                     word[i] # "/" /\ \A j \in (i + 1)..Len(word) : word[j] = "/"
<1>1. ASSUME NEW i \in DOMAIN word, LastPiece(word, i) PROVE i = k
  <2>1. i \in 1..Len(word)
    OBVIOUS
  <2>2. ~(i < k)
    <3>1. i < k => k \in (i + 1)..Len(word)
      BY <2>1
    <3> QED
      BY <1>1, <3>1 DEF LastPiece
  <2>3. ~(k < i)
    <3>1. k < i => i \in (k + 1)..Len(word)
      BY <2>1
    <3> QED
      BY <1>1, <3>1 DEF LastPiece
  <2> QED
    BY <2>1, <2>2, <2>3
<1>2. last = k
  <2>1. \E i \in DOMAIN word :
          word[i] # "/" /\ \A j \in (i + 1)..Len(word) : word[j] = "/"
    BY DEF LastPiece
  <2>2. last \in DOMAIN word /\ LastPiece(word, last)
    BY <2>1, Zenon DEF LastPiece
  <2> HIDE DEF last
  <2> QED
    BY <1>1, <2>2
<1>3. Slashes(word) = Len(word) - k
  BY <1>2 DEF Slashes
<1>4. Len(word) - (Len(word) - k) = k
  OBVIOUS
<1> QED
  BY <1>3, <1>4 DEF CutSlashes

(* One more slash is cut off as the others are. *)
LEMMA OneMoreSlash ==
  ASSUME NEW S, NEW word \in Seq(S), ~OnlySlashes(word)
  PROVE  /\ CutSlashes(Append(word, "/")) = CutSlashes(word)
         /\ AtSigns(Append(word, "/")) = AtSigns(word)
<1> DEFINE more == Append(word, "/")
<1>1. /\ more \in Seq(S \cup {"/"}) /\ Len(more) = Len(word) + 1
      /\ more[Len(word) + 1] = "/" /\ \A j \in 1..Len(word) : more[j] = word[j]
  OBVIOUS
<1>2. AtSigns(more) = AtSigns(word)
  BY <1>1 DEF AtSigns
<1>3. PICK k \in 1..Len(word) : LastPiece(word, k)
  BY LastPieceExists
<1> HIDE DEF more
<1>4. k \in 1..Len(more) /\ LastPiece(more, k)
  <2>1. ASSUME NEW j \in (k + 1)..Len(more) PROVE more[j] = "/"
    <3>1. j = Len(word) + 1 \/ j \in (k + 1)..Len(word)
      BY <1>1
    <3>2. ASSUME j \in (k + 1)..Len(word) PROVE more[j] = "/"
      <4>1. word[j] = "/" /\ j \in 1..Len(word)
        BY <1>3, <3>2 DEF LastPiece
      <4> QED
        BY <1>1, <4>1
    <3> QED
      BY <1>1, <3>1, <3>2
  <2>2. k \in 1..Len(more) /\ DOMAIN more = 1..Len(more)
    BY <1>1
  <2>3. more[k] # "/"
    BY <1>1, <1>3 DEF LastPiece
  <2> QED
    BY <2>1, <2>2, <2>3 DEF LastPiece
<1>5. CutSlashes(more) = SubSeq(more, 1, k)
  BY <1>1, <1>4, CutAfterLastPiece
<1>6. CutSlashes(word) = SubSeq(word, 1, k)
  BY <1>3, CutAfterLastPiece
<1>7. SubSeq(more, 1, k) = SubSeq(word, 1, k)
  <2> DEFINE a == SubSeq(more, 1, k)
             b == SubSeq(word, 1, k)
  <2>1. a \in Seq(S \cup {"/"}) /\ Len(a) = k /\ \A j \in 1..k : a[j] = more[j]
    BY <1>1
  <2>2. b \in Seq(S) /\ Len(b) = k /\ \A j \in 1..k : b[j] = word[j]
    OBVIOUS
  <2>3. \A j \in 1..k : more[j] = word[j]
    BY <1>1
  <2> HIDE DEF a, b
  <2>4. b \in Seq(S \cup {"/"}) /\ \A j \in 1..Len(a) : a[j] = b[j]
    BY <2>1, <2>2, <2>3
  <2>5. a = b
    BY <2>1, <2>2, <2>4
  <2> QED
    BY <2>5 DEF a, b
<1> QED
  BY <1>2, <1>5, <1>6, <1>7 DEF more

(* The URL test sees the dots before a place, the e-mail test all of them.  *)
LEMMA DotsBeforeGrow ==
  ASSUME NEW S, NEW word \in Seq(S), NEW a \in Int, NEW b \in Int, a <= b
  PROVE  DotsBefore(word, a) <= DotsBefore(word, b)
<1> DEFINE Upto(e) ==
      {k \in DOMAIN word : k < e /\ HasDot(word[k]) /\ (k > 1 \/ word[k] = "www.")}
<1>1. IsFiniteSet(1..Len(word)) /\ DOMAIN word = 1..Len(word)
  BY FS_Interval
<1>2. Upto(b) \in SUBSET (1..Len(word)) /\ Upto(a) \in SUBSET Upto(b)
  <2>1. \A k \in 1..Len(word) : k < a => k < b
    OBVIOUS
  <2> QED
    BY <1>1, <2>1
<1> HIDE DEF Upto
<1>3. IsFiniteSet(Upto(b))
  BY <1>1, <1>2, FS_Subset
<1>4. Cardinality(Upto(a)) <= Cardinality(Upto(b))
  BY <1>2, <1>3, FS_Subset
<1> QED
  BY <1>4 DEF DotsBefore, Upto

(* Both tests look at the same last piece and the same at signs.            *)
LEMMA AddressesDoAgree ==
  ASSUME address \in Seq(Pieces)
  PROVE  AddressesAreOneKind
<1> SUFFICES ASSUME address # <<>>, ~OnlySlashes(address)
             PROVE  LET url == IsLetterNumberPuncUrlWord(address)
                        email == IsLetterNumberPuncEmailWord(address)
                    IN /\ ~(url /\ email)
                       /\ EndsIn(address, Domains) => url \/ email
                       /\ url = IsLetterNumberPuncUrlWord(Append(address, "/"))
                       /\ UrlDots(address) <= EmailDots(address)
                       /\ url => UrlDots(address) = EmailDots(address)
  BY DEF AddressesAreOneKind
<1> DEFINE url == IsLetterNumberPuncUrlWord(address)
           email == IsLetterNumberPuncEmailWord(address)
           n == Len(address)
<1>0. n \in Nat /\ DOMAIN address = 1..n
  OBVIOUS
<1>1. ~(url /\ email)
  BY DEF IsLetterNumberPuncUrlWord, IsLetterNumberPuncEmailWord
<1>2. ASSUME EndsIn(address, Domains) PROVE url \/ email
  <2>1. n \in 1..n /\ address[n] # "/"
    BY <1>0, <1>2 DEF EndsIn, Domains
  <2>2. LastPiece(address, n)
    BY <1>0, <2>1 DEF LastPiece
  <2>3. CutSlashes(address) = SubSeq(address, 1, n)
    BY <2>1, <2>2, CutAfterLastPiece
  <2>4. CutSlashes(address) = address
    BY <2>3
  <2>5. EndsIn(address, Domains \cup Pages)
    BY <1>2 DEF EndsIn
  <2> QED
    BY <1>2, <2>4, <2>5 DEF IsLetterNumberPuncUrlWord, IsLetterNumberPuncEmailWord
<1>3. url = IsLetterNumberPuncUrlWord(Append(address, "/"))
  <2>1. /\ CutSlashes(Append(address, "/")) = CutSlashes(address)
        /\ AtSigns(Append(address, "/")) = AtSigns(address)
    BY OneMoreSlash
  <2> QED
    BY <2>1 DEF IsLetterNumberPuncUrlWord
<1>4. UrlDots(address) <= EmailDots(address)
  <2> DEFINE first == CHOOSE k \in AtSigns(address) : \A j \in AtSigns(address) : k <= j
             end == IF AtSigns(address) = {} THEN n + 1 ELSE first
  <2>1. ASSUME AtSigns(address) # {} PROVE first \in AtSigns(address)
    <3>1. AtSigns(address) \in SUBSET Nat
      BY <1>0 DEF AtSigns
    <3>2. \E k \in AtSigns(address) : \A j \in AtSigns(address) : k <= j
      BY <2>1, <3>1, LeastNumber
    <3> QED
      BY <3>2, Zenon
  <2>2. \A k \in AtSigns(address) : k \in Int /\ k <= n + 1
    BY <1>0 DEF AtSigns
  <2>3. end \in Int /\ end <= n + 1
    <3> HIDE DEF first
    <3>1. n + 1 \in Int /\ n + 1 <= n + 1
      BY <1>0
    <3>2. CASE AtSigns(address) = {}
      BY <3>1, <3>2
    <3>3. CASE AtSigns(address) # {}
      BY <2>1, <2>2, <3>3
    <3> QED
      BY <3>2, <3>3
  <2>4. UrlDots(address) = DotsBefore(address, end)
    BY DEF UrlDots
  <2> HIDE DEF end
  <2>5. n + 1 \in Int
    BY <1>0
  <2>6. DotsBefore(address, end) <= DotsBefore(address, n + 1)
    BY <2>3, <2>5, DotsBeforeGrow
  <2> QED
    BY <2>4, <2>6 DEF EmailDots
<1>5. url => UrlDots(address) = EmailDots(address)
  BY DEF IsLetterNumberPuncUrlWord, UrlDots, EmailDots
<1> QED
  BY <1>1, <1>2, <1>3, <1>4, <1>5

(* Each kind of word agrees with the others, for every text, every code and *)
(* every address, of any length.                                            *)
THEOREM KindsCorrect == WordsSpec => []KindsAgree
<1>1. SplittingInv => KindsAgree
  <2> SUFFICES ASSUME SplittingInv PROVE KindsAgree
    OBVIOUS
  <2>1. text \in Seq(Classes) /\ code \in Byte \X Byte /\ address \in Seq(Pieces)
    BY WordsAssumption DEF SplittingInv, WordsTypeOK
  <2> QED
    BY <2>1, WordsAreOneKind, NumbersCountDots, CodesNest, AddressesDoAgree DEF KindsAgree
<1> QED
  BY <1>1, SplittingCorrect, PTL
=============================================================================
