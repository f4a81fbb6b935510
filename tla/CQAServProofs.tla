--------------------------- MODULE CQAServProofs ---------------------------
(***************************************************************************)
(* The mcd process for any number of requests, connections, questions and  *)
(* faults, any capacity of the queues and any dictionaries: its counters,  *)
(* its replies, and that it implements RequestService.                     *)
(***************************************************************************)
EXTENDS CQAServ, FiniteSetTheorems, TLAPS

(* The counters *)
Counter == [all : Nat, failed : Nat]

LEMMA AddStatCounts ==
  ASSUME NEW st \in [StatNames -> Counter], NEW name \in StatNames, NEW code \in Int
  PROVE  /\ AddStat(st, name, code) \in [StatNames -> Counter]
         /\ AddStat(st, name, code)[name].all = st[name].all + 1
         /\ \A n \in StatNames \ {name} : AddStat(st, name, code)[n] = st[n]
<1> DEFINE new == [all |-> st[name].all + 1,
                   failed |-> st[name].failed + IF code # 0 THEN 1 ELSE 0]
<1>1. AddStat(st, name, code) = [st EXCEPT ![name] = new]
  BY DEF AddStat
<1>2. new \in Counter /\ new.all = st[name].all + 1
  BY DEF Counter
<1> QED
  BY <1>1, <1>2

(* After a reply, both counters of it have gone up by one. *)
LEMMA ReplyStatCounts ==
  ASSUME NEW st \in [StatNames -> Counter], NEW full, NEW r \in Nat
  PROVE  LET new == ReplyStat(st, Enqueue2CcdRet(full), r) IN
         /\ new \in [StatNames -> Counter]
         /\ new["Enqueue2Ccd"].all = st["Enqueue2Ccd"].all + 1
         /\ new["QueryMatched"].all = st["QueryMatched"].all + 1
         /\ new["Request"] = st["Request"]
<1> DEFINE st1 == AddStat(st, "Enqueue2Ccd", 0)
           code == IF r # 0 THEN 0 ELSE -1
           st2 == AddStat(st1, "QueryMatched", code)
<1>1. ReplyStat(st, Enqueue2CcdRet(full), r) = st2
  BY DEF ReplyStat, Enqueue2CcdRet
<1>2. /\ st1 \in [StatNames -> Counter]
      /\ st1["Enqueue2Ccd"].all = st["Enqueue2Ccd"].all + 1
      /\ st1["QueryMatched"] = st["QueryMatched"] /\ st1["Request"] = st["Request"]
  BY AddStatCounts DEF StatNames
<1>3. /\ st2 \in [StatNames -> Counter]
      /\ st2["QueryMatched"].all = st1["QueryMatched"].all + 1
      /\ st2["Enqueue2Ccd"] = st1["Enqueue2Ccd"] /\ st2["Request"] = st1["Request"]
  <2>1. code \in Int
    OBVIOUS
  <2>2. \A s1 \in [StatNames -> Counter], c \in Int :
          LET s2 == AddStat(s1, "QueryMatched", c) IN
          /\ s2 \in [StatNames -> Counter]
          /\ s2["QueryMatched"].all = s1["QueryMatched"].all + 1
          /\ s2["Enqueue2Ccd"] = s1["Enqueue2Ccd"] /\ s2["Request"] = s1["Request"]
    BY AddStatCounts DEF StatNames
  <2> QED
    BY <1>2, <2>1, <2>2
<1> QED
  BY <1>1, <1>2, <1>3
-----------------------------------------------------------------------------
(* The instance of GetJokes has operators of its own for finite sets. *)
LEMMA SameSizes ==
  ASSUME NEW S
  PROVE  /\ Jokes!IsFiniteSet(S) <=> IsFiniteSet(S)
         /\ Jokes!Cardinality(S) = Cardinality(S)
<1>1. Jokes!IsFiniteSet(S) <=> IsFiniteSet(S)
  BY DEF Jokes!IsFiniteSet, IsFiniteSet
<1>2. Jokes!Cardinality(S) = Cardinality(S)
  BY DEF Jokes!Cardinality, Cardinality
<1> QED
  BY <1>1, <1>2

(* The jokes: every step of a call keeps the types. *)
LEMMA JokeInitTypes == Jokes!JokeInit => Jokes!CallTypeOK
<1> SUFFICES ASSUME Jokes!JokeInit PROVE Jokes!CallTypeOK
  OBVIOUS
<1>1. PICK d \in Dictionaries : Jokes!LoadDictionary(d)
  BY DEF Jokes!JokeInit
<1>2. Jokes!IsDictionary(d) /\ m_joke_style_num \in Nat
  <2>1. Jokes!IsDictionary(d)
    BY DictionaryAssumption
  <2>2. IsFiniteSet(DOMAIN d)
    BY <2>1, SameSizes DEF Jokes!IsDictionary
  <2>3. Jokes!Cardinality(DOMAIN d) \in Nat
    BY <2>2, SameSizes, FS_CardinalityType
  <2> QED
    BY <1>1, <2>1, <2>3 DEF Jokes!LoadDictionary, Jokes!StyleNum
<1> QED
  BY <1>1, <1>2 DEF Jokes!JokeInit, Jokes!IdleCall, Jokes!LoadDictionary,
                    Jokes!IsDictionary, Jokes!CallTypeOK

LEMMA CallKeepsTypes ==
  ASSUME Jokes!CallTypeOK, NEW s \in Int, Jokes!Call(s)
  PROVE  Jokes!CallTypeOK' /\ UNCHANGED <<m_jokes, m_joke_style_num>>
  BY DEF Jokes!CallTypeOK, Jokes!Call, Jokes!Branch, Jokes!dictVars

(* A pick adds one joke of its style. *)
LEMMA PickAdds ==
  ASSUME Jokes!CallTypeOK, Jokes!Pick
  PROVE  /\ Jokes!CallTypeOK' /\ UNCHANGED <<m_jokes, m_joke_style_num, gpc, style>>
         /\ gpc \in {"any", "one"}
         /\ \E joke \in Jokes!Joke :
              /\ ans_vec' = Append(ans_vec, joke)
              /\ gpc = "one" => joke.style = style
<1>1. ASSUME NEW s \in DOMAIN m_jokes, NEW j \in m_jokes[s],
             Jokes!KeepIfNew(s, j), UNCHANGED <<m_jokes, m_joke_style_num, gpc, style>>
      PROVE  /\ Jokes!CallTypeOK'
             /\ [style |-> s, idx |-> j] \in Jokes!Joke
             /\ ans_vec' = Append(ans_vec, [style |-> s, idx |-> j])
  <2>1. s \in Int /\ j \in Nat
    BY DEF Jokes!CallTypeOK
  <2>2. [style |-> s, idx |-> j] \in Jokes!Joke
    BY <2>1 DEF Jokes!Joke
  <2>3. ans_vec' = Append(ans_vec, [style |-> s, idx |-> j]) /\ his_idx' = his_idx \cup {j}
    BY <1>1 DEF Jokes!KeepIfNew
  <2>4. ans_vec' \in Seq(Jokes!Joke)
    BY <2>2, <2>3 DEF Jokes!CallTypeOK
  <2> QED
    BY <1>1, <2>1, <2>2, <2>3, <2>4 DEF Jokes!CallTypeOK
<1>2. CASE \E s \in DOMAIN m_jokes : \E j \in m_jokes[s] : Jokes!PickAny(s, j)
  <2>0. PICK s \in DOMAIN m_jokes : \E j \in m_jokes[s] : Jokes!PickAny(s, j)
    BY <1>2
  <2>1. PICK j \in m_jokes[s] : Jokes!PickAny(s, j)
    BY <2>0
  <2> QED
    BY <1>1, <2>1 DEF Jokes!PickAny, Jokes!Sampling
<1>3. CASE \E s \in DOMAIN m_jokes : s = style /\ \E j \in m_jokes[s] : Jokes!PickOne(j)
  <2>1. PICK j \in m_jokes[style] : style \in DOMAIN m_jokes /\ Jokes!PickOne(j)
    BY <1>3
  <2> QED
    BY <1>1, <2>1 DEF Jokes!PickOne, Jokes!Sampling
<1> QED
  BY <1>2, <1>3 DEF Jokes!Pick

LEMMA ReturnKeepsTypes ==
  ASSUME Jokes!CallTypeOK, Jokes!Return
  PROVE  /\ Jokes!CallTypeOK' /\ gpc' = "idle" /\ Len(ans_vec) >= MAX_JOKE_NUM
         /\ UNCHANGED <<m_jokes, m_joke_style_num, style, his_idx, ans_vec>>
  BY DEF Jokes!CallTypeOK, Jokes!Return, Jokes!Enough

LEMMA CrashKeepsTypes ==
  ASSUME Jokes!CallTypeOK, Jokes!Crash
  PROVE  Jokes!CallTypeOK' /\ UNCHANGED <<m_jokes, m_joke_style_num, style, his_idx, ans_vec>>
  BY DEF Jokes!CallTypeOK, Jokes!Crash, Jokes!NoStyleCrash, Jokes!GapCrash
-----------------------------------------------------------------------------
(* Types.  The stack of a request that is left alone keeps them. *)
LEMMA InitTypes == Init => TypeOK
<1> SUFFICES ASSUME Init PROVE TypeOK
  OBVIOUS
<1>1. Jokes!CallTypeOK
  BY JokeInitTypes DEF Init
<1>2. stat \in [StatNames -> Counter]
  BY DEF Init, NoStat, Counter
<1>3. pack \in [seq : Nat, ans : Seq(Jokes!Joke)]
  BY DEF Init, NULL
<1>4. stop \in BOOLEAN
  BY DEF Init
<1> QED
  BY <1>1, <1>2, <1>3, <1>4, CQAServAssumption DEF Init, TypeOK, Counter, Handling, PCs

LEMMA RequestTypes ==
  ASSUME TypeOK, NEW flow \in Flows, NEW kind \in Kinds, NEW q \in Questions,
         CcdRequest(flow, kind, q)
  PROVE  TypeOK'
<1> DEFINE m == [seq |-> Len(submitted) + 1, flow |-> flow, kind |-> kind, question |-> q]
<1>1. m \in Message
  BY DEF TypeOK, Message
<1>2. /\ submitted' = Append(submitted, m)
      /\ mq_ccd_2_mcd' \in {mq_ccd_2_mcd, Append(mq_ccd_2_mcd, m)}
      /\ UNCHANGED <<open, delivered, mq_mcd_2_ccd, pc, stop, loopVars, reqVars, nlpVars, pack,
                     stat, faults, jokeVars>>
  BY DEF CcdRequest, Enqueue
<1>3. submitted' \in Seq(Message) /\ mq_ccd_2_mcd' \in Seq(Message)
  <2>1. submitted \in Seq(Message) /\ mq_ccd_2_mcd \in Seq(Message)
    BY DEF TypeOK
  <2>2. Append(submitted, m) \in Seq(Message) /\ Append(mq_ccd_2_mcd, m) \in Seq(Message)
    BY <1>1, <2>1
  <2> QED
    BY <1>2, <2>1, <2>2
<1> QED
  BY <1>2, <1>3 DEF TypeOK, Handling, loopVars, reqVars, nlpVars, jokeVars, Jokes!CallTypeOK

LEMMA CcdTypes ==
  ASSUME TypeOK, CcdResponse \/ \E flow \in Flows : CloseFlow(flow)
  PROVE  TypeOK'
<1>1. UNCHANGED <<submitted, mq_ccd_2_mcd, pc, stop, loopVars, reqVars, nlpVars, pack,
                  stat, faults, jokeVars>>
  BY DEF CcdResponse, CloseFlow, mqVars
<1>2. /\ open' \subseteq Flows /\ delivered' \subseteq Nat /\ mq_mcd_2_ccd' \in Seq(Reply)
  <2>1. CASE CcdResponse
    <3>1. Head(mq_mcd_2_ccd) \in Reply /\ Tail(mq_mcd_2_ccd) \in Seq(Reply)
      BY <2>1 DEF TypeOK, CcdResponse
    <3> QED
      BY <2>1, <3>1 DEF TypeOK, CcdResponse, Reply
  <2>2. CASE \E flow \in Flows : CloseFlow(flow)
    BY <2>2 DEF TypeOK, CloseFlow, mqVars
  <2> QED
    BY <2>1, <2>2
<1> QED
  BY <1>1, <1>2 DEF TypeOK, Handling, loopVars, reqVars, nlpVars, jokeVars, Jokes!CallTypeOK

(* A step of the loop that touches no queue, request or joke. *)
LEMMA LoopTypes ==
  ASSUME TypeOK,
         \/ EnterHandler \/ ExitRun \/ LeaveLoop \/ DequeueFails
         \/ StalePackCrash \/ Sigkill \/ Sigterm
  PROVE  TypeOK'
<1>1. UNCHANGED <<ccdVars, mqVars, reqVars, nlpVars, pack, stat, jokeVars>>
  BY DEF EnterHandler, ExitRun, LeaveLoop, DequeueFails, StalePackCrash, Sigkill, Sigterm
<1>2. pc' \in PCs /\ (Handling' => Handling)
  BY DEF EnterHandler, ExitRun, LeaveLoop, DequeueFails, StalePackCrash, Sigkill, Sigterm,
         TypeOK, PCs, Handling
<1>4. faults' \in 0..MaxFaults
  BY CQAServAssumption
     DEF EnterHandler, ExitRun, LeaveLoop, DequeueFails, StalePackCrash, Sigkill, Sigterm,
         Fault, TypeOK
<1>5. i' \in Nat /\ ret' \in Nat /\ pack_len' \in {0, 1}
  BY DEF EnterHandler, ExitRun, LeaveLoop, DequeueFails, StalePackCrash, Sigkill, Sigterm,
         TypeOK, loopVars
<1>3. stop' \in BOOLEAN
  BY DEF EnterHandler, ExitRun, LeaveLoop, DequeueFails, StalePackCrash, Sigkill, Sigterm, TypeOK
<1> QED
  BY <1>1, <1>2, <1>3, <1>4, <1>5
     DEF TypeOK, ccdVars, mqVars, reqVars, nlpVars, jokeVars, Jokes!CallTypeOK

LEMMA DequeueTypes == ASSUME TypeOK, Dequeue PROVE TypeOK'
<1> DEFINE m == Head(mq_ccd_2_mcd)
<1>1. m \in Message /\ Tail(mq_ccd_2_mcd) \in Seq(Message)
  BY DEF TypeOK, Dequeue
<1>2. /\ m_recv_buf' = m /\ m_seq_no' = Decoded(m) /\ mq_ccd_2_mcd' = Tail(mq_ccd_2_mcd)
      /\ i' = i + 1 /\ ret' = 0 /\ ans_vec' = <<>>
      /\ stat' \in {stat, AddStat(stat, "Request", 0)}
      /\ pc' \in {"query", "epoll", "loop"}
      /\ UNCHANGED <<ccdVars, mq_mcd_2_ccd, stop, pack_len, nlpVars, pack, faults,
                     m_jokes, m_joke_style_num, gpc, style, his_idx>>
  BY DEF Dequeue, NoAnswers, LoopAgain
<1>3. stat' \in [StatNames -> Counter]
  <2>1. stat \in [StatNames -> Counter]
    BY DEF TypeOK, Counter
  <2>2. AddStat(stat, "Request", 0) \in [StatNames -> Counter]
    BY <2>1, AddStatCounts DEF StatNames
  <2> QED
    BY <1>2, <2>1, <2>2
<1>4. m_seq_no' \in Nat
  BY <1>1, <1>2 DEF Decoded, TypeOK, Message
<1>5. Jokes!CallTypeOK'
  BY <1>2 DEF TypeOK, Jokes!CallTypeOK
<1> HIDE DEF m
<1> QED
  BY <1>1, <1>2, <1>3, <1>4, <1>5 DEF TypeOK, Counter, Handling, PCs, ccdVars, nlpVars

LEMMA QueryTypes ==
  ASSUME TypeOK, DoQuery \/ SkipTag \/ Matched PROVE TypeOK'
<1>1. UNCHANGED <<ccdVars, mqVars, stop, reqVars, pack, stat, faults, jokeVars, i, pack_len>>
  BY DEF DoQuery, SkipTag, Matched, loopVars
<1>2. /\ pc' \in PCs /\ (Handling' => Handling) /\ ret' \in Nat /\ ans_size' \in Nat
  BY DEF DoQuery, SkipTag, Matched, TypeOK, PCs, Handling, nlpVars, loopVars
<1>3. rv' \in Seq(Tag)
  <2>1. CASE DoQuery
    <3>1. CASE Unmatched(m_recv_buf.question)
      BY <2>1, <3>1 DEF DoQuery, TypeOK, nlpVars
    <3>2. CASE ~Unmatched(m_recv_buf.question)
      <4>1. m_recv_buf.question \in Questions
        BY <2>1 DEF DoQuery, TypeOK, Handling, Message
      <4>2. NlpMatch[m_recv_buf.question] \in Seq(Tag)
        BY <3>2, <4>1, CQAServAssumption DEF Unmatched
      <4> QED
        BY <2>1, <3>2, <4>2 DEF DoQuery
    <3> QED
      BY <3>1, <3>2
  <2>2. CASE SkipTag
    BY <2>2 DEF SkipTag, TypeOK
  <2>3. CASE Matched
    BY <2>3 DEF Matched, TypeOK, nlpVars
  <2> QED
    BY <2>1, <2>2, <2>3
<1> QED
  BY <1>1, <1>2, <1>3
     DEF TypeOK, ccdVars, mqVars, reqVars, jokeVars, Jokes!CallTypeOK

(* What a step of GetJokes, or one that starts or ends it, leaves alone. *)
LEMMA JokeStepTypes ==
  ASSUME TypeOK, JokeTag \/ Fallback \/ GetJokesStep \/ GetJokesCrash \/ GotJokes
  PROVE  TypeOK' /\ UNCHANGED <<m_jokes, m_joke_style_num>>
<1>1. UNCHANGED <<ccdVars, mqVars, stop, loopVars, reqVars, pack, stat, faults>>
  BY DEF JokeTag, Fallback, GetJokesStep, GetJokesCrash, GotJokes
<1>2. pc' \in PCs /\ (Handling' => Handling)
  BY DEF JokeTag, Fallback, GetJokesStep, GetJokesCrash, GotJokes, TypeOK, PCs, Handling
<1>3. rv' \in Seq(Tag) /\ ans_size' \in Nat
  <2>1. Len(ans_vec) \in Nat /\ ans_size \in Nat /\ rv \in Seq(Tag)
    BY DEF TypeOK, Jokes!CallTypeOK
  <2>2. rv # <<>> => Tail(rv) \in Seq(Tag)
    BY <2>1
  <2>3. /\ rv' \in {rv} \cup (IF rv # <<>> THEN {Tail(rv)} ELSE {})
        /\ ans_size' \in {ans_size, ans_size + Len(ans_vec)}
    BY DEF JokeTag, Fallback, GetJokesStep, GetJokesCrash, GotJokes, nlpVars
  <2> QED
    BY <2>1, <2>2, <2>3
<1>4. Jokes!CallTypeOK' /\ UNCHANGED <<m_jokes, m_joke_style_num>>
  <2>0. Jokes!CallTypeOK
    BY DEF TypeOK
  <2>1. CASE JokeTag
    <3>0. rv \in Seq(Tag) /\ rv # <<>> /\ Head(rv) # OtherTag
      BY <2>1 DEF JokeTag, TypeOK
    <3>1. Head(rv) \in Int
      <4>1. Head(rv) \in Tag
        BY <3>0
      <4> QED
        BY <3>0, <4>1, CQAServAssumption DEF Tag
    <3> QED
      BY <2>0, <2>1, <3>1, CallKeepsTypes DEF JokeTag
  <2>2. CASE Fallback
    BY <2>0, <2>2, CallKeepsTypes DEF Fallback
  <2>3. CASE GetJokesStep
    BY <2>0, <2>3, PickAdds, ReturnKeepsTypes DEF GetJokesStep
  <2>4. CASE GetJokesCrash
    BY <2>0, <2>4, CrashKeepsTypes DEF GetJokesCrash
  <2>5. CASE GotJokes
    BY <2>0, <2>5 DEF GotJokes, jokeVars, Jokes!CallTypeOK
  <2> QED
    BY <2>1, <2>2, <2>3, <2>4, <2>5
<1> QED
  BY <1>1, <1>2, <1>3, <1>4 DEF TypeOK, ccdVars, mqVars, loopVars, reqVars

LEMMA EncodeTypes == ASSUME TypeOK, EncodeResult \/ EncodeFails PROVE TypeOK'
<1>1. UNCHANGED <<ccdVars, mqVars, stop, i, ret, reqVars, nlpVars, stat, jokeVars>>
  BY DEF EncodeResult, EncodeFails, loopVars
<1>2. /\ pc' \in PCs /\ (Handling' => Handling) /\ pack_len' \in {0, 1}
      /\ faults' \in 0..MaxFaults
  BY CQAServAssumption
     DEF EncodeResult, EncodeFails, Fault, TypeOK, PCs, Handling, loopVars
<1>3. pack' \in [seq : Nat, ans : Seq(Jokes!Joke)]
  <2>1. NULL \in [seq : Nat, ans : Seq(Jokes!Joke)]
    BY DEF NULL
  <2>2. [seq |-> m_seq_no, ans |-> ans_vec] \in [seq : Nat, ans : Seq(Jokes!Joke)]
    BY DEF TypeOK, Jokes!CallTypeOK
  <2> QED
    BY <2>1, <2>2 DEF EncodeResult, EncodeFails
<1> QED
  BY <1>1, <1>2, <1>3
     DEF TypeOK, ccdVars, mqVars, reqVars, nlpVars, jokeVars, Jokes!CallTypeOK

LEMMA ReplyTypes == ASSUME TypeOK, Enqueue2Ccd PROVE TypeOK'
<1> DEFINE reply == [seq |-> pack.seq, flow |-> m_recv_buf.flow, ans |-> pack.ans]
<1>1. reply \in Reply
  BY DEF Enqueue2Ccd, TypeOK, Handling, Message, Reply
<1>2. /\ mq_mcd_2_ccd' \in {mq_mcd_2_ccd, Append(mq_mcd_2_ccd, reply)}
      /\ pc' \in {"epoll", "loop"}
      /\ stat' = ReplyStat(stat, Enqueue2CcdRet(Len(mq_mcd_2_ccd) < ResponseCap), ret)
      /\ UNCHANGED <<ccdVars, mq_ccd_2_mcd, stop, loopVars, reqVars, nlpVars, pack, faults,
                     jokeVars>>
  BY DEF Enqueue2Ccd, Enqueue, LoopAgain
<1>3. mq_mcd_2_ccd' \in Seq(Reply)
  <2>1. mq_mcd_2_ccd \in Seq(Reply)
    BY DEF TypeOK
  <2>2. Append(mq_mcd_2_ccd, reply) \in Seq(Reply)
    BY <1>1, <2>1
  <2> QED
    BY <1>2, <2>1, <2>2
<1>4. stat' \in [StatNames -> Counter]
  <2>1. stat \in [StatNames -> Counter] /\ ret \in Nat
    BY DEF TypeOK, Counter
  <2> QED
    BY <1>2, <2>1, ReplyStatCounts
<1> QED
  BY <1>2, <1>3, <1>4
     DEF TypeOK, Counter, Handling, PCs, ccdVars, loopVars, reqVars, nlpVars, jokeVars,
         Jokes!CallTypeOK

LEMMA ExceptionTypes == ASSUME TypeOK, Exception PROVE TypeOK'
<1>1. /\ pc' = "epoll" /\ gpc' = "idle" /\ faults' \in 0..MaxFaults
      /\ UNCHANGED <<ccdVars, mqVars, stop, loopVars, reqVars, nlpVars, pack, stat,
                     m_jokes, m_joke_style_num, style, his_idx, ans_vec>>
  BY CQAServAssumption DEF Exception, Fault, TypeOK
<1> QED
  BY <1>1 DEF TypeOK, Handling, PCs, ccdVars, mqVars, loopVars, reqVars, nlpVars,
              Jokes!CallTypeOK

LEMMA RestartTypes == ASSUME TypeOK, Restart PROVE TypeOK'
<1>1. Jokes!CallTypeOK'
  <2>1. PICK d \in Dictionaries : m_jokes' = d /\ m_joke_style_num' = Jokes!StyleNum(d)
    BY DEF Restart
  <2>2. Jokes!IsDictionary(d)
    BY DictionaryAssumption
  <2>3. Jokes!StyleNum(d) \in Nat
    BY <2>2, SameSizes, FS_CardinalityType DEF Jokes!IsDictionary, Jokes!StyleNum
  <2> QED
    BY <2>1, <2>2, <2>3 DEF Restart, Jokes!IsDictionary, Jokes!CallTypeOK
<1>2. /\ stat' \in [StatNames -> Counter]
      /\ pack' \in [seq : Nat, ans : Seq(Jokes!Joke)]
  BY DEF Restart, NoStat, Counter, NULL
<1>3. stop' \in BOOLEAN
  BY DEF Restart
<1>4. /\ pc' = "epoll" /\ i' = 0 /\ ret' = 0 /\ pack_len' = 0
      /\ m_recv_buf' = NoMessage /\ m_seq_no' = 0 /\ rv' = <<>> /\ ans_size' = 0
      /\ UNCHANGED <<ccdVars, mqVars, faults>>
  BY DEF Restart
<1> QED
  BY <1>1, <1>2, <1>3, <1>4 DEF TypeOK, Counter, Handling, PCs, ccdVars, mqVars

LEMMA StepTypes == TypeOK /\ [Next]_vars => TypeOK'
<1> SUFFICES ASSUME TypeOK, [Next]_vars PROVE TypeOK'
  OBVIOUS
<1>1. CASE UNCHANGED vars
  BY <1>1 DEF vars, TypeOK, Handling, ccdVars, mqVars, loopVars, reqVars, nlpVars, jokeVars,
              Jokes!CallTypeOK
<1> QED
  BY <1>1, RequestTypes, CcdTypes, LoopTypes, DequeueTypes, QueryTypes, JokeStepTypes,
     EncodeTypes, ReplyTypes, ExceptionTypes, RestartTypes
     DEF Next, HandlerStep
-----------------------------------------------------------------------------
(* Whose request it is.  What is queued and what is in hand was sent as it  *)
(* is, by the number it carries; in hand there is a question, and m_seq_no  *)
(* is its number.                                                           *)
Sent(m) == m.seq \in DOMAIN submitted /\ submitted[m.seq] = m

QueuedWereSent == \A k \in DOMAIN mq_ccd_2_mcd : Sent(mq_ccd_2_mcd[k])

InHandWasSent ==
  /\ Handling => Sent(m_recv_buf) /\ m_recv_buf.kind = "query" /\ m_seq_no = m_recv_buf.seq
  /\ pc = "enqueue" => pack.seq \in {0, m_seq_no}

OwnInv == TypeOK /\ QueuedWereSent /\ InHandWasSent /\ ReplyToOwnFlow

LEMMA InitOwn == Init => OwnInv
  BY InitTypes DEF Init, OwnInv, QueuedWereSent, InHandWasSent, ReplyToOwnFlow, Handling

LEMMA RequestOwn ==
  ASSUME OwnInv, NEW flow \in Flows, NEW kind \in Kinds, NEW q \in Questions,
         CcdRequest(flow, kind, q)
  PROVE  OwnInv'
<1> DEFINE m == [seq |-> Len(submitted) + 1, flow |-> flow, kind |-> kind, question |-> q]
<1>1. /\ submitted' = Append(submitted, m)
      /\ mq_ccd_2_mcd' \in {mq_ccd_2_mcd, Append(mq_ccd_2_mcd, m)}
      /\ UNCHANGED <<mq_mcd_2_ccd, pc, reqVars, pack>>
  BY DEF CcdRequest, Enqueue
<1>2. submitted \in Seq(Message) /\ mq_ccd_2_mcd \in Seq(Message)
  BY DEF OwnInv, TypeOK
<1>3. /\ Len(submitted) + 1 \in DOMAIN submitted' /\ submitted'[Len(submitted) + 1] = m
      /\ \A k \in DOMAIN submitted : k \in DOMAIN submitted' /\ submitted'[k] = submitted[k]
  BY <1>1, <1>2
<1>4. \A k \in DOMAIN mq_ccd_2_mcd' :
        \/ mq_ccd_2_mcd'[k] = m
        \/ k \in DOMAIN mq_ccd_2_mcd /\ mq_ccd_2_mcd'[k] = mq_ccd_2_mcd[k]
  <2> HIDE DEF m
  <2> QED
    BY <1>1, <1>2
<1>5. QueuedWereSent'
  <2>1. ASSUME NEW k \in DOMAIN mq_ccd_2_mcd'
        PROVE  /\ mq_ccd_2_mcd'[k].seq \in DOMAIN submitted'
               /\ submitted'[mq_ccd_2_mcd'[k].seq] = mq_ccd_2_mcd'[k]
    <3>1. CASE mq_ccd_2_mcd'[k] = m
      BY <1>3, <3>1
    <3>2. CASE k \in DOMAIN mq_ccd_2_mcd /\ mq_ccd_2_mcd'[k] = mq_ccd_2_mcd[k]
      <4>1. /\ mq_ccd_2_mcd[k].seq \in DOMAIN submitted
            /\ submitted[mq_ccd_2_mcd[k].seq] = mq_ccd_2_mcd[k]
        BY <3>2 DEF OwnInv, QueuedWereSent, Sent
      <4> QED
        BY <1>3, <3>2, <4>1
    <3> QED
      BY <1>4, <3>1, <3>2
  <2> QED
    BY <2>1 DEF QueuedWereSent, Sent
<1>6. InHandWasSent'
  <2>1. Handling => Sent(m_recv_buf)'
    <3>1. Handling => Sent(m_recv_buf)
      BY DEF OwnInv, InHandWasSent
    <3>2. m_recv_buf' = m_recv_buf
      BY <1>1 DEF reqVars
    <3> QED
      BY <1>3, <3>1, <3>2 DEF Sent
  <2> QED
    BY <1>1, <2>1 DEF OwnInv, InHandWasSent, Handling, reqVars
<1>7. ReplyToOwnFlow'
  BY <1>1, <1>3 DEF OwnInv, ReplyToOwnFlow
<1> QED
  BY <1>5, <1>6, <1>7, RequestTypes DEF OwnInv

(* A step that neither sends, takes nor answers a request. *)
LEMMA QuietOwn ==
  ASSUME OwnInv, TypeOK', UNCHANGED <<submitted, mqVars>>, Handling' => Handling,
         Handling' => UNCHANGED reqVars,
         pc' = "enqueue" => pack'.seq \in {0, m_seq_no}
  PROVE  OwnInv'
  BY DEF OwnInv, QueuedWereSent, InHandWasSent, ReplyToOwnFlow, Sent, Handling, mqVars, reqVars

LEMMA DequeueOwn == ASSUME OwnInv, Dequeue PROVE OwnInv'
<1> DEFINE m == Head(mq_ccd_2_mcd)
<1>1. mq_ccd_2_mcd \in Seq(Message) /\ mq_ccd_2_mcd # <<>>
  BY DEF OwnInv, TypeOK, Dequeue
<1>2. /\ mq_ccd_2_mcd' = Tail(mq_ccd_2_mcd) /\ m_recv_buf' = m /\ m_seq_no' = Decoded(m)
      /\ pc' = IF m.kind = "query" THEN "query" ELSE LoopAgain(0)
      /\ UNCHANGED <<submitted, mq_mcd_2_ccd>>
  BY DEF Dequeue, ccdVars
<1>3. Sent(m)
  BY <1>1 DEF OwnInv, QueuedWereSent
<1>4. QueuedWereSent'
  <2>1. \A k \in DOMAIN mq_ccd_2_mcd' :
          k + 1 \in DOMAIN mq_ccd_2_mcd /\ mq_ccd_2_mcd'[k] = mq_ccd_2_mcd[k + 1]
    BY <1>1, <1>2
  <2> QED
    BY <1>2, <2>1 DEF OwnInv, QueuedWereSent, Sent
<1>5. InHandWasSent'
  <2>1. Handling' => m.kind = "query"
    BY <1>2 DEF LoopAgain, Handling
  <2>2. pc' # "enqueue"
    BY <1>2 DEF LoopAgain
  <2>3. m.kind = "query" => m_seq_no' = m.seq
    BY <1>2 DEF Decoded
  <2> QED
    BY <1>2, <1>3, <2>1, <2>2, <2>3 DEF InHandWasSent, Sent
<1>6. ReplyToOwnFlow'
  BY <1>2 DEF OwnInv, ReplyToOwnFlow
<1> QED
  BY <1>4, <1>5, <1>6, DequeueTypes DEF OwnInv

(* The reply has the number in hand, or none, and goes where that came from. *)
LEMMA ReplyOwn == ASSUME OwnInv, Enqueue2Ccd PROVE OwnInv'
<1> DEFINE reply == [seq |-> pack.seq, flow |-> m_recv_buf.flow, ans |-> pack.ans]
<1>1. /\ mq_mcd_2_ccd' \in {mq_mcd_2_ccd, Append(mq_mcd_2_ccd, reply)}
      /\ pc' \in {"epoll", "loop"} /\ UNCHANGED <<submitted, mq_ccd_2_mcd>>
  BY DEF Enqueue2Ccd, Enqueue, LoopAgain, ccdVars
<1>2. reply.seq # 0 =>
        /\ reply.seq \in DOMAIN submitted
        /\ submitted[reply.seq].flow = reply.flow
        /\ submitted[reply.seq].kind = "query"
  BY DEF Enqueue2Ccd, OwnInv, InHandWasSent, Handling, Sent
<1>3. ReplyToOwnFlow'
  <2>1. mq_mcd_2_ccd \in Seq(Reply)
    BY DEF OwnInv, TypeOK
  <2>2. \A k \in DOMAIN mq_mcd_2_ccd' :
          \/ mq_mcd_2_ccd'[k] = reply
          \/ k \in DOMAIN mq_mcd_2_ccd /\ mq_mcd_2_ccd'[k] = mq_mcd_2_ccd[k]
    <3> HIDE DEF reply
    <3> QED
      BY <1>1, <2>1
  <2> HIDE DEF reply
  <2> QED
    BY <1>1, <1>2, <2>2 DEF OwnInv, ReplyToOwnFlow
<1> QED
  BY <1>1, <1>3, ReplyTypes
     DEF OwnInv, QueuedWereSent, InHandWasSent, Sent, Handling

LEMMA ResponseOwn == ASSUME OwnInv, CcdResponse PROVE OwnInv'
<1>1. /\ mq_mcd_2_ccd \in Seq(Reply) /\ mq_mcd_2_ccd # <<>>
      /\ mq_mcd_2_ccd' = Tail(mq_mcd_2_ccd)
      /\ UNCHANGED <<submitted, mq_ccd_2_mcd, pc, reqVars, pack>>
  BY DEF CcdResponse, OwnInv, TypeOK
<1>2. \A k \in DOMAIN mq_mcd_2_ccd' :
        k + 1 \in DOMAIN mq_mcd_2_ccd /\ mq_mcd_2_ccd'[k] = mq_mcd_2_ccd[k + 1]
  BY <1>1
<1>3. ReplyToOwnFlow'
  BY <1>1, <1>2 DEF OwnInv, ReplyToOwnFlow
<1> QED
  BY <1>1, <1>3, CcdTypes DEF OwnInv, QueuedWereSent, InHandWasSent, Sent, Handling, reqVars

LEMMA StepOwn == OwnInv /\ [Next]_vars => OwnInv'
<1> SUFFICES ASSUME OwnInv, [Next]_vars PROVE OwnInv'
  OBVIOUS
<1>0. TypeOK'
  BY StepTypes DEF OwnInv
<1>1. CASE UNCHANGED vars
  BY <1>0, <1>1, QuietOwn DEF vars, ccdVars, mqVars, reqVars, Handling, OwnInv, InHandWasSent
<1>2. CASE \E flow \in Flows, kind \in Kinds, q \in Questions : CcdRequest(flow, kind, q)
  BY <1>2, RequestOwn
<1>3. CASE \E flow \in Flows : CloseFlow(flow)
  BY <1>0, <1>3, QuietOwn DEF CloseFlow, reqVars, Handling, OwnInv, InHandWasSent
<1>4. CASE EnterHandler \/ ExitRun \/ LeaveLoop \/ DequeueFails \/ DoQuery \/ SkipTag \/ JokeTag
             \/ Fallback \/ GetJokesStep \/ GetJokesCrash \/ GotJokes \/ Matched \/ StalePackCrash
             \/ Exception \/ Sigkill \/ Restart
  <2>1. UNCHANGED <<submitted, mqVars>> /\ (Handling' => Handling /\ UNCHANGED reqVars)
    BY <1>4 DEF EnterHandler, ExitRun, LeaveLoop, DequeueFails, DoQuery, SkipTag, JokeTag, Fallback,
                GetJokesStep, GetJokesCrash, GotJokes, Matched, StalePackCrash, Exception,
                Sigkill, Restart, Handling, ccdVars
  <2>2. pc' # "enqueue"
    BY <1>4 DEF EnterHandler, ExitRun, LeaveLoop, DequeueFails, DoQuery, SkipTag, JokeTag, Fallback,
                GetJokesStep, GetJokesCrash, GotJokes, Matched, StalePackCrash, Exception,
                Sigkill, Restart
  <2> QED
    BY <1>0, <2>1, <2>2, QuietOwn
<1>5. CASE EncodeResult \/ EncodeFails
  <2>1. /\ UNCHANGED <<submitted, mqVars, reqVars>> /\ Handling
        /\ pack'.seq \in {0, m_seq_no}
    BY <1>5 DEF EncodeResult, EncodeFails, NULL, Handling, ccdVars
  <2> QED
    BY <1>0, <2>1, QuietOwn
<1>6. CASE Sigterm
  BY <1>0, <1>6, QuietOwn DEF Sigterm, ccdVars, reqVars, Handling, OwnInv, InHandWasSent
<1> QED
  BY <1>1, <1>2, <1>3, <1>4, <1>5, <1>6, DequeueOwn, ReplyOwn, ResponseOwn
     DEF Next, HandlerStep
-----------------------------------------------------------------------------
(* The counters: both of a reply go up together, after "Request" did. *)
LEMMA StepCounters ==
  ASSUME TypeOK, CountersAgree, [Next]_vars
  PROVE  CountersAgree'
<1>0. stat \in [StatNames -> Counter] /\ ret \in Nat
  BY DEF TypeOK, Counter
<1>1. CASE Dequeue
  <2>1. ~Handling /\ pc' \in {"query", "epoll", "loop"}
    BY <1>1 DEF Dequeue, Handling, LoopAgain
  <2>2. CASE stat' = stat /\ pc' # "query"
    BY <2>1, <2>2 DEF CountersAgree, Handling
  <2>3. CASE stat' = AddStat(stat, "Request", 0)
    <3>0. /\ AddStat(stat, "Request", 0)["Request"].all = stat["Request"].all + 1
          /\ AddStat(stat, "Request", 0)["Enqueue2Ccd"] = stat["Enqueue2Ccd"]
          /\ AddStat(stat, "Request", 0)["QueryMatched"] = stat["QueryMatched"]
      BY <1>0, AddStatCounts DEF StatNames
    <3>1. /\ stat'["Request"].all = stat["Request"].all + 1
          /\ stat'["Enqueue2Ccd"] = stat["Enqueue2Ccd"]
          /\ stat'["QueryMatched"] = stat["QueryMatched"]
      BY <2>3, <3>0
    <3>2. \A n \in StatNames : stat[n].all \in Nat
      BY <1>0 DEF Counter
    <3> QED
      BY <2>1, <3>1, <3>2 DEF CountersAgree, Handling, StatNames
  <2> QED
    BY <1>1, <2>1, <2>2, <2>3 DEF Dequeue, LoopAgain
<1>2. CASE Enqueue2Ccd
  <2>1. /\ stat'["Enqueue2Ccd"].all = stat["Enqueue2Ccd"].all + 1
        /\ stat'["QueryMatched"].all = stat["QueryMatched"].all + 1
        /\ stat'["Request"] = stat["Request"]
    BY <1>0, <1>2, ReplyStatCounts DEF Enqueue2Ccd
  <2>2. Handling /\ ~Handling'
    BY <1>2 DEF Enqueue2Ccd, Handling, LoopAgain
  <2>3. \A n \in StatNames : stat[n].all \in Nat
    BY <1>0 DEF Counter
  <2> QED
    BY <2>1, <2>2, <2>3 DEF CountersAgree, StatNames
<1>3. CASE Restart
  BY <1>3 DEF Restart, CountersAgree, NoStat, StatNames, Handling
<1>4. CASE stat' = stat /\ (Handling' => Handling)
  <2>1. \A n \in StatNames : stat[n].all \in Nat
    BY <1>0 DEF Counter
  <2> QED
    BY <1>4, <2>1 DEF CountersAgree, StatNames
<1>5. ASSUME ~Dequeue, ~Enqueue2Ccd, ~Restart PROVE stat' = stat /\ (Handling' => Handling)
  BY <1>5 DEF Next, HandlerStep, CcdRequest, CloseFlow, CcdResponse, EnterHandler, ExitRun,
              LeaveLoop, DequeueFails, DoQuery, SkipTag, JokeTag, Fallback, GetJokesStep,
              GetJokesCrash, GotJokes, Matched, EncodeResult, EncodeFails, StalePackCrash,
              Exception, Sigterm, Sigkill, Handling, vars
<1> QED
  BY <1>1, <1>2, <1>3, <1>4, <1>5
-----------------------------------------------------------------------------
(* No request in hand is given up but for the causes it names. *)
LEMMA StepLosesNothing ==
  ASSUME TypeOK, [Next]_vars, Handling, ~Handling' \/ m_recv_buf' # m_recv_buf
  PROVE  \/ Len(mq_mcd_2_ccd') = Len(mq_mcd_2_ccd) + 1
         \/ pc = "enqueue" /\ Len(mq_mcd_2_ccd) >= ResponseCap
         \/ faults' # faults
         \/ pc' = "crashed"
<1>1. CASE Enqueue2Ccd
  <2>1. mq_mcd_2_ccd \in Seq(Reply) /\ ResponseCap \in Nat
    BY CQAServAssumption DEF TypeOK
  <2> QED
    BY <1>1, <2>1 DEF Enqueue2Ccd, Enqueue
<1>2. CASE Exception \/ Sigkill
  BY <1>2 DEF Exception, Sigkill, Fault, TypeOK
<1>3. CASE GetJokesCrash \/ StalePackCrash
  BY <1>3 DEF GetJokesCrash, StalePackCrash
<1>4. ~Dequeue /\ ~Restart /\ ~EnterHandler /\ ~ExitRun /\ ~LeaveLoop /\ ~DequeueFails
  BY DEF Dequeue, Restart, EnterHandler, ExitRun, LeaveLoop, DequeueFails, Handling, Alive
<1>5. ASSUME ~Enqueue2Ccd, ~Exception, ~Sigkill, ~GetJokesCrash, ~StalePackCrash
      PROVE  FALSE
  BY <1>4, <1>5
     DEF Next, HandlerStep, CcdRequest, CloseFlow, CcdResponse, DoQuery, SkipTag, JokeTag,
         Fallback, GetJokesStep, GotJokes, Matched, EncodeResult, EncodeFails, Sigterm,
         Handling, vars, reqVars
<1> QED
  BY <1>1, <1>2, <1>3, <1>5
-----------------------------------------------------------------------------
(* What a reply may hold.  While the tags are walked, a style asked for     *)
(* that has jokes is either still to come or has made ans_size positive, so *)
(* the call for any style is made only when it may be.                      *)
asked == Asked(m_recv_buf.question)

Fit(ans) ==
  /\ Unmatched(m_recv_buf.question) => ans = <<>>
  /\ \/ 0 \in asked
     \/ asked \cap DOMAIN m_jokes = {}
     \/ \A a \in DOMAIN ans : ans[a].style \in asked

ToCome(t) == \E k \in DOMAIN rv : rv[k] = t
NoJokes(t) == t = 0 \/ t \notin DOMAIN m_jokes

TagsInv ==
  pc \in {"tags", "jokes"} =>
    /\ ~Unmatched(m_recv_buf.question)
    /\ \A k \in DOMAIN rv : rv[k] \in asked \cup {OtherTag}

NothingYetInv ==
  pc = "tags" /\ ans_size = 0 => \A t \in asked : NoJokes(t) \/ ToCome(t)

StyleInv ==
  pc = "jokes" =>
    /\ style = 0 => 0 \in asked \/ asked \cap DOMAIN m_jokes = {}
    /\ style # 0 => style \in asked
    /\ gpc = "any" => style = 0
    /\ gpc = "one" => style # 0
    /\ gpc = "idle" => NoJokes(style) \/ Len(ans_vec) > 0
    /\ ans_size = 0 => \A t \in asked : NoJokes(t) \/ ToCome(t) \/ t = style

FitInv ==
  /\ pc \in {"query"} => ans_vec = <<>>
  /\ pc \in {"tags", "jokes", "encode"} => Fit(ans_vec)
  /\ pc = "enqueue" /\ pack # NULL => Fit(pack.ans)

AnswerInv == TypeOK /\ TagsInv /\ NothingYetInv /\ StyleInv /\ FitInv

(* No style asked for is OtherTag, and an empty answer fits every question. *)
LEMMA EmptyFits == Fit(<<>>) /\ OtherTag \notin asked
  BY DEF Fit, asked, Asked

(* Taking the first tag off. *)
LEMMA TagTaken ==
  ASSUME TypeOK, rv # <<>>, rv' = Tail(rv)
  PROVE  /\ \A k \in DOMAIN rv' : \E j \in DOMAIN rv : rv'[k] = rv[j]
         /\ \A t : ToCome(t) => t = Head(rv) \/ ToCome(t)'
         /\ Head(rv) = rv[1] /\ 1 \in DOMAIN rv
<1>1. rv \in Seq(Tag) /\ Len(rv) \in Nat \ {0}
  BY DEF TypeOK
<1>2. \A k \in DOMAIN rv' : k + 1 \in DOMAIN rv /\ rv'[k] = rv[k + 1]
  BY <1>1
<1>3. \A k \in DOMAIN rv : k = 1 \/ (k - 1 \in DOMAIN rv' /\ rv'[k - 1] = rv[k])
  BY <1>1
<1>4. Head(rv) = rv[1] /\ 1 \in DOMAIN rv
  BY <1>1
<1> QED
  BY <1>2, <1>3, <1>4 DEF ToCome

(* A step that neither walks the tags nor draws jokes. *)
LEMMA QuietAnswer ==
  ASSUME AnswerInv, TypeOK',
         \/ pc' \in {"epoll", "loop", "exited", "crashed"}
         \/ UNCHANGED <<pc, m_recv_buf, nlpVars, pack, jokeVars>>
  PROVE  AnswerInv'
  BY DEF AnswerInv, TagsInv, NothingYetInv, StyleInv, FitInv, Fit, asked, ToCome, NoJokes,
         nlpVars, jokeVars

LEMMA DequeueAnswer == ASSUME AnswerInv, Dequeue PROVE AnswerInv'
<1>1. pc' \in {"query", "epoll", "loop"} /\ ans_vec' = <<>>
  BY DEF Dequeue, LoopAgain, NoAnswers
<1> QED
  BY <1>1, DequeueTypes DEF AnswerInv, TagsInv, NothingYetInv, StyleInv, FitInv

LEMMA DoQueryAnswer == ASSUME AnswerInv, DoQuery PROVE AnswerInv'
<1> DEFINE q == m_recv_buf.question
<1>1. UNCHANGED <<m_recv_buf, pack, jokeVars>> /\ ans_vec = <<>>
  BY DEF DoQuery, reqVars, AnswerInv, FitInv
<1>2. Fit(ans_vec)'
  BY <1>1, EmptyFits DEF Fit, asked, jokeVars
<1>3. CASE Unmatched(q)
  <2>1. pc' = "encode"
    BY <1>3 DEF DoQuery
  <2> QED
    BY <1>2, <2>1, QueryTypes DEF AnswerInv, TagsInv, NothingYetInv, StyleInv, FitInv
<1>4. CASE ~Unmatched(q)
  <2>1. pc' = "tags" /\ rv' = NlpMatch[q]
    BY <1>4 DEF DoQuery
  <2>2. asked' = {NlpMatch[q][k] : k \in DOMAIN NlpMatch[q]} \ {OtherTag}
    BY <1>1, <1>4 DEF asked, Asked
  <2>3. TagsInv'
    BY <1>1, <1>4, <2>1, <2>2 DEF TagsInv
  <2>4. NothingYetInv'
    BY <2>1, <2>2 DEF NothingYetInv, ToCome
  <2> QED
    BY <1>2, <2>1, <2>3, <2>4, QueryTypes DEF AnswerInv, StyleInv, FitInv
<1> QED
  BY <1>3, <1>4

LEMMA SkipTagAnswer == ASSUME AnswerInv, SkipTag PROVE AnswerInv'
<1>1. /\ pc = "tags" /\ pc' = "tags" /\ rv # <<>> /\ rv' = Tail(rv) /\ Head(rv) = OtherTag
      /\ UNCHANGED <<m_recv_buf, ans_size, jokeVars>> /\ TypeOK
  BY DEF SkipTag, reqVars, AnswerInv
<1>2. asked' = asked /\ OtherTag \notin asked /\ OtherTag \notin asked'
  BY <1>1, EmptyFits DEF asked
<1>3. TagsInv'
  BY <1>1, <1>2, TagTaken DEF AnswerInv, TagsInv
<1>4. NothingYetInv'
  BY <1>1, <1>2, TagTaken DEF AnswerInv, NothingYetInv, NoJokes, jokeVars
<1>5. FitInv'
  BY <1>1, <1>2 DEF AnswerInv, FitInv, Fit, jokeVars
<1> QED
  BY <1>1, <1>3, <1>4, <1>5, QueryTypes DEF AnswerInv, StyleInv

(* A call starts with an empty answer, for a tag or for any style. *)
LEMMA JokeTagAnswer == ASSUME AnswerInv, JokeTag PROVE AnswerInv'
<1>1. /\ pc = "tags" /\ pc' = "jokes" /\ rv # <<>> /\ rv' = Tail(rv) /\ Head(rv) # OtherTag
      /\ UNCHANGED <<m_recv_buf, ans_size>> /\ TypeOK
      /\ style' = Head(rv) /\ gpc' = Jokes!Branch(Head(rv)) /\ ans_vec' = <<>>
      /\ m_jokes' = m_jokes
  BY DEF JokeTag, reqVars, AnswerInv, Jokes!Call, Jokes!dictVars
<1>2. asked' = asked
  BY <1>1 DEF asked
<1>3. TagsInv'
  BY <1>1, <1>2, TagTaken DEF AnswerInv, TagsInv
<1>4. StyleInv'
  <2>1. style' \in asked
    BY <1>1, TagTaken DEF AnswerInv, TagsInv
  <2>2. gpc' = IF style' = 0 THEN "any" ELSE IF style' \in DOMAIN m_jokes THEN "one" ELSE "idle"
    BY <1>1 DEF Jokes!Branch
  <2>3. ans_size = 0 => \A t \in asked : NoJokes(t) \/ t = style' \/ ToCome(t)'
    BY <1>1, TagTaken DEF AnswerInv, NothingYetInv
  <2> QED
    BY <1>1, <1>2, <2>1, <2>2, <2>3 DEF StyleInv, NoJokes
<1>5. FitInv'
  BY <1>1, <1>2, EmptyFits DEF FitInv, Fit
<1> QED
  BY <1>1, <1>3, <1>4, <1>5, JokeStepTypes DEF AnswerInv, NothingYetInv

LEMMA FallbackAnswer == ASSUME AnswerInv, Fallback PROVE AnswerInv'
<1>1. /\ pc = "tags" /\ pc' = "jokes" /\ rv = <<>> /\ rv' = rv /\ ans_size = 0
      /\ UNCHANGED <<m_recv_buf, ans_size>> /\ TypeOK
      /\ style' = 0 /\ gpc' = "any" /\ ans_vec' = <<>> /\ m_jokes' = m_jokes
  BY DEF Fallback, reqVars, nlpVars, AnswerInv, Jokes!Call, Jokes!dictVars, Jokes!Branch
<1>2. asked' = asked
  BY <1>1 DEF asked
<1>3. \A t \in asked : NoJokes(t)
  BY <1>1 DEF AnswerInv, NothingYetInv, ToCome
<1>4. 0 \in asked \/ asked \cap DOMAIN m_jokes = {}
  BY <1>3 DEF NoJokes
<1>5. TagsInv'
  BY <1>1, <1>2 DEF AnswerInv, TagsInv
<1>6. StyleInv'
  BY <1>1, <1>2, <1>3, <1>4 DEF StyleInv, NoJokes
<1>7. FitInv'
  BY <1>1, <1>2, EmptyFits DEF FitInv, Fit
<1> QED
  BY <1>1, <1>5, <1>6, <1>7, JokeStepTypes DEF AnswerInv, NothingYetInv

(* A pick is of the style called for, and a call that returns has jokes. *)
LEMMA GetJokesAnswer == ASSUME AnswerInv, GetJokesStep PROVE AnswerInv'
<1>1. /\ pc = "jokes" /\ pc' = "jokes" /\ UNCHANGED <<m_recv_buf, rv, ans_size>>
      /\ TypeOK /\ Jokes!CallTypeOK
  BY DEF GetJokesStep, reqVars, nlpVars, AnswerInv, TypeOK
<1>2. asked' = asked
  BY <1>1 DEF asked
<1>3. /\ UNCHANGED <<m_jokes, style>>
      /\ \/ /\ gpc' = gpc /\ gpc # "idle"
            /\ \E joke \in Jokes!Joke :
                 ans_vec' = Append(ans_vec, joke) /\ (gpc = "one" => joke.style = style)
         \/ gpc' = "idle" /\ ans_vec' = ans_vec /\ Len(ans_vec) > 0
  <2>1. CASE Jokes!Pick
    BY <1>1, <2>1, PickAdds
  <2>2. CASE Jokes!Return
    <3>1. MAX_JOKE_NUM \in Nat \ {0} /\ Len(ans_vec) \in Nat
      BY <1>1, CQAServAssumption DEF Jokes!CallTypeOK
    <3> QED
      BY <1>1, <2>2, <3>1, ReturnKeepsTypes
  <2> QED
    BY <2>1, <2>2 DEF GetJokesStep
<1>4. TagsInv' /\ StyleInv'
  BY <1>1, <1>2, <1>3 DEF AnswerInv, TagsInv, StyleInv, NoJokes, ToCome
<1>5. Fit(ans_vec)'
  <2>1. CASE ans_vec' = ans_vec
    BY <1>1, <1>2, <1>3, <2>1 DEF AnswerInv, FitInv, Fit
  <2>2. CASE ans_vec' # ans_vec
    <3>1. PICK joke \in Jokes!Joke :
            ans_vec' = Append(ans_vec, joke) /\ (gpc = "one" => joke.style = style)
      BY <1>3, <2>2
    <3>2. gpc \in {"any", "one"}
      BY <1>1, <1>3, <2>2, PickAdds, ReturnKeepsTypes DEF GetJokesStep
    <3>3. ~Unmatched(m_recv_buf.question) /\ Fit(ans_vec) /\ ans_vec \in Seq(Jokes!Joke)
      BY <1>1 DEF AnswerInv, TagsInv, FitInv, Jokes!CallTypeOK
    <3>4. \/ 0 \in asked \/ asked \cap DOMAIN m_jokes = {}
          \/ joke.style \in asked
      BY <1>1, <3>1, <3>2 DEF AnswerInv, StyleInv
    <3>5. \/ 0 \in asked \/ asked \cap DOMAIN m_jokes = {}
          \/ \A a \in DOMAIN ans_vec' : ans_vec'[a].style \in asked
      BY <3>1, <3>3, <3>4 DEF Fit
    <3> QED
      BY <1>1, <1>2, <1>3, <3>3, <3>5 DEF Fit
  <2> QED
    BY <2>1, <2>2
<1> QED
  BY <1>1, <1>4, <1>5, JokeStepTypes DEF AnswerInv, NothingYetInv, FitInv

LEMMA GotJokesAnswer == ASSUME AnswerInv, GotJokes PROVE AnswerInv'
<1>1. /\ pc = "jokes" /\ pc' = "tags" /\ gpc = "idle" /\ ans_size' = ans_size + Len(ans_vec)
      /\ UNCHANGED <<m_recv_buf, rv, jokeVars>>
      /\ ans_size \in Nat /\ Len(ans_vec) \in Nat
  BY DEF GotJokes, reqVars, AnswerInv, TypeOK, Jokes!CallTypeOK
<1>2. asked' = asked
  BY <1>1 DEF asked
<1>3. NothingYetInv'
  <2> SUFFICES ASSUME ans_size' = 0 PROVE \A t \in asked : NoJokes(t) \/ ToCome(t)
    BY <1>1, <1>2 DEF NothingYetInv, NoJokes, ToCome, jokeVars
  <2>1. ans_size = 0 /\ NoJokes(style)
    BY <1>1 DEF AnswerInv, StyleInv
  <2> QED
    BY <1>1, <2>1 DEF AnswerInv, StyleInv
<1>4. TagsInv' /\ FitInv'
  BY <1>1, <1>2 DEF AnswerInv, TagsInv, FitInv, Fit, jokeVars
<1> QED
  BY <1>1, <1>3, <1>4, JokeStepTypes DEF AnswerInv, StyleInv

LEMMA EncodeAnswer ==
  ASSUME AnswerInv, Matched \/ EncodeResult \/ EncodeFails PROVE AnswerInv'
<1>1. /\ UNCHANGED <<m_recv_buf, jokeVars>> /\ Fit(ans_vec)
      /\ \/ pc' = "encode"
         \/ pc' = "enqueue" /\ (pack' # NULL => pack'.ans = ans_vec)
  BY DEF Matched, EncodeResult, EncodeFails, reqVars, AnswerInv, FitInv
<1>2. asked' = asked
  BY <1>1 DEF asked
<1>3. FitInv'
  BY <1>1, <1>2 DEF FitInv, Fit, jokeVars
<1> QED
  BY <1>1, <1>3, QueryTypes, EncodeTypes DEF AnswerInv, TagsInv, NothingYetInv, StyleInv

LEMMA StepAnswer == AnswerInv /\ [Next]_vars => AnswerInv'
<1> SUFFICES ASSUME AnswerInv, [Next]_vars PROVE AnswerInv'
  OBVIOUS
<1>0. TypeOK'
  BY StepTypes DEF AnswerInv
<1>1. CASE \/ UNCHANGED vars \/ CcdResponse \/ Sigterm
           \/ \E flow \in Flows : CloseFlow(flow)
           \/ \E flow \in Flows, kind \in Kinds, q \in Questions : CcdRequest(flow, kind, q)
  <2>1. UNCHANGED <<pc, m_recv_buf, nlpVars, pack, jokeVars>>
    BY <1>1 DEF vars, CcdResponse, Sigterm, CloseFlow, CcdRequest, reqVars
  <2> QED
    BY <1>0, <2>1, QuietAnswer
<1>2. CASE EnterHandler \/ ExitRun \/ LeaveLoop \/ DequeueFails \/ GetJokesCrash \/ Enqueue2Ccd
             \/ StalePackCrash \/ Exception \/ Sigkill \/ Restart
  <2>1. pc' \in {"epoll", "loop", "exited", "crashed"}
    BY <1>2 DEF EnterHandler, ExitRun, LeaveLoop, DequeueFails, GetJokesCrash, Enqueue2Ccd,
                StalePackCrash, Exception, Sigkill, Restart, LoopAgain
  <2> QED
    BY <1>0, <2>1, QuietAnswer
<1> QED
  BY <1>1, <1>2, DequeueAnswer, DoQueryAnswer, SkipTagAnswer, JokeTagAnswer, FallbackAnswer,
     GetJokesAnswer, GotJokesAnswer, EncodeAnswer
     DEF Next, HandlerStep
-----------------------------------------------------------------------------
(* The two processes and their queues keep their types: in every state of   *)
(* the behaviour, across faults and restarts.                               *)
THEOREM TypeCorrect == Spec => []TypeOK
<1>1. Init => TypeOK
  BY InitTypes
<1> QED
  BY <1>1, StepTypes, PTL DEF Spec

(* Every reply waiting for ccd goes to the connection its request came      *)
(* from, and carries the number of a question that was really sent: for     *)
(* any number of connections and requests, any room in the queues and any   *)
(* faults (wqa_mcd_proc.cc:123, 223, 320).                                  *)
THEOREM ReplyToOwnFlowCorrect == Spec => []ReplyToOwnFlow
<1>1. OwnInv => ReplyToOwnFlow
  BY DEF OwnInv
<1> QED
  BY <1>1, InitOwn, StepOwn, PTL DEF Spec

(* No reply holds a joke its own question did not ask for, whatever was     *)
(* left in ans_vec by another tag or another request, for any questions,    *)
(* tags and dictionaries (wqa_mcd_proc.cc:312, 317).                        *)
THEOREM AnswersFitCorrect == Spec => []AnswersFitTheQuestion
<1>1. Init => AnswerInv
  BY InitTypes DEF Init, AnswerInv, TagsInv, NothingYetInv, StyleInv, FitInv
<1>2. AnswerInv => AnswersFitTheQuestion
  BY DEF AnswerInv, FitInv, Fit, asked, AnswersFitTheQuestion
<1> QED
  BY <1>1, <1>2, StepAnswer, PTL DEF Spec

(* The counters of requests, replies and matched questions agree in every   *)
(* state, matched or not, dropped or not (wqa_mcd_proc.cc:335, 369-370).    *)
THEOREM CountersCorrect == Spec => []CountersInv
<1>1. Init => CountersInv
  BY InitTypes DEF Init, CountersInv, CountersAgree, NoStat, StatNames, Handling
<1>2. CountersInv /\ [Next]_vars => CountersInv'
  BY StepTypes, StepCounters DEF CountersInv
<1> QED
  BY <1>1, <1>2, PTL DEF Spec

(* A request in hand is lost only to a full response queue, a fault or the  *)
(* death of the process, whatever the questions and the batch limit.        *)
THEOREM NoSilentLossCorrect == Spec => NoSilentLoss
<1>1. TypeOK /\ [Next]_vars =>
        [(Handling /\ (~Handling' \/ m_recv_buf' # m_recv_buf)) =>
           \/ Len(mq_mcd_2_ccd') = Len(mq_mcd_2_ccd) + 1
           \/ pc = "enqueue" /\ Len(mq_mcd_2_ccd) >= ResponseCap
           \/ faults' # faults
           \/ pc' = "crashed"]_vars
  BY StepLosesNothing
<1> QED
  BY <1>1, TypeCorrect, PTL DEF Spec, NoSilentLoss
-----------------------------------------------------------------------------
(* The process implements RequestService.  The requests stand in one line:  *)
(* those replied to, the replies that wait, the one in hand, the queue,     *)
(* those not yet sent.  Numbers only grow along it, so every step moves one *)
(* request one place on, and it is the oldest of its place.                 *)
latest   == Len(submitted)
SeqsOf(q) == {q[k].seq : k \in DOMAIN q}
Queued   == SeqsOf(mq_ccd_2_mcd)
InHand   == IF Handling THEN {m_recv_buf.seq} ELSE {}
Answered == SeqsOf(mq_mcd_2_ccd) \ {0}

Before(S, T) == \A s \in S, t \in T : s < t

LineInv ==
  /\ latest \in 0..MaxRequests
  /\ Queued \subseteq 1..latest /\ InHand \subseteq 1..latest
  /\ Answered \subseteq 1..latest /\ delivered \subseteq 1..latest
  /\ Before(delivered, Answered) /\ Before(delivered, InHand) /\ Before(delivered, Queued)
  /\ Before(Answered, InHand) /\ Before(Answered, Queued) /\ Before(InHand, Queued)

(* Each queue by itself is in order; header-only replies have no place.     *)
QueueInv == \A a, b \in DOMAIN mq_ccd_2_mcd : a < b => mq_ccd_2_mcd[a].seq < mq_ccd_2_mcd[b].seq

ReplyInv ==
  \A a, b \in DOMAIN mq_mcd_2_ccd :
    a < b /\ mq_mcd_2_ccd[a].seq # 0 /\ mq_mcd_2_ccd[b].seq # 0
      => mq_mcd_2_ccd[a].seq < mq_mcd_2_ccd[b].seq
-----------------------------------------------------------------------------
(* The service's state, as the refinement mapping gives it. *)
seen == [r \in 1..MaxRequests |-> StatusOf(r)]

Where(r, n, queued, hand, answered, done) ==
  CASE r > n         -> "unsent"
    [] r \in queued   -> "queued"
    [] r \in hand     -> "handling"
    [] r \in answered -> "answered"
    [] r \in done     -> "delivered"
    [] OTHER          -> "gone"

LEMMA StatusBySets ==
  ASSUME NEW r \in 1..MaxRequests
  PROVE  /\ seen[r] = Where(r, latest, Queued, InHand, Answered, delivered)
         /\ seen'[r] = Where(r, latest', Queued', InHand', Answered', delivered')
<1>1. r # 0
  BY CQAServAssumption
<1>2. /\ InQueue(r, mq_ccd_2_mcd) <=> r \in Queued
      /\ InQueue(r, mq_mcd_2_ccd) <=> r \in Answered
      /\ (Handling /\ m_recv_buf.seq = r) <=> r \in InHand
  BY <1>1 DEF InQueue, SeqsOf, Queued, Answered, InHand
<1>3. /\ InQueue(r, mq_ccd_2_mcd') <=> r \in Queued'
      /\ InQueue(r, mq_mcd_2_ccd') <=> r \in Answered'
      /\ (Handling' /\ m_recv_buf'.seq = r) <=> r \in InHand'
  BY <1>1 DEF InQueue, SeqsOf, Queued, Answered, InHand
<1>4. StatusOf(r) = Where(r, latest, Queued, InHand, Answered, delivered)
  BY <1>2 DEF StatusOf, Where, latest
<1>5. StatusOf(r)' = Where(r, latest', Queued', InHand', Answered', delivered')
  BY <1>3 DEF StatusOf, Where, latest
<1> QED
  BY <1>4, <1>5 DEF seen

(* A step that moves one request only. *)
LEMMA OneMoves ==
  ASSUME NEW k \in 1..MaxRequests,
         \A r \in (1..MaxRequests) \ {k} : seen'[r] = seen[r]
  PROVE  seen' = [seen EXCEPT ![k] = seen'[k]]
  BY DEF seen

LEMMA NoneMoves ==
  ASSUME latest' = latest, Queued' = Queued, InHand' = InHand, Answered' = Answered,
         delivered' = delivered
  PROVE  seen' = seen
<1>1. \A r \in 1..MaxRequests : seen'[r] = seen[r]
  BY StatusBySets
<1> QED
  BY <1>1 DEF seen
-----------------------------------------------------------------------------
(* The moves of the line are the actions of the service.                    *)
LEMMA Arrives ==
  ASSUME LineInv, latest' = latest + 1, latest' <= MaxRequests,
         Queued' \in {Queued, Queued \cup {latest + 1}},
         InHand' = InHand, Answered' = Answered, delivered' = delivered
  PROVE  LineInv' /\ Service!Next
<1> DEFINE n == latest + 1
<1>1. n \in 1..MaxRequests /\ latest \in Nat
  BY CQAServAssumption DEF LineInv
<1>2. LineInv'
  BY <1>1, CQAServAssumption DEF LineInv, Before
<1>3. \A r \in (1..MaxRequests) \ {n} : seen'[r] = seen[r]
  BY <1>1, StatusBySets DEF Where, LineInv
<1>4. /\ seen[n] = "unsent" /\ seen'[n] \in {"queued", "gone"}
      /\ \A o \in 1..(n - 1) : seen[o] # "unsent"
  <2>1. \A o \in 1..(n - 1) : o \in 1..MaxRequests /\ ~(o > latest)
    BY <1>1, CQAServAssumption
  <2>2. n \notin Queued /\ n \notin InHand /\ n \notin Answered /\ n \notin delivered
    BY <1>1 DEF LineInv
  <2>3. n > latest /\ ~(n > latest')
    BY <1>1
  <2> HIDE DEF n
  <2>4. seen[n] = "unsent"
    BY <1>1, <2>2, <2>3, StatusBySets DEF Where, LineInv
  <2>5. seen'[n] \in {"queued", "gone"}
    BY <1>1, <2>2, <2>3, StatusBySets DEF Where
  <2>6. \A o \in 1..(n - 1) : seen[o] # "unsent"
    BY <2>1, StatusBySets DEF Where
  <2> QED
    BY <2>4, <2>5, <2>6
<1>5. Service!Arrive(n)
  BY <1>1, <1>3, <1>4, OneMoves
     DEF Service!Arrive, Service!Oldest, Service!Becomes, seen
<1> QED
  BY <1>1, <1>2, <1>5 DEF Service!Next, Service!Request

LEMMA IsTaken ==
  ASSUME LineInv, NEW k \in Queued, \A o \in Queued : k <= o, InHand = {},
         Queued' = Queued \ {k}, InHand' \in {{}, {k}},
         latest' = latest, Answered' = Answered, delivered' = delivered
  PROVE  LineInv' /\ Service!Next
<1>1. k \in 1..MaxRequests /\ latest \in Nat /\ k <= latest
  BY CQAServAssumption DEF LineInv
<1>2. LineInv'
  <2>1. \A o \in Queued' : k < o
    BY <1>1 DEF LineInv
  <2> QED
    BY <1>1, <2>1 DEF LineInv, Before
<1>3. \A r \in (1..MaxRequests) \ {k} : seen'[r] = seen[r]
  BY StatusBySets DEF Where
<1>4. k \notin Answered /\ k \notin delivered
  BY <1>1 DEF LineInv, Before
<1>5. /\ seen[k] = "queued" /\ seen'[k] \in {"handling", "gone"}
      /\ \A o \in 1..(k - 1) : seen[o] # "queued"
  <2>1. \A o \in 1..(k - 1) : o \in 1..MaxRequests /\ o \notin Queued
    BY <1>1, CQAServAssumption DEF LineInv
  <2>2. \A o \in 1..(k - 1) : seen[o] # "queued"
    BY <2>1, StatusBySets DEF Where
  <2>3. seen[k] = "queued" /\ seen'[k] \in {"handling", "gone"}
    BY <1>1, <1>4, StatusBySets DEF Where
  <2> QED
    BY <2>2, <2>3
<1>6. \A r \in 1..MaxRequests : seen[r] # "handling"
  BY StatusBySets DEF Where
<1>7. Service!Take(k)
  BY <1>1, <1>3, <1>5, <1>6, OneMoves
     DEF Service!Take, Service!Idle, Service!Oldest, Service!Becomes, Service!Request, seen
<1> QED
  BY <1>1, <1>2, <1>7 DEF Service!Next, Service!Request

LEMMA IsConcluded ==
  ASSUME LineInv, NEW k, InHand = {k}, InHand' = {},
         Answered' \in {Answered, Answered \cup {k}},
         latest' = latest, Queued' = Queued, delivered' = delivered
  PROVE  LineInv' /\ Service!Next
<1>1. k \in 1..MaxRequests /\ latest \in Nat /\ k <= latest
  BY CQAServAssumption DEF LineInv
<1>2. LineInv'
  BY <1>1 DEF LineInv, Before
<1>3. \A r \in (1..MaxRequests) \ {k} : seen'[r] = seen[r]
  BY StatusBySets DEF Where
<1>4. k \notin Queued /\ k \notin Answered /\ k \notin delivered
  BY <1>1 DEF LineInv, Before
<1>5. seen[k] = "handling" /\ seen'[k] \in {"answered", "gone"}
  BY <1>1, <1>4, StatusBySets DEF Where
<1>6. Service!Conclude(k)
  BY <1>1, <1>3, <1>5, OneMoves DEF Service!Conclude, Service!Becomes, seen
<1> QED
  BY <1>1, <1>2, <1>6 DEF Service!Next, Service!Request

LEMMA IsDelivered ==
  ASSUME LineInv, NEW k \in Answered, \A o \in Answered : k <= o,
         Answered' = Answered \ {k}, delivered' \in {delivered, delivered \cup {k}},
         latest' = latest, Queued' = Queued, InHand' = InHand
  PROVE  LineInv' /\ Service!Next
<1>1. k \in 1..MaxRequests /\ latest \in Nat /\ k <= latest
  BY CQAServAssumption DEF LineInv
<1>2. LineInv'
  <2>1. \A o \in Answered' : k < o
    BY <1>1 DEF LineInv
  <2> QED
    BY <1>1, <2>1 DEF LineInv, Before
<1>3. \A r \in (1..MaxRequests) \ {k} : seen'[r] = seen[r]
  BY StatusBySets DEF Where
<1>4. k \notin Queued /\ k \notin InHand /\ k \notin delivered
  BY <1>1 DEF LineInv, Before
<1>5. /\ seen[k] = "answered" /\ seen'[k] \in {"delivered", "gone"}
  BY <1>1, <1>4, StatusBySets DEF Where
<1>6. \A o \in 1..(k - 1) : seen[o] # "answered"
  <2>1. \A o \in 1..(k - 1) : o \in 1..MaxRequests /\ o \notin Answered
    BY <1>1, CQAServAssumption DEF LineInv
  <2> QED
    BY <2>1, StatusBySets DEF Where
<1>7. Service!Deliver(k)
  BY <1>1, <1>3, <1>5, <1>6, OneMoves
     DEF Service!Deliver, Service!Oldest, Service!Becomes, seen
<1> QED
  BY <1>1, <1>2, <1>7 DEF Service!Next, Service!Request
-----------------------------------------------------------------------------
(* The steps of the code are moves of the line, or leave it alone. *)
SeqInv == OwnInv /\ LineInv /\ QueueInv /\ ReplyInv

LEMMA SeqsOfAppend ==
  ASSUME NEW S, NEW q \in Seq(S), NEW m \in S
  PROVE  /\ SeqsOf(Append(q, m)) = SeqsOf(q) \cup {m.seq}
         /\ \A a, b \in DOMAIN Append(q, m) :
              a < b => /\ a \in DOMAIN q /\ Append(q, m)[a] = q[a]
                       /\ \/ b \in DOMAIN q /\ Append(q, m)[b] = q[b]
                          \/ Append(q, m)[b] = m
<1>1. /\ \A k \in DOMAIN q : k \in DOMAIN Append(q, m) /\ Append(q, m)[k] = q[k]
      /\ Len(q) + 1 \in DOMAIN Append(q, m) /\ Append(q, m)[Len(q) + 1] = m
      /\ \A k \in DOMAIN Append(q, m) : k \in DOMAIN q \/ k = Len(q) + 1
  OBVIOUS
<1>2. SeqsOf(Append(q, m)) = SeqsOf(q) \cup {m.seq}
  BY <1>1 DEF SeqsOf
<1>3. \A a, b \in DOMAIN Append(q, m) : a < b => a \in DOMAIN q
  OBVIOUS
<1> QED
  BY <1>1, <1>2, <1>3

LEMMA SeqsOfTail ==
  ASSUME NEW S, NEW q \in Seq(S), q # <<>>
  PROVE  /\ SeqsOf(q) = SeqsOf(Tail(q)) \cup {Head(q).seq}
         /\ \A k \in DOMAIN Tail(q) : /\ k + 1 \in DOMAIN q /\ Tail(q)[k] = q[k + 1]
                                      /\ 1 < k + 1
         /\ Head(q) = q[1] /\ 1 \in DOMAIN q
<1>1. /\ \A k \in DOMAIN Tail(q) : k + 1 \in DOMAIN q /\ Tail(q)[k] = q[k + 1] /\ 1 < k + 1
      /\ \A k \in DOMAIN q : k = 1 \/ (k - 1 \in DOMAIN Tail(q) /\ q[k] = Tail(q)[k - 1])
      /\ Head(q) = q[1] /\ 1 \in DOMAIN q
  OBVIOUS
<1>2. SeqsOf(q) = SeqsOf(Tail(q)) \cup {Head(q).seq}
  BY <1>1 DEF SeqsOf
<1> QED
  BY <1>1, <1>2

LEMMA RequestMoves ==
  ASSUME SeqInv, NEW flow \in Flows, NEW kind \in Kinds, NEW q \in Questions,
         CcdRequest(flow, kind, q)
  PROVE  LineInv' /\ QueueInv' /\ ReplyInv' /\ Service!Next
<1> DEFINE m == [seq |-> Len(submitted) + 1, flow |-> flow, kind |-> kind, question |-> q]
<1>1. /\ submitted' = Append(submitted, m) /\ Len(submitted) < MaxRequests
      /\ mq_ccd_2_mcd' \in {mq_ccd_2_mcd, Append(mq_ccd_2_mcd, m)}
      /\ UNCHANGED <<mq_mcd_2_ccd, delivered, pc, m_recv_buf>>
  BY DEF CcdRequest, Enqueue, reqVars
<1>2. /\ submitted \in Seq(Message) /\ mq_ccd_2_mcd \in Seq(Message) /\ m \in Message
      /\ m.seq = latest + 1 /\ latest \in Nat
  BY DEF SeqInv, OwnInv, TypeOK, latest, Message
<1>3. latest' = latest + 1 /\ latest' <= MaxRequests
  BY <1>1, <1>2, CQAServAssumption DEF latest
<1> HIDE DEF m
<1>4. Queued' \in {Queued, Queued \cup {latest + 1}}
  <2>1. SeqsOf(Append(mq_ccd_2_mcd, m)) = SeqsOf(mq_ccd_2_mcd) \cup {latest + 1}
    BY <1>2, SeqsOfAppend
  <2> QED
    BY <1>1, <2>1 DEF Queued
<1>5. InHand' = InHand /\ Answered' = Answered /\ delivered' = delivered
  BY <1>1 DEF InHand, Answered, Handling
<1>6. QueueInv'
  <2>1. CASE mq_ccd_2_mcd' = mq_ccd_2_mcd
    BY <2>1 DEF SeqInv, QueueInv
  <2>2. CASE mq_ccd_2_mcd' = Append(mq_ccd_2_mcd, m)
    <3>1. \A a \in DOMAIN mq_ccd_2_mcd : mq_ccd_2_mcd[a].seq < m.seq
      <4>1. \A a \in DOMAIN mq_ccd_2_mcd : mq_ccd_2_mcd[a].seq \in Queued
        BY DEF Queued, SeqsOf
      <4>2. \A x \in Queued : x < latest + 1
        BY <1>2 DEF SeqInv, LineInv
      <4> QED
        BY <1>2, <4>1, <4>2
    <3> QED
      BY <1>2, <2>2, <3>1, SeqsOfAppend DEF SeqInv, QueueInv
  <2> QED
    BY <1>1, <2>1, <2>2
<1>7. ReplyInv'
  BY <1>1 DEF SeqInv, ReplyInv
<1> QED
  BY <1>3, <1>4, <1>5, <1>6, <1>7, Arrives DEF SeqInv

LEMMA DequeueMoves ==
  ASSUME SeqInv, Dequeue
  PROVE  LineInv' /\ QueueInv' /\ ReplyInv' /\ Service!Next
<1> DEFINE m == Head(mq_ccd_2_mcd)
<1>1. /\ mq_ccd_2_mcd \in Seq(Message) /\ mq_ccd_2_mcd # <<>>
      /\ mq_ccd_2_mcd' = Tail(mq_ccd_2_mcd) /\ m_recv_buf' = m
      /\ pc = "loop" /\ pc' \in {"query", "epoll", "loop"}
      /\ UNCHANGED <<submitted, delivered, mq_mcd_2_ccd>>
  BY DEF SeqInv, OwnInv, TypeOK, Dequeue, LoopAgain, ccdVars
<1>2. InHand = {} /\ InHand' \in {{}, {m.seq}}
  BY <1>1 DEF InHand, Handling
<1>3. /\ Queued = SeqsOf(Tail(mq_ccd_2_mcd)) \cup {m.seq}
      /\ \A k \in DOMAIN Tail(mq_ccd_2_mcd) : m.seq < Tail(mq_ccd_2_mcd)[k].seq
  BY <1>1, SeqsOfTail DEF Queued, SeqInv, QueueInv
<1>4. m.seq \in Queued /\ m.seq \in Nat
  BY <1>3 DEF SeqInv, LineInv
<1>5. \A o \in SeqsOf(Tail(mq_ccd_2_mcd)) : m.seq < o /\ o \in Nat
  <2>1. \A o \in SeqsOf(Tail(mq_ccd_2_mcd)) : m.seq < o
    BY <1>3 DEF SeqsOf
  <2>2. \A o \in Queued : o \in Nat
    BY DEF SeqInv, LineInv
  <2> QED
    BY <1>3, <2>1, <2>2
<1>6. Queued' = SeqsOf(Tail(mq_ccd_2_mcd))
  BY <1>1 DEF Queued
<1> HIDE DEF m
<1>7. Queued' = Queued \ {m.seq} /\ \A o \in Queued : m.seq <= o
  BY <1>3, <1>4, <1>5, <1>6
<1>8. latest' = latest /\ Answered' = Answered /\ delivered' = delivered
  BY <1>1 DEF latest, Answered
<1>9. QueueInv'
  <2>1. \A a, b \in DOMAIN Tail(mq_ccd_2_mcd) : a < b => a + 1 < b + 1
    BY <1>1
  <2> QED
    BY <1>1, <2>1, SeqsOfTail DEF SeqInv, QueueInv
<1>10. ReplyInv'
  BY <1>1 DEF SeqInv, ReplyInv
<1> QED
  BY <1>2, <1>4, <1>7, <1>8, <1>9, <1>10, IsTaken DEF SeqInv

(* A request in hand that is given up. *)
LEMMA LossMoves ==
  ASSUME SeqInv, Handling, ~Handling', UNCHANGED <<submitted, delivered, mqVars>>
  PROVE  LineInv' /\ QueueInv' /\ ReplyInv' /\ Service!Next
<1>1. InHand = {m_recv_buf.seq} /\ InHand' = {}
  BY DEF InHand
<1>2. latest' = latest /\ Queued' = Queued /\ Answered' = Answered /\ delivered' = delivered
  BY DEF latest, Queued, Answered, mqVars
<1>3. QueueInv' /\ ReplyInv'
  BY DEF SeqInv, QueueInv, ReplyInv, mqVars
<1> QED
  BY <1>1, <1>2, <1>3, IsConcluded DEF SeqInv

LEMMA ReplyMoves ==
  ASSUME SeqInv, Enqueue2Ccd
  PROVE  LineInv' /\ QueueInv' /\ ReplyInv' /\ Service!Next
<1> DEFINE reply == [seq |-> pack.seq, flow |-> m_recv_buf.flow, ans |-> pack.ans]
           k == m_recv_buf.seq
<1>1. /\ mq_mcd_2_ccd' \in {mq_mcd_2_ccd, Append(mq_mcd_2_ccd, reply)}
      /\ Handling /\ ~Handling' /\ mq_mcd_2_ccd \in Seq(Reply)
      /\ UNCHANGED <<submitted, delivered, mq_ccd_2_mcd>>
  BY DEF Enqueue2Ccd, Enqueue, LoopAgain, Handling, ccdVars, SeqInv, OwnInv, TypeOK
<1>2. reply \in Reply /\ reply.seq \in {0, k}
  BY DEF Enqueue2Ccd, SeqInv, OwnInv, InHandWasSent, TypeOK, Handling, Message, Reply
<1>3. InHand = {k} /\ InHand' = {}
  BY <1>1 DEF InHand
<1>4. latest' = latest /\ Queued' = Queued /\ delivered' = delivered
  BY <1>1 DEF latest, Queued
<1> HIDE DEF reply
<1>5. Answered' \in {Answered, Answered \cup {k}}
  <2>1. SeqsOf(Append(mq_mcd_2_ccd, reply)) = SeqsOf(mq_mcd_2_ccd) \cup {reply.seq}
    BY <1>1, <1>2, SeqsOfAppend
  <2>2. k # 0
    BY <1>3 DEF SeqInv, LineInv
  <2> QED
    BY <1>1, <1>2, <2>1, <2>2 DEF Answered
<1>6. QueueInv'
  BY <1>1 DEF SeqInv, QueueInv
<1>7. ReplyInv'
  <2>1. CASE mq_mcd_2_ccd' = mq_mcd_2_ccd
    BY <2>1 DEF SeqInv, ReplyInv
  <2>2. CASE mq_mcd_2_ccd' = Append(mq_mcd_2_ccd, reply)
    <3>1. \A a \in DOMAIN mq_mcd_2_ccd : mq_mcd_2_ccd[a].seq # 0 => mq_mcd_2_ccd[a].seq < k
      BY <1>3 DEF SeqInv, LineInv, Before, Answered, SeqsOf
    <3> QED
      BY <1>1, <1>2, <2>2, <3>1, SeqsOfAppend DEF SeqInv, ReplyInv
  <2> QED
    BY <1>1, <2>1, <2>2
<1> QED
  BY <1>3, <1>4, <1>5, <1>6, <1>7, IsConcluded DEF SeqInv

LEMMA ResponseMoves ==
  ASSUME SeqInv, CcdResponse
  PROVE  LineInv' /\ QueueInv' /\ ReplyInv' /\ (Service!Next \/ seen' = seen)
<1> DEFINE r == Head(mq_mcd_2_ccd)
           rest == Tail(mq_mcd_2_ccd)
<1>1. /\ mq_mcd_2_ccd \in Seq(Reply) /\ mq_mcd_2_ccd # <<>> /\ mq_mcd_2_ccd' = rest
      /\ delivered' \in {delivered, IF r.seq # 0 THEN delivered \cup {r.seq} ELSE delivered}
      /\ UNCHANGED <<submitted, mq_ccd_2_mcd, pc, m_recv_buf>>
  BY DEF CcdResponse, SeqInv, OwnInv, TypeOK, reqVars
<1>10. r.seq \in Nat
  <2>1. r \in Reply
    BY <1>1
  <2> QED
    BY <2>1 DEF Reply
<1>2. /\ SeqsOf(mq_mcd_2_ccd) = SeqsOf(rest) \cup {r.seq}
      /\ \A k \in DOMAIN rest : r.seq # 0 /\ rest[k].seq # 0 => r.seq < rest[k].seq
  BY <1>1, SeqsOfTail DEF SeqInv, ReplyInv
<1>3. Answered' = SeqsOf(rest) \ {0}
  BY <1>1 DEF Answered
<1>4. latest' = latest /\ Queued' = Queued /\ InHand' = InHand
  BY <1>1 DEF latest, Queued, InHand, Handling
<1>5. QueueInv'
  BY <1>1 DEF SeqInv, QueueInv
<1>6. ReplyInv'
  <2>1. \A a, b \in DOMAIN rest : a < b => a + 1 < b + 1
    BY <1>1
  <2> QED
    BY <1>1, <2>1, SeqsOfTail DEF SeqInv, ReplyInv
<1>7. \A o \in SeqsOf(rest) \ {0} : r.seq # 0 => r.seq < o
  BY <1>2 DEF SeqsOf
<1> HIDE DEF r, rest
<1>8. CASE r.seq = 0
  <2>1. Answered' = Answered /\ delivered' = delivered
    BY <1>1, <1>2, <1>3, <1>8 DEF Answered
  <2> QED
    BY <1>4, <1>5, <1>6, <2>1, NoneMoves DEF SeqInv, LineInv
<1>9. CASE r.seq # 0
  <2>1. r.seq \in Answered /\ Answered \subseteq Nat
    BY <1>2, <1>9 DEF Answered, SeqInv, LineInv
  <2>2. \A o \in Answered : r.seq <= o
    BY <1>2, <1>7, <1>9, <2>1 DEF Answered
  <2>3. r.seq \notin SeqsOf(rest)
    <3>1. ~(r.seq < r.seq)
      BY <1>10
    <3> QED
      BY <1>7, <1>9, <3>1
  <2>4. Answered' = Answered \ {r.seq}
    BY <1>2, <1>3, <2>3 DEF Answered
  <2>5. delivered' \in {delivered, delivered \cup {r.seq}}
    BY <1>1
  <2> QED
    BY <1>4, <1>5, <1>6, <2>1, <2>2, <2>4, <2>5, IsDelivered DEF SeqInv
<1> QED
  BY <1>8, <1>9

LEMMA QuietMoves ==
  ASSUME SeqInv, UNCHANGED <<submitted, delivered, mqVars>>, Handling' = Handling,
         Handling => UNCHANGED m_recv_buf
  PROVE  LineInv' /\ QueueInv' /\ ReplyInv' /\ seen' = seen
<1>1. /\ latest' = latest /\ Queued' = Queued /\ InHand' = InHand /\ Answered' = Answered
      /\ delivered' = delivered
  BY DEF latest, Queued, InHand, Answered, mqVars
<1>2. QueueInv' /\ ReplyInv'
  BY DEF SeqInv, QueueInv, ReplyInv, mqVars
<1> QED
  BY <1>1, <1>2, NoneMoves DEF SeqInv, LineInv

LEMMA StepMoves ==
  ASSUME SeqInv, [Next]_vars
  PROVE  SeqInv' /\ [Service!Next]_seen
<1>1. OwnInv'
  BY StepOwn DEF SeqInv
<1>2. CASE \/ UNCHANGED vars \/ \E flow \in Flows : CloseFlow(flow)
           \/ EnterHandler \/ ExitRun \/ LeaveLoop \/ DequeueFails \/ DoQuery \/ SkipTag
           \/ JokeTag \/ Fallback \/ GetJokesStep \/ GotJokes \/ Matched \/ EncodeResult
           \/ EncodeFails \/ Sigterm \/ Restart
  <2>1. UNCHANGED <<submitted, delivered, mqVars>> /\ (Handling' <=> Handling)
    BY <1>2 DEF vars, CloseFlow, EnterHandler, ExitRun, LeaveLoop, DequeueFails, DoQuery, SkipTag,
                JokeTag, Fallback, GetJokesStep, GotJokes, Matched, EncodeResult, EncodeFails,
                Sigterm, Restart, Alive, Handling, ccdVars
  <2>2. Handling => UNCHANGED m_recv_buf
    BY <1>2 DEF vars, CloseFlow, EnterHandler, ExitRun, LeaveLoop, DequeueFails, DoQuery, SkipTag,
                JokeTag, Fallback, GetJokesStep, GotJokes, Matched, EncodeResult, EncodeFails,
                Sigterm, Restart, Alive, Handling, reqVars
  <2> QED
    BY <1>1, <2>1, <2>2, QuietMoves DEF SeqInv, Handling
<1>3. CASE GetJokesCrash \/ StalePackCrash \/ Exception \/ Sigkill
  <2>1. UNCHANGED <<submitted, delivered, mqVars>> /\ ~Handling'
    BY <1>3 DEF GetJokesCrash, StalePackCrash, Exception, Sigkill, Handling, ccdVars
  <2>2. CASE Handling
    BY <1>1, <2>1, <2>2, LossMoves DEF SeqInv
  <2>3. CASE ~Handling
    BY <1>1, <2>1, <2>3, QuietMoves DEF SeqInv, Handling
  <2> QED
    BY <2>2, <2>3
<1>4. CASE \E flow \in Flows, kind \in Kinds, q \in Questions : CcdRequest(flow, kind, q)
  BY <1>1, <1>4, RequestMoves DEF SeqInv
<1> QED
  BY <1>1, <1>2, <1>3, <1>4, DequeueMoves, ReplyMoves, ResponseMoves
     DEF Next, HandlerStep, SeqInv
-----------------------------------------------------------------------------
(* The process implements the service: seen from outside, every request     *)
(* goes its way in order, one at a time, with at most one answer, across    *)
(* stops, exceptions, kills and restarts (wqa_mcd_proc.cc:309-377).         *)
THEOREM ServiceImplemented == Spec => ImplementsService
<1>1. Init => SeqInv
  BY InitOwn, CQAServAssumption
     DEF Init, SeqInv, LineInv, QueueInv, ReplyInv, latest, Queued, InHand, Answered, SeqsOf,
         Before, Handling
<1>2. Init => Service!Init
  BY DEF Init, Service!Init, Service!Request, StatusOf, InQueue, Handling
<1>3. SeqInv /\ [Next]_vars => SeqInv'
  BY StepMoves
<1>4. SeqInv /\ [Next]_vars => [Service!Next]_seen
  BY StepMoves
<1> QED
  BY <1>1, <1>2, <1>3, <1>4, PTL DEF Spec, ImplementsService, Service!Spec, seen

Promise == INSTANCE RequestServiceProofs WITH status <- seen

(* So what is proved of the service holds of the process: no request        *)
(* overtakes an earlier one between the two queues, for any number of them  *)
(* (wqa_mcd_proc.cc:319-376).                                               *)
THEOREM ProcessedInOrder == Spec => []Promise!InOrder
<1>1. MaxRequests \in Nat
  BY CQAServAssumption
<1>2. Promise!Spec => []Promise!InOrder
  BY <1>1, Promise!InOrderCorrect
<1>3. ImplementsService => Promise!Spec
  BY DEF ImplementsService, Service!Spec, Service!Init, Service!Next, Service!Arrive,
         Service!Take, Service!Conclude, Service!Deliver, Service!Oldest, Service!Becomes,
         Service!Idle, Service!Request, Promise!Spec, Promise!Init, Promise!Next,
         Promise!Arrive, Promise!Take, Promise!Conclude, Promise!Deliver, Promise!Oldest,
         Promise!Becomes, Promise!Idle, Promise!Request, seen
<1> QED
  BY <1>2, <1>3, ServiceImplemented, PTL
=============================================================================
