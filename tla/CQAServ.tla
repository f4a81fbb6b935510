------------------------------ MODULE CQAServ ------------------------------
(***************************************************************************)
(* The mcd process (wqa_mcd_proc.cc) between its two message queues: ccd   *)
(* enqueues requests into mq_ccd_2_mcd, CQAServ::HandleCcdRequest answers  *)
(* them one by one, and ccd sends what it finds in mq_mcd_2_ccd to the     *)
(* connection ("flow") the request came from.                              *)
(*                                                                         *)
(* One action per step of HandleCcdRequest that another process, a signal  *)
(* or a crash can come between; rand() steps are those of GetJokes.  The   *)
(* queues live in shared memory and outlive the process; everything else   *)
(* of mcd is lost with it.                                                 *)
(***************************************************************************)
EXTENDS Integers, Sequences, FiniteSets

CONSTANTS
  Dictionaries, MAX_JOKE_NUM, QueryStyles,  \* see GetJokes
  Flows,          \* client connections of ccd
  Kinds,          \* what may arrive: see MessageKinds
  Questions,      \* questions a request can carry
  NlpMatch,       \* question -> the tags match_query() finds, or NoMatch
  EmptyQuestion, NoMatch,
  OtherTag,       \* a tag that is not "joke_type"
  MaxBatch,       \* requests one call of HandleCcdRequest takes (1000)
  RequestCap,     \* messages mq_ccd_2_mcd has room for
  ResponseCap,    \* messages mq_mcd_2_ccd has room for
  MaxRequests,    \* bound on the requests clients send
  MaxFaults       \* bound on signals, kills, exceptions and failing calls

MessageKinds == {"short", "bad_type", "undecodable", "query"}

Tag == QueryStyles \cup {OtherTag}

ASSUME CQAServAssumption ==
  /\ MAX_JOKE_NUM \in Nat \ {0}
  /\ QueryStyles \subseteq Int /\ 0 \in QueryStyles
  /\ OtherTag \notin QueryStyles
  /\ Kinds \subseteq MessageKinds
  /\ NlpMatch \in [Questions -> Seq(Tag) \cup {NoMatch}]
  /\ NoMatch \notin Seq(Tag)
  /\ \A q \in Questions : NlpMatch[q] # <<>>
  /\ EmptyQuestion \in Questions
  /\ MaxBatch \in Nat /\ RequestCap \in Nat /\ ResponseCap \in Nat
  /\ MaxRequests \in Nat /\ MaxFaults \in Nat

VARIABLES
  (* ccd and the queues *)
  submitted,      \* every request ccd has received, in order (history)
  open,           \* flows whose connection is still open
  mq_ccd_2_mcd, mq_mcd_2_ccd,
  delivered,      \* sequence numbers whose reply a client has received (history)
  (* the mcd process *)
  pc, stop,
  i, ret, pack_len,         \* locals of HandleCcdRequest
  m_recv_buf,               \* the request being handled, with its flow
  m_seq_no,                 \* member set by DecodeQuery, read by EncodeResult
  rv, ans_size,             \* locals of TokenByNlpTool
  pack,                     \* what EncodeResult returned
  stat,                     \* m_qa_stat's counters
  faults,
  (* the dictionary and the running GetJokes *)
  m_jokes, m_joke_style_num, gpc, style, his_idx, ans_vec

ccdVars  == <<submitted, open, delivered>>
mqVars   == <<mq_ccd_2_mcd, mq_mcd_2_ccd>>
loopVars == <<i, ret, pack_len>>
reqVars  == <<m_recv_buf, m_seq_no>>
nlpVars  == <<rv, ans_size>>
jokeVars == <<m_jokes, m_joke_style_num, gpc, style, his_idx, ans_vec>>
vars     == <<ccdVars, mqVars, pc, stop, loopVars, reqVars, nlpVars, pack,
              stat, faults, jokeVars>>

Jokes == INSTANCE GetJokes

(* What the loader leaves (proved of its steps: JokeLibraryProofs,          *)
(* CallsFindADictionary).                                                   *)
ASSUME DictionaryAssumption == \A d \in Dictionaries : Jokes!IsDictionary(d)

Message == [seq : Nat \ {0}, flow : Flows, kind : Kinds, question : Questions]
NoMessage == [seq |-> 0]

(* seq 0: the header-only frame Enqueue2Ccd sends when EncodeResult failed. *)
Reply == [seq : Nat, flow : Flows, ans : Seq(Jokes!Joke)]

NULL == [seq |-> 0, ans |-> <<>>]

StatNames == {"Request", "Enqueue2Ccd", "QueryMatched"}
NoStat == [n \in StatNames |-> [all |-> 0, failed |-> 0]]

(* Mutant: the code is added up instead of counted. *)
AddCode(st, name, code) ==
  [st EXCEPT ![name] = [all |-> @.all + 1, failed |-> @.failed + code]]

(* CQAStat::AddStatWithNoTime, as far as the two counters go. *)
AddStat(st, name, code) ==
  [st EXCEPT ![name] = [all |-> @.all + 1,
                        failed |-> @.failed + IF code # 0 THEN 1 ELSE 0]]
-----------------------------------------------------------------------------
Init ==
  /\ submitted = <<>> /\ open = Flows /\ delivered = {}
  /\ mq_ccd_2_mcd = <<>> /\ mq_mcd_2_ccd = <<>>
  /\ faults = 0
  /\ pc = "epoll" /\ stop = FALSE
  /\ i = 0 /\ ret = 0 /\ pack_len = 0
  /\ m_recv_buf = NoMessage /\ m_seq_no = 0
  /\ rv = <<>> /\ ans_size = 0 /\ pack = NULL
  /\ stat = NoStat
  /\ Jokes!JokeInit
-----------------------------------------------------------------------------
(* ccd *)

(* CFifoSyncMQ::enqueue: a full queue takes nothing and returns -1, which   *)
(* neither ccd nor Enqueue2Ccd acts on.                                     *)
Enqueue(q, m, cap) == IF Len(q) < cap THEN Append(q, m) ELSE q

CcdRequest(flow, kind, question) ==
  /\ Len(submitted) < MaxRequests
  /\ flow \in open
  /\ kind = "query" \/ question = EmptyQuestion
  /\ LET m == [seq |-> Len(submitted) + 1, flow |-> flow,
               kind |-> kind, question |-> question]
     IN /\ submitted' = Append(submitted, m)
        /\ mq_ccd_2_mcd' = Enqueue(mq_ccd_2_mcd, m, RequestCap)
  /\ UNCHANGED <<open, delivered, mq_mcd_2_ccd, pc, stop, loopVars, reqVars,
                 nlpVars, pack, stat, faults, jokeVars>>

(* handle_rsp_mq: a reply whose connection is gone is dropped. *)
CcdResponse ==
  /\ mq_mcd_2_ccd # <<>>
  /\ LET r == Head(mq_mcd_2_ccd)
     IN delivered' = IF r.flow \in open /\ r.seq # 0
                       THEN delivered \cup {r.seq} ELSE delivered
  /\ mq_mcd_2_ccd' = Tail(mq_mcd_2_ccd)
  /\ UNCHANGED <<submitted, open, mq_ccd_2_mcd, pc, stop, loopVars, reqVars,
                 nlpVars, pack, stat, faults, jokeVars>>

CloseFlow(flow) ==
  /\ flow \in open
  /\ open' = open \ {flow}
  /\ UNCHANGED <<submitted, delivered, mqVars, pc, stop, loopVars, reqVars,
                 nlpVars, pack, stat, faults, jokeVars>>
-----------------------------------------------------------------------------
(* mcd: Run's loop.  run_epoll_4_mq calls the handler on every pass, for it *)
(* polls the queues that raised no event too.                               *)
EnterHandler ==
  /\ pc = "epoll" /\ ~stop
  /\ pc' = "loop"
  /\ i' = 0 /\ ret' = 0 /\ pack_len' = 0
  /\ UNCHANGED <<ccdVars, mqVars, stop, reqVars, nlpVars, pack, stat, faults,
                 jokeVars>>

ExitRun ==
  /\ pc = "epoll" /\ stop
  /\ pc' = "exited"
  /\ UNCHANGED <<ccdVars, mqVars, stop, loopVars, reqVars, nlpVars, pack, stat,
                 faults, jokeVars>>

(* The loop's exits at its head: batch limit, and nothing dequeued. *)
LeaveLoop ==
  /\ pc = "loop"
  /\ i >= MaxBatch \/ mq_ccd_2_mcd = <<>>
  /\ pc' = "epoll"
  /\ UNCHANGED <<ccdVars, mqVars, stop, loopVars, reqVars, nlpVars, pack, stat,
                 faults, jokeVars>>

(* The loop condition: while (!stop && !ret && data_len > 0). *)
LoopAgain(r) == IF stop \/ r # 0 THEN "epoll" ELSE "loop"

(* Mutant: the sequence number is recorded once. *)
DecodedOnce(m) == IF m_seq_no = 0 THEN m.seq ELSE m_seq_no

(* DecodeQuery has recorded the sequence number when Unpack fails. *)
Decoded(m) == IF m.kind \in {"undecodable", "query"} THEN m.seq ELSE m_seq_no

(* ans_vec is cleared for every request.  Mutant: it is not. *)
AnswersOfLastRequest == ans_vec
NoAnswers == <<>>

Dequeue ==
  /\ pc = "loop" /\ i < MaxBatch /\ mq_ccd_2_mcd # <<>>
  /\ LET m == Head(mq_ccd_2_mcd)
     IN /\ m_recv_buf' = m
        /\ m_seq_no' = Decoded(m)
        /\ stat' = IF m.kind = "short" THEN stat ELSE AddStat(stat, "Request", 0)
        /\ pc' = IF m.kind = "query" THEN "query" ELSE LoopAgain(0)
  /\ mq_ccd_2_mcd' = Tail(mq_ccd_2_mcd)
  /\ i' = i + 1 /\ ret' = 0
  /\ ans_vec' = NoAnswers
  /\ UNCHANGED <<ccdVars, mq_mcd_2_ccd, stop, pack_len, nlpVars, pack, faults,
                 m_jokes, m_joke_style_num, gpc, style, his_idx>>
Fault == faults < MaxFaults /\ faults' = faults + 1

(* try_dequeue fails, leaving data_len 0: it is logged, and the loop ends.  *)
DequeueFails ==
  /\ pc = "loop" /\ i < MaxBatch /\ Fault
  /\ pc' = "epoll"
  /\ UNCHANGED <<ccdVars, mqVars, stop, loopVars, reqVars, nlpVars, pack, stat,
                 jokeVars>>
-----------------------------------------------------------------------------
(* DoQuery and TokenByNlpTool: an empty question and one the patterns do    *)
(* not match give no answers, and are answered all the same.                *)
Unmatched(question) == question = EmptyQuestion \/ NlpMatch[question] = NoMatch

(* Mutant: a question that is not matched is not answered. *)
DoQueryMatchedOnly ==
  /\ pc = "query"
  /\ IF Unmatched(m_recv_buf.question)
       THEN pc' = LoopAgain(0) /\ ret' = 0 /\ UNCHANGED nlpVars
       ELSE /\ pc' = "tags" /\ UNCHANGED ret
            /\ rv' = NlpMatch[m_recv_buf.question] /\ ans_size' = 0
  /\ UNCHANGED <<ccdVars, mqVars, stop, i, pack_len, reqVars, pack, stat,
                 faults, jokeVars>>

DoQuery ==
  /\ pc = "query"
  /\ IF Unmatched(m_recv_buf.question)
       THEN pc' = "encode" /\ ret' = 0 /\ UNCHANGED nlpVars
       ELSE /\ pc' = "tags" /\ UNCHANGED ret
            /\ rv' = NlpMatch[m_recv_buf.question] /\ ans_size' = 0
  /\ UNCHANGED <<ccdVars, mqVars, stop, i, pack_len, reqVars, pack, stat,
                 faults, jokeVars>>

SkipTag ==
  /\ pc = "tags" /\ rv # <<>> /\ Head(rv) = OtherTag
  /\ rv' = Tail(rv)
  /\ UNCHANGED <<ccdVars, mqVars, pc, stop, loopVars, reqVars, ans_size, pack,
                 stat, faults, jokeVars>>

(* A "joke_type" tag, given as the style id GetJokeTypeId maps its value to *)
(* (0 for a word it does not know).                                         *)
JokeTag ==
  /\ pc = "tags" /\ rv # <<>> /\ Head(rv) # OtherTag
  /\ Jokes!Call(Head(rv))
  /\ rv' = Tail(rv)
  /\ pc' = "jokes"
  /\ UNCHANGED <<ccdVars, mqVars, stop, loopVars, reqVars, ans_size, pack,
                 stat, faults>>

Fallback ==
  /\ pc = "tags" /\ rv = <<>> /\ ans_size = 0
  /\ Jokes!Call(0)
  /\ pc' = "jokes"
  /\ UNCHANGED <<ccdVars, mqVars, stop, loopVars, reqVars, nlpVars, pack, stat,
                 faults>>

GetJokesStep ==
  /\ pc = "jokes"
  /\ Jokes!Pick \/ Jokes!Return
  /\ UNCHANGED <<ccdVars, mqVars, pc, stop, loopVars, reqVars, nlpVars, pack,
                 stat, faults>>

GetJokesCrash ==
  /\ pc = "jokes"
  /\ Jokes!Crash
  /\ pc' = "crashed"
  /\ UNCHANGED <<ccdVars, mqVars, stop, loopVars, reqVars, nlpVars, pack, stat,
                 faults>>

(* ans_size adds up what every call returned, ans_vec keeps the last call's. *)
GotJokes ==
  /\ pc = "jokes" /\ gpc = "idle"
  /\ ans_size' = ans_size + Len(ans_vec)
  /\ pc' = "tags"
  /\ UNCHANGED <<ccdVars, mqVars, stop, loopVars, reqVars, rv, pack, stat,
                 faults, jokeVars>>

Matched ==
  /\ pc = "tags" /\ rv = <<>> /\ ans_size # 0
  /\ ret' = ans_size
  /\ pc' = "encode"
  /\ UNCHANGED <<ccdVars, mqVars, stop, i, pack_len, reqVars, nlpVars, pack,
                 stat, faults, jokeVars>>
-----------------------------------------------------------------------------
EncodeResult ==
  /\ pc = "encode"
  /\ pack' = [seq |-> m_seq_no, ans |-> ans_vec]
  /\ pack_len' = 1
  /\ pc' = "enqueue"
  /\ UNCHANGED <<ccdVars, mqVars, stop, i, ret, reqVars, nlpVars, stat, faults,
                 jokeVars>>

(* SerializeToString fails: NULL, and pack_len keeps the value an earlier   *)
(* request of the same batch gave it.                                       *)
EncodeFails ==
  /\ pc = "encode" /\ Fault
  /\ pack' = NULL
  /\ pc' = "enqueue"
  /\ UNCHANGED <<ccdVars, mqVars, stop, loopVars, reqVars, nlpVars, stat,
                 jokeVars>>

(* Enqueue2Ccd returns 0 whatever enqueue() said.  Mutant: it tells, and    *)
(* the request is counted on both branches.                                 *)
Enqueue2CcdChecked(enqueued) == IF enqueued THEN 0 ELSE -1
Enqueue2CcdRet(enqueued) == 0

(* The counters after the reply, with the branch on Enqueue2Ccd's result.   *)
ReplyStat(st, code, r) ==
  LET st1 == IF code # 0 THEN AddStat(st, "Enqueue2Ccd", -1) ELSE st
  IN AddStat(AddStat(st1, "Enqueue2Ccd", 0), "QueryMatched", IF r # 0 THEN 0 ELSE -1)

Enqueue2Ccd ==
  /\ pc = "enqueue"
  /\ ~(pack = NULL /\ pack_len # 0)
  /\ mq_mcd_2_ccd' = Enqueue(mq_mcd_2_ccd,
                             [seq |-> pack.seq, flow |-> m_recv_buf.flow,
                              ans |-> pack.ans], ResponseCap)
  /\ stat' = ReplyStat(stat, Enqueue2CcdRet(Len(mq_mcd_2_ccd) < ResponseCap), ret)
  /\ pc' = LoopAgain(ret)
  /\ UNCHANGED <<ccdVars, mq_ccd_2_mcd, stop, loopVars, reqVars, nlpVars, pack,
                 faults, jokeVars>>

(* memmove from NULL with the stale length of an earlier reply. *)
StalePackCrash ==
  /\ pc = "enqueue"
  /\ pack = NULL /\ pack_len # 0
  /\ pc' = "crashed"
  /\ UNCHANGED <<ccdVars, mqVars, stop, loopVars, reqVars, nlpVars, pack, stat,
                 faults, jokeVars>>

(* catch (exception & ex): the batch ends, the request stays unanswered.    *)
Exception ==
  /\ pc \in {"query", "tags", "jokes", "encode"} /\ Fault
  /\ pc' = "epoll"
  /\ gpc' = "idle"
  /\ UNCHANGED <<ccdVars, mqVars, stop, loopVars, reqVars, nlpVars, pack, stat,
                 m_jokes, m_joke_style_num, style, his_idx, ans_vec>>
-----------------------------------------------------------------------------
Alive == pc \notin {"exited", "crashed"}

(* SIGTERM (stop_mcd.sh): the handler sets stop, the loops look at it later. *)
Sigterm ==
  /\ Alive /\ ~stop /\ Fault
  /\ stop' = TRUE
  /\ UNCHANGED <<ccdVars, mqVars, pc, loopVars, reqVars, nlpVars, pack, stat,
                 jokeVars>>

(* SIGKILL (force_stop.sh) *)
Sigkill ==
  /\ Alive /\ Fault
  /\ pc' = "crashed"
  /\ UNCHANGED <<ccdVars, mqVars, stop, loopVars, reqVars, nlpVars, pack, stat,
                 jokeVars>>

(* check.sh, run by cron, starts mcd again: everything but the queues is    *)
(* new, for check.sh does not clear them.                                   *)
Restart ==
  /\ ~Alive
  /\ pc' = "epoll" /\ stop' = FALSE
  /\ i' = 0 /\ ret' = 0 /\ pack_len' = 0
  /\ m_recv_buf' = NoMessage /\ m_seq_no' = 0
  /\ rv' = <<>> /\ ans_size' = 0 /\ pack' = NULL
  /\ stat' = NoStat
  /\ \E d \in Dictionaries :
       m_jokes' = d /\ m_joke_style_num' = Jokes!StyleNum(d)
  /\ gpc' = "idle" /\ style' = 0 /\ his_idx' = {} /\ ans_vec' = <<>>
  /\ UNCHANGED <<ccdVars, mqVars, faults>>

HandlerStep ==
  \/ EnterHandler \/ ExitRun \/ LeaveLoop \/ Dequeue \/ DoQuery
  \/ SkipTag \/ JokeTag \/ Fallback \/ GetJokesStep \/ GetJokesCrash
  \/ GotJokes \/ Matched \/ EncodeResult \/ Enqueue2Ccd \/ StalePackCrash

Next ==
  \/ \E flow \in Flows, kind \in Kinds, q \in Questions : CcdRequest(flow, kind, q)
  \/ \E flow \in Flows : CloseFlow(flow)
  \/ CcdResponse
  \/ HandlerStep
  \/ DequeueFails \/ EncodeFails \/ Exception \/ Sigterm \/ Sigkill \/ Restart

(***************************************************************************)
(* mcd's only thread runs while it is alive, ccd keeps reading the         *)
(* response queue, and cron keeps running check.sh.  Clients, signals and  *)
(* failures owe nothing.                                                   *)
(***************************************************************************)
Fairness == WF_vars(HandlerStep) /\ WF_vars(CcdResponse) /\ WF_vars(Restart)

Spec == Init /\ [][Next]_vars /\ Fairness
-----------------------------------------------------------------------------
PCs == {"epoll", "loop", "query", "tags", "jokes", "encode", "enqueue",
        "exited", "crashed"}

(* A request has been dequeued and not yet been answered. *)
Handling == pc \in {"query", "tags", "jokes", "encode", "enqueue"}

(* Type invariant of the two processes and their queues. *)
TypeOK ==
  /\ submitted \in Seq(Message) /\ open \subseteq Flows
  /\ delivered \subseteq Nat
  /\ mq_ccd_2_mcd \in Seq(Message) /\ mq_mcd_2_ccd \in Seq(Reply)
  /\ pc \in PCs /\ stop \in BOOLEAN
  /\ i \in Nat /\ ret \in Nat /\ pack_len \in {0, 1}
  /\ m_recv_buf \in Message \cup {NoMessage} /\ m_seq_no \in Nat
  /\ Handling => m_recv_buf \in Message
  /\ rv \in Seq(Tag) /\ ans_size \in Nat
  /\ pack \in [seq : Nat, ans : Seq(Jokes!Joke)]
  /\ stat \in [StatNames -> [all : Nat, failed : Nat]]
  /\ faults \in 0..MaxFaults
  /\ Jokes!CallTypeOK

(* A reply goes to the connection its request came from, answers a request  *)
(* that could be decoded, and carries that request's sequence number:       *)
(* m_seq_no, cur_flow and the reply come from three different places        *)
(* (wqa_mcd_proc.cc:123, 320, 223), and are read after other requests.      *)
ReplyToOwnFlow ==
  \A k \in DOMAIN mq_mcd_2_ccd :
    LET r == mq_mcd_2_ccd[k]
    IN r.seq # 0 =>
         /\ r.seq \in DOMAIN submitted
         /\ submitted[r.seq].flow = r.flow
         /\ submitted[r.seq].kind = "query"

(* The styles a question asks for; 0 stands for any. *)
Asked(question) ==
  IF Unmatched(question) THEN {}
  ELSE {NlpMatch[question][k] : k \in DOMAIN NlpMatch[question]} \ {OtherTag}

(* A reply holds only jokes its own question asks for: of a style one of    *)
(* its tags names, or of any when a tag is 0 or no tag has jokes; an        *)
(* unmatched question gets none.  ans_vec outlives the request and the tag  *)
(* (wqa_mcd_proc.cc:312, 317).                                              *)
AnswersFitTheQuestion ==
  pc = "enqueue" /\ pack # NULL =>
    LET asked == Asked(m_recv_buf.question)
    IN /\ Unmatched(m_recv_buf.question) => pack.ans = <<>>
       /\ \/ 0 \in asked
          \/ asked \cap DOMAIN m_jokes = {}
          \/ \A a \in DOMAIN pack.ans : pack.ans[a].style \in asked

(* Every request this process decoded and finished is in the counters,      *)
(* matched or not: "Enqueue2Ccd" and "QueryMatched" agree, and both stay    *)
(* within "Request" (wqa_mcd_proc.cc:335, 369-370).                         *)
CountersAgree ==
  /\ stat["Enqueue2Ccd"].all = stat["QueryMatched"].all
  /\ stat["QueryMatched"].all + (IF Handling THEN 1 ELSE 0) <= stat["Request"].all

(* Types, and counters that agree (wqa_mcd_proc.cc:335, 369-370).           *)
CountersInv == TypeOK /\ CountersAgree

(* A request in hand is given up only to a failure the code cannot answer   *)
(* (a full response queue, a fault, the death of the process), never by an  *)
(* orderly stop, an unmatched question or the batch limit.                  *)
NoSilentLoss ==
  [][(Handling /\ (~Handling' \/ m_recv_buf' # m_recv_buf)) =>
       \/ Len(mq_mcd_2_ccd') = Len(mq_mcd_2_ccd) + 1
       \/ pc = "enqueue" /\ Len(mq_mcd_2_ccd) >= ResponseCap
       \/ faults' # faults
       \/ pc' = "crashed"]_vars

(* Where request r is, seen from outside. *)
InQueue(r, q) == \E k \in DOMAIN q : q[k].seq = r

StatusOf(r) ==
  CASE r > Len(submitted)                 -> "unsent"
    [] InQueue(r, mq_ccd_2_mcd)           -> "queued"
    [] Handling /\ m_recv_buf.seq = r     -> "handling"
    [] InQueue(r, mq_mcd_2_ccd)           -> "answered"
    [] r \in delivered                    -> "delivered"
    [] OTHER                              -> "gone"

Service == INSTANCE RequestService
             WITH status <- [r \in 1..MaxRequests |-> StatusOf(r)]

(* The process implements the service: at most one answer per request, in   *)
(* arrival order, across stops, kills and restarts (the queues survive, the *)
(* request in hand does not).                                               *)
ImplementsService == Service!Spec

(* Every request ccd enqueued is concluded in the end: the loop drains the  *)
(* queue across batches, crashes and restarts (wqa_mcd_proc.cc:319, 377).   *)
(* It needs dictionaries with MAX_JOKE_NUM jokes for every style that can   *)
(* be asked for, or none: see GetJokes, NoReturnWhenScarce.                 *)
EveryRequestConcludes ==
  <>[](\A r \in 1..MaxRequests : StatusOf(r) \in {"unsent", "delivered", "gone"})

(* Stated by the error branch at wqa_mcd_proc.cc:362-365 ("Failed To        *)
(* Enqueue Data To CCD", stat -1): a reply that did not fit the queue is    *)
(* counted as failed.                                                       *)
DroppedReplyReported ==
  [][(pc = "enqueue" /\ pc' # "enqueue" /\ pc' # "crashed"
        /\ Len(mq_mcd_2_ccd) >= ResponseCap /\ faults' = faults)
       => stat'["Enqueue2Ccd"].failed > stat["Enqueue2Ccd"].failed]_vars

(* Stated by the log line at wqa_mcd_proc.cc:292 ("get %d jokes"): a        *)
(* question for which jokes were found is answered with jokes.              *)
FoundJokesAreAnswered ==
  pc = "enqueue" /\ ret # 0 => ans_vec # <<>>
=============================================================================
