---------------------------- MODULE NetComplete ----------------------------
(***************************************************************************)
(* The plug-in of ccd (longconn_complete.cpp): net_complete_func cuts the  *)
(* byte stream of a connection into requests, mcd_route_func spreads them  *)
(* over the request queues.  ccd itself is external: it appends what a     *)
(* read returns to the connection's cache, and takes requests off the      *)
(* cache until net_complete_func returns 0 (wait) or less (close).         *)
(*                                                                         *)
(* A frame is its size in bytes, the length its first four bytes give in   *)
(* network order, and the int they are in host order.                      *)
(***************************************************************************)
EXTENDS Integers, Sequences, FiniteSets, Sums

CONSTANTS
  Flows,
  Streams,        \* [Flows -> what each client sends, a sequence of frames]
  Headers,        \* [net, host] of four bytes that are not a frame's first
  LEN,            \* bytes of a length field (4)
  PKT_MAX_LEN,
  CCD_MAX_LEN,    \* ccd closes a connection for more than this
  Chunk,          \* most bytes one read returns
  req_mq_cnt,     \* request queues
  W32             \* 2^32, where ret_index wraps

Frame == [size : Nat, net : Nat, host : Int]

ASSUME NetCompleteAssumption ==
  /\ Streams \subseteq [Flows -> Seq(Frame)]
  /\ Headers \subseteq [net : Nat, host : Int]
  /\ LEN \in Nat \ {0} /\ PKT_MAX_LEN \in Nat /\ CCD_MAX_LEN \in Nat
  /\ Chunk \in Nat \ {0} /\ req_mq_cnt \in Nat \ {0} /\ W32 \in Nat \ {0}
  /\ \A st \in Streams : \A f \in Flows : \A k \in DOMAIN st[f] : st[f][k].size >= LEN

VARIABLES
  stream,       \* what the clients send
  received,     \* flow -> bytes read from its socket so far
  start,        \* flow -> bytes its cache has let go
  open,         \* flows not closed
  serving,      \* the flow whose cache ccd is looking at, or {}
  messages,     \* flow -> the requests cut off its stream (history)
  ret_index, routed   \* the static counter; queue -> requests sent to it

flowVars == <<stream, received, start, open, serving, messages, ret_index, routed>>

Queues == 0..(req_mq_cnt - 1)

InitFlows ==
  /\ stream \in Streams
  /\ received = [f \in Flows |-> 0] /\ start = [f \in Flows |-> 0]
  /\ open = Flows /\ serving = {}
  /\ messages = [f \in Flows |-> <<>>]
  /\ ret_index = 0 /\ routed = [q \in Queues |-> 0]
-----------------------------------------------------------------------------
(* Where frame k of flow f begins; one past the last frame, the stream's end. *)
Sizes(f) == [k \in DOMAIN stream[f] |-> stream[f][k].size]
Offset(f, k) == Sums(Sizes(f), Len(stream[f]))[k - 1]
Sent(f) == Offset(f, Len(stream[f]) + 1)

(* The first four bytes of the cache: a frame's length field if one begins  *)
(* there, and any four bytes otherwise.                                     *)
HeaderAt(f, p) ==
  LET begins == {k \in DOMAIN stream[f] : Offset(f, k) = p}
  IN IF begins # {} THEN {[net |-> stream[f][k].net, host |-> stream[f][k].host] : k \in begins}
                    ELSE Headers

(* Mutant: a frame is taken before it is all there. *)
LengthOnly(h, data_len) ==
  IF data_len < LEN THEN 0 ELSE IF h.net > PKT_MAX_LEN THEN -1 ELSE h.net

(* Mutant: a frame is taken only when a byte follows it. *)
OneByteMore(h, data_len) ==
  IF data_len < LEN THEN 0
  ELSE IF h.net > PKT_MAX_LEN THEN -1
  ELSE IF data_len <= h.net THEN 0
  ELSE h.net

longconn_complete_func(h, data_len) ==
  IF data_len < LEN THEN 0
  ELSE IF h.net > PKT_MAX_LEN THEN -1
  ELSE IF data_len < h.net THEN 0
  ELSE h.net

(* Mutant: the limit is exclusive. *)
BelowLimit(h, data_len) ==
  LET ret == longconn_complete_func(h, data_len)
  IN IF data_len >= PKT_MAX_LEN THEN -1
     ELSE IF ret = -1 THEN h.host ELSE ret

(* A length too large in network order is returned as it is in host order,  *)
(* without a look at data_len.                                              *)
net_complete_func(h, data_len) ==
  LET ret == longconn_complete_func(h, data_len)
  IN IF data_len > PKT_MAX_LEN THEN -1
     ELSE IF ret = -1 THEN h.host ELSE ret

(* Mutant: the counter is not stored. *)
SameIndex(idx) == idx
NextIndex(idx) == (idx + 1) % W32
mcd_route_func(idx) == NextIndex(idx) % req_mq_cnt
-----------------------------------------------------------------------------
(* ccd reads some more of a connection's stream. *)
Receive(f, n) ==
  /\ serving = {} /\ f \in open
  /\ received[f] + n <= Sent(f)
  /\ received' = [received EXCEPT ![f] = @ + n]
  /\ serving' = {f}
  /\ UNCHANGED <<stream, start, open, messages, ret_index, routed>>

Complete(f, ret) ==
  /\ f \in serving
  /\ \E h \in HeaderAt(f, start[f]) : ret = net_complete_func(h, received[f] - start[f])

Waits(f) ==
  /\ Complete(f, 0)
  /\ serving' = {}
  /\ UNCHANGED <<stream, received, start, open, messages, ret_index, routed>>

Closes(f, ret) ==
  /\ ret < 0 \/ ret > CCD_MAX_LEN
  /\ Complete(f, ret)
  /\ open' = open \ {f} /\ serving' = {}
  /\ UNCHANGED <<stream, received, start, messages, ret_index, routed>>

(* A request of ret bytes is routed, and the cache lets go of as many, or   *)
(* of all it has.                                                           *)
Cuts(f, ret) ==
  /\ ret > 0 /\ ret <= CCD_MAX_LEN
  /\ Complete(f, ret)
  /\ messages' = [messages EXCEPT ![f] = Append(@, [from |-> start[f], len |-> ret])]
  /\ start' = [start EXCEPT ![f] = IF @ + ret < received[f] THEN @ + ret ELSE received[f]]
  /\ routed' = [routed EXCEPT ![mcd_route_func(ret_index)] = @ + 1]
  /\ ret_index' = NextIndex(ret_index)
  /\ UNCHANGED <<stream, received, open, serving>>

Results == {-1} \cup 0..PKT_MAX_LEN \cup {h.host : h \in Headers}
             \cup UNION {{stream[f][k].host : k \in DOMAIN stream[f]} : f \in Flows}

GetMessage(f) == Waits(f) \/ \E ret \in Results : Closes(f, ret) \/ Cuts(f, ret)

FlowsNext ==
  \/ \E f \in Flows, n \in 1..Chunk : Receive(f, n)
  \/ \E f \in Flows : GetMessage(f)

(* ccd serves every connection: what a client has sent is read, in pieces   *)
(* of any size, and a cache that has grown is looked at.                    *)
FlowsFairness ==
  \A f \in Flows : /\ SF_flowVars(\E n \in 1..Chunk : Receive(f, n))
                   /\ WF_flowVars(GetMessage(f))

FlowsSpec == InitFlows /\ [][FlowsNext]_flowVars /\ FlowsFairness
-----------------------------------------------------------------------------
(* Type invariant. *)
FlowsTypeOK ==
  /\ stream \in Streams
  /\ received \in [Flows -> Nat] /\ start \in [Flows -> Nat]
  /\ \A f \in Flows : start[f] <= received[f] /\ received[f] <= Sent(f)
  /\ open \subseteq Flows /\ serving \subseteq open /\ Cardinality(serving) <= 1
  /\ messages \in [Flows -> Seq([from : Nat, len : Nat])]
  /\ ret_index \in 0..(W32 - 1) /\ routed \in [Queues -> Nat]

(* A frame a client may send: its length field is right. *)
Good(fr) == fr.net = fr.size /\ fr.size <= PKT_MAX_LEN /\ fr.size <= CCD_MAX_LEN

(* The first n frames there are, and well-formed. *)
GoodUpTo(f, n) == n <= Len(stream[f]) /\ \A k \in 1..n : Good(stream[f][k])

(* However the bytes are split over reads, the requests cut off a stream    *)
(* are its frames, one by one, up to the first that is malformed, and if    *)
(* none is, nothing else: net_complete_func sees only what has come so far  *)
(* (longconn_complete.cpp:36-58).                                           *)
FramesAreCutExactly ==
  \A f \in Flows :
    /\ \A k \in DOMAIN messages[f] : GoodUpTo(f, k) =>
         messages[f][k] = [from |-> Offset(f, k), len |-> stream[f][k].size]
    /\ GoodUpTo(f, Len(stream[f])) => Len(messages[f]) <= Len(stream[f])

(* The queues get the same number of requests each, give or take one, and   *)
(* one more for every time the 32-bit counter has wrapped                   *)
(* (longconn_complete.cpp:78).                                              *)
Cut == Sums([n \in 1..req_mq_cnt |-> routed[n - 1]], req_mq_cnt)[req_mq_cnt]
RoutesAreBalanced ==
  \A p, q \in Queues : routed[p] - routed[q] <= 1 + Cut \div W32

(* Types (no read passes what was sent), exact frames, and balanced routes  *)
(* (longconn_complete.cpp:36-58, 78).                                       *)
FramingInv == FlowsTypeOK /\ FramesAreCutExactly /\ RoutesAreBalanced

(* A frame so large that a read which completes it can leave more than      *)
(* PKT_MAX_LEN bytes in the cache.                                          *)
Tight(fr) == fr.size + Chunk - 1 > PKT_MAX_LEN

(* A connection is closed only for a malformed frame, or for a frame so     *)
(* near the limit that the bytes behind it fill the cache                   *)
(* (longconn_complete.cpp:15: the test is on what has come, not on the      *)
(* frame).                                                                  *)
ClosedForCause ==
  \A f \in Flows \ open : \E k \in DOMAIN stream[f] : ~Good(stream[f][k]) \/ Tight(stream[f][k])

(* A client that sends well-formed frames, none of them tight, gets every   *)
(* one of them to mcd: no split of the stream leaves a whole frame waiting. *)
AllGood(f) == \A k \in DOMAIN stream[f] : Good(stream[f][k]) /\ ~Tight(stream[f][k])

EveryFrameIsCut == \A f \in Flows : AllGood(f) ~> Len(messages[f]) = Len(stream[f])
=============================================================================
