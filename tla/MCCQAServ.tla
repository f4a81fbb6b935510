----------------------------- MODULE MCCQAServ -----------------------------
(* Questions of every shape TokenByNlpTool tells apart, over a dictionary   *)
(* with the styles 1 and 2 and no joke of style 3.                          *)
EXTENDS CQAServ, TLC

CONSTANTS empty, cold, greet, mixed, vague

MCNlpMatch ==
  empty :> NoMatch                  \* no text; or no pattern matches
  @@ cold  :> <<1>>                 \* one type with jokes
  @@ greet :> <<OtherTag>>          \* matched, but names no type
  @@ mixed :> <<OtherTag, 2, 3>>    \* a type with jokes, then one without
  @@ vague :> <<3, 0>>              \* a type without jokes, an unknown word

MCQuestions == DOMAIN MCNlpMatch
Dense == 1 :> {0} @@ 2 :> {1}
Gap   == 1 :> {0} @@ 3 :> {1}
MCDense == {Dense}
MCAll   == {Dense, Gap}

(* Two requests may be of any shape.  A third, one more than a batch takes, *)
(* comes on the same flow, and all three are then questions with one style  *)
(* or none.                                                                 *)
Plain(m) == m.kind = "query" /\ m.question \in {empty, cold}

MCRequest(flow, kind, question) ==
  /\ Len(submitted) = 2 =>
       /\ kind = "query" /\ question \in {empty, cold}
       /\ \A k \in 1..2 : Plain(submitted[k]) /\ submitted[k].flow = flow
  /\ CcdRequest(flow, kind, question)

MCNext ==
  \/ \E flow \in Flows, kind \in Kinds, q \in Questions : MCRequest(flow, kind, q)
  \/ \E flow \in Flows : CloseFlow(flow)
  \/ CcdResponse
  \/ HandlerStep
  \/ DequeueFails \/ EncodeFails \/ Exception \/ Sigterm \/ Sigkill \/ Restart

MCSpec == Init /\ [][MCNext]_vars /\ Fairness
=============================================================================
