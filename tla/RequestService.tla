--------------------------- MODULE RequestService ---------------------------
(***************************************************************************)
(* What the joke service promises of a request that reached ccd: it is     *)
(* taken up at most once, in arrival order, one request at a time, and its *)
(* reply goes out at most once, again in arrival order.  A request may end *)
(* without a reply ("gone"); what may cause that is CQAServ's business.    *)
(***************************************************************************)
EXTENDS Integers

CONSTANT MaxRequests   \* requests are numbered 1 .. MaxRequests on arrival

VARIABLE status

Request == 1..MaxRequests

Status == {"unsent", "queued", "handling", "answered", "delivered", "gone"}

TypeOK == status \in [Request -> Status]

Init == status = [r \in Request |-> "unsent"]
-----------------------------------------------------------------------------
Oldest(r, st) == status[r] = st /\ \A o \in 1..(r - 1) : status[o] # st

Becomes(r, st) == status' = [status EXCEPT ![r] = st]

Arrive(r) == Oldest(r, "unsent") /\ \E st \in {"queued", "gone"} : Becomes(r, st)

Idle == \A r \in Request : status[r] # "handling"

Take(r) ==
  /\ Idle
  /\ Oldest(r, "queued")
  /\ \E st \in {"handling", "gone"} : Becomes(r, st)

Conclude(r) ==
  /\ status[r] = "handling"
  /\ \E st \in {"answered", "gone"} : Becomes(r, st)

Deliver(r) ==
  /\ Oldest(r, "answered")
  /\ \E st \in {"delivered", "gone"} : Becomes(r, st)

Next == \E r \in Request : Arrive(r) \/ Take(r) \/ Conclude(r) \/ Deliver(r)

Spec == Init /\ [][Next]_status
-----------------------------------------------------------------------------
(* How far a request has come; "gone" requests no longer hold a place. *)
Stage == [unsent |-> 0, queued |-> 1, handling |-> 2, answered |-> 3,
          delivered |-> 4, gone |-> 5]

Rank(st) == Stage[st]

(* No request overtakes an earlier one at any stage of the pipeline.        *)
InOrder ==
  \A r \in Request : \A s \in 1..(r - 1) :
    status[r] # "gone" => Rank(status[s]) >= Rank(status[r])

(* One request is handled at a time. *)
OneAtATime ==
  \A r, s \in Request : status[r] = "handling" /\ status[s] = "handling" => r = s

(* A delivered reply and a lost request stay so: nothing is answered twice. *)
Final ==
  [][\A r \in Request :
       status[r] \in {"delivered", "gone"} => status'[r] = status[r]]_status
=============================================================================
