------------------------ MODULE RequestServiceProofs ------------------------
(***************************************************************************)
(* The order the service keeps, for any number of requests.                *)
(***************************************************************************)
EXTENDS RequestService, TLAPS

LEMMA StatusStep == TypeOK /\ [Next]_status => TypeOK'
  BY DEF TypeOK, Next, Arrive, Take, Conclude, Deliver, Becomes, Status

(* A request's status is always one of the six. *)
THEOREM TypeCorrect == Spec => []TypeOK
<1>1. Init => TypeOK
  BY DEF Init, TypeOK, Status
<1>2. QED
  BY <1>1, StatusStep, PTL DEF Spec
-----------------------------------------------------------------------------
(* InOrder and OneAtATime are inductive together: a request is taken only   *)
(* while no other is handled, and only the oldest one of a stage moves on.  *)
OrderInv == TypeOK /\ InOrder /\ OneAtATime

LEMMA Ranks ==
  /\ Rank("unsent") = 0 /\ Rank("queued") = 1 /\ Rank("handling") = 2
  /\ Rank("answered") = 3 /\ Rank("delivered") = 4 /\ Rank("gone") = 5
  BY DEF Rank, Stage

LEMMA OrderInit ==
  ASSUME MaxRequests \in Nat, Init
  PROVE  OrderInv
<1>1. TypeOK /\ OneAtATime
  BY DEF Init, TypeOK, Status, OneAtATime
<1>2. \A r \in Request : \A s \in 1..(r - 1) : s \in Request
  BY DEF Request
<1>3. InOrder
  BY <1>2, Ranks DEF Init, InOrder
<1>4. QED
  BY <1>1, <1>3 DEF OrderInv

(* A move up that catches up with no earlier request keeps the order.       *)
LEMMA MoveKeepsOrder ==
  ASSUME MaxRequests \in Nat, TypeOK, InOrder, NEW r \in Request, NEW to \in Status,
         Becomes(r, to),
         Rank(to) >= Rank(status[r]), status[r] # "gone",
         to = "gone" \/ \A s \in 1..(r - 1) : Rank(status[s]) >= Rank(to)
  PROVE  InOrder'
<1> SUFFICES ASSUME NEW a \in Request, NEW b \in 1..(a - 1), status'[a] # "gone"
             PROVE  Rank(status'[b]) >= Rank(status'[a])
  BY DEF InOrder
<1>1. /\ b \in Request /\ b # a
      /\ \A s \in Request : status[s] \in Status
      /\ \A st \in Status : Rank(st) \in Int
      /\ status'[r] = to
      /\ \A s \in Request : s # r => status'[s] = status[s]
  BY Ranks DEF TypeOK, Becomes, Request, Status
<1>2. CASE a = r
  BY <1>1, <1>2
<1>3. CASE b = r
  BY <1>1, <1>3 DEF InOrder
<1>4. CASE a # r /\ b # r
  BY <1>1, <1>4 DEF InOrder
<1>5. QED
  BY <1>2, <1>3, <1>4

LEMMA OrderStep ==
  ASSUME MaxRequests \in Nat, OrderInv, [Next]_status
  PROVE  OrderInv'
<1> USE DEF OrderInv
<1>1. TypeOK'
  BY StatusStep
<1>2. CASE UNCHANGED status
  BY <1>2 DEF TypeOK, InOrder, OneAtATime
<1>3. ASSUME NEW r \in Request, Arrive(r)
      PROVE  InOrder' /\ OneAtATime'
  <2>1. PICK to \in {"queued", "gone"} : Becomes(r, to)
    BY <1>3 DEF Arrive
  <2>2. /\ status[r] = "unsent"
        /\ \A s \in 1..(r - 1) : status[s] \in Status \ {"unsent"}
    BY <1>3 DEF Arrive, Oldest, TypeOK, Request
  <2>3. InOrder'
    BY <2>1, <2>2, Ranks, MoveKeepsOrder DEF Status
  <2>4. OneAtATime'
    BY <2>1, <2>2 DEF OneAtATime, Becomes, TypeOK
  <2>5. QED
    BY <2>3, <2>4
<1>4. ASSUME NEW r \in Request, Take(r)
      PROVE  InOrder' /\ OneAtATime'
  <2>1. PICK to \in {"handling", "gone"} : Becomes(r, to)
    BY <1>4 DEF Take
  <2>2. /\ status[r] = "queued"
        /\ \A s \in 1..(r - 1) : /\ status[s] \in Status \ {"queued"}
                                 /\ Rank(status[s]) >= Rank("queued")
    BY <1>4 DEF Take, Oldest, TypeOK, Request, InOrder
  <2>3. InOrder'
    BY <2>1, <2>2, Ranks, MoveKeepsOrder DEF Status
  <2>4. OneAtATime'
    BY <1>4, <2>1 DEF OneAtATime, Take, Idle, Becomes, TypeOK
  <2>5. QED
    BY <2>3, <2>4
<1>5. ASSUME NEW r \in Request, Conclude(r)
      PROVE  InOrder' /\ OneAtATime'
  <2>1. PICK to \in {"answered", "gone"} : Becomes(r, to)
    BY <1>5 DEF Conclude
  <2>2. /\ status[r] = "handling"
        /\ \A s \in 1..(r - 1) : /\ status[s] \in Status \ {"handling"}
                                 /\ Rank(status[s]) >= Rank("handling")
    BY <1>5
    DEF Conclude, TypeOK, Request, InOrder, OneAtATime
  <2>3. InOrder'
    BY <2>1, <2>2, Ranks, MoveKeepsOrder DEF Status
  <2>4. OneAtATime'
    BY <2>1 DEF OneAtATime, Becomes, TypeOK
  <2>5. QED
    BY <2>3, <2>4
<1>6. ASSUME NEW r \in Request, Deliver(r)
      PROVE  InOrder' /\ OneAtATime'
  <2>1. PICK to \in {"delivered", "gone"} : Becomes(r, to)
    BY <1>6 DEF Deliver
  <2>2. /\ status[r] = "answered"
        /\ \A s \in 1..(r - 1) : /\ status[s] \in Status \ {"answered"}
                                 /\ Rank(status[s]) >= Rank("answered")
    BY <1>6 DEF Deliver, Oldest, TypeOK, Request, InOrder
  <2>3. InOrder'
    BY <2>1, <2>2, Ranks, MoveKeepsOrder DEF Status
  <2>4. OneAtATime'
    BY <2>1 DEF OneAtATime, Becomes, TypeOK
  <2>5. QED
    BY <2>3, <2>4
<1>7. QED
  BY <1>1, <1>2, <1>3, <1>4, <1>5, <1>6 DEF Next

LEMMA OrderCorrect ==
  ASSUME MaxRequests \in Nat
  PROVE  Spec => []OrderInv
<1>1. Init => OrderInv
  BY OrderInit
<1>2. OrderInv /\ [Next]_status => OrderInv'
  BY OrderStep
<1>3. QED
  BY <1>1, <1>2, PTL DEF Spec

(* No request overtakes an earlier one, at any stage, for any number of     *)
(* requests.                                                                *)
THEOREM InOrderCorrect ==
  ASSUME MaxRequests \in Nat
  PROVE  Spec => []InOrder
<1>1. OrderInv => InOrder
  BY DEF OrderInv
<1>2. QED
  BY <1>1, OrderCorrect, PTL

(* One request is handled at a time. *)
THEOREM OneAtATimeCorrect ==
  ASSUME MaxRequests \in Nat
  PROVE  Spec => []OneAtATime
<1>1. OrderInv => OneAtATime
  BY DEF OrderInv
<1>2. QED
  BY <1>1, OrderCorrect, PTL

(* Nothing is answered twice: a delivered reply, or a lost request, is at   *)
(* its end.                                                                 *)
THEOREM FinalCorrect == Spec => Final
<1> DEFINE Kept == \A r \in Request :
                     status[r] \in {"delivered", "gone"} => status'[r] = status[r]
<1>1. TypeOK /\ [Next]_status => [Kept]_status
  <2> SUFFICES ASSUME TypeOK, Next PROVE Kept
    OBVIOUS
  <2> QED
    BY DEF Next, Arrive, Take, Conclude, Deliver, Oldest, Becomes, TypeOK
<1>2. QED
  BY <1>1, TypeCorrect, PTL DEF Spec, Final
=============================================================================
