------------------------------ MODULE StatTime ------------------------------
(***************************************************************************)
(* CStatistic::_AddTime (common_stat.cc:216-263): the time fields of one   *)
(* row, in the widths the struct gives them.  The fields of m_stTime are   *)
(* unsigned long long, so a negative difference wraps, tv_usec > 1000000   *)
(* is then true, and the test tv_usec < 0 never is.                        *)
(***************************************************************************)
EXTENDS Integers, Sequences, FiniteSets, FiniteSetsExt

CONSTANTS
  USEC,         \* microseconds in a second (1000000)
  W64, W32,     \* 2^64 and 2^32: one past the largest unsigned value
  T1, T2, T3,   \* m_iTimeOutUs
  Differences,  \* <<seconds, microseconds>> from pstBegin to pstEnd
  MaxTimed      \* bound on timed calls

ASSUME StatTimeAssumption ==
  /\ USEC \in Nat \ {0} /\ W64 \in Nat \ {0} /\ W32 \in Nat \ {0}
  /\ USEC < W64
  /\ T1 \in Nat /\ T2 \in Nat /\ T3 \in Nat /\ T1 < T2 /\ T2 < T3
  /\ Differences \subseteq Int \X Int
  /\ MaxTimed \in Nat

VARIABLES
  tv_sec, tv_usec,              \* m_stTime
  m_unMaxTime, m_unMinTime, m_unTimeOut,
  total,                        \* the true sum of the differences (history)
  spans                         \* unTimeSpanUs of every call (history)

timeVars == <<tv_sec, tv_usec, m_unMaxTime, m_unMinTime, m_unTimeOut, total, spans>>

InitTime ==
  /\ tv_sec = 0 /\ tv_usec = 0
  /\ m_unMaxTime = 0 /\ m_unMinTime = 0
  /\ m_unTimeOut = [k \in 1..3 |-> 0]
  /\ total = 0 /\ spans = <<>>

U64(x) == x % W64
U32(x) == x % W32

(* Mutant: the lower limit is exclusive. *)
ColumnAbove(span) ==
  IF span > T1 /\ span < T2 THEN 1
  ELSE IF span >= T2 /\ span < T3 THEN 2
  ELSE IF span > T3 THEN 3 ELSE 0

(* The column a span is counted in, 0 for none. *)
Column(span) ==
  IF span >= T1 /\ span < T2 THEN 1
  ELSE IF span >= T2 /\ span < T3 THEN 2
  ELSE IF span > T3 THEN 3 ELSE 0

(* A second is carried out of tv_usec at most once, and only above USEC. *)
Carry(usec) == IF usec > USEC THEN 1 ELSE 0

(* Mutant: all of the seconds leave tv_usec, while one enters tv_sec. *)
AllCarried(usec) == usec % USEC
Carried(usec) == usec - USEC * Carry(usec)

NewMax(max, span) == IF span > max THEN span ELSE max

(* A minimum of 0 is none yet. *)
NewMin(min, span) == IF min = 0 \/ span < min THEN span ELSE min

AddTime(dsec, dusec) ==
  /\ Len(spans) < MaxTimed
  /\ LET span == U32(dsec * USEC + dusec)
         usec == U64(tv_usec + dusec)
     IN /\ m_unTimeOut' = [k \in 1..3 |-> m_unTimeOut[k] +
                                          IF k = Column(span) THEN 1 ELSE 0]
        /\ m_unMaxTime' = NewMax(m_unMaxTime, span)
        /\ m_unMinTime' = NewMin(m_unMinTime, span)
        /\ tv_usec' = Carried(usec)
        /\ tv_sec' = U64(U64(tv_sec + dsec) + Carry(usec))
        /\ spans' = Append(spans, span)
  /\ total' = total + USEC * dsec + dusec

TimeNext == \E d \in Differences : AddTime(d[1], d[2])

TimeSpec == InitTime /\ [][TimeNext]_timeVars
-----------------------------------------------------------------------------
(* Type invariant: every field stays within its width. *)
TimeTypeOK ==
  /\ tv_sec \in 0..(W64 - 1) /\ tv_usec \in 0..(W64 - 1)
  /\ m_unMaxTime \in 0..(W32 - 1) /\ m_unMinTime \in 0..(W32 - 1)
  /\ m_unTimeOut \in [1..3 -> Nat]
  /\ total \in Int /\ spans \in Seq(0..(W32 - 1))

(* The sum WriteToFile divides, 1000000 * tv_sec + tv_usec, is the true sum *)
(* of the times modulo 2^64, although tv_usec may wrap and the carry at 252 *)
(* then goes the wrong way: what 254-255 and 249-250 do to it cancels out.  *)
SumKept == U64(USEC * tv_sec + tv_usec) = U64(total)

(* Every field within its width, and the sum right all the same             *)
(* (common_stat.cc:249-262).                                                *)
SumInv == TimeTypeOK /\ SumKept

SpanSet == {spans[k] : k \in DOMAIN spans}

(* MAX and MIN are those of the spans, MIN as long as no span was 0.        *)
MaxIsMaximum == spans # <<>> => m_unMaxTime = Max(SpanSet)
MinIsMinimum == (spans # <<>> /\ 0 \notin SpanSet) => m_unMinTime = Min(SpanSet)

(* The columns count every call from T1 up once, but those of exactly T3.   *)
ColumnsCountSlowCalls ==
  m_unTimeOut[1] + m_unTimeOut[2] + m_unTimeOut[3] =
    Cardinality({k \in DOMAIN spans : spans[k] >= T1 /\ spans[k] # T3})

(* Extremes and columns are those of the calls there were: three fields     *)
(* that _AddTime updates one after the other (common_stat.cc:227-247).      *)
SpansAreCounted == MaxIsMaximum /\ MinIsMinimum /\ ColumnsCountSlowCalls
=============================================================================
