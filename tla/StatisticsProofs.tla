-------------------------- MODULE StatisticsProofs --------------------------
(***************************************************************************)
(* The statistics: the times _AddTime sums up, the log and its rotation,   *)
(* and the table two threads share, for all values of their constants.     *)
(***************************************************************************)
EXTENDS CStatistic, StatTime, LogRotation, DataLemmas

(* The log.  OldestLostFirst is not inductive: a rename may replace a file, *)
(* unless the place it goes to is free or holds what access() did not see,  *)
(* and that is so because the loop comes from the other end                 *)
(* (OnlyUnseenAreReplaced).                                                 *)

(* A step leaves the types alone. *)
LEMMA LogTypeStep == LogTypeOK /\ [LogNext]_logVars => LogTypeOK'
<1> SUFFICES ASSUME LogTypeOK, [LogNext]_logVars PROVE LogTypeOK'
  OBVIOUS
<1> USE LogRotationAssumption DEF LogTypeOK, Index, Oldest, FirstToMove, Fault
<1>1. CASE WriteLog
  <2>1. report' \in 0..MaxLogged /\ 1..report \subseteq 1..report'
    BY <1>1 DEF WriteLog
  <2>2. files' \in [Index -> SUBSET (1..report')]
    BY <1>1, <2>1 DEF WriteLog
  <2> QED BY <1>1, <2>1, <2>2 DEF WriteLog
<1>2. CASE WriteFails
  <2>1. report' \in 0..MaxLogged /\ 1..report \subseteq 1..report'
    BY <1>2 DEF WriteFails
  <2> QED BY <1>2, <2>1 DEF WriteFails
<1>3. CASE NothingToShift BY <1>3 DEF NothingToShift
<1>4. CASE MustShift BY <1>4 DEF MustShift
<1>5. CASE RemoveOldest BY <1>5 DEF RemoveOldest
<1>6. CASE Rename BY <1>6 DEF Rename
<1>7. CASE EndShift BY <1>7 DEF EndShift
<1>8. CASE ShiftFails BY <1>8 DEF ShiftFails
<1>9. CASE Restart BY <1>9 DEF Restart
<1>10. CASE UNCHANGED logVars BY <1>10 DEF logVars
<1>11. CASE OverlookOldest
  <2>1. unseen' \subseteq 1..report'
    <3>1. unseen' = unseen \cup files[Oldest] /\ report' = report /\ Oldest \in Index
      BY <1>11 DEF OverlookOldest, Overlook
    <3>2. files[Oldest] \subseteq 1..report
      BY <3>1
    <3> QED BY <3>1, <3>2
  <2> QED BY <1>11, <2>1 DEF OverlookOldest, Overlook
<1>12. CASE OverlookFile
  <2>1. unseen' \subseteq 1..report'
    <3>1. unseen' = unseen \cup files[i] /\ report' = report /\ i \in Index
      BY <1>12 DEF OverlookFile, Overlook
    <3>2. files[i] \subseteq 1..report
      BY <3>1
    <3> QED BY <3>1, <3>2
  <2> QED BY <1>12, <2>1 DEF OverlookFile, Overlook
<1> QED
  BY <1>1, <1>2, <1>3, <1>4, <1>5, <1>6, <1>7, <1>8, <1>9, <1>10, <1>11, <1>12 DEF LogNext

LEMMA LogTypeInit == InitLog => LogTypeOK
  BY LogRotationAssumption DEF InitLog, LogTypeOK, Index

(* The state of the rotation stays within its types, in particular no file  *)
(* past the last is written, for every size and number of files.            *)
THEOREM LogTypeCorrect == LogSpec => []LogTypeOK
  BY LogTypeInit, LogTypeStep, PTL DEF LogSpec
-----------------------------------------------------------------------------
(* The place a file is renamed to is free or holds what access() did not    *)
(* see, at every step of the loop (common_stat.cc:280, 286-301).            *)
LEMMA UnseenStep ==
  LogTypeOK /\ OnlyUnseenAreReplaced /\ [LogNext]_logVars => OnlyUnseenAreReplaced'
<1> SUFFICES ASSUME LogTypeOK, OnlyUnseenAreReplaced, [LogNext]_logVars
             PROVE  OnlyUnseenAreReplaced'
  OBVIOUS
<1> USE LogRotationAssumption
    DEF LogTypeOK, OnlyUnseenAreReplaced, Exists, Index, Oldest, FirstToMove
<1>1. CASE RemoveOldest
  BY <1>1 DEF RemoveOldest
<1>2. CASE Rename
  <2>1. CASE i = 0 BY <1>2, <2>1 DEF Rename
  <2>2. CASE i > 0
    <3>1. files'[i] = {}
      BY <1>2, <2>2 DEF Rename
    <3> QED BY <1>2, <2>2, <3>1 DEF Rename
  <2> QED BY <1>2, <2>1, <2>2 DEF Rename
<1>3. CASE OverlookOldest
  <2>1. files'[i' + 1] \subseteq unseen'
    BY <1>3 DEF OverlookOldest, Overlook
  <2> QED BY <2>1
<1>4. CASE OverlookFile
  <2>1. files'[i' + 1] \subseteq unseen'
    BY <1>4 DEF OverlookFile, Overlook
  <2> QED BY <2>1
<1>5. CASE UNCHANGED logVars BY <1>5 DEF logVars
<1> QED
  BY <1>1, <1>2, <1>3, <1>4, <1>5 DEF LogNext, WriteLog, WriteFails, NothingToShift, MustShift,
     EndShift, ShiftFails, Restart

(* A rename replaces no file but one that access() has just failed to see,  *)
(* for every number of files and of failures (common_stat.cc:296).          *)
THEOREM OnlyUnseenAreReplacedCorrect == LogSpec => []OnlyUnseenAreReplaced
<1>1. InitLog => OnlyUnseenAreReplaced
  BY DEF InitLog, OnlyUnseenAreReplaced
<1> QED BY <1>1, UnseenStep, LogTypeCorrect, PTL DEF LogSpec
-----------------------------------------------------------------------------
(* Reports not in an unseen file are lost oldest first, and all stay in     *)
(* order, however often calls fail and the process dies.                    *)
InOrder == \A j, k \in Index : j < k => \A a \in files[j], b \in files[k] : b < a
LostFirst ==
  \A a \in written \ unseen, b \in written : a \notin Kept /\ b \in Kept => a < b
KeptWritten == Kept \subseteq written

OrderInv == InOrder /\ LostFirst /\ KeptWritten

LEMMA OrderStep ==
  ASSUME LogTypeOK, OnlyUnseenAreReplaced, OrderInv, [LogNext]_logVars
  PROVE  OrderInv'
<1> USE LogRotationAssumption DEF OrderInv, InOrder, LostFirst, KeptWritten
<1>0. ASSUME NEW a \in Kept PROVE \E k \in Index : a \in files[k]
  BY <1>0 DEF Kept
<1>1. CASE WriteLog
  <2>1. 0 \in Index
    BY DEF Index
  <2>2. \A k \in Index : files'[k] = IF k = 0 THEN files[0] \cup {report + 1} ELSE files[k]
    BY <1>1, <2>1 DEF WriteLog, LogTypeOK
  <2>3. \A k \in Index : \A a \in files[k] : a < report + 1
    BY DEF LogTypeOK
  <2>4. InOrder'
    BY <2>2, <2>3 DEF Index
  <2>5. Kept' = Kept \cup {report + 1}
    BY <2>1, <2>2 DEF Kept
  <2>6. \A a \in written : a < report + 1
    BY DEF LogTypeOK
  <2>7. written' = written \cup {report + 1} /\ unseen' = unseen
    BY <1>1 DEF WriteLog
  <2> QED BY <2>4, <2>5, <2>6, <2>7
<1>2. CASE RemoveOldest
  <2>1. Oldest \in Index
    BY DEF Oldest, Index
  <2>2. \A k \in Index : files'[k] = IF k = Oldest THEN {} ELSE files[k]
    BY <1>2, <2>1 DEF RemoveOldest, LogTypeOK
  <2>3. InOrder'
    BY <2>2
  <2>4. Kept' \subseteq Kept
    BY <2>2 DEF Kept
  <2>5. ASSUME NEW a \in Kept, a \notin Kept' PROVE a \in files[Oldest]
    BY <2>2, <2>5 DEF Kept
  <2>6. ASSUME NEW b \in Kept' PROVE \E k \in Index : k < Oldest /\ b \in files[k]
    BY <2>2, <2>6 DEF Kept, Oldest, Index
  <2>7. \A a \in files[Oldest], b \in Kept' : a < b
    BY <2>1, <2>6
  <2>8. UNCHANGED <<written, unseen>>
    BY <1>2 DEF RemoveOldest
  <2> QED BY <2>3, <2>4, <2>5, <2>7, <2>8
<1>3. CASE Rename
  <2>1. i \in Index /\ i + 1 \in Index
    BY <1>3 DEF Rename, LogTypeOK, Index
  <2>2. files[i + 1] \subseteq unseen
    BY <1>3 DEF Rename, OnlyUnseenAreReplaced
  <2>3. CASE files[i] = {}
    <3>1. UNCHANGED <<files, written, unseen>>
      BY <1>3, <2>3 DEF Rename, Exists
    <3> QED BY <3>1 DEF Kept
  <2>4. CASE files[i] # {}
    <3>1. \A k \in Index : files'[k] = IF k = i + 1 THEN files[i]
                                       ELSE IF k = i THEN {} ELSE files[k]
      BY <1>3, <2>1, <2>4 DEF Rename, LogTypeOK, Exists, Index
    <3>2. InOrder'
      <4> SUFFICES ASSUME NEW j \in Index, NEW k \in Index, j < k,
                          NEW a \in files'[j], NEW b \in files'[k]
                   PROVE  b < a
        OBVIOUS
      <4> DEFINE was(l) == IF l = i + 1 THEN i ELSE l
      <4>1. j # i /\ k # i
        BY <2>1, <3>1 DEF Index
      <4>2. was(j) \in Index /\ was(k) \in Index
        BY <2>1
      <4>3. a \in files[was(j)] /\ b \in files[was(k)]
        BY <3>1, <4>1
      <4>4. was(j) < was(k)
        BY <2>1, <4>1 DEF Index
      <4> QED BY <4>2, <4>3, <4>4
    <3>3. Kept' \subseteq Kept /\ Kept \subseteq Kept' \cup files[i + 1]
      BY <2>1, <3>1 DEF Kept
    <3>4. UNCHANGED <<written, unseen>>
      BY <1>3 DEF Rename
    <3> QED BY <2>2, <3>2, <3>3, <3>4
  <2> QED BY <2>3, <2>4
<1>4. CASE UNCHANGED <<files, written>> /\ unseen \subseteq unseen'
  BY <1>4 DEF Kept
<1> QED
  BY <1>1, <1>2, <1>3, <1>4 DEF LogNext, logVars, WriteFails, NothingToShift, MustShift,
     OverlookOldest, OverlookFile, Overlook, EndShift, ShiftFails, Restart

THEOREM OldestLostFirstCorrect == LogSpec => []OldestLostFirst
<1>1. InitLog => OrderInv
  BY DEF InitLog, OrderInv, InOrder, LostFirst, KeptWritten, Kept
<1>2. LogTypeOK /\ OnlyUnseenAreReplaced /\ OrderInv /\ [LogNext]_logVars => OrderInv'
  BY OrderStep
<1>3. LogTypeOK /\ OrderInv => OldestLostFirst
  BY DEF OrderInv, InOrder, LostFirst, KeptWritten, OldestLostFirst
<1> QED
  BY <1>1, <1>2, <1>3, LogTypeCorrect, OnlyUnseenAreReplacedCorrect, PTL DEF LogSpec
-----------------------------------------------------------------------------
(* How large the files get.  A completed rotation leaves no newest file, so *)
(* only a failure can add to one that was large enough already.             *)
SizeOf(k) == Cardinality(files[k])

SizeInv ==
  /\ GrowthIsBounded
  /\ pc = "idle" => SizeOf(0) <= m_iLogMaxSize + faults - 1
  /\ pc = "shift" /\ i < 0 => SizeOf(0) <= m_iLogMaxSize + faults - 1

LEMMA FilesAreFinite ==
  ASSUME LogTypeOK, NEW k \in Index
  PROVE  IsFiniteSet(files[k]) /\ SizeOf(k) \in Nat
<1>1. files[k] \subseteq 1..report /\ IsFiniteSet(1..report)
  BY FS_Interval DEF LogTypeOK
<1> QED
  BY <1>1, FS_Subset, FS_CardinalityType DEF SizeOf

LEMMA SizeStep == ASSUME LogTypeOK, SizeInv, [LogNext]_logVars PROVE SizeInv'
<1>0. /\ m_iLogMaxSize \in Nat \ {0} /\ faults \in Nat /\ 0 \in Index
      /\ \A k \in Index : SizeOf(k) \in Nat /\ SizeOf(k) <= m_iLogMaxSize + faults
  BY LogRotationAssumption, FilesAreFinite DEF LogTypeOK, Index, SizeInv, GrowthIsBounded, SizeOf
<1>1. Cardinality({}) = 0
  BY FS_EmptySet
<1>2. CASE WriteLog
  <2>1. /\ \A k \in Index : files'[k] = IF k = 0 THEN files[0] \cup {report + 1} ELSE files[k]
        /\ pc = "idle" /\ pc' = "stat" /\ faults' = faults
    BY <1>0, <1>2 DEF WriteLog, LogTypeOK
  <2>2. Cardinality(files[0] \cup {report + 1}) <= SizeOf(0) + 1
    <3>1. IsFiniteSet(files[0]) /\ SizeOf(0) \in Nat
      BY <1>0, FilesAreFinite
    <3>2. Cardinality(files[0] \cup {report + 1}) \in {SizeOf(0), SizeOf(0) + 1}
      BY <3>1, FS_AddElement DEF SizeOf
    <3> QED
      BY <3>1, <3>2
  <2>3. Cardinality(files[0] \cup {report + 1}) \in Nat
    BY <1>0, FilesAreFinite, FS_AddElement, FS_CardinalityType
  <2>4. SizeOf(0) <= m_iLogMaxSize + faults - 1
    BY <2>1 DEF SizeInv
  <2>5. Cardinality(files[0] \cup {report + 1}) <= m_iLogMaxSize + faults
    BY <1>0, <2>2, <2>3, <2>4
  <2> QED
    BY <1>0, <2>1, <2>5 DEF SizeInv, GrowthIsBounded, SizeOf
<1>3. CASE RemoveOldest
  <2>1. /\ \A k \in Index : files'[k] = IF k = Oldest THEN {} ELSE files[k]
        /\ pc' = "shift" /\ i' = m_iLogMaxNum - 2 /\ faults' = faults
    BY <1>3 DEF RemoveOldest, FirstToMove, LogTypeOK, Index, Oldest
  <2>2. ~(i' < 0)
    BY <2>1, LogRotationAssumption
  <2> QED
    BY <1>0, <1>1, <2>1, <2>2 DEF SizeInv, GrowthIsBounded, SizeOf
<1>4. CASE Rename
  <2>1. /\ i \in Index /\ i + 1 \in Index /\ pc' = "shift" /\ i' = i - 1 /\ faults' = faults
        /\ i + 1 # 0
    BY <1>4, LogRotationAssumption DEF Rename, LogTypeOK, Index
  <2>2. \A k \in Index : files'[k] \in {files[k], files[i], {}}
    BY <1>4, <2>1 DEF Rename, LogTypeOK
  <2>3. i' < 0 => files'[0] = {}
    BY <1>0, <1>4, <2>1 DEF Rename, LogTypeOK, Exists, Index
  <2>4. \A k \in Index : Cardinality(files'[k]) <= m_iLogMaxSize + faults
    <3>1. Cardinality({}) <= m_iLogMaxSize + faults
      BY <1>0, <1>1
    <3>2. \A k \in Index : Cardinality(files[k]) <= m_iLogMaxSize + faults
      BY <1>0 DEF SizeOf
    <3> QED
      BY <2>1, <2>2, <3>1, <3>2
  <2>5. i' < 0 => Cardinality(files'[0]) <= m_iLogMaxSize + faults - 1
    BY <1>0, <1>1, <2>3
  <2> QED
    BY <2>1, <2>4, <2>5 DEF SizeInv, GrowthIsBounded, SizeOf
<1>5. CASE NothingToShift
  <2>1. files[0] = {} \/ ~(SizeOf(0) >= m_iLogMaxSize)
    BY <1>5 DEF NothingToShift, Exists, LargeEnough, SizeOf
  <2>2. SizeOf(0) <= m_iLogMaxSize + faults - 1
    <3>1. CASE files[0] = {}
      BY <1>0, <1>1, <3>1 DEF SizeOf
    <3>2. CASE ~(SizeOf(0) >= m_iLogMaxSize)
      BY <1>0, <3>2
    <3> QED
      BY <2>1, <3>1, <3>2
  <2> QED
    BY <1>5, <2>2 DEF NothingToShift, SizeInv, GrowthIsBounded, SizeOf
<1>6. CASE EndShift
  <2>1. SizeOf(0) <= m_iLogMaxSize + faults - 1
    BY <1>6 DEF EndShift, SizeInv
  <2> QED
    BY <1>6, <2>1 DEF EndShift, SizeInv, GrowthIsBounded, SizeOf
<1>7. CASE WriteFails \/ ShiftFails \/ Restart \/ OverlookOldest \/ OverlookFile
  <2>1. faults' = faults + 1 /\ files' = files
    BY <1>7 DEF WriteFails, ShiftFails, Restart, OverlookOldest, OverlookFile, Overlook, Fault
  <2>2. \A k \in Index : SizeOf(k) <= m_iLogMaxSize + faults' - 1
    BY <1>0, <2>1
  <2> QED
    BY <1>0, <2>1, <2>2 DEF SizeInv, GrowthIsBounded, SizeOf
<1>8. CASE MustShift \/ UNCHANGED logVars
  BY <1>8 DEF MustShift, logVars, SizeInv, GrowthIsBounded, SizeOf
<1> QED
  BY <1>2, <1>3, <1>4, <1>5, <1>6, <1>7, <1>8 DEF LogNext

(* No file outgrows the limit by more reports than there were failures, for *)
(* every limit and number of files (common_stat.cc:276, 293, 298).          *)
THEOREM GrowthIsBoundedCorrect == LogSpec => []GrowthIsBounded
<1>1. InitLog => SizeInv
  BY LogRotationAssumption, FS_EmptySet DEF InitLog, SizeInv, GrowthIsBounded, SizeOf, Index
<1>2. LogTypeOK /\ SizeInv /\ [LogNext]_logVars => SizeInv'
  BY SizeStep
<1>3. SizeInv => GrowthIsBounded
  BY DEF SizeInv
<1> QED
  BY <1>1, <1>2, <1>3, LogTypeCorrect, PTL DEF LogSpec
-----------------------------------------------------------------------------
(* How much is kept.  As long as no call has failed, every file behind the  *)
(* newest is large enough, or it and all older ones are yet to come; what   *)
(* is lost was in the oldest, when there was one.  In the middle of a       *)
(* rotation, one place is free instead of the newest.                       *)
Hole == IF pc = "shift" THEN i + 1 ELSE 0
LargeFile(k) == files[k] # {} /\ SizeOf(k) >= m_iLogMaxSize
NoneFrom(k) == \A j \in Index : j >= k => files[j] = {}

PackedInv ==
  faults = 0 =>
    /\ \A k \in Index : k # Hole => LargeFile(k) \/ NoneFrom(k)
    /\ pc = "remove" => LargeFile(0)
    /\ pc = "shift" => files[i + 1] = {}
    /\ ~(written \subseteq Kept) => \A k \in Index : k # Hole => LargeFile(k)

LEMMA PackedStep ==
  ASSUME LogTypeOK, PackedInv, [LogNext]_logVars, faults' = 0
  PROVE  PackedInv'
<1>0. /\ m_iLogMaxSize \in Nat \ {0} /\ 0 \in Index /\ Oldest \in Index /\ Oldest # 0
      /\ Index \subseteq Nat /\ faults = 0 /\ m_iLogMaxNum \in Nat
  <2>1. faults \in Nat /\ (faults' = faults \/ faults' = faults + 1)
    BY DEF LogTypeOK, LogNext, logVars, WriteLog, WriteFails, Fault, NothingToShift, MustShift,
           RemoveOldest, OverlookOldest, Rename, OverlookFile, Overlook, EndShift,
           ShiftFails, Restart
  <2> QED
    BY <2>1, LogRotationAssumption DEF Index, Oldest
<1>1. CASE WriteLog
  <2>1. /\ \A k \in Index : k # 0 => files'[k] = files[k]
        /\ files'[0] = files[0] \cup {report + 1}
        /\ written' = written \cup {report + 1}
        /\ pc = "idle" /\ pc' = "stat"
    BY <1>0, <1>1 DEF WriteLog, LogTypeOK
  <2>2. \A k \in Index : k # 0 => (LargeFile(k) => LargeFile(k)') /\ (NoneFrom(k) => NoneFrom(k)')
    <3> SUFFICES ASSUME NEW k \in Index, k # 0
                 PROVE  (LargeFile(k) => LargeFile(k)') /\ (NoneFrom(k) => NoneFrom(k)')
      OBVIOUS
    <3>1. \A j \in Index : j >= k => files'[j] = files[j]
      <4> SUFFICES ASSUME NEW j \in Index, j >= k PROVE j # 0
        BY <2>1
      <4>1. j \in Nat /\ k \in Nat
        BY <1>0
      <4> QED
        BY <4>1
    <3>2. NoneFrom(k) => NoneFrom(k)'
      BY <3>1 DEF NoneFrom
    <3> QED
      BY <2>1, <3>2 DEF LargeFile, SizeOf
  <2>3. ~(written' \subseteq Kept') => ~(written \subseteq Kept)
    <3>1. Kept \cup {report + 1} \subseteq Kept'
      BY <1>0, <2>1 DEF Kept
    <3> QED
      BY <2>1, <3>1
  <2> QED
    BY <1>0, <2>1, <2>2, <2>3 DEF PackedInv, Hole
<1>2. CASE RemoveOldest
  <2>1. /\ \A k \in Index : files'[k] = IF k = Oldest THEN {} ELSE files[k]
        /\ pc = "remove" /\ pc' = "shift" /\ i' + 1 = Oldest
        /\ written' = written
    BY <1>0, <1>2, LogRotationAssumption
       DEF RemoveOldest, FirstToMove, LogTypeOK, Oldest
  <2>2. Hole = 0 /\ Hole' = Oldest /\ LargeFile(0)
    BY <1>0, <2>1 DEF Hole, PackedInv
  <2>3. \A k \in Index : LargeFile(k) \/ NoneFrom(k)
    BY <1>0, <2>2 DEF PackedInv
  <2>4. \A k \in Index : k # Oldest => (LargeFile(k) => LargeFile(k)')
    BY <2>1 DEF LargeFile, SizeOf
  <2>7. \A k \in Index : NoneFrom(k) => NoneFrom(k)'
    BY <2>1 DEF NoneFrom
  <2>5. CASE files[Oldest] = {}
    <3>1. written \subseteq Kept
      BY <1>0, <2>2, <2>5 DEF PackedInv, LargeFile
    <3>2. Kept \subseteq Kept'
      BY <2>1, <2>5 DEF Kept
    <3> QED
      <4>1. written' \subseteq Kept'
        BY <2>1, <3>1, <3>2
      <4>2. \A k \in Index : k # Hole' => LargeFile(k)' \/ NoneFrom(k)'
        BY <2>2, <2>3, <2>4, <2>7
      <4>3. files'[i' + 1] = {}
        BY <1>0, <2>1
      <4> QED
        BY <2>1, <4>1, <4>2, <4>3 DEF PackedInv
  <2>6. CASE files[Oldest] # {}
    <3>1. \A k \in Index : ~NoneFrom(k)
      <4>1. \A k \in Index : Oldest >= k
        BY LogRotationAssumption DEF Index, Oldest
      <4> QED
        BY <1>0, <2>6, <4>1 DEF NoneFrom
    <3>2. \A k \in Index : k # Oldest => LargeFile(k)'
      BY <2>3, <2>4, <3>1
    <3>3. files'[i' + 1] = {}
      BY <1>0, <2>1
    <3> QED
      BY <2>1, <2>2, <3>2, <3>3 DEF PackedInv
  <2> QED
    BY <2>5, <2>6
<1>3. CASE Rename
  <2>1. /\ i \in Index /\ i + 1 \in Index /\ pc = "shift" /\ pc' = "shift" /\ i' + 1 = i
        /\ i + 1 # i /\ written' = written
    BY <1>3, LogRotationAssumption DEF Rename, LogTypeOK, Index
  <2>2. Hole = i + 1 /\ Hole' = i /\ files[i + 1] = {}
    BY <1>0, <2>1 DEF Hole, PackedInv
  <2>3. CASE files[i] # {}
    <3>1. \A k \in Index : files'[k] = IF k = i THEN {}
                                       ELSE IF k = i + 1 THEN files[i] ELSE files[k]
      BY <1>3, <2>1, <2>3 DEF Rename, Exists, LogTypeOK
    <3>2. \A k \in Index : k = i + 1 => LargeFile(k)'
      <4>1. LargeFile(i) \/ NoneFrom(i)
        BY <1>0, <2>1, <2>2 DEF PackedInv
      <4>2. ~NoneFrom(i)
        <5>1. i >= i
          BY <1>0, <2>1
        <5> QED
          BY <2>1, <2>3, <5>1 DEF NoneFrom
      <4>3. \A k \in Index : k = i + 1 => files'[k] = files[i]
        BY <2>1, <3>1
      <4> QED
        BY <4>1, <4>2, <4>3 DEF LargeFile, SizeOf
    <3>3. \A k \in Index : k # i /\ k # i + 1 => (LargeFile(k) => LargeFile(k)')
      BY <3>1 DEF LargeFile, SizeOf
    <3>4. \A k \in Index : k # i /\ k # i + 1 /\ NoneFrom(k) => NoneFrom(k)'
      <4> SUFFICES ASSUME NEW k \in Index, k # i, k # i + 1, NoneFrom(k), NEW j \in Index, j >= k
                   PROVE  files'[j] = {}
        BY DEF NoneFrom
      <4>1. files[j] = {}
        BY DEF NoneFrom
      <4>2. i < k
        <5>1. ~(i >= k)
          BY <2>1, <2>3 DEF NoneFrom
        <5>2. i \in Int /\ k \in Int
          BY <1>0, <2>1
        <5> QED
          BY <5>1, <5>2
      <4>3. j # i + 1
        BY <1>0, <2>1, <4>2
      <4> QED
        BY <3>1, <4>1, <4>3
    <3>5. Kept \subseteq Kept'
      BY <2>1, <2>2, <3>1 DEF Kept
    <3>6. ASSUME NEW k \in Index, k # i PROVE LargeFile(k)' \/ NoneFrom(k)'
      <4>1. CASE k = i + 1
        BY <3>2, <4>1
      <4>2. CASE k # i + 1
        <5>1. LargeFile(k) \/ NoneFrom(k)
          BY <1>0, <2>2, <4>2 DEF PackedInv
        <5> QED
          BY <3>3, <3>4, <3>6, <4>2, <5>1
      <4> QED
        BY <4>1, <4>2
    <3>7. ASSUME ~(written' \subseteq Kept'), NEW k \in Index, k # i PROVE LargeFile(k)'
      <4>1. CASE k = i + 1
        BY <3>2, <4>1
      <4>2. CASE k # i + 1
        <5>1. ~(written \subseteq Kept)
          BY <2>1, <3>5, <3>7
        <5>2. LargeFile(k)
          BY <1>0, <2>2, <4>2, <5>1 DEF PackedInv
        <5> QED
          BY <3>3, <3>7, <4>2, <5>2
      <4> QED
        BY <4>1, <4>2
    <3>8. files'[i] = {}
      BY <2>1, <3>1
    <3> QED
      BY <2>1, <2>2, <3>6, <3>7, <3>8 DEF PackedInv
  <2>4. CASE files[i] = {}
    <3>1. files' = files
      BY <1>3, <2>4 DEF Rename, Exists
    <3>2. NoneFrom(i) /\ ~LargeFile(i)
      BY <1>0, <2>1, <2>2, <2>4 DEF PackedInv, LargeFile
    <3>3. NoneFrom(i + 1)
      <4>1. \A j \in Index : j >= i + 1 => j >= i
        BY <1>0, <2>1
      <4> QED
        BY <3>2, <4>1 DEF NoneFrom
    <3>4. written \subseteq Kept
      BY <1>0, <2>1, <2>2, <3>2 DEF PackedInv
    <3>5. /\ written' \subseteq Kept'
          /\ \A k \in Index : (LargeFile(k) => LargeFile(k)') /\ (NoneFrom(k) => NoneFrom(k)')
      BY <2>1, <3>1, <3>4 DEF Kept, LargeFile, NoneFrom, SizeOf
    <3>6. \A k \in Index : k # i => LargeFile(k) \/ NoneFrom(k)
      BY <1>0, <2>2, <3>3 DEF PackedInv
    <3> QED
      BY <2>1, <2>2, <2>4, <3>1, <3>5, <3>6 DEF PackedInv
  <2> QED
    BY <2>3, <2>4
<1>4. CASE EndShift
  <2>1. i = -1 /\ pc = "shift" /\ pc' = "idle" /\ UNCHANGED <<files, written>>
    BY <1>4 DEF EndShift, LogTypeOK
  <2>2. Hole = 0 /\ Hole' = 0
    BY <2>1 DEF Hole
  <2> QED
    BY <1>0, <2>1, <2>2 DEF PackedInv, LargeFile, NoneFrom, SizeOf, Kept
<1>5. CASE NothingToShift \/ MustShift
  <2>1. /\ pc = "stat" /\ pc' \in {"idle", "remove"} /\ UNCHANGED <<files, written>>
        /\ pc' = "remove" => LargeFile(0)
    BY <1>5 DEF NothingToShift, MustShift, Exists, LargeEnough, LargeFile, SizeOf
  <2>2. Hole = 0 /\ Hole' = 0
    BY <2>1 DEF Hole
  <2> QED
    BY <1>0, <2>1, <2>2 DEF PackedInv, LargeFile, NoneFrom, SizeOf, Kept
<1>6. CASE WriteFails \/ ShiftFails \/ Restart \/ OverlookOldest \/ OverlookFile
  BY <1>0, <1>6 DEF WriteFails, ShiftFails, Restart, OverlookOldest, OverlookFile, Overlook, Fault
<1>7. CASE UNCHANGED logVars
  BY <1>7 DEF logVars, PackedInv, Hole, LargeFile, NoneFrom, SizeOf, Kept
<1> QED
  BY <1>1, <1>2, <1>3, <1>4, <1>5, <1>6, <1>7 DEF LogNext

(* Files that are in order share no report, so what they hold adds up.      *)
LEMMA FullFilesAddUp ==
  ASSUME LogTypeOK, InOrder, NEW hole \in Index,
         \A k \in Index : k # hole => SizeOf(k) >= m_iLogMaxSize
  PROVE  Cardinality(Kept) >= m_iLogMaxSize * (m_iLogMaxNum - 1)
<1> DEFINE First(n) == UNION {files[k] : k \in 0..(n - 1)}
           Others(n) == IF hole < n THEN n - 1 ELSE n
           S == {n \in 0..m_iLogMaxNum : /\ IsFiniteSet(First(n))
                                         /\ Cardinality(First(n)) >= m_iLogMaxSize * Others(n)}
<1>0. /\ m_iLogMaxSize \in Nat /\ m_iLogMaxNum \in Nat /\ hole \in Nat /\ hole < m_iLogMaxNum
      /\ Index = 0..(m_iLogMaxNum - 1)
  BY LogRotationAssumption DEF Index
<1>1. 0 \in S
  <2>1. First(0) = {} /\ Others(0) = 0
    BY <1>0
  <2>2. m_iLogMaxSize * 0 = 0
    BY <1>0
  <2> HIDE DEF First, Others
  <2> QED
    BY <1>0, <2>1, <2>2, FS_EmptySet
<1>2. ASSUME NEW n \in 0..(m_iLogMaxNum - 1), n \in S PROVE n + 1 \in S
  <2>1. n \in Index /\ IsFiniteSet(files[n]) /\ SizeOf(n) \in Nat
    BY <1>0, FilesAreFinite
  <2>2. First(n + 1) = First(n) \cup files[n]
    <3>1. (n + 1) - 1 = n
      BY <1>0
    <3>2. 0..((n + 1) - 1) = 0..(n - 1) \cup {n}
      BY <1>0, <3>1
    <3> QED
      BY <3>2
  <2>3. First(n) \cap files[n] = {}
    <3> SUFFICES ASSUME NEW k \in 0..(n - 1), NEW a \in files[k], a \in files[n] PROVE FALSE
      OBVIOUS
    <3>1. k \in Index /\ k < n
      BY <1>0
    <3>2. a \in Nat /\ a < a
      BY <2>1, <3>1 DEF InOrder, LogTypeOK
    <3> QED
      BY <3>2
  <2>4. n + 1 \in 0..m_iLogMaxNum
    BY <1>0
  <2>5. /\ Others(n) \in Nat /\ Others(n + 1) = IF n = hole THEN Others(n) ELSE Others(n) + 1
        /\ Others(n + 1) \in Nat
    BY <1>0
  <2> HIDE DEF First, Others
  <2>6. IsFiniteSet(First(n)) /\ Cardinality(First(n)) \in Nat
        /\ Cardinality(First(n)) >= m_iLogMaxSize * Others(n)
    BY <1>2, FS_CardinalityType
  <2>7. /\ IsFiniteSet(First(n + 1))
        /\ Cardinality(First(n + 1)) = Cardinality(First(n)) + SizeOf(n)
    <3>1. Cardinality(First(n) \cup files[n]) =
            Cardinality(First(n)) + Cardinality(files[n]) - Cardinality(First(n) \cap files[n])
      BY <2>1, <2>6, FS_Union
    <3>2. Cardinality(First(n) \cap files[n]) = 0
      BY <2>3, FS_EmptySet
    <3>3. IsFiniteSet(First(n) \cup files[n])
      BY <2>1, <2>6, FS_Union
    <3>4. Cardinality(First(n)) + Cardinality(files[n]) - 0 = Cardinality(First(n)) + SizeOf(n)
      BY <2>1, <2>6 DEF SizeOf
    <3> QED
      BY <2>2, <3>1, <3>2, <3>3, <3>4
  <2>8. Cardinality(First(n + 1)) >= m_iLogMaxSize * Others(n + 1)
    <3>1. CASE n = hole
      BY <1>0, <2>1, <2>5, <2>6, <2>7, <3>1
    <3>2. CASE n # hole
      <4>1. SizeOf(n) >= m_iLogMaxSize
        BY <2>1, <3>2
      <4>2. m_iLogMaxSize * (Others(n) + 1) = m_iLogMaxSize * Others(n) + m_iLogMaxSize
        BY <1>0, <2>5
      <4>3. m_iLogMaxSize * Others(n) \in Nat
        BY <1>0, <2>5
      <4> QED
        BY <1>0, <2>1, <2>5, <2>6, <2>7, <3>2, <4>1, <4>2, <4>3
    <3> QED
      BY <3>1, <3>2
  <2> QED
    BY <2>4, <2>7, <2>8
<1> HIDE DEF S
<1>3. \A n \in 0..m_iLogMaxNum : n \in S
  BY <1>0, <1>1, <1>2, UpToInduction
<1>4. m_iLogMaxNum \in S
  BY <1>0, <1>3
<1>5. First(m_iLogMaxNum) = Kept
  BY <1>0 DEF Kept
<1>6. Others(m_iLogMaxNum) = m_iLogMaxNum - 1
  BY <1>0
<1> HIDE DEF First, Others
<1> QED
  BY <1>4, <1>5, <1>6 DEF S

(* As long as no call has failed, all reports are kept or as many as fill   *)
(* every file but one, for every limit and number of files                  *)
(* (common_stat.cc:276-301).                                                *)
THEOREM EnoughIsKeptCorrect == LogSpec => []EnoughIsKept
<1>1. InitLog => PackedInv
  <2> SUFFICES ASSUME InitLog PROVE PackedInv
    OBVIOUS
  <2>1. \A k \in Index : NoneFrom(k)
    BY DEF InitLog, NoneFrom
  <2> QED
    BY <2>1 DEF InitLog, PackedInv
<1>2. LogTypeOK /\ PackedInv /\ [LogNext]_logVars => PackedInv'
  <2>1. faults' # 0 => PackedInv'
    BY DEF PackedInv
  <2> QED
    BY <2>1, PackedStep
<1>3. LogTypeOK /\ OldestLostFirst /\ PackedInv => EnoughIsKept
  <2> SUFFICES ASSUME LogTypeOK, OldestLostFirst, PackedInv, faults = 0, ~(written \subseteq Kept)
               PROVE  Cardinality(Kept) >= m_iLogMaxSize * (m_iLogMaxNum - 1)
    BY DEF EnoughIsKept
  <2>1. Hole \in Index
    BY LogRotationAssumption DEF Hole, Index, LogTypeOK
  <2>2. \A k \in Index : k # Hole => SizeOf(k) >= m_iLogMaxSize
    BY DEF PackedInv, LargeFile
  <2>3. InOrder
    BY DEF OldestLostFirst, InOrder
  <2> QED
    BY <2>1, <2>2, <2>3, FullFilesAddUp
<1> QED
  BY <1>1, <1>2, <1>3, LogTypeCorrect, OldestLostFirstCorrect, PTL DEF LogSpec
-----------------------------------------------------------------------------
(* Times *)

(* A span is of its width, and fills at most one column. *)
LEMMA SpansHaveTheirWidth ==
  ASSUME NEW d \in Differences
  PROVE  /\ d[1] \in Int /\ d[2] \in Int
         /\ U32(d[1] * USEC + d[2]) \in 0..(W32 - 1)
<1>1. d[1] \in Int /\ d[2] \in Int
  BY StatTimeAssumption
<1>2. d[1] * USEC + d[2] \in Int /\ W32 \in Nat \ {0}
  BY <1>1, StatTimeAssumption
<1> QED
  BY <1>1, <1>2, RemainderIsCongruent DEF U32

LEMMA TimeInit == InitTime => SumInv
  BY StatTimeAssumption DEF InitTime, SumInv, TimeTypeOK, SumKept

(* Only the sum counts: what leaves the one field is in the other, or a     *)
(* multiple of W64.                                                         *)
LEMMA AddTimeKeepsSum ==
  ASSUME SumInv, NEW d \in Differences, AddTime(d[1], d[2])
  PROVE  SumInv'
<1> DEFINE span == U32(d[1] * USEC + d[2])
           usec == U64(tv_usec + d[2])
           c == Carry(usec)
           sec == U64(tv_sec + d[1])
<1>1. /\ USEC \in Nat \ {0} /\ W64 \in Nat \ {0} /\ W32 \in Nat \ {0} /\ USEC < W64
      /\ d[1] \in Int /\ d[2] \in Int /\ span \in 0..(W32 - 1)
  BY StatTimeAssumption, SpansHaveTheirWidth
<1>2. /\ tv_sec \in Int /\ tv_usec \in Int /\ total \in Int
      /\ U64(USEC * tv_sec + tv_usec) = U64(total)
  BY <1>1 DEF SumInv, TimeTypeOK, SumKept
<1>3. /\ usec \in 0..(W64 - 1) /\ \E k \in Int : usec = (tv_usec + d[2]) + k * W64
      /\ sec \in 0..(W64 - 1) /\ \E k \in Int : sec = (tv_sec + d[1]) + k * W64
  <2>1. tv_usec + d[2] \in Int /\ tv_sec + d[1] \in Int
    BY <1>1, <1>2
  <2> QED
    BY <1>1, <2>1, RemainderIsCongruent DEF U64
<1>4. c \in {0, 1} /\ (c = 1 => usec > USEC)
  BY DEF Carry
<1>5. /\ tv_usec' = usec - USEC * c /\ tv_sec' = U64(sec + c)
      /\ total' = total + USEC * d[1] + d[2]
      /\ spans' = Append(spans, span)
      /\ m_unMaxTime' = NewMax(m_unMaxTime, span) /\ m_unMinTime' = NewMin(m_unMinTime, span)
      /\ m_unTimeOut' = [k \in 1..3 |-> m_unTimeOut[k] + IF k = Column(span) THEN 1 ELSE 0]
  BY DEF AddTime, Carried
<1> HIDE DEF span, usec, c, sec
<1>6. tv_sec' \in 0..(W64 - 1) /\ \E k \in Int : tv_sec' = (sec + c) + k * W64
  <2>1. sec + c \in Int
    BY <1>1, <1>3, <1>4
  <2> QED
    BY <1>1, <1>5, <2>1, RemainderIsCongruent DEF U64
<1>7. tv_usec' \in 0..(W64 - 1)
  <2>1. USEC * c = IF c = 1 THEN USEC ELSE 0
    BY <1>1, <1>4
  <2>2. tv_usec' = usec - USEC * c
    BY <1>5
  <2>3. CASE c = 1
    BY <1>1, <1>3, <1>4, <2>1, <2>2, <2>3
  <2>4. CASE c = 0
    BY <1>1, <1>3, <2>1, <2>2, <2>4
  <2> QED
    BY <1>4, <2>3, <2>4
<1>8. TimeTypeOK'
  <2>1. total' \in Int
    BY <1>1, <1>2, <1>5
  <2>2. m_unMaxTime' \in 0..(W32 - 1) /\ m_unMinTime' \in 0..(W32 - 1)
    BY <1>1, <1>5 DEF NewMax, NewMin, SumInv, TimeTypeOK
  <2>3. spans' \in Seq(0..(W32 - 1))
    BY <1>1, <1>5 DEF SumInv, TimeTypeOK
  <2>4. m_unTimeOut' \in [1..3 -> Nat]
    <3>1. m_unTimeOut \in [1..3 -> Nat]
      BY DEF SumInv, TimeTypeOK
    <3>2. \A k \in 1..3 : m_unTimeOut[k] + (IF k = Column(span) THEN 1 ELSE 0) \in Nat
      BY <3>1
    <3>3. m_unTimeOut' = [k \in 1..3 |-> m_unTimeOut[k] + IF k = Column(span) THEN 1 ELSE 0]
      BY <1>5
    <3> QED
      BY <3>2, <3>3
  <2> QED
    BY <1>6, <1>7, <2>1, <2>2, <2>3, <2>4 DEF TimeTypeOK
<1>9. SumKept'
  <2>1. PICK k1 \in Int, k2 \in Int, k3 \in Int :
          /\ usec = (tv_usec + d[2]) + k1 * W64
          /\ sec = (tv_sec + d[1]) + k2 * W64
          /\ tv_sec' = (sec + c) + k3 * W64
    BY <1>3, <1>6
  <2>2. PICK k4 \in Int : USEC * tv_sec + tv_usec = total + k4 * W64
    <3>1. USEC * tv_sec + tv_usec \in Int
      BY <1>1, <1>2
    <3>2. /\ \E k \in Int : U64(total) = total + k * W64
          /\ \E k \in Int : U64(total) = (USEC * tv_sec + tv_usec) + k * W64
      BY <1>1, <1>2, <3>1, RemainderIsCongruent DEF U64
    <3>3. PICK m \in Int, n \in Int : /\ U64(total) = total + m * W64
                                      /\ U64(total) = (USEC * tv_sec + tv_usec) + n * W64
      BY <3>2
    <3>4. USEC * tv_sec + tv_usec = total + (m - n) * W64 /\ m - n \in Int
      BY <1>1, <1>2, <3>1, <3>3
    <3> QED
      BY <3>4
  <2> DEFINE k == USEC * (k2 + k3) + k1 + k4
  <2>3. k \in Int
    BY <1>1
  <2>4. USEC * tv_sec' = USEC * tv_sec + USEC * d[1] + USEC * c + (USEC * (k2 + k3)) * W64
    BY <1>1, <1>2, <1>4, <2>1
  <2>5. k * W64 = (USEC * (k2 + k3)) * W64 + k1 * W64 + k4 * W64
    BY <1>1
  <2>6. USEC * tv_sec' + tv_usec' = total' + k * W64
    <3>1. /\ USEC * tv_sec \in Int /\ USEC * d[1] \in Int /\ USEC * c \in Int
          /\ (USEC * (k2 + k3)) * W64 \in Int /\ k1 * W64 \in Int /\ k4 * W64 \in Int
      BY <1>1, <1>2, <1>4
    <3>2. tv_usec' = usec - USEC * c /\ total' = total + USEC * d[1] + d[2]
      BY <1>5
    <3>3. usec = (tv_usec + d[2]) + k1 * W64
      BY <2>1
    <3> HIDE DEF k
    <3> QED
      BY <1>1, <1>2, <2>2, <2>4, <2>5, <3>1, <3>2, <3>3
  <2> HIDE DEF k
  <2>7. USEC * tv_sec' + tv_usec' \in Int /\ total' \in Int
    <3>1. total' \in Int
      BY <1>8 DEF TimeTypeOK
    <3>2. tv_sec' \in Int /\ tv_usec' \in Int
      BY <1>8, <1>1 DEF TimeTypeOK
    <3> HIDE DEF usec, sec, c, span
    <3>3. USEC * tv_sec' \in Int
      BY <1>1, <3>2
    <3> QED
      BY <3>1, <3>2, <3>3
  <2>8. (USEC * tv_sec' + tv_usec') % W64 = total' % W64
    BY <1>1, <2>3, <2>6, <2>7, CongruentHaveOneRemainder
  <2> QED
    BY <2>8 DEF SumKept, U64
<1> QED
  BY <1>8, <1>9 DEF SumInv

(* Every field stays within its width, and the sum WriteToFile divides is   *)
(* right modulo 2^64, for any differences, even where tv_usec wraps and the *)
(* carry goes the wrong way (common_stat.cc:249-262).                       *)
THEOREM SumCorrect == TimeSpec => []SumInv
<1>1. SumInv /\ [TimeNext]_timeVars => SumInv'
  <2> SUFFICES ASSUME SumInv, [TimeNext]_timeVars PROVE SumInv'
    OBVIOUS
  <2>1. CASE TimeNext
    BY <2>1, AddTimeKeepsSum DEF TimeNext
  <2>2. CASE UNCHANGED timeVars
    BY <2>2 DEF timeVars, SumInv, TimeTypeOK, SumKept
  <2> QED
    BY <2>1, <2>2
<1> QED
  BY <1>1, TimeInit, PTL DEF TimeSpec

(* A field is an extreme of the spans, as long as there is one.             *)
ExtremesSoFar ==
  /\ spans = <<>> => m_unMaxTime = 0 /\ m_unMinTime = 0
  /\ spans # <<>> => m_unMaxTime \in SpanSet /\ \A x \in SpanSet : x <= m_unMaxTime
  /\ spans # <<>> /\ 0 \notin SpanSet =>
       m_unMinTime \in SpanSet /\ \A x \in SpanSet : m_unMinTime <= x

InAColumn(span) == span >= T1 /\ span # T3
ColumnsSoFar ==
  LET slow == {k \in DOMAIN spans : InAColumn(spans[k])} IN
  /\ IsFiniteSet(slow)
  /\ m_unTimeOut[1] + m_unTimeOut[2] + m_unTimeOut[3] = Cardinality(slow)

SpansInv == SumInv /\ ExtremesSoFar /\ ColumnsSoFar

LEMMA OneMoreSpan ==
  ASSUME SumInv, NEW span \in 0..(W32 - 1), spans' = Append(spans, span)
  PROVE  /\ spans' # <<>> /\ SpanSet' = SpanSet \cup {span}
         /\ \A x \in SpanSet \cup {span} : x \in Nat
         /\ (spans = <<>>) => SpanSet = {}
         /\ Len(spans) \in Nat /\ DOMAIN spans = 1..Len(spans)
         /\ DOMAIN spans' = 1..(Len(spans) + 1)
         /\ \A k \in 1..Len(spans) : spans'[k] = spans[k]
         /\ spans'[Len(spans) + 1] = span
<1>1. W32 \in Nat \ {0} /\ spans \in Seq(0..(W32 - 1))
  BY StatTimeAssumption DEF SumInv, TimeTypeOK
<1>2. /\ Len(spans) \in Nat /\ DOMAIN spans = 1..Len(spans)
      /\ DOMAIN spans' = 1..(Len(spans) + 1)
      /\ \A k \in 1..Len(spans) : spans'[k] = spans[k]
      /\ spans'[Len(spans) + 1] = span
  BY <1>1
<1>3. spans' # <<>>
  BY <1>2
<1>4. SpanSet' = SpanSet \cup {span}
  <2>1. \A x \in SpanSet : x \in SpanSet'
    BY <1>2 DEF SpanSet
  <2>2. span \in SpanSet'
    BY <1>2 DEF SpanSet
  <2>3. \A x \in SpanSet' : x = span \/ x \in SpanSet
    <3>1. \A k \in DOMAIN spans' : k = Len(spans) + 1 \/ k \in 1..Len(spans)
      BY <1>2
    <3> QED
      BY <1>2, <3>1 DEF SpanSet
  <2> QED
    BY <2>1, <2>2, <2>3
<1>5. \A x \in SpanSet \cup {span} : x \in Nat
  <2>1. \A x \in 0..(W32 - 1) : x \in Nat
    BY <1>1
  <2> QED
    BY <1>1, <2>1 DEF SpanSet
<1>6. (spans = <<>>) => SpanSet = {}
  BY DEF SpanSet
<1> QED
  BY <1>2, <1>3, <1>4, <1>5, <1>6

LEMMA AddTimeCountsTheSpan ==
  ASSUME SpansInv, NEW d \in Differences, AddTime(d[1], d[2])
  PROVE  ExtremesSoFar' /\ ColumnsSoFar'
<1> DEFINE span == U32(d[1] * USEC + d[2])
<1>1. span \in 0..(W32 - 1) /\ W32 \in Nat \ {0}
  BY StatTimeAssumption, SpansHaveTheirWidth
<1>2. /\ spans' = Append(spans, span)
      /\ m_unMaxTime' = NewMax(m_unMaxTime, span) /\ m_unMinTime' = NewMin(m_unMinTime, span)
      /\ m_unTimeOut' = [k \in 1..3 |-> m_unTimeOut[k] + IF k = Column(span) THEN 1 ELSE 0]
  BY DEF AddTime
<1> HIDE DEF span
<1>3. /\ spans' # <<>> /\ SpanSet' = SpanSet \cup {span}
      /\ \A x \in SpanSet \cup {span} : x \in Nat
      /\ (spans = <<>>) => SpanSet = {}
      /\ Len(spans) \in Nat /\ DOMAIN spans = 1..Len(spans)
      /\ DOMAIN spans' = 1..(Len(spans) + 1)
      /\ \A k \in 1..Len(spans) : spans'[k] = spans[k]
      /\ spans'[Len(spans) + 1] = span
  BY <1>1, <1>2, OneMoreSpan DEF SpansInv
<1>4. m_unMaxTime' \in SpanSet' /\ \A x \in SpanSet' : x <= m_unMaxTime'
  <2>1. CASE spans = <<>>
    <3>1. m_unMaxTime' = span
      BY <1>1, <1>2, <2>1 DEF NewMax, SpansInv, ExtremesSoFar
    <3> QED
      BY <1>1, <1>3, <2>1, <3>1
  <2>2. CASE spans # <<>>
    <3>1. m_unMaxTime \in SpanSet /\ \A x \in SpanSet : x <= m_unMaxTime
      BY <2>2 DEF SpansInv, ExtremesSoFar
    <3>2. m_unMaxTime' = IF span > m_unMaxTime THEN span ELSE m_unMaxTime
      BY <1>2 DEF NewMax
    <3>3. /\ m_unMaxTime \in Nat /\ span \in Nat /\ \A x \in SpanSet : x \in Nat
          /\ \A x \in SpanSet' : x \in SpanSet \/ x = span
          /\ m_unMaxTime \in SpanSet' /\ span \in SpanSet'
      BY <1>3, <3>1
    <3>4. m_unMaxTime' \in SpanSet' /\ m_unMaxTime <= m_unMaxTime' /\ span <= m_unMaxTime'
      BY <3>2, <3>3
    <3>5. m_unMaxTime' \in Nat
      BY <3>2, <3>3
    <3> QED
      BY <3>1, <3>3, <3>4, <3>5
  <2> QED
    BY <2>1, <2>2
<1>5. 0 \notin SpanSet' => m_unMinTime' \in SpanSet' /\ \A x \in SpanSet' : m_unMinTime' <= x
  <2> SUFFICES ASSUME 0 \notin SpanSet'
               PROVE  m_unMinTime' \in SpanSet' /\ \A x \in SpanSet' : m_unMinTime' <= x
    OBVIOUS
  <2>0. m_unMinTime' = IF m_unMinTime = 0 \/ span < m_unMinTime THEN span ELSE m_unMinTime
    BY <1>2 DEF NewMin
  <2>1. CASE spans = <<>>
    <3>1. m_unMinTime' = span
      BY <2>0, <2>1 DEF SpansInv, ExtremesSoFar
    <3> QED
      BY <1>1, <1>3, <2>1, <3>1
  <2>2. CASE spans # <<>>
    <3>1. m_unMinTime \in SpanSet /\ \A x \in SpanSet : m_unMinTime <= x
      BY <1>3, <2>2 DEF SpansInv, ExtremesSoFar
    <3>2. m_unMinTime # 0
      BY <1>3, <3>1
    <3>3. /\ m_unMinTime \in Nat /\ span \in Nat /\ \A x \in SpanSet : x \in Nat
          /\ \A x \in SpanSet' : x \in SpanSet \/ x = span
          /\ m_unMinTime \in SpanSet' /\ span \in SpanSet'
      BY <1>3, <3>1
    <3>4. m_unMinTime' \in SpanSet' /\ m_unMinTime' <= m_unMinTime /\ m_unMinTime' <= span
      BY <2>0, <3>2, <3>3
    <3>5. m_unMinTime' \in Nat
      BY <2>0, <3>3
    <3> QED
      BY <3>1, <3>3, <3>4, <3>5
  <2> QED
    BY <2>1, <2>2
<1>6. ExtremesSoFar'
  BY <1>3, <1>4, <1>5 DEF ExtremesSoFar
<1>7. ColumnsSoFar'
  <2> DEFINE slow == {k \in DOMAIN spans : InAColumn(spans[k])}
             next == Len(spans) + 1
             now == {k \in DOMAIN spans' : InAColumn(spans'[k])}
  <2>1. /\ IsFiniteSet(slow) /\ Cardinality(slow) \in Nat
        /\ m_unTimeOut[1] + m_unTimeOut[2] + m_unTimeOut[3] = Cardinality(slow)
    BY FS_CardinalityType DEF SpansInv, ColumnsSoFar
  <2>2. now = IF InAColumn(span) THEN slow \cup {next} ELSE slow
    <3>1. \A k \in 1..next : k = next \/ k \in 1..Len(spans)
      BY <1>3
    <3>2. \A k \in 1..Len(spans) : k \in 1..next /\ k # next
      BY <1>3
    <3>3. next \in 1..next
      BY <1>3
    <3> HIDE DEF next
    <3>4. DOMAIN spans' = 1..next /\ spans'[next] = span
      BY <1>3 DEF next
    <3> QED
      BY <1>3, <3>1, <3>2, <3>3, <3>4
  <2>3. next \notin slow
    BY <1>3
  <2>4. /\ IsFiniteSet(now)
        /\ Cardinality(now) = Cardinality(slow) + IF InAColumn(span) THEN 1 ELSE 0
    <3> HIDE DEF slow, next, now
    <3> QED
      BY <2>1, <2>2, <2>3, FS_AddElement
  <2>5. /\ T1 \in Nat /\ T2 \in Nat /\ T3 \in Nat /\ T1 < T2 /\ T2 < T3 /\ span \in Nat
    BY <1>1, StatTimeAssumption
  <2>6. Column(span) \in 0..3 /\ (Column(span) = 0 <=> ~InAColumn(span))
    BY <2>5 DEF Column, InAColumn
  <2>7. m_unTimeOut \in [1..3 -> Nat]
    BY DEF SpansInv, SumInv, TimeTypeOK
  <2>8. m_unTimeOut'[1] + m_unTimeOut'[2] + m_unTimeOut'[3] =
          m_unTimeOut[1] + m_unTimeOut[2] + m_unTimeOut[3] + IF InAColumn(span) THEN 1 ELSE 0
    BY <1>2, <2>6, <2>7
  <2> HIDE DEF slow
  <2>9. m_unTimeOut'[1] + m_unTimeOut'[2] + m_unTimeOut'[3] = Cardinality(now)
    BY <2>1, <2>4, <2>8
  <2> QED
    BY <2>4, <2>9 DEF ColumnsSoFar
<1> QED
  BY <1>6, <1>7

(* The extremes and the columns are those of the calls there were, for any  *)
(* spans and columns (common_stat.cc:227-247).                              *)
THEOREM SpansCorrect == TimeSpec => []SpansAreCounted
<1>1. InitTime => SpansInv
  <2> SUFFICES ASSUME InitTime PROVE SpansInv
    OBVIOUS
  <2>1. {k \in DOMAIN spans : InAColumn(spans[k])} = {}
    BY DEF InitTime
  <2>2. m_unTimeOut[1] + m_unTimeOut[2] + m_unTimeOut[3] = 0
    BY DEF InitTime
  <2> QED
    BY <2>1, <2>2, TimeInit, FS_EmptySet DEF InitTime, SpansInv, ExtremesSoFar, ColumnsSoFar
<1>2. SpansInv /\ [TimeNext]_timeVars => SpansInv'
  <2> SUFFICES ASSUME SpansInv, [TimeNext]_timeVars PROVE SpansInv'
    OBVIOUS
  <2>1. CASE TimeNext
    BY <2>1, AddTimeKeepsSum, AddTimeCountsTheSpan DEF TimeNext, SpansInv
  <2>2. CASE UNCHANGED timeVars
    BY <2>2 DEF timeVars, SpansInv, SumInv, TimeTypeOK, SumKept, ExtremesSoFar, ColumnsSoFar,
                SpanSet
  <2> QED
    BY <2>1, <2>2
<1>3. SpansInv => SpansAreCounted
  <2> SUFFICES ASSUME SpansInv PROVE SpansAreCounted
    OBVIOUS
  <2>1. \A x \in SpanSet : x \in Int
    BY StatTimeAssumption DEF SpansInv, SumInv, TimeTypeOK, SpanSet
  <2>2. MaxIsMaximum
    <3> SUFFICES ASSUME spans # <<>> PROVE m_unMaxTime = Max(SpanSet)
      BY DEF MaxIsMaximum
    <3>1. m_unMaxTime \in SpanSet /\ \A x \in SpanSet : x <= m_unMaxTime
      BY DEF SpansInv, ExtremesSoFar
    <3>2. \A y \in SpanSet : (\A x \in SpanSet : y >= x) <=> y = m_unMaxTime
      BY <2>1, <3>1
    <3> QED
      BY <3>1, <3>2 DEF Max
  <2>3. MinIsMinimum
    <3> SUFFICES ASSUME spans # <<>>, 0 \notin SpanSet PROVE m_unMinTime = Min(SpanSet)
      BY DEF MinIsMinimum
    <3>1. m_unMinTime \in SpanSet /\ \A x \in SpanSet : m_unMinTime <= x
      BY DEF SpansInv, ExtremesSoFar
    <3>2. \A y \in SpanSet : (\A x \in SpanSet : y <= x) <=> y = m_unMinTime
      BY <2>1, <3>1
    <3> QED
      BY <3>1, <3>2 DEF Min
  <2>4. ColumnsCountSlowCalls
    BY DEF SpansInv, ColumnsSoFar, ColumnsCountSlowCalls, InAColumn
  <2> QED
    BY <2>2, <2>3, <2>4 DEF SpansAreCounted
<1> QED
  BY <1>1, <1>2, <1>3, PTL DEF TimeSpec
-----------------------------------------------------------------------------
(* The table: sorting *)

RankIn(tab, num, a) == Cardinality({b \in 0..(num - 1) : Before(tab, b, a)})
SortedRows(tab, num) == [s \in Slots |-> tab[SortedPlaces(tab, num)[s]]]

LEMMA BeforeIsAnOrder ==
  ASSUME NEW tab \in [Slots -> Row], NEW num \in 0..TYPE_NUM
  PROVE  \A a, b, c \in 0..(num - 1) :
           /\ a # b => Before(tab, a, b) \/ Before(tab, b, a)
           /\ ~Before(tab, a, a)
           /\ Before(tab, a, b) /\ Before(tab, b, c) => Before(tab, a, c)
<1>1. \A a \in 0..(num - 1) : tab[a].name \in Int
  <2>1. \A a \in 0..(num - 1) : a \in Slots
    BY CStatisticAssumption DEF Slots
  <2>2. \A a \in Slots : tab[a].name \in Names \cup {0}
    BY DEF Row
  <2>3. \A n \in Names \cup {0} : n \in Int
    BY CStatisticAssumption
  <2> QED
    BY <2>1, <2>2, <2>3
<1> QED
  BY <1>1 DEF Before

LEMMA RanksFollowTheOrder ==
  ASSUME NEW tab \in [Slots -> Row], NEW num \in 0..TYPE_NUM
  PROVE  /\ \A a \in 0..(num - 1) : RankIn(tab, num, a) \in 0..(num - 1)
         /\ \A a, b \in 0..(num - 1) :
              Before(tab, a, b) => RankIn(tab, num, a) < RankIn(tab, num, b)
<1> DEFINE U == 0..(num - 1)
           below(a) == {b \in U : Before(tab, b, a)}
<1>1. IsFiniteSet(U) /\ Cardinality(U) = num /\ num \in Nat
  <2>1. num \in Nat /\ 0 \in Int /\ num - 1 \in Int
    BY CStatisticAssumption
  <2> QED
    BY <2>1, FS_Interval
<1>2. \A a, b, c \in U : /\ a # b => Before(tab, a, b) \/ Before(tab, b, a)
                         /\ ~Before(tab, a, a)
                         /\ Before(tab, a, b) /\ Before(tab, b, c) => Before(tab, a, c)
  BY BeforeIsAnOrder
<1> HIDE DEF U
<1>3. ASSUME NEW a \in U, NEW T \in SUBSET U, below(a) \subseteq T, a \notin below(a), a \in T
      PROVE  Cardinality(below(a)) < Cardinality(T) /\ Cardinality(below(a)) \in Nat
  <2> DEFINE B == below(a)
  <2>1. B \in SUBSET U /\ B \cup {a} \in SUBSET T
    BY <1>3
  <2> HIDE DEF B
  <2>2. IsFiniteSet(B) /\ Cardinality(B) \in Nat /\ IsFiniteSet(T) /\ Cardinality(T) \in Nat
    BY <1>1, <2>1, FS_Subset, FS_CardinalityType
  <2>3. Cardinality(B \cup {a}) = Cardinality(B) + 1
    BY <1>3, <2>2, FS_AddElement DEF B
  <2>4. Cardinality(B \cup {a}) <= Cardinality(T)
    BY <2>1, <2>2, FS_Subset
  <2> QED
    BY <2>2, <2>3, <2>4 DEF B
<1>4. \A a \in U : RankIn(tab, num, a) = Cardinality(below(a))
  BY DEF RankIn, U
<1>5. ASSUME NEW a \in U PROVE RankIn(tab, num, a) \in 0..(num - 1)
  <2>1. below(a) \subseteq U /\ a \notin below(a)
    BY <1>2
  <2>2. Cardinality(below(a)) < Cardinality(U) /\ Cardinality(below(a)) \in Nat
    BY <1>3, <2>1
  <2> QED
    BY <1>1, <1>4, <2>2
<1>6. ASSUME NEW a \in U, NEW b \in U, Before(tab, a, b)
      PROVE  RankIn(tab, num, a) < RankIn(tab, num, b)
  <2>1. below(a) \subseteq below(b) /\ a \notin below(a) /\ a \in below(b)
    BY <1>2, <1>6
  <2>2. Cardinality(below(a)) < Cardinality(below(b))
    BY <1>3, <2>1
  <2> QED
    BY <1>4, <2>2
<1> QED
  BY <1>5, <1>6 DEF U

(* Every rank is taken: qsort neither loses a row nor doubles one.          *)
LEMMA EverySlotGetsARow ==
  ASSUME NEW tab \in [Slots -> Row], NEW num \in 0..TYPE_NUM
  PROVE  \A s \in 0..(num - 1) : \E a \in 0..(num - 1) : RankIn(tab, num, a) = s
<1> DEFINE U == 0..(num - 1)
           f == [a \in U |-> RankIn(tab, num, a)]
<1>1. IsFiniteSet(U)
  <2>1. num \in Nat /\ 0 \in Int /\ num - 1 \in Int
    BY CStatisticAssumption
  <2> QED
    BY <2>1, FS_Interval
<1>2. \A a \in U : RankIn(tab, num, a) \in U
  BY RanksFollowTheOrder
<1>3. \A a, b \in U : RankIn(tab, num, a) = RankIn(tab, num, b) => a = b
  <2>1. \A a \in U : RankIn(tab, num, a) \in Int
    BY <1>2
  <2>2. \A a, b \in U : Before(tab, a, b) => RankIn(tab, num, a) < RankIn(tab, num, b)
    BY RanksFollowTheOrder
  <2>3. \A a, b \in U : a # b => Before(tab, a, b) \/ Before(tab, b, a)
    BY BeforeIsAnOrder
  <2> HIDE DEF U
  <2> QED
    BY <2>1, <2>2, <2>3
<1> HIDE DEF U
<1>4. f \in Injection(U, U)
  BY <1>2, <1>3 DEF Injection, IsInjective
<1> HIDE DEF f
<1>5. f \in Surjection(U, U)
  BY <1>1, <1>4, FS_Injection
<1>6. \A s \in U : \E a \in U : f[a] = s
  BY <1>5 DEF Surjection
<1> QED
  BY <1>6 DEF f, U

LEMMA SortedRowsAreRows ==
  ASSUME NEW tab \in [Slots -> Row], NEW num \in 0..TYPE_NUM
  PROVE  /\ SortedPlaces(tab, num) \in [Slots -> Slots]
         /\ \A s \in 0..(num - 1) : SortedPlaces(tab, num)[s] \in 0..(num - 1)
         /\ \A s \in 0..(num - 1) : \E a \in 0..(num - 1) :
              SortedRows(tab, num)[s] = tab[a] /\ RankIn(tab, num, a) = s
         /\ \A s \in Slots : ~(s < num) => SortedRows(tab, num)[s] = tab[s]
<1> DEFINE at(s) == CHOOSE a \in 0..(num - 1) : RankIn(tab, num, a) = s
           places == SortedPlaces(tab, num)
<1>1. places = [s \in Slots |-> IF s < num THEN at(s) ELSE s]
  BY DEF SortedPlaces, RankIn
<1>2. \A s \in 0..(num - 1) : at(s) \in 0..(num - 1) /\ RankIn(tab, num, at(s)) = s
  BY EverySlotGetsARow
<1>3. \A a \in 0..(num - 1) : a \in Slots /\ a < num
  BY CStatisticAssumption DEF Slots
<1>4. \A s \in Slots : s < num => s \in 0..(num - 1)
  BY CStatisticAssumption DEF Slots
<1> HIDE DEF at, places
<1>5. ASSUME NEW s \in Slots
      PROVE  (IF s < num THEN at(s) ELSE s) \in Slots
  BY <1>2, <1>3, <1>4
<1>6. places \in [Slots -> Slots]
  BY <1>1, <1>5
<1>7. \A s \in 0..(num - 1) : places[s] = at(s)
  BY <1>1, <1>3
<1>8. \A s \in 0..(num - 1) : SortedRows(tab, num)[s] = tab[at(s)]
  BY <1>3, <1>7 DEF SortedRows, places
<1>9. \A s \in Slots : ~(s < num) => SortedRows(tab, num)[s] = tab[s]
  BY <1>1 DEF SortedRows, places
<1>10. \A s \in 0..(num - 1) : places[s] \in 0..(num - 1)
  BY <1>2, <1>7
<1> QED
  BY <1>2, <1>6, <1>8, <1>9, <1>10 DEF places
-----------------------------------------------------------------------------
(* The table: two threads *)

(* The table has room for the row that is being added: only the mcd thread  *)
(* adds rows, and the timer thread only takes all away.                     *)
RoomIsLeft == wpc \in {"fill", "first", "loadnum"} => m_iTypeNum < TYPE_NUM

(* With the mutex: who is within holds it. *)
OwnerIsWithin ==
  m_bUseMutex =>
    /\ owner = "worker" <=> wpc \notin {"idle", "lock"}
    /\ owner = "timer" <=> tpc \in {"rows", "num", "memset"}

Filled(tab, num) == \A s \in Slots : tab[s].name # 0 <=> s < num
Distinct(tab, num) == \A a, b \in 0..(num - 1) : a # b => tab[a].name # tab[b].name
SortedAndFilled(tab, num) == IsSorted(tab, num) /\ Filled(tab, num)
Unordered(tab, num) == Distinct(tab, num) /\ Filled(tab, num)

(* The table as qsort found it, while it moves the rows. *)
Table == [s \in Slots |-> IF wpc = "moving" /\ s < slot /\ s \notin left
                          THEN held[s] ELSE m_astTypeInfo[s]]

(* With the mutex: the table is in order but while a row is added, and then *)
(* it has the row behind the others, under a name they have not.            *)
RowsInOrder ==
  m_bUseMutex =>
    /\ tpc # "memset" /\ wpc \notin {"first", "loadnum", "storenum", "sort", "moving"} =>
         SortedAndFilled(m_astTypeInfo, m_iTypeNum)
    /\ tpc = "memset" =>
         m_iTypeNum = 0 /\ \A s \in Slots : s < row => m_astTypeInfo[s] = Blank
    /\ wpc \in {"check", "fill"} => \A s \in Used : m_astTypeInfo[s].name # name
    /\ wpc \in {"fill", "first", "storenum"} => slot = m_iTypeNum
    /\ wpc \in {"first", "loadnum", "storenum"} =>
         Unordered(m_astTypeInfo, m_iTypeNum + 1)
    /\ InSort => Unordered(Table, m_iTypeNum)

TableTypes == TypeOK /\ RoomIsLeft

LEMMA TableTypesInit == Init => TableTypes
<1> SUFFICES ASSUME Init PROVE TableTypes
  OBVIOUS
<1>1. m_bUseMutex \in BOOLEAN /\ exposed \in BOOLEAN
  BY DEF Init
<1>2. Blank \in Row
  BY DEF Blank, Row
<1>3. m_astTypeInfo \in [Slots -> Row]
  BY <1>2 DEF Init
<1>4. TYPE_NUM \in Nat
  BY CStatisticAssumption
<1>5. from \in [Slots -> Slots] /\ held \in [Slots -> Row] /\ left \in SUBSET Slots
  BY <1>2 DEF Init
<1>6. torn \in BOOLEAN
  BY DEF Init
<1> QED
  BY <1>1, <1>2, <1>3, <1>4, <1>5, <1>6 DEF Init, TableTypes, TypeOK, RoomIsLeft

LEMMA CountedIsARow ==
  ASSUME NEW r \in Row, NEW all \in Nat
  PROVE  Counted(r, all) \in Row /\ Counted(r, all).name = r.name
BY DEF Counted, Row

(* The mcd thread's steps leave all types alone: every row it indexes is in *)
(* the table, whatever the timer thread does to m_iTypeNum.                 *)
LEMMA WorkerKeepsTypes ==
  ASSUME TableTypes, (\E n \in Names : CallAddStat(n)) \/ WorkerStep
  PROVE  TableTypes'
<1> USE CStatisticAssumption
    DEF TableTypes, RoomIsLeft, Lock, Unlock, table, sorting, worker, timer, history
<1>1. m_bUseMutex' \in BOOLEAN
  BY DEF TypeOK, WorkerStep, CallAddStat, LockAdd, Found, NotFound, LoadRow, StoreRow, Refused,
         CheckRoom, FillName, FillCounters, LoadNum, StoreNum, SortCompare, SortMove, SortEnd,
         ReturnAdd
<1>2. exposed' \in BOOLEAN /\ torn' \in BOOLEAN
  BY DEF TypeOK, Reporting, WorkerStep, CallAddStat, LockAdd, Found, NotFound, LoadRow, StoreRow,
         Refused, CheckRoom, FillName, FillCounters, LoadNum, StoreNum, SortCompare, SortMove,
         SortEnd, ReturnAdd
<1>3. owner' \in {"none", "worker", "timer"}
  BY DEF TypeOK, WorkerStep, CallAddStat, LockAdd, Found, NotFound, LoadRow, StoreRow, Refused,
         CheckRoom, FillName, FillCounters, LoadNum, StoreNum, SortCompare, SortMove, SortEnd,
         ReturnAdd
<1>4. UNCHANGED <<tpc, row, reported, m_bUseMutex>>
  BY DEF WorkerStep, CallAddStat, LockAdd, Found, NotFound, LoadRow, StoreRow, Refused,
         CheckRoom, FillName, FillCounters, LoadNum, StoreNum, SortCompare, SortMove, SortEnd,
         ReturnAdd
<1>5. ASSUME NEW n \in Names, CallAddStat(n) PROVE TableTypes'
  BY <1>1, <1>2, <1>3, <1>5 DEF CallAddStat, TypeOK
<1>6. CASE LockAdd
  BY <1>1, <1>2, <1>3, <1>6 DEF LockAdd, TypeOK
<1>7. CASE Found
  <2>1. PICK s \in Used : slot' = s
    BY <1>7 DEF Found
  <2>2. slot' \in 0..TYPE_NUM /\ slot' < TYPE_NUM
    BY <2>1 DEF Used, TypeOK
  <2> QED
    BY <1>1, <1>2, <1>3, <1>7, <2>2 DEF Found, TypeOK
<1>8. CASE NotFound
  BY <1>1, <1>2, <1>3, <1>8 DEF NotFound, TypeOK
<1>9. CASE LoadRow
  <2>1. slot \in Slots
    BY <1>9 DEF LoadRow, TypeOK, Slots
  <2> QED
    BY <1>1, <1>2, <1>3, <1>9, <2>1 DEF LoadRow, TypeOK
<1>10. CASE StoreRow
  <2>1. slot \in Slots
    BY <1>10 DEF StoreRow, TypeOK, Slots
  <2>2. temp.all \in Nat /\ Blank \in Row
    BY DEF TypeOK, Row, Blank
  <2>3. Counted(m_astTypeInfo[slot], temp.all) \in Row
    BY <2>1, <2>2, CountedIsARow DEF TypeOK
  <2>4. m_astTypeInfo' \in [Slots -> Row]
    BY <1>10, <2>3 DEF StoreRow, TypeOK
  <2> QED
    BY <1>1, <1>2, <1>3, <1>10, <2>2, <2>4 DEF StoreRow, TypeOK
<1>11. CASE Refused
  BY <1>1, <1>2, <1>3, <1>11 DEF Refused, TypeOK
<1>12. CASE CheckRoom
  <2>1. m_iTypeNum < TYPE_NUM
    BY <1>12 DEF CheckRoom, Full, TypeOK
  <2> QED
    BY <1>1, <1>2, <1>3, <1>12, <2>1 DEF CheckRoom, TypeOK
<1>13. CASE FillName
  <2>1. PICK s \in Reread :
          /\ m_astTypeInfo' = [m_astTypeInfo EXCEPT ![s] = [Blank EXCEPT !.name = name]]
          /\ slot' = s
    BY <1>13 DEF FillName
  <2>2. s \in Slots /\ slot' \in 0..TYPE_NUM /\ slot' < TYPE_NUM
    BY <2>1 DEF Reread, Slots
  <2>3. [Blank EXCEPT !.name = name] \in Row
    BY DEF Blank, Row, TypeOK
  <2>4. m_astTypeInfo' \in [Slots -> Row]
    BY <2>1, <2>3 DEF TypeOK
  <2> QED
    BY <1>1, <1>2, <1>3, <1>13, <2>2, <2>4 DEF FillName, TypeOK
<1>14. CASE FillCounters
  <2>1. PICK s \in Reread :
          m_astTypeInfo' = [m_astTypeInfo EXCEPT ![s] = Counted(m_astTypeInfo[s], 0)]
    BY <1>14 DEF FillCounters
  <2>2. s \in Slots
    BY DEF Reread
  <2>3. Counted(m_astTypeInfo[s], 0) \in Row
    BY <2>2, CountedIsARow DEF TypeOK
  <2>4. m_astTypeInfo' \in [Slots -> Row]
    BY <2>1, <2>3 DEF TypeOK
  <2> QED
    BY <1>1, <1>2, <1>3, <1>14, <2>4 DEF FillCounters, TypeOK
<1>15. CASE LoadNum
  BY <1>1, <1>2, <1>3, <1>15 DEF LoadNum, TypeOK
<1>16. CASE StoreNum
  BY <1>1, <1>2, <1>3, <1>16 DEF StoreNum, TypeOK
<1>17. CASE SortCompare
  <2>1. PICK num \in {slot + 1, m_iTypeNum} :
          /\ IF torn THEN from' \in AnyPlaces(num)
                     ELSE from' = SortedPlaces(m_astTypeInfo, num)
          /\ left' = 0..(num - 1) /\ slot' = num
    BY <1>17 DEF SortCompare
  <2>2. num \in 0..TYPE_NUM /\ 0..(num - 1) \in SUBSET Slots
    BY <1>17 DEF SortCompare, TypeOK, Slots
  <2>3. from' \in [Slots -> Slots]
    <3>1. SortedPlaces(m_astTypeInfo, num) \in [Slots -> Slots]
      BY <2>2, SortedRowsAreRows DEF TypeOK
    <3> QED
      BY <2>1, <3>1 DEF AnyPlaces
  <2> QED
    BY <1>1, <1>2, <1>3, <1>17, <2>1, <2>2, <2>3 DEF SortCompare, TypeOK
<1>18. CASE SortMove
  <2>1. PICK s \in left :
          /\ m_astTypeInfo' = [m_astTypeInfo EXCEPT
               ![s] = IF from[s] \in left THEN m_astTypeInfo[from[s]] ELSE held[from[s]]]
          /\ held' = [held EXCEPT ![s] = m_astTypeInfo[s]]
          /\ left' = left \ {s}
    BY <1>18 DEF SortMove
  <2>2. s \in Slots /\ from[s] \in Slots
    BY DEF TypeOK
  <2>3. m_astTypeInfo[s] \in Row /\ m_astTypeInfo[from[s]] \in Row /\ held[from[s]] \in Row
    BY <2>2 DEF TypeOK
  <2>4. m_astTypeInfo' \in [Slots -> Row] /\ held' \in [Slots -> Row] /\ left' \in SUBSET Slots
    BY <2>1, <2>3 DEF TypeOK
  <2> QED
    BY <1>1, <1>2, <1>3, <1>18, <2>4 DEF SortMove, TypeOK
<1>19. CASE SortEnd
  <2>1. from' \in [Slots -> Slots] /\ held' \in [Slots -> Row]
    <3>1. Blank \in Row
      BY DEF Blank, Row
    <3> QED
      BY <1>19, <3>1 DEF SortEnd, TypeOK
  <2> QED
    BY <1>1, <1>2, <1>3, <1>19, <2>1 DEF SortEnd, TypeOK
<1>20. CASE ReturnAdd
  <2>1. called' \in [Names -> Nat]
    BY <1>20 DEF ReturnAdd, TypeOK
  <2>2. excused' \in [Names -> Nat]
    <3>1. CASE torn
      <4>1. \A n \in Names : called'[n] \in Nat /\ reported[n] \in Nat
        BY <2>1 DEF TypeOK
      <4>2. \A n \in Names : Unreported(n, called'[n]) \in Nat
        BY <4>1 DEF Unreported
      <4> QED
        BY <1>20, <3>1, <4>2 DEF ReturnAdd
    <3>2. CASE ~torn
      BY <1>20, <3>2 DEF ReturnAdd, TypeOK
    <3> QED
      BY <3>1, <3>2
  <2> QED
    BY <1>1, <1>2, <1>3, <1>20, <2>1, <2>2 DEF ReturnAdd, TypeOK
<1> QED
  BY <1>5, <1>6, <1>7, <1>8, <1>9, <1>10, <1>11, <1>12, <1>13, <1>14, <1>15, <1>16, <1>17,
     <1>18, <1>19, <1>20 DEF WorkerStep

LEMMA TimerKeepsTypes ==
  ASSUME TableTypes, TimerFires \/ TimerStep
  PROVE  TableTypes'
<1> USE CStatisticAssumption
    DEF TableTypes, RoomIsLeft, Lock, Unlock, table, sorting, worker, timer, history
<1>1. m_bUseMutex' \in BOOLEAN
  BY DEF TypeOK, TimerFires, TimerStep, LockWrite, WriteRow, EndWrite, LockClear, ClearNum,
         ClearRow, EndClear
<1>2. exposed' \in BOOLEAN /\ torn' \in BOOLEAN
  BY DEF TypeOK, TimerFires, TimerStep, LockWrite, WriteRow, EndWrite, LockClear, ClearNum,
         ClearRow, EndClear
<1>3. owner' \in {"none", "worker", "timer"}
  BY DEF TypeOK, TimerFires, TimerStep, LockWrite, WriteRow, EndWrite, LockClear, ClearNum,
         ClearRow, EndClear
<1>4. CASE TimerFires \/ LockWrite \/ EndWrite \/ LockClear \/ EndClear
  <2>1. tpc' \in {"sleep", "write", "rows", "clear", "num", "memset"}
        /\ row' \in 0..TYPE_NUM
    BY <1>4 DEF TimerFires, LockWrite, EndWrite, LockClear, EndClear, TypeOK
  <2>2. UNCHANGED <<m_iTypeNum, m_astTypeInfo, wpc, name, slot, temp, sorting, called,
                    reported, excused>>
    BY <1>4 DEF TimerFires, LockWrite, EndWrite, LockClear, EndClear
  <2> QED
    BY <1>1, <1>2, <1>3, <2>1, <2>2 DEF TypeOK
<1>5. CASE WriteRow
  <2> DEFINE r == m_astTypeInfo[row]
  <2>1. row \in Slots /\ row + 1 \in 0..TYPE_NUM
    BY <1>5 DEF WriteRow, TypeOK, Slots
  <2>2. r \in Row
    BY <2>1 DEF TypeOK
  <2>3. reported' = IF r.name = 0 THEN reported
                    ELSE [reported EXCEPT ![r.name] = reported[r.name] + r.all]
    BY <1>5 DEF WriteRow
  <2> HIDE DEF r
  <2>4. r.name # 0 => reported[r.name] + r.all \in Nat
    <3>1. r.name \in Names \cup {0} /\ r.all \in Nat
      BY <2>2 DEF Row
    <3>2. reported \in [Names -> Nat]
      BY DEF TypeOK
    <3>3. ASSUME r.name # 0 PROVE reported[r.name] \in Nat
      BY <3>1, <3>2, <3>3
    <3> QED
      BY <3>1, <3>3
  <2>5. reported' \in [Names -> Nat]
    BY <2>3, <2>4 DEF TypeOK
  <2> QED
    BY <1>1, <1>2, <1>3, <1>5, <2>1, <2>5 DEF WriteRow, TypeOK
<1>6. CASE ClearNum
  BY <1>1, <1>2, <1>3, <1>6 DEF ClearNum, TypeOK
<1>7. CASE ClearRow
  <2>1. Blank \in Row
    BY DEF Blank, Row
  <2>2. m_astTypeInfo' \in [Slots -> Row]
    BY <1>7, <2>1 DEF ClearRow, TypeOK
  <2>3. row' \in 0..TYPE_NUM
    BY <1>7 DEF ClearRow, TypeOK
  <2> QED
    BY <1>1, <1>2, <1>3, <1>7, <2>2, <2>3 DEF ClearRow, TypeOK
<1> QED
  BY <1>4, <1>5, <1>6, <1>7 DEF TimerStep

LEMMA TypesStep == TableTypes /\ [Next]_vars => TableTypes'
<1> SUFFICES ASSUME TableTypes, [Next]_vars PROVE TableTypes'
  OBVIOUS
<1>1. CASE UNCHANGED vars
  BY <1>1 DEF vars, table, sorting, worker, timer, history, TableTypes, TypeOK, RoomIsLeft
<1> QED
  BY <1>1, WorkerKeepsTypes, TimerKeepsTypes DEF Next

(* A call that no report overlaps runs while the timer thread sleeps. *)
UnexposedIsAlone == wpc # "idle" /\ ~exposed => tpc = "sleep"

(* A qsort that no report has met had the table for itself: all rows go to  *)
(* their places, those in left later.                                       *)
InPlaces ==
  /\ slot = m_iTypeNum
  /\ left \in SUBSET (0..(m_iTypeNum - 1))
  /\ from = SortedPlaces(Table, m_iTypeNum)
  /\ \A s \in 0..(m_iTypeNum - 1) : s \notin left => m_astTypeInfo[s] = Table[from[s]]

SortInv ==
  /\ torn => ~m_bUseMutex /\ exposed
  /\ wpc \notin {"sort", "moving", "done"} => ~torn
  /\ InSort /\ ~torn =>
       /\ m_bUseMutex \/ tpc = "sleep"
       /\ m_iTypeNum > 0
       /\ wpc = "sort" => m_iTypeNum = slot + 1
       /\ wpc = "moving" => InPlaces

TableOrderInv ==
  TableTypes /\ OwnerIsWithin /\ UnexposedIsAlone /\ SortInv /\ RowsInOrder

LEMMA OrderInit == Init => TableOrderInv
<1> SUFFICES ASSUME Init PROVE TableOrderInv
  OBVIOUS
<1>1. OwnerIsWithin
  BY DEF Init, OwnerIsWithin
<1>2. RowsInOrder
  <2>1. \A s \in Slots : m_astTypeInfo[s].name = 0 /\ ~(s < 0)
    BY CStatisticAssumption DEF Init, Blank, Slots
  <2>2. \A a, b \in 0..(0 - 1) : FALSE
    OBVIOUS
  <2> QED
    BY <2>1, <2>2 DEF Init, RowsInOrder, SortedAndFilled, IsSorted, Filled, InSort
<1>3. UnexposedIsAlone /\ SortInv
  BY DEF Init, UnexposedIsAlone, SortInv, InSort
<1> QED
  BY <1>1, <1>2, <1>3, TableTypesInit DEF TableOrderInv

LEMMA OwnerStep ==
  ASSUME TableTypes, OwnerIsWithin, [Next]_vars PROVE OwnerIsWithin'
<1> USE DEF OwnerIsWithin, Lock, Unlock, table, worker, timer, history
<1>0. owner \in {"none", "worker", "timer"}
  BY DEF TableTypes, TypeOK
<1> SUFFICES ASSUME m_bUseMutex'
             PROVE  /\ owner' = "worker" <=> wpc' \notin {"idle", "lock"}
                    /\ owner' = "timer" <=> tpc' \in {"rows", "num", "memset"}
  OBVIOUS
<1>1. ASSUME NEW n \in Names, CallAddStat(n) PROVE OwnerIsWithin'
  BY <1>0, <1>1 DEF CallAddStat
<1>2. CASE LockAdd \/ Found \/ NotFound \/ LoadRow
  BY <1>0, <1>2 DEF LockAdd, Found, NotFound, LoadRow
<1>3. CASE StoreRow \/ Refused \/ CheckRoom \/ FillName \/ FillCounters
  BY <1>0, <1>3 DEF StoreRow, Refused, CheckRoom, FillName, FillCounters
<1>4. CASE LoadNum \/ StoreNum \/ SortCompare \/ SortMove \/ SortEnd \/ ReturnAdd
  BY <1>0, <1>4 DEF LoadNum, StoreNum, SortCompare, SortMove, SortEnd, ReturnAdd
<1>5. CASE TimerFires
  BY <1>0, <1>5 DEF TimerFires
<1>6. CASE TimerStep
  BY <1>0, <1>6
  DEF TimerStep, LockWrite, WriteRow, EndWrite, LockClear, ClearNum, ClearRow, EndClear
<1>7. CASE UNCHANGED vars
  BY <1>7 DEF vars
<1> QED
  BY <1>1, <1>2, <1>3, <1>4, <1>5, <1>6, <1>7 DEF Next, WorkerStep

LEMMA UnexposedStep ==
  ASSUME UnexposedIsAlone, [Next]_vars PROVE UnexposedIsAlone'
<1> USE DEF UnexposedIsAlone
<1>1. ASSUME NEW n \in Names, CallAddStat(n) PROVE UnexposedIsAlone'
  BY <1>1 DEF CallAddStat, timer
<1>2. CASE WorkerStep
  BY <1>2 DEF WorkerStep, LockAdd, Found, NotFound, LoadRow, StoreRow, Refused, CheckRoom,
    FillName, FillCounters, LoadNum, StoreNum, SortCompare, SortMove, SortEnd, ReturnAdd, timer,
    history
<1>3. CASE TimerFires
  BY <1>3 DEF TimerFires, worker
<1>4. CASE TimerStep
  BY <1>4 DEF TimerStep, LockWrite, WriteRow, EndWrite, LockClear, ClearNum, ClearRow,
    EndClear, worker, history
<1>5. CASE UNCHANGED vars
  BY <1>5 DEF vars, worker, timer, history
<1> QED
  BY <1>1, <1>2, <1>3, <1>4, <1>5 DEF Next

LEMMA SlotsBelow ==
  ASSUME NEW num \in 0..TYPE_NUM
  PROVE  \A s \in 0..(num - 1) : s \in Slots /\ s < num
BY CStatisticAssumption DEF Slots

(* Sorted by rank, rows of distinct names are in order. *)
LEMMA SortingOrders ==
  ASSUME NEW tab \in [Slots -> Row], NEW num \in 0..TYPE_NUM, Unordered(tab, num)
  PROVE  SortedAndFilled(SortedRows(tab, num), num)
<1> DEFINE new == SortedRows(tab, num)
           U == 0..(num - 1)
<1>1. /\ \A s \in U : \E a \in U : new[s] = tab[a] /\ RankIn(tab, num, a) = s
      /\ \A s \in Slots : ~(s < num) => new[s] = tab[s]
  BY SortedRowsAreRows
<1>2. \A a, b \in U : a # b => Before(tab, a, b) \/ Before(tab, b, a)
  BY BeforeIsAnOrder
<1>3. \A a, b \in U : Before(tab, a, b) => RankIn(tab, num, a) < RankIn(tab, num, b)
  BY RanksFollowTheOrder
<1>4. \A s \in U : s \in Int /\ s \in Slots /\ s < num
  BY SlotsBelow
<1>5. \A s \in Slots : s < num => s \in U
  BY CStatisticAssumption DEF Slots
<1>6. Distinct(tab, num) /\ \A s \in Slots : tab[s].name # 0 <=> s < num
  BY DEF Unordered, Filled
<1>7. \A a, b \in U : a # b => tab[a].name # tab[b].name
  BY <1>6 DEF Distinct
<1> HIDE DEF new, U
<1>8. ASSUME NEW s \in U, NEW q \in U, s < q PROVE new[s].name < new[q].name
  <2>1. PICK a \in U, b \in U : /\ new[s] = tab[a] /\ RankIn(tab, num, a) = s
                                /\ new[q] = tab[b] /\ RankIn(tab, num, b) = q
    BY <1>1
  <2>2. a # b /\ ~(q < s)
    BY <1>4, <1>8, <2>1
  <2>3. Before(tab, a, b)
    BY <1>2, <1>3, <2>1, <2>2
  <2> QED
    BY <1>7, <2>1, <2>2, <2>3 DEF Before
<1>9. ASSUME NEW s \in Slots PROVE new[s].name # 0 <=> s < num
  <2>1. CASE s < num
    <3>1. PICK a \in U : new[s] = tab[a]
      BY <1>1, <1>5, <2>1
    <3> QED
      BY <1>4, <1>6, <2>1, <3>1
  <2>2. CASE ~(s < num)
    BY <1>1, <1>6, <2>2
  <2> QED
    BY <2>1, <2>2
<1> QED
  BY <1>8, <1>9 DEF SortedAndFilled, IsSorted, Filled, new, U

LEMMA SameNamesSameOrder ==
  ASSUME NEW tab, NEW new, NEW num \in 0..TYPE_NUM,
         \A s \in Slots : new[s].name = tab[s].name
  PROVE  /\ SortedAndFilled(tab, num) => SortedAndFilled(new, num)
         /\ Unordered(tab, num) => Unordered(new, num)
<1>1. \A s \in 0..(num - 1) : s \in Slots
  BY SlotsBelow
<1>2. IsSorted(tab, num) => IsSorted(new, num)
  BY <1>1 DEF IsSorted
<1>3. Filled(tab, num) => Filled(new, num)
  BY DEF Filled
<1>4. Distinct(tab, num) => Distinct(new, num)
  BY <1>1 DEF Distinct
<1> QED
  BY <1>2, <1>3, <1>4 DEF SortedAndFilled, Unordered

(* The row that is added has a name the rows before it have not. *)
LEMMA AddedRowIsNew ==
  ASSUME NEW tab \in [Slots -> Row], NEW num \in 0..(TYPE_NUM - 1), NEW n \in Names,
         SortedAndFilled(tab, num), \A s \in 0..(num - 1) : tab[s].name # n,
         NEW r, r.name = n, NEW new, new = [tab EXCEPT ![num] = r]
  PROVE  Unordered(new, num + 1)
<1>1. /\ num \in Slots /\ num + 1 \in 0..TYPE_NUM /\ num \in 0..TYPE_NUM /\ n # 0
      /\ \A s \in Slots : s < num + 1 <=> (s < num \/ s = num)
  BY CStatisticAssumption DEF Slots
<1>2. \A s \in 0..num : s = num \/ s \in 0..(num - 1)
  BY <1>1
<1>3. \A s \in 0..(num - 1) : s \in Slots /\ s # num
  BY <1>1, SlotsBelow
<1>4. new[num].name = n /\ \A s \in Slots : s # num => new[s] = tab[s]
  BY <1>1
<1>5. Filled(new, num + 1)
  BY <1>1, <1>4 DEF SortedAndFilled, Filled
<1>6. \A a, b \in 0..(num - 1) : a # b => tab[a].name # tab[b].name
  <2>1. \A a, b \in 0..(num - 1) : a # b => a < b \/ b < a
    BY <1>1
  <2>2. \A a \in Slots : tab[a].name \in Int
    <3>1. \A m \in Names \cup {0} : m \in Int
      BY CStatisticAssumption
    <3>2. \A a \in Slots : tab[a].name \in Names \cup {0}
      BY DEF Row
    <3> QED
      BY <3>1, <3>2
  <2>3. \A a, b \in 0..(num - 1) : a < b => tab[a].name < tab[b].name
    BY DEF SortedAndFilled, IsSorted
  <2> QED
    BY <1>3, <2>1, <2>2, <2>3
<1>7. \A a, b \in 0..num : a # b => new[a].name # new[b].name
  BY <1>2, <1>3, <1>4, <1>6
<1>8. (num + 1) - 1 = num
  BY <1>1
<1>9. Distinct(new, num + 1)
  BY <1>7, <1>8 DEF Distinct
<1> QED
  BY <1>5, <1>9 DEF Unordered

(* While qsort has the table for itself, the table it found stays known. *)
LEMMA TableIsATable ==
  /\ TypeOK => Table \in [Slots -> Row]
  /\ TypeOK /\ wpc # "moving" => Table = m_astTypeInfo
<1>1. ASSUME TypeOK PROVE Table \in [Slots -> Row]
  <2>1. ASSUME NEW s \in Slots
        PROVE  (IF wpc = "moving" /\ s < slot /\ s \notin left THEN held[s]
                ELSE m_astTypeInfo[s]) \in Row
    BY <1>1 DEF TypeOK
  <2> QED
    BY <2>1 DEF Table
<1>2. ASSUME wpc # "moving", TypeOK PROVE Table = m_astTypeInfo
  <2>1. m_astTypeInfo = [s \in Slots |-> m_astTypeInfo[s]]
    BY <1>2 DEF TypeOK
  <2>2. Table = [s \in Slots |-> m_astTypeInfo[s]]
    BY <1>2 DEF Table
  <2> QED
    BY <2>1, <2>2
<1> QED
  BY <1>1, <1>2

LEMMA SorterIsAlone ==
  ASSUME OwnerIsWithin, SortInv, InSort, ~torn PROVE ~TimerStep
<1>1. CASE m_bUseMutex
  BY <1>1 DEF OwnerIsWithin, InSort, TimerStep, LockWrite, WriteRow, EndWrite, LockClear,
    ClearNum, ClearRow, EndClear, Lock
<1>2. CASE tpc = "sleep"
  BY <1>2 DEF TimerStep, LockWrite, WriteRow, EndWrite, LockClear, ClearNum, ClearRow, EndClear
<1> QED
  BY <1>1, <1>2 DEF SortInv

LEMMA MovingKeepsTable ==
  ASSUME TableTypes, SortInv, ~torn, SortMove
  PROVE  Table' = Table /\ InPlaces'
<1> DEFINE num == m_iTypeNum
           places == SortedPlaces(Table, num)
<1>0. TypeOK /\ num \in 0..TYPE_NUM /\ num \in Int
  BY CStatisticAssumption DEF TableTypes, TypeOK
<1>1. PICK s \in left :
        /\ m_astTypeInfo' = [m_astTypeInfo EXCEPT
             ![s] = IF from[s] \in left THEN m_astTypeInfo[from[s]] ELSE held[from[s]]]
        /\ held' = [held EXCEPT ![s] = m_astTypeInfo[s]]
        /\ left' = left \ {s}
  BY DEF SortMove
<1>2. wpc = "moving" /\ UNCHANGED <<wpc, slot, from, m_iTypeNum>> /\ InPlaces
  BY DEF SortMove, SortInv, InSort
<1>3. /\ slot = num /\ left \in SUBSET (0..(num - 1)) /\ from = places
      /\ \A q \in 0..(num - 1) : q \notin left => m_astTypeInfo[q] = Table[from[q]]
  BY <1>2 DEF InPlaces
<1>4. \A q \in 0..(num - 1) : q \in Slots /\ q < num
  BY <1>0, SlotsBelow
<1>5. \A q \in 0..(num - 1) : from[q] \in 0..(num - 1)
  BY <1>0, <1>3, TableIsATable, SortedRowsAreRows
<1> HIDE DEF places, num
<1>6. s \in Slots /\ s \in 0..(num - 1) /\ from[s] \in Slots /\ from[s] < num
  BY <1>1, <1>3, <1>4, <1>5
<1>7. Table[s] = m_astTypeInfo[s]
  BY <1>1, <1>6 DEF Table
<1>8. Table[from[s]] = IF from[s] \in left THEN m_astTypeInfo[from[s]] ELSE held[from[s]]
  BY <1>2, <1>3, <1>6 DEF Table
<1>t. m_astTypeInfo \in [Slots -> Row] /\ held \in [Slots -> Row]
  BY <1>0 DEF TypeOK
<1>9. /\ m_astTypeInfo'[s] = Table[from[s]] /\ held'[s] = m_astTypeInfo[s]
      /\ \A q \in Slots : q # s => m_astTypeInfo'[q] = m_astTypeInfo[q] /\ held'[q] = held[q]
  BY <1>1, <1>6, <1>8, <1>t
<1>10. \A q \in Slots : q \in left' <=> (q \in left /\ q # s)
  BY <1>1
<1>11. Table' = Table
  <2>1. Table' = [q \in Slots |-> IF q < slot /\ q \notin left' THEN held'[q]
                                  ELSE m_astTypeInfo'[q]]
    BY <1>2 DEF Table
  <2>2. Table = [q \in Slots |-> IF q < slot /\ q \notin left THEN held[q]
                                 ELSE m_astTypeInfo[q]]
    BY <1>2 DEF Table
  <2>3. ASSUME NEW q \in Slots
        PROVE  (IF q < slot /\ q \notin left' THEN held'[q] ELSE m_astTypeInfo'[q]) =
                 (IF q < slot /\ q \notin left THEN held[q] ELSE m_astTypeInfo[q])
    <3>1. CASE q = s
      <4>1. s < slot /\ s \notin left' /\ s \in left /\ held'[s] = m_astTypeInfo[s]
        BY <1>1, <1>3, <1>4, <1>6, <1>9, <1>10
      <4> QED
        BY <3>1, <4>1
    <3>2. CASE q # s
      BY <1>9, <1>10, <3>2
    <3> QED
      BY <3>1, <3>2
  <2> QED
    BY <2>1, <2>2, <2>3
<1>12. \A q \in 0..(num - 1) : q \notin left' => m_astTypeInfo'[q] = Table[from[q]]
  <2> SUFFICES ASSUME NEW q \in 0..(num - 1), q \notin left'
               PROVE  m_astTypeInfo'[q] = Table[from[q]]
    OBVIOUS
  <2>1. CASE q = s
    BY <1>9, <2>1
  <2>2. CASE q # s
    <3>1. q \notin left /\ q \in Slots
      BY <1>4, <1>10, <2>2
    <3> QED
      BY <1>3, <1>9, <2>2, <3>1
  <2> QED
    BY <2>1, <2>2
<1>13. left' \in SUBSET (0..(num - 1))
  BY <1>1, <1>3
<1> QED
  BY <1>2, <1>3, <1>11, <1>12, <1>13 DEF InPlaces, places, num

LEMMA ComparingFindsPlaces ==
  ASSUME TableTypes, SortInv, ~torn, SortCompare
  PROVE  Table' = Table /\ InPlaces'
<1>1. /\ wpc = "sort" /\ wpc' = "moving" /\ m_iTypeNum = slot + 1
      /\ UNCHANGED <<m_iTypeNum, m_astTypeInfo>>
  BY DEF SortCompare, SortInv, InSort, table
<1>2. /\ from' = SortedPlaces(m_astTypeInfo, m_iTypeNum) /\ left' = 0..(m_iTypeNum - 1)
      /\ slot' = m_iTypeNum
  BY <1>1 DEF SortCompare
<1>3. TypeOK /\ Table = m_astTypeInfo
  BY <1>1, TableIsATable DEF TableTypes
<1>4. Table' = [s \in Slots |-> m_astTypeInfo[s]]
  <2>1. m_iTypeNum \in Int
    BY <1>3, CStatisticAssumption DEF TypeOK
  <2>2. ASSUME NEW s \in Slots
        PROVE  (IF s < slot' /\ s \notin left' THEN held'[s] ELSE m_astTypeInfo'[s]) =
                 m_astTypeInfo[s]
    <3>1. s < slot' => s \in left'
      BY <1>2, <2>1 DEF Slots
    <3> QED
      BY <1>1, <3>1
  <2>3. Table' = [s \in Slots |-> IF s < slot' /\ s \notin left' THEN held'[s]
                                  ELSE m_astTypeInfo'[s]]
    BY <1>1 DEF Table
  <2> QED
    BY <2>2, <2>3
<1>5. Table' = m_astTypeInfo
  BY <1>3, <1>4 DEF TypeOK
<1> QED
  BY <1>1, <1>2, <1>3, <1>5 DEF InPlaces

(* Once all places are written, the rows are those qsort found, sorted. *)
LEMMA SortedInTheEnd ==
  ASSUME TableTypes, SortInv, ~torn, SortEnd
  PROVE  /\ \A s \in 0..(m_iTypeNum - 1) : m_astTypeInfo[s] = SortedRows(Table, m_iTypeNum)[s]
         /\ \A s \in Slots : ~(s < m_iTypeNum) => m_astTypeInfo[s] = Table[s]
<1>1. wpc = "moving" /\ left = {} /\ InPlaces
  BY DEF SortEnd, SortInv, InSort
<1>2. \A s \in 0..(m_iTypeNum - 1) : s \in Slots
  BY SlotsBelow DEF TableTypes, TypeOK
<1>3. \A s \in 0..(m_iTypeNum - 1) : m_astTypeInfo[s] = SortedRows(Table, m_iTypeNum)[s]
  BY <1>1, <1>2 DEF InPlaces, SortedRows
<1>4. \A s \in Slots : ~(s < m_iTypeNum) => m_astTypeInfo[s] = Table[s]
  BY <1>1 DEF InPlaces, Table
<1> QED
  BY <1>3, <1>4

LEMMA SortStep ==
  ASSUME TableTypes, OwnerIsWithin, UnexposedIsAlone, SortInv, [Next]_vars PROVE SortInv'
<1> USE DEF InSort, table, sorting, worker, timer, history
<1>0. TypeOK /\ m_iTypeNum \in Int /\ slot \in Nat
  BY CStatisticAssumption DEF TableTypes, TypeOK
<1>1. ASSUME NEW n \in Names, CallAddStat(n) PROVE SortInv'
  BY <1>1 DEF CallAddStat, SortInv
<1>2. CASE LockAdd \/ Found \/ NotFound \/ LoadRow \/ StoreRow \/ Refused \/ CheckRoom
  BY <1>2 DEF LockAdd, Found, NotFound, LoadRow, StoreRow, Refused, CheckRoom, SortInv
<1>3. CASE FillName \/ FillCounters \/ LoadNum
  BY <1>3 DEF FillName, FillCounters, LoadNum, SortInv
<1>4. CASE StoreNum
  <2>1. /\ wpc = "storenum" /\ wpc' = "sort" /\ m_iTypeNum' = slot + 1
        /\ UNCHANGED <<m_bUseMutex, slot, exposed, tpc>>
        /\ torn' = (~m_bUseMutex /\ tpc # "sleep")
    BY <1>4 DEF StoreNum, Reporting
  <2>2. torn' => ~m_bUseMutex' /\ exposed'
    BY <2>1 DEF UnexposedIsAlone
  <2>3. m_iTypeNum' > 0
    BY <1>0, <2>1
  <2> QED
    BY <2>1, <2>2, <2>3 DEF SortInv
<1>5. CASE SortCompare
  <2>1. wpc = "sort" /\ wpc' = "moving" /\ UNCHANGED <<m_bUseMutex, m_iTypeNum, tpc, torn, exposed>>
    BY <1>5 DEF SortCompare
  <2>2. ~torn => InPlaces'
    BY <1>5, ComparingFindsPlaces
  <2> QED
    BY <2>1, <2>2 DEF SortInv
<1>6. CASE SortMove
  <2>1. /\ wpc = "moving" /\ wpc' = "moving"
        /\ UNCHANGED <<m_bUseMutex, m_iTypeNum, tpc, torn, exposed>>
    BY <1>6 DEF SortMove
  <2>2. ~torn => InPlaces'
    BY <1>6, MovingKeepsTable
  <2> QED
    BY <2>1, <2>2 DEF SortInv
<1>7. CASE SortEnd \/ ReturnAdd
  BY <1>7 DEF SortEnd, ReturnAdd, SortInv
<1>8. CASE TimerFires
  <2>1. /\ UNCHANGED <<m_bUseMutex, m_iTypeNum, m_astTypeInfo, wpc, slot, left, from, held>>
        /\ tpc = "sleep" /\ exposed' = (wpc # "idle")
        /\ torn' = (torn \/ (~m_bUseMutex /\ wpc \in {"sort", "moving"}))
    BY <1>8 DEF TimerFires
  <2>2. InPlaces' <=> InPlaces
    BY <2>1 DEF InPlaces, Table
  <2>3. wpc' = wpc /\ (torn' => ~m_bUseMutex' /\ exposed')
    BY <2>1 DEF SortInv
  <2>4. wpc' \notin {"sort", "moving", "done"} => ~torn'
    BY <2>1 DEF SortInv
  <2>5. ASSUME wpc' \in {"sort", "moving"}, ~torn'
        PROVE  /\ m_bUseMutex' /\ m_iTypeNum' > 0
               /\ wpc' = "sort" => m_iTypeNum' = slot' + 1
               /\ wpc' = "moving" => InPlaces'
    BY <2>1, <2>2, <2>5 DEF SortInv
  <2> QED
    BY <2>3, <2>4, <2>5 DEF SortInv
<1>9. CASE TimerStep
  <2>1. UNCHANGED <<m_bUseMutex, wpc, torn, exposed>>
    BY <1>9 DEF TimerStep, LockWrite, WriteRow, EndWrite, LockClear, ClearNum, ClearRow, EndClear
  <2>2. ~(wpc \in {"sort", "moving"} /\ ~torn)
    BY <1>9, SorterIsAlone
  <2> QED
    BY <2>1, <2>2 DEF SortInv
<1>10. CASE UNCHANGED vars
  BY <1>10 DEF vars, SortInv, InPlaces, Table
<1> QED
  BY <1>1, <1>2, <1>3, <1>4, <1>5, <1>6, <1>7, <1>8, <1>9, <1>10 DEF Next, WorkerStep

LEMMA WorkerKeepsOrder ==
  ASSUME TableOrderInv, m_bUseMutex, (\E n \in Names : CallAddStat(n)) \/ WorkerStep
  PROVE  RowsInOrder'
<1> USE DEF RowsInOrder, InSort
<1>0. TableTypes /\ SortInv /\ ~torn
  BY DEF TableOrderInv, SortInv
<1>1. TypeOK /\ RoomIsLeft /\ OwnerIsWithin /\ RowsInOrder /\ TYPE_NUM \in Nat \ {0}
  BY CStatisticAssumption DEF TableOrderInv, TableTypes
<1>2. wpc \notin {"idle", "lock"} => tpc # "memset"
  BY <1>1 DEF OwnerIsWithin
<1>3. m_iTypeNum \in 0..TYPE_NUM
  BY <1>1 DEF TypeOK
<1>4. CASE \E n \in Names : CallAddStat(n)
  BY <1>1, <1>4 DEF CallAddStat, table, timer
<1>5. CASE LockAdd \/ Found \/ LoadRow \/ Refused \/ ReturnAdd
  BY <1>1, <1>2, <1>5 DEF LockAdd, Found, LoadRow, Refused, ReturnAdd, table, timer
<1>6. CASE NotFound
  <2>1. wpc = "search" /\ wpc' = "check" /\ UNCHANGED <<table, name, tpc>>
    BY <1>6 DEF NotFound, timer
  <2>2. IsSorted(m_astTypeInfo, m_iTypeNum)
    BY <1>1, <1>2, <2>1 DEF SortedAndFilled
  <2>3. \A s \in Used : m_astTypeInfo[s].name # name
    BY <1>6, <2>2 DEF NotFound
  <2> QED
    BY <1>1, <1>2, <2>1, <2>3 DEF table, Used
<1>7. CASE StoreRow
  <2>1. /\ wpc = "store" /\ wpc' = "done" /\ UNCHANGED <<m_bUseMutex, m_iTypeNum, tpc>>
        /\ m_astTypeInfo' = [m_astTypeInfo EXCEPT ![slot] = Counted(m_astTypeInfo[slot], temp.all)]
    BY <1>7 DEF StoreRow, timer
  <2>2. Counted(m_astTypeInfo[slot], temp.all).name = m_astTypeInfo[slot].name
    <3>1. slot \in Slots
      BY <1>1, <2>1 DEF TypeOK, Slots
    <3> QED
      BY <1>1, <3>1, CountedIsARow DEF TypeOK, Row
  <2>3. \A s \in Slots : m_astTypeInfo'[s].name = m_astTypeInfo[s].name
    BY <1>1, <2>1, <2>2 DEF TypeOK
  <2>4. SortedAndFilled(m_astTypeInfo', m_iTypeNum)
    BY <1>1, <1>2, <1>3, <2>1, <2>3, SameNamesSameOrder
  <2> QED
    BY <1>2, <2>1, <2>4
<1>8. CASE CheckRoom
  BY <1>1, <1>2, <1>8 DEF CheckRoom, table, timer, Used
<1>9. CASE FillName
  <2> DEFINE r == [Blank EXCEPT !.name = name]
  <2>1. /\ wpc = "fill" /\ wpc' = "first" /\ UNCHANGED <<m_bUseMutex, m_iTypeNum, tpc, name>>
        /\ slot = m_iTypeNum
    BY <1>1, <1>9 DEF FillName, timer
  <2>2. slot' = m_iTypeNum /\ m_astTypeInfo' = [m_astTypeInfo EXCEPT ![m_iTypeNum] = r]
    BY <1>9, <2>1 DEF FillName, Reread
  <2>3. name \in Names /\ m_iTypeNum \in 0..(TYPE_NUM - 1) /\ m_astTypeInfo \in [Slots -> Row]
    BY <1>1, <2>1 DEF TypeOK, RoomIsLeft
  <2>4. /\ SortedAndFilled(m_astTypeInfo, m_iTypeNum)
        /\ \A s \in 0..(m_iTypeNum - 1) : m_astTypeInfo[s].name # name
    BY <1>1, <1>2, <2>1 DEF Used
  <2>5. r.name = name
    BY DEF Blank
  <2> HIDE DEF r
  <2>6. Unordered(m_astTypeInfo', m_iTypeNum + 1)
    BY <2>2, <2>3, <2>4, <2>5, AddedRowIsNew
  <2> QED
    BY <1>2, <2>1, <2>2, <2>6
<1>10. CASE FillCounters
  <2>1. /\ wpc = "first" /\ wpc' = "loadnum" /\ UNCHANGED <<m_bUseMutex, m_iTypeNum, tpc>>
        /\ slot = m_iTypeNum /\ m_iTypeNum \in 0..(TYPE_NUM - 1)
    BY <1>1, <1>10 DEF FillCounters, timer, TypeOK, RoomIsLeft
  <2>2. m_astTypeInfo' = [m_astTypeInfo EXCEPT
                            ![m_iTypeNum] = Counted(m_astTypeInfo[m_iTypeNum], 0)]
    BY <1>10, <2>1 DEF FillCounters, Reread
  <2>3. \A s \in Slots : m_astTypeInfo'[s].name = m_astTypeInfo[s].name
    <3>1. m_iTypeNum \in Slots /\ m_astTypeInfo \in [Slots -> Row]
      BY <1>1, <2>1 DEF Slots, TypeOK
    <3>2. Counted(m_astTypeInfo[m_iTypeNum], 0).name = m_astTypeInfo[m_iTypeNum].name
      BY <3>1, CountedIsARow
    <3> QED
      BY <2>2, <3>1, <3>2
  <2>4. Unordered(m_astTypeInfo', m_iTypeNum + 1)
    <3>1. m_iTypeNum + 1 \in 0..TYPE_NUM
      BY <1>1, <2>1
    <3> QED
      BY <1>1, <2>1, <2>3, <3>1, SameNamesSameOrder
  <2> QED
    BY <1>2, <2>1, <2>4
<1>11. CASE LoadNum
  BY <1>1, <1>2, <1>11 DEF LoadNum, table, timer
<1>12. CASE StoreNum
  <2>1. /\ wpc = "storenum" /\ wpc' = "sort" /\ m_iTypeNum' = slot + 1 /\ slot = m_iTypeNum
        /\ UNCHANGED <<m_bUseMutex, m_astTypeInfo, tpc>>
    BY <1>1, <1>12 DEF StoreNum, timer
  <2>2. Table' = m_astTypeInfo
    <3>1. Table' = [s \in Slots |-> m_astTypeInfo[s]]
      BY <2>1 DEF Table
    <3> QED
      BY <1>1, <3>1 DEF TypeOK
  <2> QED
    BY <1>1, <1>2, <2>1, <2>2
<1>13. CASE SortCompare
  <2>1. wpc = "sort" /\ wpc' = "moving" /\ UNCHANGED <<m_bUseMutex, m_iTypeNum, m_astTypeInfo, tpc>>
    BY <1>13 DEF SortCompare, table, timer
  <2>2. Table' = Table
    BY <1>0, <1>13, ComparingFindsPlaces
  <2> QED
    BY <1>1, <1>2, <2>1, <2>2
<1>14. CASE SortMove
  <2>1. wpc = "moving" /\ wpc' = "moving" /\ UNCHANGED <<m_bUseMutex, m_iTypeNum, tpc>>
    BY <1>14 DEF SortMove, timer
  <2>2. Table' = Table
    BY <1>0, <1>14, MovingKeepsTable
  <2> QED
    BY <1>1, <1>2, <2>1, <2>2
<1>15. CASE SortEnd
  <2>1. wpc = "moving" /\ wpc' = "done" /\ UNCHANGED <<m_bUseMutex, m_iTypeNum, m_astTypeInfo, tpc>>
    BY <1>15 DEF SortEnd, table, timer
  <2> DEFINE old == Table
  <2>2. Unordered(old, m_iTypeNum) /\ old \in [Slots -> Row]
    BY <1>1, <2>1, TableIsATable
  <2>3. /\ \A s \in 0..(m_iTypeNum - 1) : m_astTypeInfo[s] = SortedRows(old, m_iTypeNum)[s]
        /\ \A s \in Slots : ~(s < m_iTypeNum) => m_astTypeInfo[s] = old[s]
    BY <1>0, <1>15, SortedInTheEnd
  <2> HIDE DEF old
  <2>4. SortedAndFilled(SortedRows(old, m_iTypeNum), m_iTypeNum)
    BY <1>3, <2>2, SortingOrders
  <2>5. IsSorted(m_astTypeInfo, m_iTypeNum)
    BY <2>3, <2>4 DEF SortedAndFilled, IsSorted
  <2>6. \A s \in Slots : s < m_iTypeNum => s \in 0..(m_iTypeNum - 1)
    BY <1>3, CStatisticAssumption DEF Slots
  <2>7. Filled(m_astTypeInfo, m_iTypeNum)
    <3> SUFFICES ASSUME NEW s \in Slots PROVE m_astTypeInfo[s].name # 0 <=> s < m_iTypeNum
      BY DEF Filled
    <3>1. CASE s < m_iTypeNum
      BY <2>3, <2>4, <2>6, <3>1 DEF SortedAndFilled, Filled
    <3>2. CASE ~(s < m_iTypeNum)
      BY <2>2, <2>3, <3>2 DEF Unordered, Filled
    <3> QED
      BY <3>1, <3>2
  <2> QED
    BY <1>2, <2>1, <2>5, <2>7 DEF SortedAndFilled
<1> QED
  BY <1>4, <1>5, <1>6, <1>7, <1>8, <1>9, <1>10, <1>11, <1>12, <1>13, <1>14, <1>15 DEF WorkerStep

LEMMA TimerKeepsOrder ==
  ASSUME TableOrderInv, m_bUseMutex, TimerFires \/ TimerStep
  PROVE  RowsInOrder'
<1> USE DEF RowsInOrder, InSort
<1>1. OwnerIsWithin /\ RowsInOrder /\ TypeOK
  BY DEF TableOrderInv, TableTypes
<1>2. tpc \in {"rows", "num", "memset"} => wpc \in {"idle", "lock"}
  BY <1>1 DEF OwnerIsWithin
<1>3. CASE TimerFires \/ LockWrite \/ WriteRow \/ EndWrite \/ LockClear
  <2>1. /\ UNCHANGED <<table, wpc, name, slot, sorting>>
        /\ tpc # "memset" /\ tpc' # "memset"
    BY <1>3 DEF TimerFires, LockWrite, WriteRow, EndWrite, LockClear, worker
  <2>2. Table' = Table
    BY <2>1 DEF Table, table, sorting
  <2> QED
    BY <1>1, <2>1, <2>2 DEF table, Used
<1>4. CASE ClearNum
  <2>1. /\ tpc' = "memset" /\ m_iTypeNum' = 0 /\ wpc' \in {"idle", "lock"}
        /\ row' = 0
    BY <1>1, <1>2, <1>4 DEF ClearNum, worker
  <2>2. \A s \in Slots : ~(s < 0)
    BY CStatisticAssumption DEF Slots
  <2> QED
    BY <2>1, <2>2
<1>5. CASE ClearRow
  <2>1. /\ tpc = "memset" /\ tpc' = "memset" /\ m_iTypeNum' = 0 /\ wpc' \in {"idle", "lock"}
        /\ m_astTypeInfo' = [m_astTypeInfo EXCEPT ![row] = Blank] /\ row' = row + 1
        /\ row \in Nat
    BY <1>1, <1>2, <1>5, CStatisticAssumption DEF ClearRow, worker, TypeOK
  <2>2. \A s \in Slots : s < row' => m_astTypeInfo'[s] = Blank
    <3> SUFFICES ASSUME NEW s \in Slots, s < row' PROVE m_astTypeInfo'[s] = Blank
      OBVIOUS
    <3>1. s = row \/ s < row
      BY <2>1 DEF Slots
    <3>2. s < row => m_astTypeInfo[s] = Blank
      BY <1>1, <2>1
    <3> QED
      BY <1>1, <2>1, <3>1, <3>2 DEF TypeOK
  <2> QED
    BY <2>1, <2>2
<1>6. CASE EndClear
  <2>1. /\ tpc = "memset" /\ tpc' = "sleep" /\ row = TYPE_NUM /\ wpc' \in {"idle", "lock"}
        /\ UNCHANGED <<m_astTypeInfo, m_iTypeNum>> /\ m_iTypeNum = 0
    BY <1>1, <1>2, <1>6 DEF EndClear, worker, table
  <2>2. \A s \in Slots : m_astTypeInfo[s].name = 0 /\ ~(s < 0)
    <3>1. \A s \in Slots : s < row /\ ~(s < 0)
      BY <2>1, CStatisticAssumption DEF Slots
    <3> QED
      BY <1>1, <2>1, <3>1 DEF Blank
  <2>3. SortedAndFilled(m_astTypeInfo, 0)
    <3>1. \A a, b \in 0..(0 - 1) : FALSE
      OBVIOUS
    <3> QED
      BY <2>2, <3>1 DEF SortedAndFilled, IsSorted, Filled
  <2> QED
    BY <2>1, <2>3
<1> QED
  BY <1>3, <1>4, <1>5, <1>6 DEF TimerStep

LEMMA MutexStays == [Next]_vars => m_bUseMutex' = m_bUseMutex
BY DEF vars, Next, CallAddStat, WorkerStep, LockAdd, Found, NotFound, LoadRow, StoreRow, Refused,
  CheckRoom, FillName, FillCounters, LoadNum, StoreNum, SortCompare, SortMove, SortEnd, ReturnAdd,
  TimerFires, TimerStep, LockWrite, WriteRow, EndWrite, LockClear, ClearNum, ClearRow,
  EndClear, table

LEMMA TableOrderStep == TableOrderInv /\ [Next]_vars => TableOrderInv'
<1> SUFFICES ASSUME TableOrderInv, [Next]_vars PROVE TableOrderInv'
  OBVIOUS
<1>1. TableTypes' /\ OwnerIsWithin'
  BY TypesStep, OwnerStep DEF TableOrderInv
<1>2. UnexposedIsAlone' /\ SortInv'
  BY UnexposedStep, SortStep DEF TableOrderInv
<1>3. RowsInOrder'
  <2>1. CASE UNCHANGED vars
    BY <2>1 DEF TableOrderInv, RowsInOrder, Used, InSort, Table, vars, table, sorting, worker,
      timer
  <2>2. CASE Next /\ m_bUseMutex
    BY <2>2, WorkerKeepsOrder, TimerKeepsOrder DEF Next
  <2>3. CASE Next /\ ~m_bUseMutex
    BY <2>3, MutexStays DEF RowsInOrder
  <2> QED
    BY <2>1, <2>2, <2>3
<1> QED
  BY <1>1, <1>2, <1>3 DEF TableOrderInv

(* No row past the table is indexed in any race of the two threads, and     *)
(* with the mutex the table is fit for bsearch whenever nobody is in it,    *)
(* for any names, table and number of calls (common_stat.cc:166-198).       *)
THEOREM TableCorrect == Spec => []TableInv
<1>1. TableOrderInv => TableInv
  <2> SUFFICES ASSUME TableOrderInv PROVE TableInv
    OBVIOUS
  <2>1. TypeOK
    BY DEF TableOrderInv, TableTypes
  <2>2. m_bUseMutex /\ owner = "none" => SortedAndFilled(m_astTypeInfo, m_iTypeNum)
    BY DEF TableOrderInv, OwnerIsWithin, RowsInOrder
  <2> QED
    BY <2>1, <2>2 DEF TableInv, TableInOrder, SortedAndFilled, Filled
<1> QED
  BY <1>1, TableOrderStep, OrderInit, PTL DEF Spec
-----------------------------------------------------------------------------
(* The table: what it counts *)
IsMark(x, tab, rows, n) ==
  \E s \in rows : tab[s].name = n /\ \E k \in 1..tab[s].all : x = <<s, k>>

LEMMA MarkIs == \A tab, rows, n, x : x \in Marks(tab, rows, n) <=> IsMark(x, tab, rows, n)
<1> SUFFICES ASSUME NEW tab, NEW rows, NEW n
             PROVE  \A x : x \in Marks(tab, rows, n) <=> IsMark(x, tab, rows, n)
  OBVIOUS
<1>1. \A s : \A x : x \in {s} \X (1..tab[s].all) <=> \E k \in 1..tab[s].all : x = <<s, k>>
  OBVIOUS
<1>2. \A x : x \in Marks(tab, rows, n) <=>
               \E s \in {r \in rows : tab[r].name = n} : x \in {s} \X (1..tab[s].all)
  BY DEF Marks
<1> QED
  BY <1>1, <1>2 DEF IsMark

Alike(new, tab, rows) == \A s \in rows : new[s] = tab[s]

LEMMA SameRowsSameMarks ==
  \A tab, new, rows, n : Alike(new, tab, rows) => Marks(new, rows, n) = Marks(tab, rows, n)
<1> SUFFICES ASSUME NEW tab, NEW new, NEW rows, NEW n, \A s \in rows : new[s] = tab[s]
             PROVE  Marks(new, rows, n) = Marks(tab, rows, n)
  BY DEF Alike
<1>1. \A x : x \in Marks(new, rows, n) <=> x \in Marks(tab, rows, n)
  BY MarkIs DEF IsMark
<1> QED
  BY <1>1

LEMMA NoRowsNoMarks == \A tab, n : Marks(tab, {}, n) = {}
  BY DEF Marks

LEMMA SlotsAreFinite == IsFiniteSet(Slots) /\ \A rows \in SUBSET Slots : IsFiniteSet(rows)
<1>1. IsFiniteSet(Slots)
  BY CStatisticAssumption, FS_Interval DEF Slots
<1> QED
  BY <1>1, FS_Subset

LEMMA OneRowsMarks ==
  ASSUME NEW r, NEW all \in Nat
  PROVE  IsFiniteSet({r} \X (1..all)) /\ Cardinality({r} \X (1..all)) = all
<1>1. IsFiniteSet(1..all) /\ Cardinality(1..all) = all
  BY FS_Interval
<1>2. IsFiniteSet({r}) /\ Cardinality({r}) = 1
  BY FS_Singleton
<1>3. /\ IsFiniteSet({r} \X (1..all))
      /\ Cardinality({r} \X (1..all)) = Cardinality({r}) * Cardinality(1..all)
  BY <1>1, <1>2, FS_Product
<1> QED
  BY <1>1, <1>2, <1>3

LEMMA MarksAreFinite ==
  ASSUME NEW tab \in [Slots -> Row], NEW rows \in SUBSET Slots, NEW n
  PROVE  IsFiniteSet(Marks(tab, rows, n)) /\ Cardinality(Marks(tab, rows, n)) \in Nat
<1> DEFINE R == {r \in rows : tab[r].name = n}
           f == [s \in R |-> {s} \X (1..tab[s].all)]
           T == {{s} \X (1..tab[s].all) : s \in R}
<1>1. IsFiniteSet(R)
  BY SlotsAreFinite
<1>2. \A s \in R : tab[s].all \in Nat
  BY DEF Row
<1>3. \A t \in T : IsFiniteSet(t)
  <2>1. \A s \in R : IsFiniteSet({s} \X (1..tab[s].all))
    <3> HIDE DEF R
    <3> QED
      BY <1>2, OneRowsMarks
  <2> HIDE DEF R
  <2> QED
    BY <2>1
<1>4. f \in Surjection(R, T)
  <2>1. f \in [R -> T] /\ \A t \in T : \E s \in R : f[s] = t
    OBVIOUS
  <2> HIDE DEF f, T, R
  <2> QED
    BY <2>1 DEF Surjection
<1>5. Marks(tab, rows, n) = UNION T
  BY DEF Marks
<1> HIDE DEF f, T, R
<1>6. IsFiniteSet(T)
  BY <1>1, <1>4, FS_Surjection
<1>7. IsFiniteSet(UNION T)
  BY <1>3, <1>6, FS_UNION
<1> QED
  BY <1>5, <1>7, FS_CardinalityType

LEMMA MoreRowsMoreMarks ==
  ASSUME NEW tab \in [Slots -> Row], NEW rows \in SUBSET Slots, NEW fewer \in SUBSET rows, NEW n
  PROVE  Cardinality(Marks(tab, fewer, n)) <= Cardinality(Marks(tab, rows, n))
<1>1. Marks(tab, fewer, n) \in SUBSET Marks(tab, rows, n)
  <2>1. \A x : x \in Marks(tab, fewer, n) => x \in Marks(tab, rows, n)
    BY MarkIs DEF IsMark
  <2> QED
    BY <2>1
<1> QED
  BY <1>1, MarksAreFinite, FS_Subset

LEMMA OneMoreRow ==
  ASSUME NEW tab \in [Slots -> Row], NEW rows \in SUBSET Slots, NEW r \in Slots \ rows, NEW n
  PROVE  Cardinality(Marks(tab, rows \cup {r}, n)) =
           Cardinality(Marks(tab, rows, n)) + IF tab[r].name = n THEN tab[r].all ELSE 0
<1> DEFINE A == Marks(tab, rows, n)
           B == {r} \X (1..tab[r].all)
           C == Marks(tab, rows \cup {r}, n)
<1>1. tab[r].all \in Nat
  BY DEF Row
<1>2. IsFiniteSet(A) /\ Cardinality(A) \in Nat
  BY MarksAreFinite
<1>3. IsFiniteSet(B) /\ Cardinality(B) = tab[r].all
  BY <1>1, OneRowsMarks
<1>4. A \cap B = {}
  <2>1. \A x \in A : \E s \in rows : \E k : x = <<s, k>>
    BY MarkIs DEF IsMark
  <2>2. \A x \in B : \E k : x = <<r, k>>
    OBVIOUS
  <2> HIDE DEF A, B
  <2> QED
    BY <2>1, <2>2
<1>5. CASE tab[r].name = n
  <2>1. C = A \cup B
    <3>1. \A x : x \in C <=> x \in A \/ x \in B
      <4>1. \A x : x \in B <=> \E k \in 1..tab[r].all : x = <<r, k>>
        OBVIOUS
      <4>2. \A x : x \in A <=>
              \E s \in rows : tab[s].name = n /\ \E k \in 1..tab[s].all : x = <<s, k>>
        BY MarkIs DEF IsMark
      <4>3. \A x : x \in C <=>
              \E s \in rows \cup {r} : tab[s].name = n /\ \E k \in 1..tab[s].all : x = <<s, k>>
        BY MarkIs DEF IsMark
      <4> HIDE DEF A, B, C
      <4> QED
        BY <1>5, <4>1, <4>2, <4>3, Zenon
    <3> HIDE DEF A, B, C
    <3> QED
      BY <3>1
  <2> HIDE DEF A, B, C
  <2>2. Cardinality(C) = Cardinality(A) + Cardinality(B) - Cardinality(A \cap B)
    BY <1>2, <1>3, <2>1, FS_Union
  <2>3. Cardinality(A \cap B) = 0
    BY <1>4, FS_EmptySet
  <2>4. Cardinality(C) = Cardinality(A) + tab[r].all
    BY <1>1, <1>2, <1>3, <2>2, <2>3
  <2> QED
    BY <1>5, <2>4 DEF A, C
<1>6. CASE tab[r].name # n
  <2>1. \A x : x \in C <=> x \in A
    BY <1>6, MarkIs DEF IsMark
  <2>2. C = A
    BY <2>1
  <2> QED
    BY <1>2, <1>6, <2>2
<1> QED
  BY <1>5, <1>6

(* A row's count goes up from t: with no more than t marks before. *)
OneMoreAt(tab, new, s, t) ==
  /\ tab[s].all <= t /\ new[s].name = tab[s].name /\ new[s].all = t + 1
  /\ \A q \in Slots : q # s => new[q] = tab[q]

MarkedOnceMore(tab, new, s, t, rows, n) ==
  /\ Cardinality(Marks(tab, rows, n)) <= Cardinality(Marks(new, rows, n))
  /\ tab[s].all = t =>
       Cardinality(Marks(new, rows, n)) =
         Cardinality(Marks(tab, rows, n)) + IF s \in rows /\ tab[s].name = n THEN 1 ELSE 0

LEMMA OneMoreCounted ==
  \A tab, new \in [Slots -> Row] : \A s \in Slots, t \in Nat, rows \in SUBSET Slots : \A n :
    OneMoreAt(tab, new, s, t) => MarkedOnceMore(tab, new, s, t, rows, n)
<1> SUFFICES ASSUME NEW tab \in [Slots -> Row], NEW new \in [Slots -> Row], NEW s \in Slots,
                    NEW t \in Nat, NEW rows \in SUBSET Slots, NEW n, OneMoreAt(tab, new, s, t)
             PROVE  MarkedOnceMore(tab, new, s, t, rows, n)
  OBVIOUS
<1>0. /\ tab[s].all <= t /\ new[s].name = tab[s].name /\ new[s].all = t + 1
      /\ \A q \in Slots : q # s => new[q] = tab[q]
  BY DEF OneMoreAt
<1>1. tab[s].all \in Nat
  BY DEF Row
<1>3. CASE s \notin rows
  <2>1. Marks(new, rows, n) = Marks(tab, rows, n)
    <3>1. Alike(new, tab, rows)
      BY <1>0, <1>3 DEF Alike
    <3> QED
      BY <3>1, SameRowsSameMarks
  <2>2. Cardinality(Marks(tab, rows, n)) \in Nat
    BY MarksAreFinite
  <2> QED
    BY <1>3, <2>1, <2>2 DEF MarkedOnceMore
<1>4. CASE s \in rows
  <2> DEFINE rest == rows \ {s}
  <2>1. rest \in SUBSET Slots /\ s \in Slots \ rest /\ rest \cup {s} = rows
    BY <1>4
  <2> HIDE DEF rest
  <2>2. Marks(new, rest, n) = Marks(tab, rest, n)
    <3>1. Alike(new, tab, rest)
      BY <1>0, <2>1 DEF Alike
    <3> QED
      BY <3>1, SameRowsSameMarks
  <2> DEFINE m == Cardinality(Marks(tab, rest, n))
  <2>3. m \in Nat
    BY <2>1, MarksAreFinite
  <2>4. Cardinality(Marks(tab, rows, n)) = m + IF tab[s].name = n THEN tab[s].all ELSE 0
    BY <2>1, OneMoreRow
  <2>5. Cardinality(Marks(new, rows, n)) = m + IF tab[s].name = n THEN t + 1 ELSE 0
    <3>1. Cardinality(Marks(new, rest \cup {s}, n)) =
            Cardinality(Marks(new, rest, n)) + IF new[s].name = n THEN new[s].all ELSE 0
      BY <2>1, OneMoreRow
    <3> QED
      BY <1>0, <2>1, <2>2, <3>1
  <2> HIDE DEF m
  <2> QED
    BY <1>0, <1>1, <1>4, <2>3, <2>4, <2>5 DEF MarkedOnceMore
<1> QED
  BY <1>3, <1>4
-----------------------------------------------------------------------------
(* Sorting loses no mark. *)
LEMMA RowsAtTheirRank ==
  ASSUME NEW tab \in [Slots -> Row], NEW num \in 0..TYPE_NUM
  PROVE  \A a \in 0..(num - 1) :
           RankIn(tab, num, a) \in 0..(num - 1)
             /\ SortedRows(tab, num)[RankIn(tab, num, a)] = tab[a]
<1> DEFINE U == 0..(num - 1)
           new == SortedRows(tab, num)
<1>1. \A s \in U : \E a \in U : new[s] = tab[a] /\ RankIn(tab, num, a) = s
  BY SortedRowsAreRows
<1>2. \A a \in U : RankIn(tab, num, a) \in U
  BY RanksFollowTheOrder
<1>3. \A a, b \in U : Before(tab, a, b) => RankIn(tab, num, a) < RankIn(tab, num, b)
  BY RanksFollowTheOrder
<1>4. \A a, b \in U : a # b => Before(tab, a, b) \/ Before(tab, b, a)
  BY BeforeIsAnOrder
<1>5. \A s \in U : s \in Int
  OBVIOUS
<1> HIDE DEF U, new
<1>6. ASSUME NEW a \in U PROVE new[RankIn(tab, num, a)] = tab[a]
  <2>1. PICK b \in U : new[RankIn(tab, num, a)] = tab[b]
                         /\ RankIn(tab, num, b) = RankIn(tab, num, a)
    BY <1>1, <1>2
  <2>2. b = a
    BY <1>2, <1>3, <1>4, <1>5, <2>1
  <2> QED
    BY <2>1, <2>2
<1> QED
  BY <1>2, <1>6 DEF U, new

(* The mark of a row goes with it. *)
LEMMA MarksMove ==
  ASSUME NEW tab \in [Slots -> Row], NEW num \in 0..TYPE_NUM,
         NEW new \in [Slots -> Row], \A s \in 0..(num - 1) : new[s] = SortedRows(tab, num)[s],
         NEW rows \in SUBSET (0..(num - 1)), NEW places \in SUBSET (0..(num - 1)),
         \A a \in rows : RankIn(tab, num, a) \in places, NEW n
  PROVE  /\ Cardinality(Marks(tab, rows, n)) <= Cardinality(Marks(new, places, n))
         /\ (\A s \in places : \E a \in rows : RankIn(tab, num, a) = s) =>
              Cardinality(Marks(new, places, n)) = Cardinality(Marks(tab, rows, n))
<1> DEFINE U == 0..(num - 1)
           rank == [a \in U |-> RankIn(tab, num, a)]
           A == Marks(tab, rows, n)
           B == Marks(new, places, n)
           f == [x \in A |-> <<rank[x[1]], x[2]>>]
<1>1. \A s \in U : s \in Int /\ s \in Slots
  BY SlotsBelow
<1>2. \A a \in U : rank[a] \in U /\ new[rank[a]] = tab[a]
  BY RowsAtTheirRank
<1>3. \A a, b \in U : rank[a] = rank[b] => a = b
  <2>1. \A a, b \in U : Before(tab, a, b) => rank[a] < rank[b]
    BY RanksFollowTheOrder
  <2>2. \A a, b \in U : a # b => Before(tab, a, b) \/ Before(tab, b, a)
    BY BeforeIsAnOrder
  <2> HIDE DEF U, rank
  <2> QED
    BY <1>1, <1>2, <2>1, <2>2
<1>4. \A a \in rows : a \in U /\ rank[a] \in places
  OBVIOUS
<1>5. rows \in SUBSET Slots /\ places \in SUBSET Slots /\ places \in SUBSET U
  BY <1>1
<1>6. IsFiniteSet(A) /\ IsFiniteSet(B) /\ Cardinality(A) \in Nat /\ Cardinality(B) \in Nat
  BY <1>5, MarksAreFinite
<1>7. \A x : x \in A <=>
               \E s \in rows : tab[s].name = n /\ \E k \in 1..tab[s].all : x = <<s, k>>
  <2>1. \A x : x \in A <=> IsMark(x, tab, rows, n)
    BY MarkIs, Zenon
  <2> QED
    BY <2>1, Zenon DEF IsMark
<1>8. \A x : x \in B <=>
               \E s \in places : new[s].name = n /\ \E k \in 1..new[s].all : x = <<s, k>>
  <2>1. \A x : x \in B <=> IsMark(x, new, places, n)
    BY MarkIs, Zenon
  <2> QED
    BY <2>1, Zenon DEF IsMark
<1>c. ASSUME NEW s \in places, \A q \in places : \E a \in rows : RankIn(tab, num, a) = q
      PROVE  \E a \in rows : rank[a] = s
  BY <1>4, <1>c
<1> HIDE DEF U, rank, A, B
<1>9. ASSUME NEW x \in A
      PROVE  f[x] \in B /\ x[1] \in rows /\ x = <<x[1], x[2]>> /\ f[x] = <<rank[x[1]], x[2]>>
  <2>1. PICK s \in rows : tab[s].name = n /\ \E k \in 1..tab[s].all : x = <<s, k>>
    BY <1>7
  <2>2. PICK k \in 1..tab[s].all : x = <<s, k>>
    BY <2>1
  <2>3. f[x] = <<rank[s], k>>
    BY <2>2
  <2>4. rank[s] \in places /\ new[rank[s]] = tab[s]
    BY <1>2, <1>4
  <2>5. f[x] \in B
    BY <1>8, <2>1, <2>2, <2>3, <2>4
  <2> HIDE DEF f
  <2> QED
    BY <2>2, <2>3, <2>5
<1>10. f \in [A -> B]
  BY <1>9
<1>11. ASSUME NEW x \in A, NEW y \in A, f[x] = f[y] PROVE x = y
  <2>1. rank[x[1]] = rank[y[1]] /\ x[2] = y[2]
    BY <1>9, <1>11
  <2>2. x[1] = y[1]
    BY <1>3, <1>4, <1>9, <2>1
  <2> QED
    BY <1>9, <2>1, <2>2
<1>12. ASSUME \A s \in places : \E a \in rows : RankIn(tab, num, a) = s, NEW y \in B
       PROVE  \E x \in A : f[x] = y
  <2>1. PICK s \in places : new[s].name = n /\ \E k \in 1..new[s].all : y = <<s, k>>
    BY <1>8
  <2>2. PICK k \in 1..new[s].all : y = <<s, k>>
    BY <2>1
  <2>3. PICK a \in rows : rank[a] = s
    BY <1>c, <1>12
  <2>4. new[s] = tab[a]
    BY <1>2, <1>4, <2>3
  <2>5. <<a, k>> \in A
    BY <1>7, <2>1, <2>2, <2>4
  <2>6. f[<<a, k>>] = y
    BY <2>2, <2>3, <2>5
  <2> QED
    BY <2>5, <2>6
<1> HIDE DEF f
<1>13. f \in Injection(A, B)
  BY <1>10, <1>11 DEF Injection, IsInjective
<1>14. Cardinality(A) <= Cardinality(B)
  BY <1>6, <1>13, FS_Injection
<1>15. ASSUME \A s \in places : \E a \in rows : RankIn(tab, num, a) = s
       PROVE  Cardinality(B) = Cardinality(A)
  <2>1. f \in Surjection(A, B)
    BY <1>10, <1>12, <1>15 DEF Surjection
  <2> QED
    BY <1>6, <1>13, <2>1, FS_Injection
<1> QED
  BY <1>14, <1>15 DEF A, B
-----------------------------------------------------------------------------
(* The table: what is known in any race *)

(* A call that excused no report has the table for itself, and so has one  *)
(* within the mutex.                                                        *)
Alone == m_bUseMutex \/ ~exposed

OneCall == [name |-> name, all |-> 1]

Undisturbed ==
  Alone =>
    /\ wpc \in {"load", "store"} =>
         slot < m_iTypeNum /\ m_astTypeInfo[slot].name = name
    /\ wpc = "store" => temp = m_astTypeInfo[slot]
    /\ wpc \in {"fill", "first", "storenum"} => slot = m_iTypeNum
    /\ wpc = "first" => m_astTypeInfo[m_iTypeNum].name = name
    /\ wpc \in {"loadnum", "storenum"} => m_astTypeInfo[m_iTypeNum] = OneCall
    /\ InSort => Table[m_iTypeNum - 1] = OneCall

(* In any race: no count goes down but by ClearStat, and the used rows are  *)
(* not touched while one is filled behind them.                             *)
InAnyRace ==
  /\ wpc = "store" => m_astTypeInfo[slot].all <= temp.all
  /\ wpc \in {"fill", "first", "storenum"} => slot >= m_iTypeNum

(* Nobody else is in the table with a call that is alone. *)
LEMMA AloneIsAlone ==
  ASSUME OwnerIsWithin, UnexposedIsAlone, Alone, wpc \notin {"idle", "lock"}
  PROVE  ~TimerStep
<1>1. CASE m_bUseMutex
  BY <1>1 DEF OwnerIsWithin, TimerStep, LockWrite, WriteRow, EndWrite, LockClear, ClearNum,
    ClearRow, EndClear, Lock
<1>2. CASE ~exposed
  BY <1>2 DEF UnexposedIsAlone, TimerStep, LockWrite, WriteRow, EndWrite, LockClear, ClearNum,
    ClearRow, EndClear
<1> QED
  BY <1>1, <1>2 DEF Alone

LEMMA UndisturbedStep ==
  ASSUME TableOrderInv, Undisturbed, [Next]_vars
  PROVE  Undisturbed'
<1> USE DEF Undisturbed, Alone, table, history, InSort
<1>0. TypeOK /\ RoomIsLeft
  BY DEF TableOrderInv, TableTypes
<1>i. TableTypes /\ OwnerIsWithin /\ UnexposedIsAlone /\ SortInv
  BY DEF TableOrderInv
<1>j. Alone => ~torn
  BY <1>i DEF SortInv
<1>b. TYPE_NUM \in Nat
  BY CStatisticAssumption
<1> SUFFICES ASSUME Alone', wpc' \notin {"idle", "lock"} PROVE Undisturbed'
  OBVIOUS
<1>a. \A s \in Used : s < m_iTypeNum
  BY <1>0 DEF Used, TypeOK
<1>1. ASSUME NEW n \in Names, CallAddStat(n) PROVE FALSE
  BY <1>1 DEF CallAddStat
<1>2. CASE LockAdd \/ NotFound \/ CheckRoom
  BY <1>2 DEF LockAdd, NotFound, CheckRoom, OneCall
<1>3. CASE Found
  <2>1. slot' \in Used /\ m_astTypeInfo[slot'].name = name
    BY <1>3 DEF Found
  <2> QED
    BY <1>3, <1>a, <2>1 DEF Found, OneCall
<1>4. CASE LoadRow
  BY <1>4 DEF LoadRow, OneCall
<1>5. CASE StoreRow
  BY <1>5 DEF StoreRow
<1>6. CASE Refused \/ ReturnAdd
  BY <1>6 DEF Refused, ReturnAdd
<1>7. CASE FillName
  <2>1. /\ wpc = "fill" /\ wpc' = "first" /\ slot = m_iTypeNum /\ UNCHANGED <<m_iTypeNum, name>>
    BY <1>7 DEF FillName
  <2>2. /\ slot' = m_iTypeNum
        /\ m_astTypeInfo' = [m_astTypeInfo EXCEPT ![m_iTypeNum] = [Blank EXCEPT !.name = name]]
    BY <1>7, <2>1 DEF FillName, Reread
  <2>3. m_iTypeNum \in Slots
    BY <1>0, <1>b, <2>1 DEF RoomIsLeft, Slots, TypeOK
  <2>4. m_astTypeInfo'[m_iTypeNum].name = name
    BY <1>0, <2>2, <2>3 DEF TypeOK, Blank
  <2> QED
    BY <2>1, <2>2, <2>4
<1>8. CASE FillCounters
  <2>1. /\ wpc = "first" /\ wpc' = "loadnum" /\ slot = m_iTypeNum /\ UNCHANGED <<m_iTypeNum, name>>
        /\ m_astTypeInfo[m_iTypeNum].name = name
    BY <1>8 DEF FillCounters
  <2>2. m_astTypeInfo' = [m_astTypeInfo EXCEPT
                            ![m_iTypeNum] = Counted(m_astTypeInfo[m_iTypeNum], 0)]
    BY <1>8, <2>1 DEF FillCounters, Reread
  <2>3. m_iTypeNum \in Slots /\ m_astTypeInfo[m_iTypeNum] \in Row
    BY <1>0, <1>b, <2>1 DEF RoomIsLeft, Slots, TypeOK
  <2>4. Counted(m_astTypeInfo[m_iTypeNum], 0) = OneCall
    BY <2>1, <2>3 DEF Counted, OneCall, Row
  <2>5. m_astTypeInfo'[m_iTypeNum] = OneCall'
    BY <1>0, <2>1, <2>2, <2>3, <2>4 DEF TypeOK, OneCall
  <2> QED
    BY <2>1, <2>5
<1>9. CASE LoadNum
  BY <1>9 DEF LoadNum, OneCall
<1>10. CASE StoreNum
  <2>1. /\ wpc = "storenum" /\ wpc' = "sort" /\ slot = m_iTypeNum /\ m_iTypeNum' = slot + 1
        /\ UNCHANGED <<m_astTypeInfo, name>> /\ m_astTypeInfo[m_iTypeNum] = OneCall
    BY <1>10 DEF StoreNum
  <2>2. m_iTypeNum' - 1 = m_iTypeNum
    BY <1>0, <2>1 DEF TypeOK
  <2>3. Table' = m_astTypeInfo
    <3>1. Table' = [s \in Slots |-> m_astTypeInfo[s]]
      BY <2>1 DEF Table
    <3> QED
      BY <1>0, <3>1 DEF TypeOK
  <2>4. Table'[m_iTypeNum' - 1] = OneCall'
    BY <2>1, <2>2, <2>3 DEF OneCall
  <2> QED
    BY <2>1, <2>4
<1>11. CASE SortCompare \/ SortMove
  <2>1. /\ InSort /\ InSort' /\ wpc' = "moving"
        /\ UNCHANGED <<m_iTypeNum, name, exposed, m_bUseMutex>>
    BY <1>11 DEF SortCompare, SortMove
  <2>2. Alone
    BY <2>1
  <2>3. Table' = Table
    BY <1>11, <1>i, <1>j, <2>2, ComparingFindsPlaces, MovingKeepsTable
  <2>4. Table'[m_iTypeNum' - 1] = OneCall'
    BY <2>1, <2>2, <2>3 DEF OneCall
  <2> QED
    BY <2>1, <2>4
<1>12. CASE SortEnd
  BY <1>12 DEF SortEnd
<1>13. CASE TimerFires \/ UNCHANGED vars
  <2>1. UNCHANGED <<m_bUseMutex, m_iTypeNum, m_astTypeInfo, wpc, name, slot, temp, left, held>>
    BY <1>13 DEF TimerFires, worker, sorting, vars
  <2>2. Alone
    <3>1. CASE TimerFires
      <4>1. exposed'
        BY <2>1, <3>1 DEF TimerFires
      <4> QED
        BY <2>1, <4>1
    <3>2. CASE UNCHANGED vars
      BY <2>1, <3>2 DEF vars
    <3> QED
      BY <1>13, <3>1, <3>2
  <2>3. Table' = Table /\ OneCall' = OneCall
    BY <2>1 DEF Table, OneCall
  <2> QED
    BY <2>1, <2>2, <2>3
<1>14. CASE TimerStep
  <2>1. UNCHANGED <<wpc, exposed, m_bUseMutex>>
    BY <1>14 DEF TimerStep, LockWrite, WriteRow, EndWrite, LockClear, ClearNum, ClearRow,
      EndClear, worker
  <2> QED
    BY <1>14, <1>i, <2>1, AloneIsAlone
<1> QED
  BY <1>1, <1>2, <1>3, <1>4, <1>5, <1>6, <1>7, <1>8, <1>9, <1>10, <1>11, <1>12, <1>13, <1>14
  DEF Next, WorkerStep

LEMMA WorkerInAnyRace ==
  ASSUME TableTypes, InAnyRace, (\E n \in Names : CallAddStat(n)) \/ WorkerStep
  PROVE  InAnyRace'
<1> USE DEF InAnyRace, table
<1>0. TypeOK /\ RoomIsLeft /\ TYPE_NUM \in Nat
  BY CStatisticAssumption DEF TableTypes
<1>t. m_astTypeInfo \in [Slots -> Row] /\ m_iTypeNum \in Int /\ slot \in Int
  BY <1>0 DEF TypeOK
<1>1. CASE \E n \in Names : CallAddStat(n)
  BY <1>1 DEF CallAddStat
<1>2. CASE LockAdd \/ Found \/ NotFound \/ Refused \/ ReturnAdd
  BY <1>2 DEF LockAdd, Found, NotFound, Refused, ReturnAdd
<1>3. CASE CheckRoom
  BY <1>t, <1>3 DEF CheckRoom
<1>4. CASE LoadRow
  <2>1. wpc = "load" /\ wpc' = "store" /\ temp' = m_astTypeInfo[slot]
        /\ UNCHANGED <<m_astTypeInfo, m_iTypeNum, slot>>
    BY <1>4 DEF LoadRow
  <2>2. m_astTypeInfo[slot].all \in Nat
    <3>1. slot \in Slots
      BY <1>0, <2>1 DEF TypeOK, Slots
    <3> QED
      BY <1>t, <3>1 DEF Row
  <2> QED
    BY <2>1, <2>2
<1>5. CASE StoreRow \/ StoreNum \/ SortCompare \/ SortMove \/ SortEnd
  BY <1>5 DEF StoreRow, StoreNum, SortCompare, SortMove, SortEnd
<1>6. CASE FillName
  <2>1. wpc = "fill" /\ wpc' = "first" /\ slot' \in Reread /\ UNCHANGED m_iTypeNum
    BY <1>6 DEF FillName
  <2> QED
    BY <1>t, <2>1 DEF Reread
<1>7. CASE FillCounters
  BY <1>7 DEF FillCounters
<1>8. CASE LoadNum
  BY <1>t, <1>8 DEF LoadNum
<1> QED
  BY <1>1, <1>2, <1>3, <1>4, <1>5, <1>6, <1>7, <1>8 DEF WorkerStep

LEMMA TimerInAnyRace ==
  ASSUME TableTypes, InAnyRace, TimerFires \/ TimerStep
  PROVE  InAnyRace'
<1> USE DEF InAnyRace
<1>0. TypeOK /\ TYPE_NUM \in Nat
  BY CStatisticAssumption DEF TableTypes
<1>t. slot \in Nat /\ temp.all \in Nat
  BY <1>0 DEF TypeOK, Row
<1>1. CASE TimerFires \/ LockWrite \/ WriteRow \/ EndWrite \/ LockClear \/ EndClear
  BY <1>1 DEF TimerFires, LockWrite, WriteRow, EndWrite, LockClear, EndClear, table, worker
<1>2. CASE ClearNum
  BY <1>t, <1>2 DEF ClearNum, worker
<1>3. CASE ClearRow
  <2>1. /\ m_astTypeInfo' = [m_astTypeInfo EXCEPT ![row] = Blank]
        /\ UNCHANGED <<m_iTypeNum, wpc, slot, temp>>
    BY <1>3 DEF ClearRow, worker
  <2>2. wpc = "store" => m_astTypeInfo'[slot].all <= temp.all
    <3> SUFFICES ASSUME wpc = "store" PROVE m_astTypeInfo'[slot].all <= temp.all
      OBVIOUS
    <3>1. slot \in Slots
      BY <1>0 DEF TypeOK, Slots
    <3>2. m_astTypeInfo'[slot] = Blank \/ m_astTypeInfo'[slot] = m_astTypeInfo[slot]
      BY <1>0, <2>1, <3>1 DEF TypeOK
    <3> QED
      BY <1>t, <3>2 DEF Blank
  <2> QED
    BY <2>1, <2>2
<1> QED
  BY <1>1, <1>2, <1>3 DEF TimerStep
-----------------------------------------------------------------------------
(* The table: what is due *)

(* The rows the next lines of the log will be of; a row is one of them when *)
(* its call is through with it, after the sort.                             *)
First == IF tpc \in {"sleep", "write"} THEN 0 ELSE IF tpc = "rows" THEN row ELSE m_iTypeNum
Last == IF InSort THEN m_iTypeNum - 1 ELSE m_iTypeNum
Waiting == First..(Last - 1)
Due(n) == Cardinality(Marks(Table, Waiting, n))
InHand(n) == IF wpc = "done" /\ name = n THEN 1 ELSE 0

LEMMA WaitingRows ==
  ASSUME NEW num \in 0..TYPE_NUM, NEW first \in Nat, NEW last \in Int, last <= num
  PROVE  first..(last - 1) \in SUBSET Slots /\ \A s \in first..(last - 1) : s < num
BY CStatisticAssumption DEF Slots

LEMMA RowsWaiting ==
  ASSUME TableTypes
  PROVE  /\ Waiting \in SUBSET Slots /\ \A s \in Waiting : s < m_iTypeNum
         /\ \A n : Due(n) \in Nat
<1>1. m_astTypeInfo \in [Slots -> Row] /\ m_iTypeNum \in 0..TYPE_NUM /\ row \in 0..TYPE_NUM
  BY DEF TableTypes, TypeOK
<1>2. m_iTypeNum \in Nat /\ row \in Nat
  BY <1>1, CStatisticAssumption
<1>3. First \in Nat /\ Last \in Int /\ Last <= m_iTypeNum
  BY <1>2 DEF First, Last
<1>4. Waiting \in SUBSET Slots /\ \A s \in Waiting : s < m_iTypeNum
  BY <1>1, <1>3, WaitingRows DEF Waiting
<1>5. Table \in [Slots -> Row]
  BY TableIsATable DEF TableTypes
<1> QED
  BY <1>4, <1>5, MarksAreFinite DEF Due

LEMMA DueTypes ==
  ASSUME TableTypes, [Next]_vars
  PROVE  /\ m_astTypeInfo \in [Slots -> Row] /\ m_astTypeInfo' \in [Slots -> Row]
         /\ m_iTypeNum \in 0..TYPE_NUM /\ m_iTypeNum' \in 0..TYPE_NUM
         /\ m_iTypeNum \in Int /\ m_iTypeNum' \in Int /\ row \in Nat /\ slot \in Nat
         /\ Waiting \in SUBSET Slots /\ Waiting' \in SUBSET Slots
         /\ \A s \in Waiting : s < m_iTypeNum
         /\ \A n : Due(n) \in Nat /\ Due(n)' \in Nat
<1>1. /\ m_astTypeInfo \in [Slots -> Row] /\ m_iTypeNum \in 0..TYPE_NUM /\ row \in 0..TYPE_NUM
      /\ slot \in 0..TYPE_NUM
  BY DEF TableTypes, TypeOK
<1>2. m_astTypeInfo' \in [Slots -> Row] /\ m_iTypeNum' \in 0..TYPE_NUM /\ row' \in 0..TYPE_NUM
  BY TypesStep DEF TableTypes, TypeOK
<1>3. /\ m_iTypeNum \in Int /\ m_iTypeNum' \in Int /\ m_iTypeNum' >= 0
      /\ row \in Nat /\ row' \in Nat /\ slot \in Nat
  BY <1>1, <1>2, CStatisticAssumption
<1>4. First' \in Nat
  BY <1>3 DEF First
<1>5. Last' \in Int /\ Last' <= m_iTypeNum'
  <2>1. Last' = m_iTypeNum' \/ Last' = m_iTypeNum' - 1
    BY DEF Last
  <2> QED
    BY <1>3, <2>1
<1>6. Waiting' \in SUBSET Slots
  BY <1>2, <1>4, <1>5, WaitingRows DEF Waiting
<1>7. \A n : Due(n)' \in Nat
  <2>1. Table' \in [Slots -> Row]
    <3>1. TypeOK'
      BY TypesStep DEF TableTypes
    <3>2. (TypeOK => Table \in [Slots -> Row])'
      BY TableIsATable, PTL
    <3> QED
      BY <3>1, <3>2
  <2> QED
    BY <1>6, <2>1, MarksAreFinite DEF Due
<1> QED
  BY <1>1, <1>2, <1>3, <1>6, <1>7, RowsWaiting

LEMMA SameWaiting ==
  ASSUME UNCHANGED <<m_iTypeNum, tpc, row>>, InSort <=> InSort'
  PROVE  Waiting' = Waiting
BY DEF Waiting, First, Last

(* What a step of AddStat does to what is due, but for its last one. *)
Booked(n) ==
  /\ Due(n)' >= Due(n) + IF exposed THEN 0 ELSE InHand(n)'
  /\ m_bUseMutex => Due(n)' <= Due(n) + InHand(n)'

TableInvs == TableOrderInv /\ Undisturbed /\ InAnyRace

LEMMA NothingBooked ==
  ASSUME TableInvs, [Next]_vars, NEW n, InHand(n)' = 0, Table' = Table, Waiting' = Waiting
  PROVE  Booked(n)
<1>1. Due(n)' = Due(n)
  BY DEF Due
<1>2. Due(n) \in Nat
  BY DueTypes DEF TableInvs, TableOrderInv
<1> QED
  BY <1>1, <1>2 DEF Booked

LEMMA DueInTheTable ==
  ASSUME TableTypes, [Next]_vars
  PROVE  /\ wpc # "moving" =>
              Table = m_astTypeInfo
                /\ \A n : Due(n) = Cardinality(Marks(m_astTypeInfo, Waiting, n))
         /\ wpc' # "moving" =>
              Table' = m_astTypeInfo'
                /\ \A n : Due(n)' = Cardinality(Marks(m_astTypeInfo', Waiting', n))
<1>1. TypeOK /\ TypeOK'
  BY TypesStep DEF TableTypes
<1>2. wpc # "moving" => Table = m_astTypeInfo
  BY <1>1, TableIsATable
<1>3. (TypeOK /\ wpc # "moving" => Table = m_astTypeInfo)'
  BY TableIsATable, PTL
<1> QED
  BY <1>1, <1>2, <1>3 DEF Due

LEMMA RowsAddedBook ==
  ASSUME TableInvs, FillName \/ FillCounters, NEW n
  PROVE  Booked(n)
<1>1. [Next]_vars /\ TableTypes
  BY DEF Next, WorkerStep, TableInvs, TableOrderInv
<1>2. InHand(n)' = 0
  BY DEF FillName, FillCounters, InHand
<1>3. Waiting' = Waiting
  BY SameWaiting DEF FillName, FillCounters, timer, InSort
<1>4. PICK q \in Reread : \A s \in Slots : s # q => m_astTypeInfo'[s] = m_astTypeInfo[s]
  <2>1. m_astTypeInfo \in [Slots -> Row]
    BY <1>1, DueTypes
  <2> QED
    BY <2>1 DEF FillName, FillCounters
<1>5. q \in Int /\ q >= m_iTypeNum
  <2>1. slot >= m_iTypeNum /\ slot \in Int /\ m_iTypeNum \in Int
    BY <1>1, DueTypes DEF FillName, FillCounters, TableInvs, InAnyRace
  <2> QED
    BY <2>1 DEF Reread
<1>6. Alike(m_astTypeInfo', m_astTypeInfo, Waiting)
  <2>1. \A s \in Waiting : s \in Slots /\ s < m_iTypeNum /\ m_iTypeNum \in Int
    BY <1>1, DueTypes
  <2>2. \A s \in Waiting : s # q
    <3>1. \A s \in Slots : s \in Int
      BY DEF Slots
    <3> QED
      BY <1>5, <2>1, <3>1
  <2> QED
    BY <1>4, <2>1, <2>2 DEF Alike
<1>7. Marks(m_astTypeInfo', Waiting, n) = Marks(m_astTypeInfo, Waiting, n)
  BY <1>6, SameRowsSameMarks
<1>8. Due(n)' = Due(n)
  <2>1. wpc # "moving" /\ wpc' # "moving"
    BY DEF FillName, FillCounters
  <2> QED
    BY <1>1, <1>3, <1>7, <2>1, DueInTheTable
<1>9. Due(n) \in Nat
  BY <1>1, DueTypes
<1> QED
  BY <1>2, <1>8, <1>9 DEF Booked

(* Nobody else is in the table: all of it is waiting, or none. *)
LEMMA AllIsWaiting ==
  ASSUME TableInvs, Alone, wpc \notin {"idle", "lock"}
  PROVE  First \in {0, m_iTypeNum} /\ (~exposed => First = 0)
<1>1. m_bUseMutex => tpc \in {"sleep", "write", "clear"}
  BY DEF TableInvs, TableOrderInv, OwnerIsWithin, TableTypes, TypeOK
<1>2. ~exposed => tpc = "sleep"
  BY DEF TableInvs, TableOrderInv, UnexposedIsAlone
<1> QED
  BY <1>1, <1>2 DEF Alone, First

LEMMA StoreRowBooks ==
  ASSUME TableInvs, StoreRow, NEW n \in Names
  PROVE  Booked(n)
<1>1. [Next]_vars /\ TableTypes
  BY DEF Next, WorkerStep, TableInvs, TableOrderInv
<1>2. /\ wpc = "store" /\ wpc' = "done" /\ name' = name
      /\ UNCHANGED <<m_iTypeNum, tpc, row, exposed>>
      /\ m_astTypeInfo' = [m_astTypeInfo EXCEPT ![slot] = Counted(m_astTypeInfo[slot], temp.all)]
  BY DEF StoreRow, timer, history
<1>3. Waiting' = Waiting
  BY <1>2, SameWaiting DEF InSort
<1>a. /\ Due(n) = Cardinality(Marks(m_astTypeInfo, Waiting, n))
      /\ Due(n)' = Cardinality(Marks(m_astTypeInfo', Waiting', n))
  BY <1>1, <1>2, DueInTheTable
<1>4. slot \in Slots /\ temp.all \in Nat /\ slot \in Nat
  <2>1. slot \in 0..TYPE_NUM /\ slot < TYPE_NUM /\ temp \in Row
    BY <1>1, <1>2 DEF TableTypes, TypeOK
  <2> QED
    BY <2>1, CStatisticAssumption DEF Slots, Row
<1>5. /\ m_astTypeInfo \in [Slots -> Row] /\ m_astTypeInfo' \in [Slots -> Row]
      /\ Waiting \in SUBSET Slots /\ Due(n) \in Nat /\ m_iTypeNum \in Nat
  BY <1>1, DueTypes
<1>6. /\ m_astTypeInfo'[slot].name = m_astTypeInfo[slot].name
      /\ m_astTypeInfo'[slot].all = temp.all + 1
      /\ \A q \in Slots : q # slot => m_astTypeInfo'[q] = m_astTypeInfo[q]
  <2>1. m_astTypeInfo[slot] \in Row
    BY <1>4, <1>5
  <2>2. m_astTypeInfo'[slot] = Counted(m_astTypeInfo[slot], temp.all)
    BY <1>2, <1>4, <1>5
  <2>3. \A q \in Slots : q # slot => m_astTypeInfo'[q] = m_astTypeInfo[q]
    BY <1>2, <1>4, <1>5
  <2>4. /\ Counted(m_astTypeInfo[slot], temp.all).name = m_astTypeInfo[slot].name
        /\ Counted(m_astTypeInfo[slot], temp.all).all = temp.all + 1
    BY <2>1 DEF Counted, Row
  <2> QED
    BY <2>2, <2>3, <2>4
<1>7. m_astTypeInfo[slot].all <= temp.all
  BY <1>2 DEF TableInvs, InAnyRace
<1>8. /\ Due(n) <= Due(n)'
      /\ m_astTypeInfo[slot].all = temp.all =>
           Due(n)' = Due(n) + IF slot \in Waiting /\ m_astTypeInfo[slot].name = n THEN 1 ELSE 0
  <2> DEFINE new == m_astTypeInfo'
  <2>1. /\ new \in [Slots -> Row] /\ new[slot].name = m_astTypeInfo[slot].name
        /\ new[slot].all = temp.all + 1
        /\ \A q \in Slots : q # slot => new[q] = m_astTypeInfo[q]
    BY <1>5, <1>6
  <2>2. Due(n)' = Cardinality(Marks(new, Waiting, n))
    BY <1>3, <1>a
  <2> HIDE DEF new
  <2>3. OneMoreAt(m_astTypeInfo, new, slot, temp.all)
    BY <1>7, <2>1 DEF OneMoreAt
  <2>4. MarkedOnceMore(m_astTypeInfo, new, slot, temp.all, Waiting, n)
    BY <1>4, <1>5, <2>1, <2>3, OneMoreCounted
  <2> QED
    BY <1>a, <2>2, <2>4 DEF MarkedOnceMore
<1>9. Alone => /\ slot < m_iTypeNum /\ m_astTypeInfo[slot].name = name
               /\ m_astTypeInfo[slot].all = temp.all
  BY <1>2 DEF TableInvs, Undisturbed
<1>10. ~exposed => slot \in Waiting
  <2>1. ~exposed => First = 0 /\ slot < m_iTypeNum
    BY <1>2, <1>9, AllIsWaiting DEF Alone
  <2> QED
    BY <1>2, <1>4, <1>5, <2>1 DEF Waiting, Last, InSort
<1>11. InHand(n)' = IF name = n THEN 1 ELSE 0
  BY <1>2 DEF InHand
<1>12. Due(n)' \in Nat
  BY <1>1, DueTypes
<1>13. m_bUseMutex => Due(n)' <= Due(n) + InHand(n)'
  BY <1>5, <1>8, <1>9, <1>11, <1>12 DEF Alone
<1>14. Due(n)' >= Due(n) + IF exposed THEN 0 ELSE InHand(n)'
  BY <1>5, <1>8, <1>9, <1>10, <1>11, <1>12 DEF Alone
<1> QED
  BY <1>13, <1>14 DEF Booked

LEMMA StoreNumBooks ==
  ASSUME TableInvs, StoreNum, NEW n \in Names
  PROVE  Booked(n)
<1>1. [Next]_vars /\ TableTypes
  BY DEF Next, WorkerStep, TableInvs, TableOrderInv
<1>2. /\ wpc = "storenum" /\ wpc' = "sort" /\ m_iTypeNum' = slot + 1
      /\ UNCHANGED <<m_astTypeInfo, tpc, row>>
  BY DEF StoreNum, timer
<1>3. /\ m_astTypeInfo \in [Slots -> Row]
      /\ Waiting \in SUBSET Slots /\ Waiting' \in SUBSET Slots /\ Due(n) \in Nat
      /\ Due(n)' \in Nat /\ m_iTypeNum \in Nat /\ slot \in Nat /\ row \in Nat
  BY <1>1, DueTypes
<1>a. /\ Due(n) = Cardinality(Marks(m_astTypeInfo, Waiting, n))
      /\ Due(n)' = Cardinality(Marks(m_astTypeInfo, Waiting', n))
  BY <1>1, <1>2, DueInTheTable
<1>4. slot >= m_iTypeNum /\ (Alone => slot = m_iTypeNum)
  BY <1>2 DEF TableInvs, InAnyRace, Undisturbed
<1>5. Last = m_iTypeNum /\ Last' = slot
  BY <1>2, <1>3 DEF Last, InSort
<1>6. Waiting \in SUBSET Waiting'
  <2>1. CASE tpc \in {"sleep", "write", "rows"}
    <3>1. First' = First /\ First \in Nat
      BY <1>2, <1>3, <2>1 DEF First
    <3> QED
      BY <1>3, <1>4, <1>5, <3>1 DEF Waiting
  <2>2. CASE tpc \notin {"sleep", "write", "rows"}
    <3>1. First = m_iTypeNum
      BY <2>2 DEF First
    <3> QED
      BY <1>3, <1>5, <3>1 DEF Waiting
  <2> QED
    BY <2>1, <2>2
<1>7. Due(n) <= Due(n)'
  <2>1. Due(n)' = Cardinality(Marks(m_astTypeInfo, Waiting', n))
    BY <1>a
  <2> DEFINE more == Waiting'
  <2>2. more \in SUBSET Slots /\ Waiting \in SUBSET more
    BY <1>3, <1>6
  <2>3. Due(n)' = Cardinality(Marks(m_astTypeInfo, more, n))
    BY <2>1
  <2> HIDE DEF more
  <2> QED
    BY <1>3, <1>a, <2>2, <2>3, MoreRowsMoreMarks
<1>8. m_bUseMutex => Due(n)' = Due(n)
  <2> SUFFICES ASSUME m_bUseMutex PROVE Waiting' = Waiting
    BY <1>a
  <2>1. tpc \in {"sleep", "write", "clear"}
    BY <1>2 DEF TableInvs, TableOrderInv, OwnerIsWithin, TableTypes, TypeOK
  <2>2. slot = m_iTypeNum
    BY <1>4 DEF Alone
  <2>3. CASE tpc = "clear"
    <3>1. First = m_iTypeNum /\ First' = slot + 1
      BY <1>2, <2>3 DEF First
    <3> QED
      BY <1>3, <1>5, <3>1 DEF Waiting
  <2>4. CASE tpc \in {"sleep", "write"}
    <3>1. First = 0 /\ First' = 0
      BY <1>2, <2>4 DEF First
    <3> QED
      BY <1>5, <2>2, <3>1 DEF Waiting
  <2> QED
    BY <2>1, <2>3, <2>4
<1>9. InHand(n)' = 0
  BY <1>2 DEF InHand
<1> QED
  BY <1>3, <1>7, <1>8, <1>9 DEF Booked

(* Of all rows qsort leaves exactly those it found. *)
LEMMA SortKeepsAllMarks ==
  ASSUME NEW tab \in [Slots -> Row], NEW num \in 0..TYPE_NUM, num > 0,
         NEW new \in [Slots -> Row], \A s \in 0..(num - 1) : new[s] = SortedRows(tab, num)[s],
         NEW n
  PROVE  Cardinality(Marks(new, 0..(num - 1), n)) =
           Cardinality(Marks(tab, 0..(num - 2), n)) +
             IF tab[num - 1].name = n THEN tab[num - 1].all ELSE 0
<1> DEFINE U == 0..(num - 1)
           rest == 0..(num - 2)
           last == num - 1
<1>1. num \in Int
  BY CStatisticAssumption
<1>2. U \in SUBSET Slots /\ rest \in SUBSET Slots
  BY <1>1, CStatisticAssumption DEF Slots
<1>3. last \in Slots \ rest /\ rest \cup {last} = U
  BY <1>1, CStatisticAssumption DEF Slots
<1>4. \A a \in U : RankIn(tab, num, a) \in U
  BY RowsAtTheirRank
<1>5. \A s \in U : \E a \in U : RankIn(tab, num, a) = s
  BY SortedRowsAreRows
<1>6. \A s \in U : new[s] = SortedRows(tab, num)[s]
  OBVIOUS
<1>7. Cardinality(Marks(new, U, n)) = Cardinality(Marks(tab, U, n))
  <2> DEFINE rows == U
  <2>1. rows \in SUBSET (0..(num - 1)) /\ \A a \in rows : RankIn(tab, num, a) \in rows
    BY <1>4
  <2>2. \A s \in rows : \E a \in rows : RankIn(tab, num, a) = s
    BY <1>5
  <2> HIDE DEF rows
  <2>3. Cardinality(Marks(new, rows, n)) = Cardinality(Marks(tab, rows, n))
    BY <2>1, <2>2, MarksMove
  <2> QED
    BY <2>3 DEF rows
<1> HIDE DEF U, rest, last
<1>8. Cardinality(Marks(tab, rest \cup {last}, n)) =
        Cardinality(Marks(tab, rest, n)) + IF tab[last].name = n THEN tab[last].all ELSE 0
  BY <1>2, <1>3, OneMoreRow
<1> QED
  BY <1>3, <1>7, <1>8 DEF U, rest, last

LEMMA SortEndBooks ==
  ASSUME TableInvs, SortEnd, ~torn, NEW n \in Names
  PROVE  Booked(n)
<1> DEFINE old == Table
           num == m_iTypeNum
           new == m_astTypeInfo
<1>1. [Next]_vars /\ TableTypes /\ SortInv
  BY DEF Next, WorkerStep, TableInvs, TableOrderInv
<1>2. /\ wpc = "moving" /\ wpc' = "done" /\ name' = name
      /\ UNCHANGED <<m_astTypeInfo, m_iTypeNum, tpc, row>>
  BY DEF SortEnd, table, timer
<1>3. /\ old \in [Slots -> Row] /\ new \in [Slots -> Row] /\ num \in 0..TYPE_NUM
      /\ num \in Int /\ num > 0 /\ row \in Nat
      /\ Due(n) \in Nat /\ Due(n)' \in Nat
  <2>1. num > 0
    BY <1>1, <1>2 DEF SortInv, InSort
  <2>2. old \in [Slots -> Row]
    BY <1>1, TableIsATable DEF TableTypes
  <2> QED
    BY <1>1, <2>1, <2>2, DueTypes
<1>4. /\ Due(n) = Cardinality(Marks(old, First..(num - 2), n))
      /\ Due(n)' = Cardinality(Marks(new, First..(num - 1), n))
  <2>1. First' = First /\ Last = num - 1 /\ Last' = num /\ Last - 1 = num - 2
    BY <1>2, <1>3 DEF First, Last, InSort
  <2>2. Due(n)' = Cardinality(Marks(new, Waiting', n))
    BY <1>1, <1>2, DueInTheTable
  <2> QED
    BY <2>1, <2>2 DEF Due, Waiting
<1>5. InHand(n)' = IF name = n THEN 1 ELSE 0
  BY <1>2 DEF InHand
<1>6. \A s \in 0..(num - 1) : new[s] = SortedRows(old, num)[s]
  BY <1>1, SortedInTheEnd
<1>7. First = 0 \/ (m_bUseMutex /\ First = num)
  <2>1. m_bUseMutex => tpc \in {"sleep", "write", "clear"}
    BY <1>2 DEF TableInvs, TableOrderInv, OwnerIsWithin, TableTypes, TypeOK
  <2>2. m_bUseMutex \/ tpc = "sleep"
    BY <1>1, <1>2 DEF SortInv, InSort
  <2> QED
    BY <2>1, <2>2 DEF First
<1>8. Alone => /\ old[num - 1].name = name /\ old[num - 1].all = 1
               /\ (~exposed => First = 0)
  <2>1. Alone => old[num - 1] = OneCall
    BY <1>2 DEF TableInvs, Undisturbed, InSort
  <2>2. ~exposed => tpc = "sleep"
    BY <1>2 DEF TableInvs, TableOrderInv, UnexposedIsAlone
  <2> QED
    BY <2>1, <2>2 DEF OneCall, First
<1> HIDE DEF old, num, new
<1>9. First = 0 =>
        Due(n)' = Due(n) + IF old[num - 1].name = n THEN old[num - 1].all ELSE 0
  <2>1. Cardinality(Marks(new, 0..(num - 1), n)) =
          Cardinality(Marks(old, 0..(num - 2), n)) +
            IF old[num - 1].name = n THEN old[num - 1].all ELSE 0
    BY <1>3, <1>6, SortKeepsAllMarks
  <2> QED
    BY <1>4, <2>1
<1>10. First = num => Due(n)' = 0 /\ Due(n) = 0
  <2>1. First = num => First..(num - 1) = {} /\ First..(num - 2) = {}
    BY <1>3
  <2> QED
    BY <1>4, <2>1, NoRowsNoMarks, FS_EmptySet
<1>11. old[num - 1].all \in Nat
  <2>1. num - 1 \in Slots
    BY <1>3, CStatisticAssumption DEF Slots
  <2> QED
    BY <1>3, <2>1 DEF Row
<1>12. m_bUseMutex => Due(n)' <= Due(n) + InHand(n)'
  <2>1. CASE First = 0
    BY <1>3, <1>5, <1>8, <1>9, <2>1 DEF Alone
  <2>2. CASE First = num
    BY <1>5, <1>10, <2>2
  <2> QED
    BY <1>7, <2>1, <2>2
<1>13. Due(n)' >= Due(n) + IF exposed THEN 0 ELSE InHand(n)'
  <2>1. CASE First = 0
    BY <1>3, <1>5, <1>8, <1>9, <1>11, <2>1 DEF Alone
  <2>2. CASE m_bUseMutex /\ First = num
    <3>1. exposed
      BY <1>3, <1>8, <2>2 DEF Alone
    <3> QED
      BY <1>10, <2>2, <3>1
  <2> QED
    BY <1>7, <2>1, <2>2
<1> QED
  BY <1>12, <1>13 DEF Booked

LEMMA WorkerBooks ==
  ASSUME TableInvs, WorkerStep, wpc # "done", ~torn', NEW n \in Names
  PROVE  Booked(n)
<1>1. [Next]_vars /\ TableTypes /\ SortInv
  BY DEF Next, TableInvs, TableOrderInv
<1>2. CASE LockAdd \/ Found \/ NotFound \/ LoadRow \/ Refused \/ CheckRoom \/ LoadNum
  <2>1. UNCHANGED <<m_astTypeInfo, m_iTypeNum, tpc, row>>
    BY <1>2 DEF LockAdd, Found, NotFound, LoadRow, Refused, CheckRoom, LoadNum, table, timer
  <2>2. wpc' # "done" /\ ~InSort /\ ~InSort' /\ wpc # "moving" /\ wpc' # "moving"
    BY <1>2 DEF LockAdd, Found, NotFound, LoadRow, Refused, CheckRoom, LoadNum, InSort
  <2>3. Waiting' = Waiting /\ InHand(n)' = 0
    BY <2>1, <2>2, SameWaiting DEF InHand
  <2>4. Table' = Table
    BY <1>1, <2>1, <2>2, DueInTheTable
  <2> QED
    BY <1>1, <2>3, <2>4, NothingBooked
<1>3. CASE SortCompare \/ SortMove
  <2>1. UNCHANGED <<m_iTypeNum, tpc, row, torn>> /\ InSort /\ InSort' /\ wpc' = "moving"
    BY <1>3 DEF SortCompare, SortMove, table, timer, history, InSort
  <2>2. Table' = Table
    BY <1>1, <1>3, <2>1, ComparingFindsPlaces, MovingKeepsTable
  <2>3. Waiting' = Waiting /\ InHand(n)' = 0
    BY <2>1, SameWaiting DEF InHand
  <2> QED
    BY <1>1, <2>2, <2>3, NothingBooked
<1>4. CASE SortEnd
  <2>1. ~torn
    BY <1>4 DEF SortEnd, history
  <2> QED
    BY <1>4, <2>1, SortEndBooks
<1>5. CASE ReturnAdd
  BY <1>5 DEF ReturnAdd
<1> QED
  BY <1>2, <1>3, <1>4, <1>5, RowsAddedBook, StoreRowBooks, StoreNumBooks DEF WorkerStep

(* What a step of the report does to what is reported and due. *)
Moved(n) ==
  /\ reported'[n] + Due(n)' >= reported[n] + Due(n)
  /\ m_bUseMutex => reported'[n] + Due(n)' <= reported[n] + Due(n)

LEMMA SameDueIsMoved ==
  ASSUME TypeOK, reported' = reported, NEW n \in Names, Due(n) \in Nat, Due(n)' = Due(n)
  PROVE  Moved(n)
<1>1. reported[n] \in Nat
  BY DEF TypeOK
<1> QED
  BY <1>1 DEF Moved

LEMMA EmptyIsNotDue ==
  \A n : /\ Waiting = {} => Due(n) = 0
         /\ Waiting' = {} => Due(n)' = 0
BY NoRowsNoMarks, FS_EmptySet DEF Due

(* While the report is in the table, no qsort is but one it has met. *)
LEMMA NoSortInTheReport ==
  ASSUME TableInvs, TimerStep, ~torn'
  PROVE  /\ ~InSort /\ UNCHANGED <<wpc, torn>> /\ Last = m_iTypeNum /\ Last' = m_iTypeNum'
         /\ \A n : /\ Due(n) = Cardinality(Marks(m_astTypeInfo, Waiting, n))
                   /\ Due(n)' = Cardinality(Marks(m_astTypeInfo', Waiting', n))
<1>1. UNCHANGED <<wpc, torn>>
  BY DEF TimerStep, LockWrite, WriteRow, EndWrite, LockClear, ClearNum, ClearRow, EndClear,
    worker, history
<1>2. ~InSort
  BY <1>1, SorterIsAlone DEF TableInvs, TableOrderInv
<1>3. Last = m_iTypeNum /\ Last' = m_iTypeNum' /\ wpc # "moving" /\ wpc' # "moving"
  BY <1>1, <1>2 DEF Last, InSort
<1>4. [Next]_vars /\ TableTypes
  BY DEF Next, TableInvs, TableOrderInv
<1> QED
  BY <1>1, <1>2, <1>3, <1>4, DueInTheTable

LEMMA WriteRowMoves ==
  ASSUME TableInvs, WriteRow, ~torn', NEW n \in Names
  PROVE  Moved(n)
<1> DEFINE r == m_astTypeInfo[row]
           rest == Waiting'
<1>1. [Next]_vars /\ TableTypes /\ TypeOK /\ TimerStep
  BY DEF Next, TimerStep, TableInvs, TableOrderInv, TableTypes
<1>2. /\ tpc = "rows" /\ tpc' = "rows" /\ row < m_iTypeNum /\ row' = row + 1
      /\ UNCHANGED <<m_astTypeInfo, m_iTypeNum>>
      /\ reported' = IF r.name = 0 THEN reported
                     ELSE [reported EXCEPT ![r.name] = reported[r.name] + r.all]
  BY DEF WriteRow, table
<1>3. /\ m_astTypeInfo \in [Slots -> Row] /\ m_iTypeNum \in 0..TYPE_NUM /\ m_iTypeNum \in Int
      /\ row \in Nat /\ Waiting \in SUBSET Slots /\ rest \in SUBSET Slots
      /\ Due(n) \in Nat /\ Due(n)' \in Nat
  BY <1>1, DueTypes
<1>4. row \in Slots
  BY <1>2, <1>3, CStatisticAssumption DEF Slots
<1>5. r \in Row /\ r.all \in Nat /\ reported \in [Names -> Nat] /\ n # 0
  <2>1. r \in Row
    BY <1>3, <1>4
  <2> QED
    BY <1>1, <2>1, CStatisticAssumption DEF Row, TypeOK
<1>6. reported[n] \in Nat /\ reported'[n] = reported[n] + IF r.name = n THEN r.all ELSE 0
  BY <1>2, <1>5
<1>7. Last = m_iTypeNum /\ Last' = m_iTypeNum
  BY <1>1, <1>2, NoSortInTheReport
<1>8. Waiting = row..(m_iTypeNum - 1) /\ rest = (row + 1)..(m_iTypeNum - 1)
  BY <1>2, <1>7 DEF Waiting, First
<1>9. /\ Due(n) = Cardinality(Marks(m_astTypeInfo, Waiting, n))
      /\ Due(n)' = Cardinality(Marks(m_astTypeInfo, rest, n))
  BY <1>1, <1>2, NoSortInTheReport
<1>10. row \in Slots \ rest /\ rest \cup {row} = Waiting
  BY <1>2, <1>3, <1>4, <1>8
<1> HIDE DEF rest, r
<1>11. Cardinality(Marks(m_astTypeInfo, rest \cup {row}, n)) =
         Cardinality(Marks(m_astTypeInfo, rest, n)) +
           IF m_astTypeInfo[row].name = n THEN m_astTypeInfo[row].all ELSE 0
  BY <1>3, <1>10, OneMoreRow
<1>12. Due(n) = Due(n)' + IF r.name = n THEN r.all ELSE 0
  BY <1>9, <1>10, <1>11 DEF r
<1> QED
  BY <1>3, <1>5, <1>6, <1>12 DEF Moved

LEMMA TimerMoves ==
  ASSUME TableInvs, TimerFires \/ TimerStep, ~torn', NEW n \in Names
  PROVE  Moved(n)
<1>1. [Next]_vars /\ TableTypes /\ TypeOK
  BY DEF Next, TableInvs, TableOrderInv, TableTypes
<1>2. /\ m_iTypeNum \in Int /\ m_iTypeNum' \in Int /\ row \in Nat
      /\ Due(n) \in Nat /\ Due(n)' \in Nat /\ reported[n] \in Nat
  BY <1>1, DueTypes DEF TypeOK
<1>3. ASSUME TimerStep, Waiting' = Waiting, UNCHANGED <<m_astTypeInfo, reported>> PROVE Moved(n)
  <2>1. Due(n)' = Due(n)
    BY <1>3, NoSortInTheReport
  <2> QED
    BY <1>1, <1>2, <1>3, <2>1, SameDueIsMoved
<1>4. ASSUME Waiting = {}, Waiting' = {}, UNCHANGED reported PROVE Moved(n)
  <2>1. Due(n)' = Due(n)
    BY <1>4, EmptyIsNotDue
  <2> QED
    BY <1>1, <1>2, <1>4, <2>1, SameDueIsMoved
<1>5. TimerStep => Last = m_iTypeNum /\ Last' = m_iTypeNum'
  BY NoSortInTheReport
<1>6. CASE TimerFires
  <2>1. /\ tpc = "sleep" /\ tpc' = IF m_iTypeNum = 0 THEN "clear" ELSE "write"
        /\ UNCHANGED <<m_iTypeNum, m_astTypeInfo, wpc, slot, left, held, reported>>
    BY <1>6 DEF TimerFires, table, worker, sorting
  <2>2. First = 0 /\ First' = 0 /\ Last' = Last
    BY <2>1 DEF First, Last, InSort
  <2>3. Table' = Table /\ Waiting' = Waiting
    BY <2>1, <2>2 DEF Table, Waiting
  <2>4. Due(n)' = Due(n)
    BY <2>3 DEF Due
  <2> QED
    BY <1>1, <1>2, <2>1, <2>4, SameDueIsMoved
<1>7. CASE LockWrite
  <2>1. /\ tpc = "write" /\ tpc' = "rows" /\ row' = 0
        /\ UNCHANGED <<m_iTypeNum, m_astTypeInfo, reported>> /\ TimerStep
    BY <1>7 DEF LockWrite, table, history, TimerStep
  <2>2. First = 0 /\ First' = 0 /\ Last' = Last
    BY <1>5, <2>1 DEF First
  <2> QED
    BY <1>3, <2>1, <2>2 DEF Waiting
<1>8. CASE WriteRow
  BY <1>8, WriteRowMoves
<1>9. CASE EndWrite
  <2>1. /\ tpc = "rows" /\ tpc' = "clear" /\ row >= m_iTypeNum
        /\ UNCHANGED <<m_iTypeNum, reported>> /\ TimerStep
    BY <1>9 DEF EndWrite, table, history, TimerStep
  <2>2. First = row /\ First' = m_iTypeNum
    BY <2>1 DEF First
  <2>3. Waiting = {} /\ Waiting' = {}
    BY <1>2, <1>5, <2>1, <2>2 DEF Waiting
  <2> QED
    BY <1>4, <2>1, <2>3
<1>10. CASE LockClear \/ ClearNum \/ ClearRow
  <2>1. /\ tpc \in {"clear", "num", "memset"} /\ tpc' \in {"num", "memset"}
        /\ UNCHANGED reported /\ TimerStep
    BY <1>10 DEF LockClear, ClearNum, ClearRow, history, TimerStep
  <2>2. First = m_iTypeNum /\ First' = m_iTypeNum'
    BY <2>1 DEF First
  <2>3. Waiting = {} /\ Waiting' = {}
    BY <1>2, <1>5, <2>1, <2>2 DEF Waiting
  <2> QED
    BY <1>4, <2>1, <2>3
<1>11. CASE EndClear
  <2>1. /\ tpc = "memset" /\ tpc' = "sleep"
        /\ UNCHANGED <<m_bUseMutex, m_iTypeNum, reported>> /\ TimerStep
    BY <1>11 DEF EndClear, table, history, TimerStep
  <2>2. First = m_iTypeNum /\ First' = 0
    BY <2>1 DEF First
  <2>3. Due(n) = 0
    <3>1. Waiting = {}
      BY <1>2, <1>5, <2>1, <2>2 DEF Waiting
    <3> QED
      BY <3>1, EmptyIsNotDue
  <2>4. m_bUseMutex => Due(n)' = 0
    <3>1. m_bUseMutex => m_iTypeNum = 0
      BY <2>1 DEF TableInvs, TableOrderInv, RowsInOrder
    <3>2. m_bUseMutex => Waiting' = {}
      BY <1>2, <1>5, <2>1, <2>2, <3>1 DEF Waiting
    <3> QED
      BY <3>2, EmptyIsNotDue
  <2> QED
    BY <1>2, <2>1, <2>3, <2>4 DEF Moved
<1> QED
  BY <1>6, <1>7, <1>8, <1>9, <1>10, <1>11 DEF TimerStep
-----------------------------------------------------------------------------
(* The table: calls are reported once *)
AtMost ==
  m_bUseMutex => \A n \in Names : reported[n] + Due(n) <= called[n] + InHand(n)

AtLeast ==
  ~torn => \A n \in Names :
    reported[n] + Due(n) >= called[n] - excused[n] + IF exposed THEN 0 ELSE InHand(n)

AccountsInv == TableInvs /\ AtMost /\ AtLeast

LEMMA AccountTypes ==
  ASSUME AccountsInv, [Next]_vars, NEW n \in Names
  PROVE  /\ reported[n] \in Nat /\ reported'[n] \in Nat /\ called[n] \in Nat
         /\ called'[n] \in Nat /\ excused[n] \in Nat /\ excused'[n] \in Nat
         /\ Due(n) \in Nat /\ Due(n)' \in Nat
         /\ InHand(n) \in {0, 1} /\ InHand(n)' \in {0, 1}
<1>1. TableTypes
  BY DEF AccountsInv, TableInvs, TableOrderInv
<1>2. TypeOK /\ TypeOK'
  BY <1>1, TypesStep DEF TableTypes
<1>3. reported[n] \in Nat /\ called[n] \in Nat /\ excused[n] \in Nat
  BY <1>2 DEF TypeOK
<1>4. reported'[n] \in Nat /\ called'[n] \in Nat /\ excused'[n] \in Nat
  BY <1>2 DEF TypeOK
<1>5. Due(n) \in Nat /\ Due(n)' \in Nat
  BY <1>1, DueTypes
<1> QED
  BY <1>3, <1>4, <1>5 DEF InHand

LEMMA SameTableSameDue ==
  ASSUME TypeOK, UNCHANGED m_astTypeInfo, wpc # "moving", wpc' # "moving", Waiting' = Waiting,
         NEW n
  PROVE  Due(n)' = Due(n)
<1>1. Table = [s \in Slots |-> m_astTypeInfo[s]] /\ Table' = [s \in Slots |-> m_astTypeInfo[s]]
  BY DEF Table
<1> QED
  BY <1>1 DEF Due

LEMMA AtMostStep ==
  ASSUME AccountsInv, m_bUseMutex, [Next]_vars, NEW n \in Names
  PROVE  reported'[n] + Due(n)' <= called'[n] + InHand(n)'
<1>1. reported[n] + Due(n) <= called[n] + InHand(n)
  BY DEF AccountsInv, AtMost
<1>2. TableInvs /\ SortInv /\ TypeOK
  BY DEF AccountsInv, TableInvs, TableOrderInv, TableTypes
<1>a. ~torn /\ ~torn'
  <2>1. SortInv' /\ m_bUseMutex'
    BY <1>2, MutexStays, SortStep DEF TableInvs, TableOrderInv
  <2> QED
    BY <1>2, <2>1 DEF SortInv
<1>t. /\ reported[n] \in Nat /\ reported'[n] \in Nat /\ called[n] \in Nat
      /\ called'[n] \in Nat /\ Due(n) \in Nat /\ Due(n)' \in Nat
      /\ InHand(n) \in {0, 1} /\ InHand(n)' \in {0, 1}
  BY AccountTypes
<1>3. CASE WorkerStep /\ wpc # "done"
  <2>1. Due(n)' <= Due(n) + InHand(n)'
    BY <1>a, <1>2, <1>3, WorkerBooks DEF Booked
  <2>2. UNCHANGED <<reported, called>> /\ InHand(n) = 0
    BY <1>3 DEF InHand, WorkerStep, LockAdd, Found, NotFound, LoadRow, StoreRow, Refused,
      CheckRoom, FillName, FillCounters, LoadNum, StoreNum, SortCompare, SortMove, SortEnd,
      ReturnAdd, history
  <2> QED
    BY <1>1, <1>t, <2>1, <2>2
<1>4. CASE ReturnAdd
  <2>1. /\ wpc = "done" /\ wpc' = "idle"
        /\ UNCHANGED <<m_astTypeInfo, m_iTypeNum, tpc, row, reported>>
        /\ called' = [called EXCEPT ![name] = called[name] + 1]
    BY <1>4 DEF ReturnAdd, table, timer
  <2>2. Waiting' = Waiting
    BY <2>1, SameWaiting DEF InSort
  <2>3. Due(n)' = Due(n)
    BY <1>2, <2>1, <2>2, SameTableSameDue
  <2>4. called'[n] = called[n] + InHand(n) /\ InHand(n)' = 0
    <3>1. called \in [Names -> Nat]
      BY DEF AccountsInv, TableInvs, TableOrderInv, TableTypes, TypeOK
    <3> QED
      BY <2>1, <3>1 DEF InHand
  <2> QED
    BY <1>1, <1>t, <2>1, <2>3, <2>4
<1>5. CASE TimerFires \/ TimerStep
  <2>1. reported'[n] + Due(n)' <= reported[n] + Due(n)
    BY <1>a, <1>2, <1>5, TimerMoves DEF Moved
  <2>2. UNCHANGED <<called, wpc, name>>
    BY <1>5 DEF TimerFires, TimerStep, LockWrite, WriteRow, EndWrite, LockClear, ClearNum,
      ClearRow, EndClear, worker, history
  <2>3. InHand(n)' = InHand(n)
    BY <2>2 DEF InHand
  <2> QED
    BY <1>1, <1>t, <2>1, <2>2, <2>3
<1>6. CASE (\E a \in Names : CallAddStat(a)) \/ UNCHANGED vars
  <2>1. UNCHANGED <<m_astTypeInfo, m_iTypeNum, tpc, row, reported, called>>
    BY <1>6 DEF CallAddStat, vars, table, timer, history
  <2>2. /\ InSort <=> InSort'
        /\ InHand(n)' = InHand(n)
    BY <1>6 DEF CallAddStat, vars, worker, InHand, InSort
  <2>3. Waiting' = Waiting
    BY <2>1, <2>2, SameWaiting
  <2>4. Due(n)' = Due(n)
    <3>1. Table' = Table
      BY <1>6 DEF CallAddStat, vars, table, worker, sorting, Table
    <3> QED
      BY <2>3, <3>1 DEF Due
  <2> QED
    BY <1>1, <1>t, <2>1, <2>2, <2>4
<1>7. ReturnAdd \/ wpc # "done" \/ ~WorkerStep
  BY DEF WorkerStep, LockAdd, Found, NotFound, LoadRow, StoreRow, Refused,
      CheckRoom, FillName, FillCounters, LoadNum, StoreNum, SortCompare, SortMove, SortEnd
<1> QED
  BY <1>3, <1>4, <1>5, <1>6, <1>7 DEF Next

LEMMA AtLeastStep ==
  ASSUME AccountsInv, [Next]_vars, ~torn', NEW n \in Names
  PROVE  reported'[n] + Due(n)' >=
           called'[n] - excused'[n] + IF exposed' THEN 0 ELSE InHand(n)'
<1>1. ~torn => reported[n] + Due(n) >= called[n] - excused[n] + IF exposed THEN 0 ELSE InHand(n)
  BY DEF AccountsInv, AtLeast
<1>2. TableInvs /\ SortInv /\ TypeOK
  BY DEF AccountsInv, TableInvs, TableOrderInv, TableTypes
<1>t. /\ reported[n] \in Nat /\ reported'[n] \in Nat /\ called[n] \in Nat
      /\ called'[n] \in Nat /\ Due(n) \in Nat /\ Due(n)' \in Nat
      /\ excused[n] \in Nat /\ excused'[n] \in Nat
      /\ InHand(n) \in {0, 1} /\ InHand(n)' \in {0, 1}
  BY AccountTypes
<1>b. ReturnAdd \/ ~torn
  <2>1. CASE StoreNum
    BY <1>2, <2>1 DEF StoreNum, SortInv
  <2>2. CASE ~StoreNum /\ ~ReturnAdd
    <3>1. torn => torn'
      BY <2>2 DEF Next, CallAddStat, WorkerStep, LockAdd, Found, NotFound, LoadRow, StoreRow,
        Refused, CheckRoom, FillName, FillCounters, LoadNum, SortCompare, SortMove, SortEnd,
        TimerFires, TimerStep, LockWrite, WriteRow, EndWrite, LockClear, ClearNum, ClearRow,
        EndClear, history, vars
    <3> QED
      BY <3>1
  <2> QED
    BY <2>1, <2>2
<1>3. CASE WorkerStep /\ wpc # "done"
  <2>1. Due(n)' >= Due(n) + IF exposed THEN 0 ELSE InHand(n)'
    BY <1>2, <1>3, WorkerBooks DEF Booked
  <2>2. /\ UNCHANGED <<reported, called, excused>> /\ InHand(n) = 0
        /\ UNCHANGED exposed \/ InHand(n)' = 0
    BY <1>3 DEF InHand, WorkerStep, LockAdd, Found, NotFound, LoadRow, StoreRow, Refused,
      CheckRoom, FillName, FillCounters, LoadNum, StoreNum, SortCompare, SortMove, SortEnd,
      ReturnAdd, history
  <2>3. ~ReturnAdd
    BY <1>3 DEF ReturnAdd
  <2> QED
    BY <1>1, <1>b, <1>t, <2>1, <2>2, <2>3
<1>4. CASE ReturnAdd
  <2>1. /\ wpc = "done" /\ wpc' = "idle"
        /\ UNCHANGED <<m_astTypeInfo, m_iTypeNum, tpc, row, reported>>
        /\ called' = [called EXCEPT ![name] = called[name] + 1]
    BY <1>4 DEF ReturnAdd, table, timer
  <2>2. Waiting' = Waiting
    BY <2>1, SameWaiting DEF InSort
  <2>3. Due(n)' = Due(n) /\ InHand(n)' = 0
    BY <1>2, <2>1, <2>2, SameTableSameDue DEF InHand
  <2>4. CASE torn
    <3>1. excused'[n] = IF called'[n] > reported[n] THEN called'[n] - reported[n] ELSE 0
      BY <1>4, <2>4 DEF ReturnAdd, Unreported
    <3>2. reported'[n] = reported[n]
      BY <2>1
    <3> QED
      BY <1>t, <2>3, <3>1, <3>2
  <2>5. CASE ~torn
    <3>1. excused' = [excused EXCEPT ![name] = excused[name] + IF exposed THEN 1 ELSE 0]
      BY <1>4, <2>5 DEF ReturnAdd
    <3>2. called'[n] = IF name = n THEN called[n] + 1 ELSE called[n]
      BY <1>2, <2>1 DEF TypeOK
    <3>3. excused'[n] = IF name = n THEN excused[n] + IF exposed THEN 1 ELSE 0 ELSE excused[n]
      BY <1>2, <3>1 DEF TypeOK
    <3>4. /\ called'[n] = called[n] + InHand(n)
          /\ excused'[n] = excused[n] + IF exposed THEN InHand(n) ELSE 0
      BY <1>t, <2>1, <3>2, <3>3 DEF InHand
    <3> QED
      BY <1>1, <1>t, <2>1, <2>3, <2>5, <3>4
  <2> QED
    BY <2>4, <2>5
<1>5. CASE TimerFires \/ TimerStep
  <2>1. reported'[n] + Due(n)' >= reported[n] + Due(n)
    BY <1>2, <1>5, TimerMoves DEF Moved
  <2>2. UNCHANGED <<called, excused, wpc, name>>
    BY <1>5 DEF TimerFires, TimerStep, LockWrite, WriteRow, EndWrite, LockClear, ClearNum,
      ClearRow, EndClear, worker, history
  <2>3. InHand(n)' = InHand(n)
    BY <2>2 DEF InHand
  <2>4. ~exposed' => ~exposed \/ InHand(n) = 0
    <3>1. CASE TimerFires
      BY <3>1 DEF TimerFires, InHand
    <3>2. CASE TimerStep
      BY <3>2 DEF TimerStep, LockWrite, WriteRow, EndWrite, LockClear, ClearNum, ClearRow,
        EndClear, history
    <3> QED
      BY <1>5, <3>1, <3>2
  <2>5. ~torn
    BY <1>5 DEF TimerFires, TimerStep, LockWrite, WriteRow, EndWrite, LockClear, ClearNum,
      ClearRow, EndClear, history
  <2> QED
    BY <1>1, <1>t, <2>1, <2>2, <2>3, <2>4, <2>5
<1>6. CASE (\E a \in Names : CallAddStat(a)) \/ UNCHANGED vars
  <2>1. UNCHANGED <<m_astTypeInfo, m_iTypeNum, tpc, row, reported, called, excused>>
    BY <1>6 DEF CallAddStat, vars, table, timer, history
  <2>2. /\ InSort <=> InSort'
        /\ InHand(n)' = InHand(n) /\ (UNCHANGED exposed \/ InHand(n) = 0)
    BY <1>6 DEF CallAddStat, vars, worker, history, InHand, InSort
  <2>3. Waiting' = Waiting
    BY <2>1, <2>2, SameWaiting
  <2>4. Due(n)' = Due(n)
    <3>1. Table' = Table
      BY <1>6 DEF CallAddStat, vars, table, worker, sorting, Table
    <3> QED
      BY <2>3, <3>1 DEF Due
  <2>5. ~torn
    BY <1>6 DEF CallAddStat, vars, history
  <2> QED
    BY <1>1, <1>t, <2>1, <2>2, <2>4, <2>5
<1>7. ReturnAdd \/ wpc # "done" \/ ~WorkerStep
  BY DEF WorkerStep, LockAdd, Found, NotFound, LoadRow, StoreRow, Refused,
      CheckRoom, FillName, FillCounters, LoadNum, StoreNum, SortCompare, SortMove, SortEnd
<1> QED
  BY <1>3, <1>4, <1>5, <1>6, <1>7 DEF Next

LEMMA AccountsInit == Init => AccountsInv
<1> SUFFICES ASSUME Init PROVE AccountsInv
  OBVIOUS
<1>1. TableOrderInv /\ Undisturbed
  BY OrderInit DEF Init, Undisturbed, InSort
<1>2. InAnyRace
  BY DEF Init, InAnyRace
<1>3. \A n : Due(n) = 0 /\ InHand(n) = 0
  <2>1. Waiting = {}
    BY DEF Init, Waiting, First, Last, InSort
  <2>2. \A n : Due(n) = 0
    BY <2>1, NoRowsNoMarks, FS_EmptySet DEF Due
  <2> QED
    BY <2>2 DEF Init, InHand
<1>4. \A n \in Names : reported[n] = 0 /\ called[n] = 0 /\ excused[n] = 0
  BY DEF Init
<1>5. AtMost
  BY <1>3, <1>4 DEF Init, AtMost
<1>6. AtLeast
  BY <1>3, <1>4 DEF AtLeast
<1> QED
  BY <1>1, <1>2, <1>5, <1>6 DEF AccountsInv, TableInvs

LEMMA AccountsStep == ASSUME AccountsInv, [Next]_vars PROVE AccountsInv'
<1>1. TableOrderInv /\ Undisturbed /\ InAnyRace /\ TableTypes
  BY DEF AccountsInv, TableInvs, TableOrderInv
<1>2. TableOrderInv' /\ Undisturbed'
  BY <1>1, TableOrderStep, UndisturbedStep
<1>3. InAnyRace'
  <2>1. CASE UNCHANGED vars
    BY <1>1, <2>1 DEF InAnyRace, vars, table, worker
  <2> QED
    BY <1>1, <2>1, WorkerInAnyRace, TimerInAnyRace DEF Next
<1>4. AtMost'
  BY MutexStays, AtMostStep DEF AtMost
<1>5. AtLeast'
  BY AtLeastStep DEF AtLeast
<1> QED
  BY <1>2, <1>3, <1>4, <1>5 DEF AccountsInv, TableInvs

LEMMA AccountsSettle == AccountsInv => ReportsAreExact
<1> SUFFICES ASSUME AccountsInv PROVE ReportsAreExact
  OBVIOUS
<1>1. ASSUME Quiet, NEW n \in Names PROVE Due(n) = InTable(n) /\ InHand(n) = 0
  <2>1. Table = m_astTypeInfo
    BY <1>1, TableIsATable DEF Quiet, AccountsInv, TableInvs, TableOrderInv, TableTypes
  <2> QED
    BY <1>1, <2>1 DEF Quiet, Due, InTable, Waiting, First, Last, Used, InHand, InSort
<1>2. ASSUME NEW n \in Names
      PROVE  /\ reported[n] \in Nat /\ called[n] \in Nat /\ excused[n] \in Nat
             /\ Due(n) \in Nat
  <2>2. TypeOK /\ TableTypes
    BY DEF AccountsInv, TableInvs, TableOrderInv, TableTypes
  <2>3. Due(n) \in Nat
    BY <2>2, RowsWaiting
  <2> QED
    BY <2>2, <2>3 DEF TypeOK
<1>3. NoDoubleReport
  <2> SUFFICES ASSUME m_bUseMutex, Quiet, NEW n \in Names
               PROVE  reported[n] + InTable(n) <= called[n]
    BY DEF NoDoubleReport
  <2>1. reported[n] + Due(n) <= called[n] + InHand(n)
    BY DEF AccountsInv, AtMost
  <2> QED
    BY <1>1, <1>2, <2>1
<1>4. OnlyRacesLoseCalls
  <2> SUFFICES ASSUME Quiet, NEW n \in Names
               PROVE  reported[n] + InTable(n) >= called[n] - excused[n]
    BY DEF OnlyRacesLoseCalls
  <2>1. ~torn
    BY DEF Quiet, AccountsInv, TableInvs, TableOrderInv, SortInv
  <2>2. reported[n] + Due(n) >= called[n] - excused[n] + IF exposed THEN 0 ELSE InHand(n)
    BY <2>1 DEF AccountsInv, AtLeast
  <2> QED
    BY <1>1, <1>2, <2>2
<1> QED
  BY <1>3, <1>4 DEF ReportsAreExact

(* With the mutex a call is reported at most once; and at least once,       *)
(* unless a report overlapped it or, without the mutex, met a qsort before  *)
(* it was reported: for any names, table and number of calls and reports    *)
(* (common_stat.cc:68-115, 198, qa_stat.cc:46-47).                          *)
THEOREM ReportsCorrect == Spec => []ReportsAreExact
<1> QED
  BY AccountsInit, AccountsStep, AccountsSettle, PTL DEF Spec
=============================================================================
