---------------------------- MODULE LogRotation ----------------------------
(***************************************************************************)
(* The statistics log (common_stat.cc): WriteToFile appends a report to    *)
(* <base>.log and calls _ShiftFiles, which renames the files one up once   *)
(* the newest is large enough.  Each fopen(), stat(), access(), remove()   *)
(* and rename() is a step: it may fail, and the process may die between    *)
(* two of them.                                                            *)
(*                                                                         *)
(* files[0] is <base>.log and files[k] is <base><k>.log, each as the set   *)
(* of the reports in it, {} for a file that does not exist.  A file's size *)
(* is the number of its reports.  (With m_iLogMaxNum = 1 the code rotates  *)
(* nothing: it removes <base>0.log, which it never writes.)                *)
(***************************************************************************)
EXTENDS Integers, FiniteSets

CONSTANTS
  m_iLogMaxSize,  \* in reports
  m_iLogMaxNum,   \* files kept (10)
  MaxLogged,     \* bound on reports
  MaxFaults       \* bound on failed system calls and deaths of the process

ASSUME LogRotationAssumption ==
  /\ m_iLogMaxSize \in Nat \ {0}
  /\ m_iLogMaxNum \in Nat /\ m_iLogMaxNum >= 2
  /\ MaxLogged \in Nat /\ MaxFaults \in Nat

VARIABLES
  files, pc,
  i,          \* _ShiftFiles' loop variable
  report,     \* the last report made
  written,    \* the reports that reached a file (history)
  unseen,     \* those in files the loop's access() failed to see (history)
  faults

logVars == <<files, pc, i, report, written, unseen, faults>>

Index == 0..(m_iLogMaxNum - 1)
Oldest == m_iLogMaxNum - 1

Exists(k) == files[k] # {}

InitLog ==
  /\ files = [k \in Index |-> {}] /\ pc = "idle" /\ i = 0
  /\ report = 0 /\ written = {} /\ unseen = {} /\ faults = 0
-----------------------------------------------------------------------------
Fault == faults < MaxFaults /\ faults' = faults + 1

(* _WriteLog appends; when fopen fails it prints a line and returns.        *)
WriteLog ==
  /\ pc = "idle" /\ report < MaxLogged
  /\ report' = report + 1
  /\ files' = [files EXCEPT ![0] = @ \cup {report + 1}]
  /\ written' = written \cup {report + 1}
  /\ pc' = "stat"
  /\ UNCHANGED <<i, unseen, faults>>

WriteFails ==
  /\ pc = "idle" /\ report < MaxLogged /\ Fault
  /\ report' = report + 1 /\ pc' = "stat"
  /\ UNCHANGED <<files, i, written, unseen>>

(* Mutant: a file of the maximal size is kept on. *)
Larger(size) == size > m_iLogMaxSize
LargeEnough(size) == size >= m_iLogMaxSize

(* Without a log, stat() fails. *)
NothingToShift ==
  /\ pc = "stat"
  /\ ~Exists(0) \/ ~LargeEnough(Cardinality(files[0]))
  /\ pc' = "idle"
  /\ UNCHANGED <<files, i, report, written, unseen, faults>>

MustShift ==
  /\ pc = "stat"
  /\ Exists(0) /\ LargeEnough(Cardinality(files[0]))
  /\ pc' = "remove"
  /\ UNCHANGED <<files, i, report, written, unseen, faults>>

(* The loop starts at the last file but one.  Mutant: one file too late.    *)
OneShort == IF m_iLogMaxNum > 2 THEN m_iLogMaxNum - 3 ELSE 0
FirstToMove == m_iLogMaxNum - 2

RemoveOldest ==
  /\ pc = "remove"
  /\ files' = [files EXCEPT ![Oldest] = {}]
  /\ pc' = "shift" /\ i' = FirstToMove
  /\ UNCHANGED <<report, written, unseen, faults>>

(* rename() replaces a file that has the new name. *)
Rename ==
  /\ pc = "shift" /\ i >= 0
  /\ files' = IF Exists(i) THEN [files EXCEPT ![i + 1] = files[i], ![i] = {}] ELSE files
  /\ i' = i - 1
  /\ UNCHANGED <<pc, report, written, unseen, faults>>

EndShift ==
  /\ pc = "shift" /\ i < 0
  /\ pc' = "idle" /\ i' = 0
  /\ UNCHANGED <<files, report, written, unseen, faults>>

(* access() may fail on a file that is there, and the code takes it for     *)
(* absent.                                                                  *)
Overlook(k) ==
  /\ Exists(k) /\ Fault
  /\ unseen' = unseen \cup files[k]
  /\ UNCHANGED <<files, report, written>>

OverlookOldest ==
  /\ pc = "remove" /\ Overlook(Oldest)
  /\ pc' = "shift" /\ i' = FirstToMove

OverlookFile ==
  /\ pc = "shift" /\ i >= 0 /\ Overlook(i)
  /\ i' = i - 1 /\ UNCHANGED pc

(* Mutant: the loop goes on after a rename that failed. *)
ShiftGoesOn ==
  /\ Fault
  /\ pc = "shift" /\ i >= 0 /\ Exists(i)
  /\ i' = i - 1
  /\ UNCHANGED <<files, pc, report, written, unseen>>

(* stat(), remove() or rename() fails: _ShiftFiles returns -1, and nobody   *)
(* looks.                                                                   *)
ShiftFails ==
  /\ Fault
  /\ \/ pc = "stat" /\ Exists(0)
     \/ pc = "remove" /\ Exists(Oldest)
     \/ pc = "shift" /\ i >= 0 /\ Exists(i)
  /\ pc' = "idle" /\ i' = 0
  /\ UNCHANGED <<files, report, written, unseen>>

(* The process dies and is started again; Initialize leaves the files alone. *)
Restart ==
  /\ pc # "idle" /\ Fault
  /\ pc' = "idle" /\ i' = 0
  /\ UNCHANGED <<files, report, written, unseen>>

LogNext ==
  \/ WriteLog \/ WriteFails \/ NothingToShift \/ MustShift \/ RemoveOldest
  \/ OverlookOldest \/ Rename \/ OverlookFile \/ EndShift \/ ShiftFails \/ Restart

LogSpec == InitLog /\ [][LogNext]_logVars
-----------------------------------------------------------------------------
(* Type invariant. *)
LogTypeOK ==
  /\ files \in [Index -> SUBSET (1..report)]
  /\ pc \in {"idle", "stat", "remove", "shift"}
  /\ i \in -1..(m_iLogMaxNum - 2)
  /\ report \in 0..MaxLogged
  /\ written \subseteq 1..report /\ unseen \subseteq 1..report
  /\ faults \in 0..MaxFaults

Kept == UNION {files[k] : k \in Index}

(* Reports are lost oldest first, but for those in a file access() failed   *)
(* to see, and what is kept stays in order, wherever a rotation was cut     *)
(* short and whatever gap that left for the next one to move through        *)
(* (common_stat.cc:279-301: a rename that replaced another file, or a loop  *)
(* that passed one by, would break it).                                     *)
OldestLostFirst ==
  /\ \A a \in written \ (Kept \cup unseen), b \in Kept : a < b
  /\ \A j, k \in Index : j < k => \A a \in files[j], b \in files[k] : b < a

(* The only file a rename replaces is one access() failed to see just       *)
(* before (common_stat.cc:280, 293, 296).                                   *)
OnlyUnseenAreReplaced == pc = "shift" /\ i >= 0 => files[i + 1] \subseteq unseen

(* As long as no call has failed, a log of one file less than the maximum   *)
(* is kept, or everything there was.                                        *)
EnoughIsKept ==
  faults = 0 =>
    \/ written \subseteq Kept
    \/ Cardinality(Kept) >= m_iLogMaxSize * (m_iLogMaxNum - 1)

(* No file holds more than the limit, and each failure can let the newest   *)
(* one grow by one report, no more (common_stat.cc:276, 293, 298).          *)
GrowthIsBounded ==
  \A k \in Index : Cardinality(files[k]) <= m_iLogMaxSize + faults
=============================================================================
