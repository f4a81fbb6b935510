----------------------------- MODULE CStatistic -----------------------------
(***************************************************************************)
(* The statistics table (common_stat.cc) under its two threads: the mcd    *)
(* thread counting calls with AddStat, and the timer thread that runs      *)
(* CQAStat::ReportCommonStat (qa_stat.cc:44-48), which is WriteToFile and  *)
(* then ClearStat.                                                         *)
(*                                                                         *)
(* CQAStat leaves bUseMutex at its default, false: the threads then share  *)
(* the table with no lock.  Reads and writes of m_iTypeNum and of a row    *)
(* are separate steps, those of qsort and of memset too; where the code    *)
(* reads m_iTypeNum again and a build may keep the value it has, both are  *)
(* allowed.  Times are left to StatTime; here a row is its name and        *)
(* m_unAllCount, which m_unFailedCount goes along with.                    *)
(***************************************************************************)
EXTENDS Integers, FiniteSets

CONSTANTS
  Names,        \* statistic names, ordered as strcmp orders them
  TYPE_NUM,     \* rows the table has (256)
  MaxCalls,     \* bound on AddStat calls
  MaxReports    \* bound on the timer's reports

ASSUME CStatisticAssumption ==
  /\ Names \subseteq Nat \ {0}
  /\ TYPE_NUM \in Nat \ {0}
  /\ MaxCalls \in Nat /\ MaxReports \in Nat

VARIABLES
  m_bUseMutex,                \* as the constructor set it
  m_iTypeNum, m_astTypeInfo,
  owner,                      \* holder of m_stMutex
  wpc, name, slot, temp,      \* the mcd thread in AddStat
  from, held, left,           \* in its qsort: where a place's row comes from, the
                              \* rows held aside, the places still to be written
  tpc, row,                   \* the timer thread in ReportCommonStat
  calls, reports,             \* how often either was started
  called, reported,           \* name -> calls counted, calls reported (history)
  excused,                    \* name -> calls that a race may have lost (history)
  exposed, torn               \* the call, its qsort: met by a report (history)

table   == <<m_bUseMutex, m_iTypeNum, m_astTypeInfo>>
sorting == <<from, held, left>>
worker  == <<wpc, name, slot, temp, sorting>>
timer   == <<tpc, row>>
history == <<calls, reports, called, reported, excused, exposed, torn>>
vars    == <<table, owner, worker, timer, history>>

Slots == 0..(TYPE_NUM - 1)
Blank == [name |-> 0, all |-> 0]   \* name 0: the empty string
Row == [name : Names \cup {0}, all : Nat]

Used == 0..(m_iTypeNum - 1)

Init ==
  /\ m_bUseMutex \in BOOLEAN
  /\ m_iTypeNum = 0 /\ m_astTypeInfo = [s \in Slots |-> Blank]
  /\ owner = "none"
  /\ wpc = "idle" /\ name = 0 /\ slot = 0
  /\ temp = Blank
  /\ from = [s \in Slots |-> s] /\ held = [s \in Slots |-> Blank] /\ left = {}
  /\ tpc = "sleep" /\ row = 0
  /\ calls = 0 /\ reports = 0
  /\ called = [n \in Names |-> 0] /\ reported = [n \in Names |-> 0]
  /\ excused = [n \in Names |-> 0] /\ exposed = FALSE /\ torn = FALSE

(* pthread_mutex_lock and _unlock, both skipped when m_bUseMutex is false. *)
Lock(who) ==
  IF m_bUseMutex THEN owner = "none" /\ owner' = who ELSE UNCHANGED owner
Unlock(who) == IF m_bUseMutex THEN owner' = "none" ELSE UNCHANGED owner
-----------------------------------------------------------------------------
(* AddStat on the mcd thread *)
CallAddStat(n) ==
  /\ wpc = "idle" /\ calls < MaxCalls
  /\ wpc' = "lock" /\ name' = n
  /\ calls' = calls + 1
  /\ exposed' = (tpc # "sleep")
  /\ UNCHANGED <<table, owner, slot, temp, sorting, timer, reports, called,
                 reported, excused, torn>>

LockAdd ==
  /\ wpc = "lock" /\ Lock("worker")
  /\ wpc' = "search"
  /\ UNCHANGED <<table, name, slot, temp, sorting, timer, history>>

IsSorted(tab, num) ==
  \A a, b \in 0..(num - 1) : a < b => tab[a].name < tab[b].name

(* bsearch: exact on a table sorted by name; on one that a race has left    *)
(* unsorted it may miss the row.                                            *)
Found ==
  /\ wpc = "search"
  /\ \E s \in Used : m_astTypeInfo[s].name = name /\ slot' = s
  /\ wpc' = "load"
  /\ UNCHANGED <<table, owner, name, temp, sorting, timer, history>>

NotFound ==
  /\ wpc = "search"
  /\ \/ \A s \in Used : m_astTypeInfo[s].name # name
     \/ ~IsSorted(m_astTypeInfo, m_iTypeNum)
  /\ wpc' = "check"
  /\ UNCHANGED <<table, owner, name, slot, temp, sorting, timer, history>>

(* m_unAllCount += iStatCount: a load and a store.                           *)
LoadRow ==
  /\ wpc = "load"
  /\ temp' = m_astTypeInfo[slot]
  /\ wpc' = "store"
  /\ UNCHANGED <<table, owner, name, slot, sorting, timer, history>>

(* Mutant: the call that adds the row is not counted. *)
CountedFromSecond(r, all) == [r EXCEPT !.all = IF r.all = 0 THEN 0 ELSE all + 1]
Counted(r, all) == [r EXCEPT !.all = all + 1]

StoreRow ==
  /\ wpc = "store"
  /\ m_astTypeInfo' = [m_astTypeInfo EXCEPT
                         ![slot] = Counted(@, temp.all)]
  /\ temp' = Blank
  /\ wpc' = "done"
  /\ UNCHANGED <<m_bUseMutex, m_iTypeNum, owner, name, slot, sorting, timer, history>>

(* Mutant: off by one. *)
FullOne(num) == num > TYPE_NUM
Full(num) == num >= TYPE_NUM

(* The first AddStat of a name: refused when the table is full. *)
Refused ==
  /\ wpc = "check" /\ Full(m_iTypeNum)
  /\ Unlock("worker")
  /\ wpc' = "idle" /\ name' = 0 /\ slot' = 0
  /\ exposed' = FALSE
  /\ UNCHANGED <<table, temp, sorting, timer, calls, reports, called, reported,
                 excused, torn>>

CheckRoom ==
  /\ wpc = "check" /\ ~Full(m_iTypeNum)
  /\ slot' = m_iTypeNum
  /\ wpc' = "fill"
  /\ UNCHANGED <<table, owner, name, temp, sorting, timer, history>>

(* memset and strncpy into row m_iTypeNum, then the counters: each access   *)
(* indexes with m_iTypeNum again, or with the value already in a register.  *)
Reread == {slot, m_iTypeNum} \cap Slots

FillName ==
  /\ wpc = "fill"
  /\ \E s \in Reread :
       /\ m_astTypeInfo' = [m_astTypeInfo EXCEPT ![s] = [Blank EXCEPT !.name = name]]
       /\ slot' = s
  /\ wpc' = "first"
  /\ UNCHANGED <<m_bUseMutex, m_iTypeNum, owner, name, temp, sorting, timer, history>>

FillCounters ==
  /\ wpc = "first"
  /\ \E s \in Reread :
       m_astTypeInfo' = [m_astTypeInfo EXCEPT ![s] = Counted(@, 0)]
  /\ wpc' = "loadnum"
  /\ UNCHANGED <<m_bUseMutex, m_iTypeNum, owner, name, slot, temp, sorting, timer, history>>

(* ++m_iTypeNum *)
LoadNum ==
  /\ wpc = "loadnum"
  /\ slot' = m_iTypeNum
  /\ wpc' = "storenum"
  /\ UNCHANGED <<table, owner, name, temp, sorting, timer, history>>

(* In any build but one with the mutex, the timer thread may be in the     *)
(* table, or come to it, while qsort works.                                 *)
InSort == wpc \in {"sort", "moving"}
Reporting == ~m_bUseMutex /\ tpc # "sleep"

StoreNum ==
  /\ wpc = "storenum"
  /\ m_iTypeNum' = slot + 1
  /\ wpc' = "sort"
  /\ torn' = Reporting
  /\ UNCHANGED <<m_bUseMutex, m_astTypeInfo, owner, name, slot, temp, sorting, timer,
                 calls, reports, called, reported, excused, exposed>>

(* qsort of the used rows: it compares them, and then moves each to its     *)
(* place, in the table itself, one by one.                                  *)
Before(tab, a, b) ==
  tab[a].name < tab[b].name \/ (tab[a].name = tab[b].name /\ a < b)

(* Mutant: a new row stays where it was added. *)
PlacesAsAdded(tab, num) == [s \in Slots |-> s]

SortedPlaces(tab, num) ==
  LET rank(a) == Cardinality({b \in 0..(num - 1) : Before(tab, b, a)})
  IN [s \in Slots |-> IF s < num THEN CHOOSE a \in 0..(num - 1) : rank(a) = s ELSE s]

(* Rows that change while they are compared may end up in any order.        *)
AnyPlaces(num) ==
  {f \in [Slots -> Slots] :
     /\ \A s \in Slots : s < num => f[s] < num
     /\ \A a, b \in 0..(num - 1) : f[a] = f[b] => a = b}

SortCompare ==
  /\ wpc = "sort"
  /\ \E num \in {slot + 1, m_iTypeNum} :
       /\ IF torn THEN from' \in AnyPlaces(num)
                  ELSE from' = SortedPlaces(m_astTypeInfo, num)
       /\ left' = 0..(num - 1)
       /\ slot' = num
  /\ wpc' = "moving"
  /\ UNCHANGED <<table, owner, name, temp, held, timer, history>>

(* The row that is overwritten is held aside until its own place is written; *)
(* the others are copied from where they stand, as they are by then.        *)
SortMove ==
  /\ wpc = "moving"
  /\ \E s \in left :
       /\ m_astTypeInfo' = [m_astTypeInfo EXCEPT
            ![s] = IF from[s] \in left THEN m_astTypeInfo[from[s]] ELSE held[from[s]]]
       /\ held' = [held EXCEPT ![s] = m_astTypeInfo[s]]
       /\ left' = left \ {s}
  /\ UNCHANGED <<m_bUseMutex, m_iTypeNum, owner, wpc, name, slot, temp, from, timer, history>>

SortEnd ==
  /\ wpc = "moving" /\ left = {}
  /\ from' = [s \in Slots |-> s] /\ held' = [s \in Slots |-> Blank]
  /\ wpc' = "done"
  /\ UNCHANGED <<table, owner, name, slot, temp, left, timer, history>>

(* History: calls not reported when a qsort ends that a report has met are  *)
(* excused, those of every name.                                            *)
Unreported(n, all) == IF all > reported[n] THEN all - reported[n] ELSE 0

ReturnAdd ==
  /\ wpc = "done" /\ Unlock("worker")
  /\ wpc' = "idle" /\ name' = 0 /\ slot' = 0
  /\ called' = [called EXCEPT ![name] = @ + 1]
  /\ excused' = IF torn THEN [n \in Names |-> Unreported(n, called'[n])]
                ELSE [excused EXCEPT ![name] = @ + IF exposed THEN 1 ELSE 0]
  /\ exposed' = FALSE /\ torn' = FALSE
  /\ UNCHANGED <<table, temp, sorting, timer, calls, reports, reported>>
-----------------------------------------------------------------------------
(* ReportCommonStat on the timer thread.  WriteToFile looks at m_iTypeNum    *)
(* before it takes the lock, and writes nothing when it is 0.                *)
TimerFires ==
  /\ tpc = "sleep" /\ reports < MaxReports
  /\ reports' = reports + 1
  /\ tpc' = IF m_iTypeNum = 0 THEN "clear" ELSE "write"
  /\ exposed' = (wpc # "idle")
  /\ torn' = (torn \/ (~m_bUseMutex /\ InSort))
  /\ UNCHANGED <<table, owner, worker, row, calls, called, reported, excused>>

LockWrite ==
  /\ tpc = "write" /\ Lock("timer")
  /\ tpc' = "rows" /\ row' = 0
  /\ UNCHANGED <<table, worker, history>>

WriteRow ==
  /\ tpc = "rows" /\ row < m_iTypeNum
  /\ LET r == m_astTypeInfo[row]
     IN reported' = IF r.name = 0 THEN reported
                    ELSE [reported EXCEPT ![r.name] = @ + r.all]
  /\ row' = row + 1
  /\ UNCHANGED <<table, owner, worker, tpc, calls, reports, called, excused, exposed, torn>>

(* Mutant: the report is not followed by ClearStat. *)
EndWriteKeeping ==
  /\ tpc = "rows" /\ row >= m_iTypeNum
  /\ Unlock("timer")
  /\ tpc' = "sleep" /\ row' = 0
  /\ UNCHANGED <<table, worker, history>>

(* Mutant: the report keeps the mutex. *)
EndWriteHolding ==
  /\ tpc = "rows" /\ row >= m_iTypeNum
  /\ tpc' = "clear" /\ row' = 0
  /\ UNCHANGED <<table, owner, worker, history>>

EndWrite ==
  /\ tpc = "rows" /\ row >= m_iTypeNum
  /\ Unlock("timer")
  /\ tpc' = "clear" /\ row' = 0
  /\ UNCHANGED <<table, worker, history>>

(* ClearStat *)
LockClear ==
  /\ tpc = "clear" /\ Lock("timer")
  /\ tpc' = "num"
  /\ UNCHANGED <<table, worker, row, history>>

ClearNum ==
  /\ tpc = "num"
  /\ m_iTypeNum' = 0
  /\ tpc' = "memset" /\ row' = 0
  /\ UNCHANGED <<m_bUseMutex, m_astTypeInfo, owner, worker, history>>

(* memset *)
ClearRow ==
  /\ tpc = "memset" /\ row < TYPE_NUM
  /\ m_astTypeInfo' = [m_astTypeInfo EXCEPT ![row] = Blank]
  /\ row' = row + 1
  /\ UNCHANGED <<m_bUseMutex, m_iTypeNum, owner, worker, tpc, history>>

EndClear ==
  /\ tpc = "memset" /\ row = TYPE_NUM
  /\ Unlock("timer")
  /\ tpc' = "sleep" /\ row' = 0
  /\ UNCHANGED <<table, worker, history>>

WorkerStep ==
  \/ LockAdd \/ Found \/ NotFound \/ LoadRow \/ StoreRow \/ Refused \/ CheckRoom
  \/ FillName \/ FillCounters \/ LoadNum \/ StoreNum \/ SortCompare \/ SortMove
  \/ SortEnd \/ ReturnAdd

TimerStep ==
  \/ LockWrite \/ WriteRow \/ EndWrite \/ LockClear \/ ClearNum \/ ClearRow
  \/ EndClear

Next ==
  \/ \E n \in Names : CallAddStat(n)
  \/ WorkerStep \/ TimerFires \/ TimerStep

(* Both threads run.  With the mutex, a thread that finds it free again and *)
(* again gets it (the kernel wakes waiters); without it nobody waits.       *)
Fairness ==
  /\ WF_vars(WorkerStep) /\ WF_vars(TimerStep)
  /\ SF_vars(LockAdd) /\ SF_vars(LockWrite) /\ SF_vars(LockClear)

Spec == Init /\ [][Next]_vars /\ Fairness
-----------------------------------------------------------------------------
(* Type invariant; its bounds on m_iTypeNum, slot and row say that neither  *)
(* thread, in any race, indexes past the table (common_stat.cc:179-195).    *)
TypeOK ==
  /\ m_bUseMutex \in BOOLEAN
  /\ m_iTypeNum \in 0..TYPE_NUM
  /\ m_astTypeInfo \in [Slots -> Row]
  /\ owner \in {"none", "worker", "timer"}
  /\ wpc \in {"idle", "lock", "search", "load", "store", "check", "fill",
              "first", "loadnum", "storenum", "sort", "moving", "done"}
  /\ name \in Names \cup {0}
  /\ wpc # "idle" => name \in Names
  /\ slot \in 0..TYPE_NUM
  /\ wpc \in {"load", "store", "fill", "first", "storenum", "sort"} => slot < TYPE_NUM
  /\ temp \in Row
  /\ from \in [Slots -> Slots] /\ held \in [Slots -> Row] /\ left \in SUBSET Slots
  /\ tpc \in {"sleep", "write", "rows", "clear", "num", "memset"}
  /\ row \in 0..TYPE_NUM
  /\ called \in [Names -> Nat] /\ reported \in [Names -> Nat]
  /\ excused \in [Names -> Nat] /\ exposed \in BOOLEAN /\ torn \in BOOLEAN

(* With the mutex: when nobody holds it, the used rows are sorted by name   *)
(* and no name has two of them, which is what bsearch needs; the rows       *)
(* behind them are blank (common_stat.cc:166-198).                          *)
TableInOrder ==
  m_bUseMutex /\ owner = "none" =>
    /\ IsSorted(m_astTypeInfo, m_iTypeNum)
    /\ \A s \in Slots : m_astTypeInfo[s].name # 0 <=> s < m_iTypeNum

(* Types (no index is past the table, in any race), and, with the mutex, a  *)
(* table fit for bsearch (common_stat.cc:166-198).                          *)
TableInv == TypeOK /\ TableInOrder

(* A mark for each call that these rows of the table count for n. *)
Marks(tab, rows, n) == UNION {{s} \X (1..tab[s].all) : s \in {r \in rows : tab[r].name = n}}
InTable(n) == Cardinality(Marks(m_astTypeInfo, Used, n))

Quiet == wpc = "idle" /\ tpc = "sleep"

(* With the mutex: no call is reported twice.                               *)
NoDoubleReport ==
  m_bUseMutex /\ Quiet => \A n \in Names : reported[n] + InTable(n) <= called[n]

(* A call is missing from the reports and the table only if it overlapped a *)
(* report (with the mutex because WriteToFile and ClearStat are two         *)
(* critical sections, qa_stat.cc:46-47), or, without the mutex, if it was   *)
(* not yet reported when a report met a qsort, which moves all rows         *)
(* (common_stat.cc:198).                                                    *)
OnlyRacesLoseCalls ==
  Quiet => \A n \in Names : reported[n] + InTable(n) >= called[n] - excused[n]

(* A call is reported at most once, with the mutex, and at least once but   *)
(* in those two races (common_stat.cc:68-115, 198, qa_stat.cc:46-47).       *)
ReportsAreExact == NoDoubleReport /\ OnlyRacesLoseCalls

(* Every report ends, whatever AddStat does to m_iTypeNum meanwhile: the    *)
(* loop at common_stat.cc:92 rereads it, and TYPE_NUM bounds it.            *)
ReportsEnd == (tpc # "sleep") ~> (tpc = "sleep")

(* Every AddStat returns: no thread keeps the mutex.                        *)
CallsReturn == (wpc # "idle") ~> (wpc = "idle")

(* Neither thread is ever stuck in the table, by the mutex or in a loop     *)
(* (common_stat.cc:49-56, 92).                                              *)
NoThreadIsStuck == CallsReturn /\ ReportsEnd
=============================================================================
