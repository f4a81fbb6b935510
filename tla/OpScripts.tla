----------------------------- MODULE OpScripts -----------------------------
(***************************************************************************)
(* The operation scripts (deploy_dir/op): an operator runs start.sh,       *)
(* stop.sh, restart.sh and force_stop.sh, and cron runs check.sh every     *)
(* minute once start.sh has installed it.  A script is the sequence of its *)
(* commands; each command is one step, for processes start, stop and crash *)
(* between any two of them.  No watchdog is configured (joke_ccd.conf).    *)
(*                                                                         *)
(* ccd and mcd are external: ccd maps its queues and binds its port before *)
(* it goes to the background, so a second ccd gives up while the first     *)
(* lives; mcd maps them after.  Either writes its pid file once it is in   *)
(* the background, which is when the command that started it returns.      *)
(***************************************************************************)
EXTENDS Integers, Sequences, FiniteSets

CONSTANTS
  Procs,        \* process ids
  MaxCommands,  \* bound on the operator's commands
  MaxCrashes    \* bound on crashes

ASSUME OpScriptsAssumption ==
  /\ Procs \subseteq Nat \ {0} /\ IsFiniteSet(Procs) /\ {1, 2} \subseteq Procs
  /\ MaxCommands \in Nat /\ MaxCrashes \in Nat

Servers == {"ccd", "mcd"}

VARIABLES
  proc,        \* process -> its server, its state, the queues it has mapped
  pidfile,     \* server -> the process its pid file names, 0 for none
  queues,      \* generation of the queues: clear_mq.sh makes the next one new
  cron,        \* check.sh is in the crontab
  op, check,   \* commands left of the operator's script, and of check.sh
  commands, crashes,
  overlapped   \* a script has begun before another, or what it started, was
               \* through (history)

vars == <<proc, pidfile, queues, cron, op, check, commands, crashes, overlapped>>

States == {"free", "forked", "init", "running", "stopping"}
Free == [srv |-> "ccd", st |-> "free", queues |-> 0]

Live(p) == proc[p].st # "free"
Of(srv) == {p \in Procs : Live(p) /\ proc[p].srv = srv}

(* Nothing runs, or what start.sh has left once its processes are up. *)
Stopped ==
  /\ proc = [p \in Procs |-> Free]
  /\ pidfile = [s \in Servers |-> 0]
  /\ cron = FALSE

Started ==
  /\ proc = [p \in Procs |->
               IF p = 1 THEN [srv |-> "ccd", st |-> "running", queues |-> 0]
               ELSE IF p = 2 THEN [srv |-> "mcd", st |-> "running", queues |-> 0]
               ELSE Free]
  /\ pidfile = [s \in Servers |-> IF s = "ccd" THEN 1 ELSE 2]
  /\ cron = TRUE

Init ==
  /\ Stopped \/ Started
  /\ queues = 0
  /\ op = <<>> /\ check = <<>>
  /\ commands = 0 /\ crashes = 0 /\ overlapped = FALSE
-----------------------------------------------------------------------------
(* start_ccd.sh and start_mcd.sh; stop_ccd.sh and stop_mcd.sh *)
(* Mutant: the old process is not told to go. *)
StartOver(srv) == <<<<"launch", srv>>>>
Start(srv) == <<<<"kill", srv>>, <<"launch", srv>>>>
Stop(srv) == <<<<"kill", srv>>>>

(* Mutant: the queues are cleared last. *)
StartThenClear ==
  <<<<"crontab", "ccd">>>> \o Start("ccd") \o Start("mcd") \o <<<<"clear_mq", "ccd">>>>
StartAll == <<<<"crontab", "ccd">>, <<"clear_mq", "ccd">>>> \o Start("ccd") \o Start("mcd")
StopAll == Stop("ccd") \o Stop("mcd")

Script ==
  [start      |-> StartAll,
   stop       |-> StopAll,
   restart    |-> StopAll \o StartAll,
   force_stop |-> <<<<"kill9", "ccd">>, <<"kill9", "mcd">>>>]

(* A started process has written its pid file and mapped its queues. *)
NoneStarting == \A p \in Procs : proc[p].st \notin {"forked", "init"}

Operator(name) ==
  /\ commands < MaxCommands /\ op = <<>>
  /\ op' = Script[name]
  /\ commands' = commands + 1
  /\ overlapped' = (overlapped \/ check # <<>> \/ ~NoneStarting)
  /\ UNCHANGED <<proc, pidfile, queues, cron, check, crashes>>

(* cron starts check.sh.  A minute is enough for a process to start.        *)
Minute ==
  /\ cron /\ check = <<>> /\ NoneStarting
  /\ check' = <<<<"count", "ccd">>, <<"count", "mcd">>>>
  /\ overlapped' = (overlapped \/ op # <<>>)
  /\ UNCHANGED <<proc, pidfile, queues, cron, op, commands, crashes>>
-----------------------------------------------------------------------------
Signal(srv, from, to) ==
  proc' = [p \in Procs |-> IF p = pidfile[srv] /\ proc[p].st \in from
                             THEN to[p] ELSE proc[p]]

(* kill -15: the process goes on until it has seen the signal.              *)
Kill(srv) ==
  /\ Signal(srv, {"init", "running"},
            [p \in Procs |-> [proc[p] EXCEPT !.st = "stopping"]])
  /\ UNCHANGED <<pidfile, queues, cron>>

Kill9(srv) ==
  /\ Signal(srv, States, [p \in Procs |-> Free])
  /\ UNCHANGED <<pidfile, queues, cron>>

ClearMq ==
  /\ queues' = queues + 1
  /\ UNCHANGED <<proc, pidfile, cron>>

Crontab ==
  /\ cron' = TRUE
  /\ UNCHANGED <<proc, pidfile, queues>>

Unused == {p \in Procs : ~Live(p) /\ \A s \in Servers : pidfile[s] # p}

(* A second ccd cannot bind its port, and exits. *)
Launch(srv) ==
  /\ IF srv = "ccd" /\ Of("ccd") # {}
       THEN UNCHANGED proc
       ELSE \E p \in Unused :
              /\ \A q \in Unused : p <= q
              /\ proc' = [proc EXCEPT ![p] = [srv |-> srv, st |-> "forked",
                                              queues |-> queues]]
  /\ UNCHANGED <<pidfile, queues, cron>>

Execute(cmd) ==
  \/ cmd[1] = "kill"     /\ Kill(cmd[2])
  \/ cmd[1] = "kill9"    /\ Kill9(cmd[2])
  \/ cmd[1] = "launch"   /\ Launch(cmd[2])
  \/ cmd[1] = "clear_mq" /\ ClearMq
  \/ cmd[1] = "crontab"  /\ Crontab

OpStep ==
  /\ op # <<>>
  /\ Execute(Head(op))
  /\ op' = Tail(op)
  /\ UNCHANGED <<check, commands, crashes, overlapped>>

CheckStep ==
  /\ check # <<>> /\ Head(check)[1] # "count"
  /\ Execute(Head(check))
  /\ check' = Tail(check)
  /\ UNCHANGED <<op, commands, crashes, overlapped>>

(* ps aux | grep | wc -l: the grep counts itself, unless ps has listed the  *)
(* processes before the grep was one of them.                               *)
(* Mutant: 1 in place of 2. *)
TooFewForOne(n) == n < 1
TooFew(n) == n < 2

Count ==
  /\ check # <<>> /\ Head(check)[1] = "count"
  /\ LET srv == Head(check)[2]
     IN \E grep \in {0, 1} :
          check' = (IF TooFew(Cardinality(Of(srv)) + grep) THEN Start(srv) ELSE <<>>)
                     \o Tail(check)
  /\ UNCHANGED <<proc, pidfile, queues, cron, op, commands, crashes, overlapped>>
-----------------------------------------------------------------------------
(* The processes *)
ProcStep(p, st, next) ==
  /\ proc[p].st = st
  /\ proc' = [proc EXCEPT ![p] = next]
  /\ UNCHANGED <<queues, cron, op, check, commands, overlapped>>

WritePid(p) ==
  /\ ProcStep(p, "forked", [proc[p] EXCEPT !.st =
                              IF proc[p].srv = "ccd" THEN "running" ELSE "init"])
  /\ pidfile' = [pidfile EXCEPT ![proc[p].srv] = p]
  /\ UNCHANGED crashes

MapQueues(p) ==
  /\ ProcStep(p, "init", [proc[p] EXCEPT !.st = "running", !.queues = queues])
  /\ UNCHANGED <<pidfile, crashes>>

Exit(p) ==
  /\ ProcStep(p, "stopping", Free)
  /\ UNCHANGED <<pidfile, crashes>>

Crash(p) ==
  /\ crashes < MaxCrashes
  /\ ProcStep(p, "running", Free)
  /\ crashes' = crashes + 1
  /\ UNCHANGED pidfile

Next ==
  \/ \E name \in DOMAIN Script : Operator(name)
  \/ Minute
  \/ OpStep \/ CheckStep \/ Count
  \/ \E p \in Procs : WritePid(p) \/ MapQueues(p) \/ Exit(p) \/ Crash(p)

(* Scripts and processes get on, a process told to stop does, and cron runs *)
(* check.sh every minute.                                                   *)
Fairness ==
  /\ WF_vars(Minute) /\ WF_vars(OpStep) /\ WF_vars(CheckStep \/ Count)
  /\ \A p \in Procs : WF_vars(WritePid(p) \/ MapQueues(p) \/ Exit(p))

Spec == Init /\ [][Next]_vars /\ Fairness
-----------------------------------------------------------------------------
(* Type invariant. *)
TypeOK ==
  /\ op \in Seq({"kill", "kill9", "launch", "clear_mq", "crontab"} \X Servers)
  /\ check \in Seq({"count", "kill", "launch"} \X Servers)
  /\ proc \in [Procs -> [srv : Servers, st : States, queues : Nat]]
  /\ pidfile \in [Servers -> Procs \cup {0}]
  /\ queues \in 0..MaxCommands /\ cron \in BOOLEAN
  /\ commands \in 0..MaxCommands /\ crashes \in 0..MaxCrashes
  /\ overlapped \in BOOLEAN

Running(srv) == {p \in Of(srv) : proc[p].st = "running"}

Settled == op = <<>> /\ check = <<>> /\ NoneStarting

(* As long as no script has begun while another was at work, a process      *)
(* that has not been told to stop is the one its pid file names, so that    *)
(* the next stop.sh reaches it: start_mcd.sh does not wait for the old one  *)
(* to end (start_mcd.sh:4-5), nor for the new one to write its pid.         *)
NoOrphan ==
  Settled /\ ~overlapped => \A s \in Servers : \A p \in Running(s) : pidfile[s] = p

(* Types, and no process of its own that its pid file does not name         *)
(* (start_mcd.sh:4-5).                                                      *)
PidInv == TypeOK /\ NoOrphan

(* Nor do ccd and mcd then run on different queues, though clear_mq.sh      *)
(* removes the queues under processes that still have them mapped, and      *)
(* check.sh restarts one process without the other (start.sh:18).           *)
SameQueues ==
  Settled /\ ~overlapped =>
    \A p \in Running("ccd"), q \in Running("mcd") : proc[p].queues = proc[q].queues

(* Once installed, check.sh brings either server back, whatever stopped it. *)
ServersComeBack == \A s \in Servers : cron ~> Running(s) # {}
=============================================================================
