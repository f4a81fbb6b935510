------------------------------ MODULE CcdProofs ------------------------------
(***************************************************************************)
(* Theorems about what is around ccd: the scripts that start and stop it   *)
(* and mcd, and its plug-in, which cuts requests off the connections and   *)
(* spreads them over the queues.                                           *)
(***************************************************************************)
EXTENDS OpScripts, NetComplete, DataLemmas
-----------------------------------------------------------------------------
(* The scripts, for any number of processes, commands and crashes: as long  *)
(* as scripts do not overlap, no process runs that its pid file does not    *)
(* name, and both servers use the same queues.  Both speak of states in     *)
(* which nothing is under way; in between, what a script still has to do    *)
(* matters: a process that runs on old queues, or is about to get a         *)
(* successor, is one it will stop first.                                    *)
OpCommands == {"kill", "kill9", "launch", "clear_mq", "crontab"} \X Servers
CheckCommands == {"count", "kill", "launch"} \X Servers

(* Each server is started once, right after its predecessor is stopped, and *)
(* is left alone from then on; the queues are cleared before both are       *)
(* stopped.                                                                 *)
Orderly(script) ==
  \A k \in DOMAIN script :
    /\ script[k][1] \in {"launch", "count"} =>
         \A j \in DOMAIN script : j > k => script[j][2] # script[k][2]
    /\ script[k][1] = "launch" /\ k > 1 => script[k - 1] = <<"kill", script[k][2]>>
    /\ script[k][1] = "clear_mq" =>
         \A s \in Servers : \E j \in DOMAIN script : j > k /\ script[j] = <<"kill", s>>

(* No command of a script clears the queues more than once.                 *)
ClearsOnce ==
  /\ queues <= commands
  /\ \A k \in DOMAIN op : op[k][1] = "clear_mq" =>
       /\ queues + 1 <= commands
       /\ \A j \in DOMAIN op : op[j][1] = "clear_mq" => j = k

Scripts == TypeOK /\ Orderly(op) /\ Orderly(check) /\ ClearsOnce

About(script, srv) == \E k \in DOMAIN script : script[k][2] = srv
Kills(script, srv) == \E k \in DOMAIN script : script[k] = <<"kill", srv>>
Launches(script, srv) == script # <<>> /\ Head(script) = <<"launch", srv>>

(* A process that starts, and one that nobody has told to stop.             *)
Starts(p) == proc[p].st \in {"forked", "init"}
GoesOn(p) == proc[p].st \in {"forked", "init", "running"}

(* While a script is at work: when a server is about to be started there is *)
(* no other that goes on, and while one starts, nothing else is done to its *)
(* server; who runs on old queues will be stopped.                          *)
OneAfterTheOther(script) ==
  \A p \in Procs :
    /\ Launches(script, proc[p].srv) => ~GoesOn(p)
    /\ Starts(p) => ~About(script, proc[p].srv)
    /\ proc[p].st = "forked" =>
         \A q \in Procs : GoesOn(q) /\ proc[q].srv = proc[p].srv => q = p

PidsAreWritten ==
  \A p \in Procs : proc[p].st \in {"init", "running"} => pidfile[proc[p].srv] = p

QueuesAreNew(script) ==
  \A p \in Procs :
    proc[p].st = "running" \/ (proc[p].st = "forked" /\ proc[p].srv = "ccd") =>
      proc[p].queues = queues \/ Kills(script, proc[p].srv)

Follows(script) ==
  OneAfterTheOther(script) /\ PidsAreWritten /\ QueuesAreNew(script)

InTurn ==
  ~overlapped => (check = <<>> /\ Follows(op)) \/ (op = <<>> /\ Follows(check))

ScriptsInv == Scripts /\ InTurn
-----------------------------------------------------------------------------
(* Scripts *)

LEMMA Concatenated ==
  ASSUME NEW S, NEW x \in Seq(S), NEW y \in Seq(S), NEW z \in Seq(S),
         Len(z) = Len(x) + Len(y),
         \A i \in 1..Len(x) : z[i] = x[i],
         \A i \in 1..Len(y) : z[Len(x) + i] = y[i]
  PROVE  x \o y = z
<1>1. x \o y \in Seq(S) /\ Len(x \o y) = Len(z) /\ Len(x) \in Nat /\ Len(y) \in Nat
  OBVIOUS
<1>2. ASSUME NEW i \in 1..Len(z) PROVE (x \o y)[i] = z[i]
  <2>1. CASE i <= Len(x)
    BY <1>1, <2>1
  <2>2. CASE i > Len(x)
    <3>1. i - Len(x) \in 1..Len(y) /\ Len(x) + (i - Len(x)) = i
      BY <1>1, <2>2
    <3>2. (x \o y)[i] = y[i - Len(x)]
      BY <1>1, <2>2, <3>1
    <3> QED
      BY <3>1, <3>2
  <2> QED
    BY <1>1, <2>1, <2>2
<1> QED
  BY <1>1, <1>2

LEMMA TheScripts ==
  /\ Script["start"] = <<<<"crontab", "ccd">>, <<"clear_mq", "ccd">>, <<"kill", "ccd">>,
                         <<"launch", "ccd">>, <<"kill", "mcd">>, <<"launch", "mcd">>>>
  /\ Script["stop"] = <<<<"kill", "ccd">>, <<"kill", "mcd">>>>
  /\ Script["restart"] = <<<<"kill", "ccd">>, <<"kill", "mcd">>, <<"crontab", "ccd">>,
                           <<"clear_mq", "ccd">>, <<"kill", "ccd">>, <<"launch", "ccd">>,
                           <<"kill", "mcd">>, <<"launch", "mcd">>>>
  /\ Script["force_stop"] = <<<<"kill9", "ccd">>, <<"kill9", "mcd">>>>
  /\ DOMAIN Script = {"start", "stop", "restart", "force_stop"}
<1> DEFINE crontab == <<"crontab", "ccd">>
           clear == <<"clear_mq", "ccd">>
           kc == <<"kill", "ccd">>
           lc == <<"launch", "ccd">>
           km == <<"kill", "mcd">>
           lm == <<"launch", "mcd">>
           S == OpCommands
<1>1. crontab \in S /\ clear \in S /\ kc \in S /\ lc \in S /\ km \in S /\ lm \in S
  BY DEF OpCommands, Servers
<1>2. Stop("ccd") = <<kc>> /\ Stop("mcd") = <<km>> /\ Start("ccd") = <<kc, lc>>
      /\ Start("mcd") = <<km, lm>> /\ StartAll = (<<crontab, clear>> \o <<kc, lc>>) \o <<km, lm>>
  BY DEF Stop, Start, StartAll
<1> HIDE DEF crontab, clear, kc, lc, km, lm, S
<1>3. StopAll = <<kc, km>>
  <2> DEFINE x == <<kc>>
             y == <<km>>
             z == <<kc, km>>
  <2>1. x \in Seq(S) /\ y \in Seq(S) /\ z \in Seq(S)
    BY <1>1
  <2>2. Len(x) = 1 /\ Len(y) = 1 /\ Len(z) = 2
    OBVIOUS
  <2>3. z[1] = x[1] /\ z[2] = y[1]
    OBVIOUS
  <2> HIDE DEF x, y, z
  <2>4. \A i \in 1..Len(x) : z[i] = x[i]
    BY <2>2, <2>3
  <2>5. \A i \in 1..Len(y) : z[Len(x) + i] = y[i]
    BY <2>2, <2>3
  <2>6. Len(z) = Len(x) + Len(y)
    BY <2>2
  <2>7. x \o y = z
    BY <2>1, <2>4, <2>5, <2>6, Concatenated
  <2> QED
    BY <1>2, <2>7 DEF StopAll, x, y, z
<1>4. <<crontab, clear>> \o <<kc, lc>> = <<crontab, clear, kc, lc>>
  <2> DEFINE x == <<crontab, clear>>
             y == <<kc, lc>>
             z == <<crontab, clear, kc, lc>>
  <2>1. x \in Seq(S) /\ y \in Seq(S) /\ z \in Seq(S)
    BY <1>1
  <2>2. Len(x) = 2 /\ Len(y) = 2 /\ Len(z) = 4
    OBVIOUS
  <2>3. z[1] = x[1] /\ z[2] = x[2] /\ z[3] = y[1] /\ z[4] = y[2]
    OBVIOUS
  <2> HIDE DEF x, y, z
  <2>4. \A i \in 1..Len(x) : z[i] = x[i]
    BY <2>2, <2>3
  <2>5. \A i \in 1..Len(y) : z[Len(x) + i] = y[i]
    BY <2>2, <2>3
  <2>6. Len(z) = Len(x) + Len(y)
    BY <2>2
  <2>7. x \o y = z
    BY <2>1, <2>4, <2>5, <2>6, Concatenated
  <2> QED
    BY <2>7 DEF x, y, z
<1>5. StartAll = <<crontab, clear, kc, lc, km, lm>>
  <2> DEFINE x == <<crontab, clear, kc, lc>>
             y == <<km, lm>>
             z == <<crontab, clear, kc, lc, km, lm>>
  <2>1. x \in Seq(S) /\ y \in Seq(S) /\ z \in Seq(S)
    BY <1>1
  <2>2. Len(x) = 4 /\ Len(y) = 2 /\ Len(z) = 6
    OBVIOUS
  <2>3. z[1] = x[1] /\ z[2] = x[2] /\ z[3] = x[3] /\ z[4] = x[4] /\ z[5] = y[1] /\ z[6] = y[2]
    OBVIOUS
  <2> HIDE DEF x, y, z
  <2>4. \A i \in 1..Len(x) : z[i] = x[i]
    BY <2>2, <2>3
  <2>5. \A i \in 1..Len(y) : z[Len(x) + i] = y[i]
    BY <2>2, <2>3
  <2>6. Len(z) = Len(x) + Len(y)
    BY <2>2
  <2>7. x \o y = z
    BY <2>1, <2>4, <2>5, <2>6, Concatenated
  <2> QED
    BY <1>2, <1>4, <2>7 DEF x, y, z
<1>6. StopAll \o StartAll = <<kc, km, crontab, clear, kc, lc, km, lm>>
  <2> DEFINE x == <<kc, km>>
             y == <<crontab, clear, kc, lc, km, lm>>
             z == <<kc, km, crontab, clear, kc, lc, km, lm>>
  <2>1. x \in Seq(S) /\ y \in Seq(S) /\ z \in Seq(S)
    BY <1>1
  <2>2. Len(x) = 2 /\ Len(y) = 6 /\ Len(z) = 8
    OBVIOUS
  <2>3. /\ z[1] = x[1] /\ z[2] = x[2] /\ z[3] = y[1] /\ z[4] = y[2] /\ z[5] = y[3]
        /\ z[6] = y[4] /\ z[7] = y[5] /\ z[8] = y[6]
    OBVIOUS
  <2> HIDE DEF x, y, z
  <2>4. \A i \in 1..Len(x) : z[i] = x[i]
    BY <2>2, <2>3
  <2>5. \A i \in 1..Len(y) : z[Len(x) + i] = y[i]
    BY <2>2, <2>3
  <2>6. Len(z) = Len(x) + Len(y)
    BY <2>2
  <2>7. x \o y = z
    BY <2>1, <2>4, <2>5, <2>6, Concatenated
  <2> QED
    BY <1>3, <1>5, <2>7 DEF x, y, z
<1> HIDE DEF StopAll, StartAll
<1> QED
  BY <1>3, <1>5, <1>6 DEF Script, crontab, clear, kc, lc, km, lm

LEMMA ScriptsAreOrderly ==
  ASSUME NEW name \in DOMAIN Script
  PROVE  /\ Script[name] \in Seq(OpCommands) /\ Orderly(Script[name])
         /\ \A s \in Servers : ~Launches(Script[name], s)
         /\ \A j, k \in DOMAIN Script[name] :
              Script[name][j][1] = "clear_mq" /\ Script[name][k][1] = "clear_mq" => j = k
<1>1. CASE name = "start"
  <2>1. Script[name] \in Seq(OpCommands)
    BY <1>1, TheScripts DEF OpCommands, Servers
  <2>2. Orderly(Script[name])
    BY <1>1, TheScripts DEF Orderly, Servers
  <2>3. \A s \in Servers : ~Launches(Script[name], s)
    BY <1>1, TheScripts DEF Launches, Servers
  <2>4. \A j, k \in DOMAIN Script[name] :
          Script[name][j][1] = "clear_mq" /\ Script[name][k][1] = "clear_mq" => j = k
    BY <1>1, TheScripts
  <2> QED
    BY <2>1, <2>2, <2>3, <2>4
<1>2. CASE name = "stop"
  <2>1. Script[name] \in Seq(OpCommands)
    BY <1>2, TheScripts DEF OpCommands, Servers
  <2>2. Orderly(Script[name])
    BY <1>2, TheScripts DEF Orderly, Servers
  <2>3. \A s \in Servers : ~Launches(Script[name], s)
    BY <1>2, TheScripts DEF Launches, Servers
  <2>4. \A j, k \in DOMAIN Script[name] :
          Script[name][j][1] = "clear_mq" /\ Script[name][k][1] = "clear_mq" => j = k
    BY <1>2, TheScripts
  <2> QED
    BY <2>1, <2>2, <2>3, <2>4
<1>3. CASE name = "restart"
  <2>1. Script[name] \in Seq(OpCommands)
    BY <1>3, TheScripts DEF OpCommands, Servers
  <2>2. Orderly(Script[name])
    BY <1>3, TheScripts DEF Orderly, Servers
  <2>3. \A s \in Servers : ~Launches(Script[name], s)
    BY <1>3, TheScripts DEF Launches, Servers
  <2>4. \A j, k \in DOMAIN Script[name] :
          Script[name][j][1] = "clear_mq" /\ Script[name][k][1] = "clear_mq" => j = k
    BY <1>3, TheScripts
  <2> QED
    BY <2>1, <2>2, <2>3, <2>4
<1>4. CASE name = "force_stop"
  <2>1. Script[name] \in Seq(OpCommands)
    BY <1>4, TheScripts DEF OpCommands, Servers
  <2>2. Orderly(Script[name])
    BY <1>4, TheScripts DEF Orderly, Servers
  <2>3. \A s \in Servers : ~Launches(Script[name], s)
    BY <1>4, TheScripts DEF Launches, Servers
  <2>4. \A j, k \in DOMAIN Script[name] :
          Script[name][j][1] = "clear_mq" /\ Script[name][k][1] = "clear_mq" => j = k
    BY <1>4, TheScripts
  <2> QED
    BY <2>1, <2>2, <2>3, <2>4
<1> QED
  BY <1>1, <1>2, <1>3, <1>4, TheScripts

(* What is left of a script after its next command.                         *)
LEMMA TailIsOrderly ==
  ASSUME NEW S, NEW script \in Seq(S), script # <<>>, Orderly(script)
  PROVE  /\ Orderly(Tail(script))
         /\ \A k \in DOMAIN Tail(script) : k + 1 \in DOMAIN script
                                           /\ Tail(script)[k] = script[k + 1]
         /\ \A k \in DOMAIN script : k # 1 => k - 1 \in DOMAIN Tail(script)
                                              /\ Tail(script)[k - 1] = script[k]
<1> DEFINE rest == Tail(script)
<1>1. Len(script) \in Nat \ {0} /\ Len(rest) = Len(script) - 1 /\ DOMAIN script = 1..Len(script)
      /\ DOMAIN rest = 1..(Len(script) - 1)
  OBVIOUS
<1>2. \A k \in DOMAIN rest : k + 1 \in DOMAIN script /\ rest[k] = script[k + 1]
  BY <1>1
<1>3. \A k \in DOMAIN script : k # 1 => k - 1 \in DOMAIN rest /\ rest[k - 1] = script[k]
  BY <1>1
<1> HIDE DEF rest
<1>4. Orderly(rest)
  <2> SUFFICES ASSUME NEW k \in DOMAIN rest
               PROVE  /\ rest[k][1] \in {"launch", "count"} =>
                           \A j \in DOMAIN rest : j > k => rest[j][2] # rest[k][2]
                      /\ rest[k][1] = "launch" /\ k > 1 =>
                           rest[k - 1] = <<"kill", rest[k][2]>>
                      /\ rest[k][1] = "clear_mq" =>
                           \A s \in Servers : \E j \in DOMAIN rest :
                             j > k /\ rest[j] = <<"kill", s>>
    BY DEF Orderly
  <2>1. k \in 1..(Len(script) - 1) /\ k + 1 \in DOMAIN script /\ rest[k] = script[k + 1]
    BY <1>1, <1>2
  <2>2. ASSUME rest[k][1] \in {"launch", "count"}, NEW j \in DOMAIN rest, j > k
        PROVE  rest[j][2] # rest[k][2]
    <3>1. j + 1 \in DOMAIN script /\ rest[j] = script[j + 1] /\ j + 1 > k + 1
      BY <1>1, <1>2, <2>1, <2>2
    <3> QED
      BY <2>1, <2>2, <3>1 DEF Orderly
  <2>3. ASSUME rest[k][1] = "launch", k > 1 PROVE rest[k - 1] = <<"kill", rest[k][2]>>
    <3>1. k - 1 \in DOMAIN rest /\ rest[k - 1] = script[k] /\ (k + 1) - 1 = k /\ k + 1 > 1
      BY <1>1, <1>2, <2>1, <2>3
    <3> QED
      BY <2>1, <2>3, <3>1 DEF Orderly
  <2>4. ASSUME rest[k][1] = "clear_mq", NEW s \in Servers
        PROVE  \E j \in DOMAIN rest : j > k /\ rest[j] = <<"kill", s>>
    <3>1. PICK j \in DOMAIN script : j > k + 1 /\ script[j] = <<"kill", s>>
      BY <2>1, <2>4 DEF Orderly
    <3>2. j - 1 \in DOMAIN rest /\ rest[j - 1] = script[j] /\ j - 1 > k
      BY <1>1, <1>3, <2>1, <3>1
    <3> QED
      BY <3>1, <3>2
  <2> QED
    BY <2>2, <2>3, <2>4
<1> QED
  BY <1>2, <1>3, <1>4 DEF rest

LEMMA Joined ==
  ASSUME NEW S, NEW x \in Seq(S), NEW y \in Seq(S)
  PROVE  x \o y \in Seq(S) /\ Len(x \o y) = Len(x) + Len(y) /\ Len(y) \in Nat
OBVIOUS

LEMMA TwoBefore ==
  ASSUME NEW S, NEW x \in Seq(S), NEW y \in Seq(S), Len(x) = 2
  PROVE  /\ x \o y \in Seq(S) /\ Len(x \o y) = Len(y) + 2
         /\ (x \o y)[1] = x[1] /\ (x \o y)[2] = x[2]
         /\ \A k \in 3..(Len(y) + 2) : (x \o y)[k] = y[k - 2]
<1>1. x \o y \in Seq(S) /\ Len(x \o y) = Len(x) + Len(y) /\ Len(y) \in Nat
  BY Joined
<1>2. (x \o y)[1] = x[1] /\ (x \o y)[2] = x[2]
  BY <1>1
<1>3. \A k \in 3..(Len(y) + 2) : (x \o y)[k] = y[k - 2]
  BY <1>1
<1> QED
  BY <1>1, <1>2, <1>3

(* Counting replaces itself by the two commands that start the server.      *)
LEMMA CountedIsOrderly ==
  ASSUME NEW script \in Seq(CheckCommands), script # <<>>, Orderly(script),
         NEW srv \in Servers, Head(script) = <<"count", srv>>
  PROVE  /\ Start(srv) \o Tail(script) \in Seq(CheckCommands)
         /\ Orderly(Start(srv) \o Tail(script))
         /\ \A s \in Servers : ~Launches(Start(srv) \o Tail(script), s)
<1> DEFINE rest == Tail(script)
           next == Start(srv) \o rest
<1>1. rest \in Seq(CheckCommands) /\ Orderly(rest)
  BY TailIsOrderly
<1>2. \A k \in DOMAIN rest : rest[k][2] # srv
  <2> SUFFICES ASSUME NEW k \in DOMAIN rest PROVE rest[k][2] # srv
    OBVIOUS
  <2>1. k + 1 \in DOMAIN script /\ rest[k] = script[k + 1] /\ k + 1 > 1
    BY TailIsOrderly
  <2>2. 1 \in DOMAIN script /\ script[1] = <<"count", srv>>
    OBVIOUS
  <2> QED
    BY <2>1, <2>2 DEF Orderly
<1> HIDE DEF rest
<1>3. Start(srv) \in Seq(CheckCommands) /\ Len(Start(srv)) = 2
      /\ Start(srv)[1] = <<"kill", srv>> /\ Start(srv)[2] = <<"launch", srv>>
  BY DEF Start, CheckCommands
<1> HIDE DEF Start
<1>4. /\ next \in Seq(CheckCommands) /\ Len(next) = Len(rest) + 2
      /\ next[1] = <<"kill", srv>> /\ next[2] = <<"launch", srv>>
      /\ \A k \in 3..(Len(rest) + 2) : next[k] = rest[k - 2]
  <2>1. Start(srv) \in Seq(CheckCommands) /\ Len(Start(srv)) = 2 /\ rest \in Seq(CheckCommands)
    BY <1>1, <1>3
  <2>2. /\ next \in Seq(CheckCommands) /\ Len(next) = Len(rest) + 2
        /\ next[1] = Start(srv)[1] /\ next[2] = Start(srv)[2]
        /\ \A k \in 3..(Len(rest) + 2) : next[k] = rest[k - 2]
    BY <2>1, TwoBefore
  <2> QED
    BY <1>3, <2>2
<1> HIDE DEF next
<1>5. DOMAIN next = 1..(Len(rest) + 2) /\ DOMAIN rest = 1..Len(rest) /\ Len(rest) \in Nat
  BY <1>1, <1>4
<1>6. Orderly(next)
  <2> SUFFICES ASSUME NEW k \in DOMAIN next
               PROVE  /\ next[k][1] \in {"launch", "count"} =>
                           \A j \in DOMAIN next : j > k => next[j][2] # next[k][2]
                      /\ next[k][1] = "launch" /\ k > 1 =>
                           next[k - 1] = <<"kill", next[k][2]>>
                      /\ next[k][1] = "clear_mq" =>
                           \A s \in Servers : \E j \in DOMAIN next :
                             j > k /\ next[j] = <<"kill", s>>
    BY DEF Orderly
  <2>1. CASE k = 1
    BY <1>4, <2>1
  <2>2. CASE k = 2
    <3>1. \A j \in DOMAIN next : j > 2 => next[j] = rest[j - 2] /\ j - 2 \in DOMAIN rest
      BY <1>4, <1>5
    <3> QED
      BY <1>2, <1>4, <2>2, <3>1
  <2>3. CASE k > 2
    <3>1. k - 2 \in DOMAIN rest /\ next[k] = rest[k - 2] /\ rest[k - 2] \in CheckCommands
      BY <1>1, <1>4, <1>5, <2>3
    <3>2. ASSUME next[k][1] \in {"launch", "count"}, NEW j \in DOMAIN next, j > k
          PROVE  next[j][2] # next[k][2]
      <4>1. j - 2 \in DOMAIN rest /\ next[j] = rest[j - 2] /\ j - 2 > k - 2
        BY <1>4, <1>5, <2>3, <3>2
      <4> QED
        BY <1>1, <3>1, <3>2, <4>1 DEF Orderly
    <3>3. ASSUME next[k][1] = "launch" PROVE next[k - 1] = <<"kill", next[k][2]>>
      <4>1. k - 2 # 1
        <5>1. SUFFICES ASSUME k = 3 PROVE FALSE
          BY <2>3
        <5>2. rest[1] = script[2] /\ 2 \in DOMAIN script
          BY <3>1, <5>1, TailIsOrderly DEF rest
        <5>3. script[2 - 1] = <<"kill", script[2][2]>>
          BY <3>1, <3>3, <5>1, <5>2 DEF Orderly
        <5>4. script[1] = <<"count", srv>>
          OBVIOUS
        <5> QED
          BY <5>3, <5>4
      <4>2. k \in 4..(Len(rest) + 2)
        BY <1>5, <2>3, <4>1
      <4>3. k - 1 \in 3..(Len(rest) + 2) /\ (k - 1) - 2 = (k - 2) - 1 /\ k - 2 > 1
            /\ (k - 2) - 1 \in DOMAIN rest
        BY <1>5, <4>2
      <4>4. next[k - 1] = rest[(k - 1) - 2]
        BY <1>4, <4>3
      <4> QED
        BY <1>1, <3>1, <3>3, <4>3, <4>4 DEF Orderly
    <3>4. next[k][1] # "clear_mq"
      BY <3>1 DEF CheckCommands
    <3> QED
      BY <3>2, <3>3, <3>4
  <2>4. k = 1 \/ k = 2 \/ k > 2
    BY <1>5
  <2> QED
    BY <2>1, <2>2, <2>3, <2>4
<1>7. \A s \in Servers : ~Launches(next, s)
  BY <1>4, <1>5 DEF Launches
<1> QED
  BY <1>4, <1>6, <1>7 DEF next, rest

(* What a command's place in an orderly script says of the rest.            *)
Leaves(script, rest) ==
  \A s \in Servers :
    /\ About(rest, s) => About(script, s)
    /\ Kills(script, s) => Head(script) = <<"kill", s>> \/ Kills(rest, s)
    /\ Launches(rest, s) => Head(script) = <<"kill", s>>
    /\ Head(script)[1] \in {"launch", "count"} /\ Head(script)[2] = s => ~About(rest, s)
    /\ Head(script)[1] = "clear_mq" => Kills(rest, s)
    /\ Head(script)[2] = s => About(script, s)

LEMMA RestOfAScript ==
  ASSUME NEW S, NEW script \in Seq(S), script # <<>>, Orderly(script)
  PROVE  Leaves(script, Tail(script))
<1> DEFINE rest == Tail(script)
<1>1. /\ \A k \in DOMAIN rest : k + 1 \in DOMAIN script /\ rest[k] = script[k + 1]
      /\ \A k \in DOMAIN script : k # 1 => k - 1 \in DOMAIN rest /\ rest[k - 1] = script[k]
  BY TailIsOrderly
<1>2. /\ 1 \in DOMAIN script /\ Head(script) = script[1]
      /\ DOMAIN script \subseteq Nat \ {0} /\ DOMAIN rest \subseteq Nat \ {0}
      /\ rest # <<>> => 1 \in DOMAIN rest /\ Head(rest) = rest[1]
  <2>1. rest \in Seq(S)
    OBVIOUS
  <2> HIDE DEF rest
  <2> QED
    BY <2>1
<1> HIDE DEF rest
<1> SUFFICES ASSUME NEW s \in Servers
             PROVE  /\ About(rest, s) => About(script, s)
                    /\ Kills(script, s) => Head(script) = <<"kill", s>> \/ Kills(rest, s)
                    /\ Launches(rest, s) => Head(script) = <<"kill", s>>
                    /\ Head(script)[1] \in {"launch", "count"} /\ Head(script)[2] = s =>
                         ~About(rest, s)
                    /\ Head(script)[1] = "clear_mq" => Kills(rest, s)
                    /\ Head(script)[2] = s => About(script, s)
  BY DEF Leaves, rest
<1>3. About(rest, s) => About(script, s)
  BY <1>1 DEF About
<1>4. Kills(script, s) => Head(script) = <<"kill", s>> \/ Kills(rest, s)
  BY <1>1, <1>2 DEF Kills
<1>5. ASSUME Launches(rest, s) PROVE Head(script) = <<"kill", s>>
  <2>1. 1 \in DOMAIN rest /\ rest[1] = <<"launch", s>>
    BY <1>2, <1>5 DEF Launches
  <2>2. 2 \in DOMAIN script /\ script[2] = <<"launch", s>>
    BY <1>1, <2>1
  <2>3. script[2 - 1] = <<"kill", script[2][2]>>
    BY <2>2 DEF Orderly
  <2> QED
    BY <1>2, <2>2, <2>3
<1>6. ASSUME Head(script)[1] \in {"launch", "count"}, Head(script)[2] = s, About(rest, s)
      PROVE  FALSE
  <2>1. PICK k \in DOMAIN rest : rest[k][2] = s
    BY <1>6 DEF About
  <2>2. k + 1 \in DOMAIN script /\ script[k + 1][2] = s /\ k + 1 > 1
    BY <1>1, <1>2, <2>1
  <2> QED
    BY <1>2, <1>6, <2>2 DEF Orderly
<1>7. ASSUME Head(script)[1] = "clear_mq" PROVE Kills(rest, s)
  <2>1. PICK k \in DOMAIN script : k > 1 /\ script[k] = <<"kill", s>>
    BY <1>2, <1>7 DEF Orderly
  <2>2. k # 1
    BY <1>2, <2>1
  <2> QED
    BY <1>1, <2>1, <2>2 DEF Kills
<1>8. Head(script)[2] = s => About(script, s)
  BY <1>2 DEF About
<1> QED
  BY <1>3, <1>4, <1>5, <1>6, <1>7, <1>8
-----------------------------------------------------------------------------
(* Commands *)

LEMMA ProcessTypes ==
  ASSUME TypeOK, NEW p \in Procs
  PROVE  proc[p].srv \in Servers /\ proc[p].st \in States /\ proc[p].queues \in Nat
BY DEF TypeOK

(* What is left to show of a step that starts no process.                   *)
LEMMA NoneIsNew ==
  ASSUME NEW script, NEW rest, TypeOK, Follows(script), UNCHANGED pidfile,
         \A s \in Servers : About(rest, s) => About(script, s),
         \A p \in Procs : proc'[p].st \in {"forked", "init", "running"} =>
           /\ proc'[p] = proc[p]
           /\ ~Launches(rest, proc[p].srv)
           /\ proc[p].queues = queues \/ Kills(script, proc[p].srv) =>
                proc[p].queues = queues' \/ Kills(rest, proc[p].srv)
  PROVE  Follows(rest)'
<1>1. OneAfterTheOther(rest)'
  <2> SUFFICES ASSUME NEW p \in Procs
               PROVE  /\ Launches(rest, proc'[p].srv) => ~GoesOn(p)'
                      /\ Starts(p)' => ~About(rest, proc'[p].srv)
                      /\ proc'[p].st = "forked" => \A q \in Procs :
                           GoesOn(q)' /\ proc'[q].srv = proc'[p].srv => q = p
    BY DEF OneAfterTheOther
  <2>1. Launches(rest, proc'[p].srv) => ~GoesOn(p)'
    BY DEF GoesOn
  <2>2. Starts(p)' => ~About(rest, proc'[p].srv)
    <3>1. Starts(p)' => proc'[p] = proc[p] /\ Starts(p) /\ proc[p].srv \in Servers
      BY ProcessTypes DEF Starts
    <3> QED
      BY <3>1 DEF Follows, OneAfterTheOther
  <2>3. ASSUME proc'[p].st = "forked", NEW q \in Procs, GoesOn(q)', proc'[q].srv = proc'[p].srv
        PROVE  q = p
    <3>1. proc'[p] = proc[p] /\ proc'[q] = proc[q] /\ GoesOn(q)
      BY <2>3 DEF GoesOn
    <3> QED
      BY <2>3, <3>1 DEF Follows, OneAfterTheOther
  <2> QED
    BY <2>1, <2>2, <2>3
<1>2. PidsAreWritten'
  BY DEF Follows, PidsAreWritten
<1>3. QueuesAreNew(rest)'
  BY DEF Follows, QueuesAreNew
<1> QED
  BY <1>1, <1>2, <1>3 DEF Follows

LEMMA KillLeaves ==
  ASSUME NEW script, NEW rest, Leaves(script, rest), TypeOK, Follows(script),
         NEW srv \in Servers, Head(script) = <<"kill", srv>>, Kill(srv)
  PROVE  Follows(rest)'
<1>1. ASSUME NEW p \in Procs, proc'[p].st \in {"forked", "init", "running"}
      PROVE  /\ proc'[p] = proc[p]
             /\ ~Launches(rest, proc[p].srv)
             /\ proc[p].queues = queues \/ Kills(script, proc[p].srv) =>
                  proc[p].queues = queues' \/ Kills(rest, proc[p].srv)
  <2>1. proc'[p] = IF p = pidfile[srv] /\ proc[p].st \in {"init", "running"}
                     THEN [proc[p] EXCEPT !.st = "stopping"] ELSE proc[p]
    BY DEF Kill, Signal
  <2>2. proc[p] \in [srv : Servers, st : States, queues : Nat]
    BY DEF TypeOK
  <2>3. proc'[p] = proc[p] /\ ~(p = pidfile[srv] /\ proc[p].st \in {"init", "running"})
    BY <1>1, <2>1, <2>2
  <2>4. proc[p].srv # srv
    <3> SUFFICES ASSUME proc[p].srv = srv PROVE FALSE
      OBVIOUS
    <3>1. ~Starts(p)
      BY DEF Follows, OneAfterTheOther, Leaves
    <3>2. proc[p].st = "running" /\ pidfile[srv] = p
      BY <1>1, <2>3, <3>1 DEF Starts, Follows, PidsAreWritten
    <3> QED
      BY <2>3, <3>2
  <2>5. proc[p].srv \in Servers
    BY <2>2
  <2> QED
    BY <2>3, <2>4, <2>5 DEF Leaves, Kill
<1> QED
  BY <1>1, NoneIsNew DEF Leaves, Kill

LEMMA Kill9Leaves ==
  ASSUME NEW script, NEW rest, Leaves(script, rest), TypeOK, Follows(script),
         NEW srv \in Servers, Head(script) = <<"kill9", srv>>, Kill9(srv)
  PROVE  Follows(rest)'
<1>1. ASSUME NEW p \in Procs, proc'[p].st \in {"forked", "init", "running"}
      PROVE  /\ proc'[p] = proc[p]
             /\ ~Launches(rest, proc[p].srv)
             /\ proc[p].queues = queues \/ Kills(script, proc[p].srv) =>
                  proc[p].queues = queues' \/ Kills(rest, proc[p].srv)
  <2>1. proc'[p] = Free \/ proc'[p] = proc[p]
    BY DEF Kill9, Signal
  <2>2. proc'[p] = proc[p] /\ proc[p].srv \in Servers
    BY <1>1, <2>1, ProcessTypes DEF Free
  <2> QED
    BY <2>2 DEF Leaves, Kill9
<1> QED
  BY <1>1, NoneIsNew DEF Leaves, Kill9

LEMMA ClearMqLeaves ==
  ASSUME NEW script, NEW rest, Leaves(script, rest), TypeOK, Follows(script),
         NEW srv \in Servers, Head(script) = <<"clear_mq", srv>>, ClearMq
  PROVE  Follows(rest)'
<1>1. \A p \in Procs :
        /\ proc'[p] = proc[p]
        /\ ~Launches(rest, proc[p].srv)
        /\ Kills(rest, proc[p].srv)
  BY ProcessTypes DEF Leaves, ClearMq
<1> QED
  BY <1>1, NoneIsNew DEF Leaves, ClearMq

LEMMA CrontabLeaves ==
  ASSUME NEW script, NEW rest, Leaves(script, rest), TypeOK, Follows(script),
         NEW srv \in Servers, Head(script) = <<"crontab", srv>>, Crontab
  PROVE  Follows(rest)'
<1>1. \A p \in Procs :
        /\ proc'[p] = proc[p]
        /\ ~Launches(rest, proc[p].srv)
        /\ Kills(script, proc[p].srv) => Kills(rest, proc[p].srv)
  BY ProcessTypes DEF Leaves, Crontab
<1> QED
  BY <1>1, NoneIsNew DEF Leaves, Crontab

LEMMA LaunchLeaves ==
  ASSUME NEW script, NEW rest, Leaves(script, rest), TypeOK, Follows(script),
         script # <<>>, NEW srv \in Servers, Head(script) = <<"launch", srv>>, Launch(srv)
  PROVE  Follows(rest)'
<1>1. /\ \A p \in Procs : proc[p].srv = srv => ~GoesOn(p)
      /\ ~About(rest, srv)
  BY DEF Follows, OneAfterTheOther, Launches, Leaves
<1>2. \A p \in Procs :
        /\ proc[p].srv \in Servers
        /\ ~Launches(rest, proc[p].srv)
        /\ Kills(script, proc[p].srv) => Kills(rest, proc[p].srv)
  BY ProcessTypes DEF Leaves
<1>3. CASE UNCHANGED proc
  BY <1>2, <1>3, NoneIsNew DEF Leaves, Launch
<1>4. CASE \E n \in Unused :
             proc' = [proc EXCEPT ![n] = [srv |-> srv, st |-> "forked", queues |-> queues]]
  <2>1. PICK n \in Procs :
          proc' = [proc EXCEPT ![n] = [srv |-> srv, st |-> "forked", queues |-> queues]]
    BY <1>4 DEF Unused
  <2>2. /\ proc'[n] = [srv |-> srv, st |-> "forked", queues |-> queues]
        /\ \A p \in Procs : p # n => proc'[p] = proc[p]
    BY <2>1 DEF TypeOK
  <2>3. ~Launches(rest, srv)
    BY DEF Leaves
  <2>4. OneAfterTheOther(rest)'
    <3> SUFFICES ASSUME NEW p \in Procs
                 PROVE  /\ Launches(rest, proc'[p].srv) => ~GoesOn(p)'
                        /\ Starts(p)' => ~About(rest, proc'[p].srv)
                        /\ proc'[p].st = "forked" => \A q \in Procs :
                             GoesOn(q)' /\ proc'[q].srv = proc'[p].srv => q = p
      BY DEF OneAfterTheOther
    <3>1. Launches(rest, proc'[p].srv) => ~GoesOn(p)'
      BY <1>2, <2>2, <2>3
    <3>2. CASE p = n
      <4>1. \A q \in Procs : q # n => ~(GoesOn(q)' /\ proc'[q].srv = srv)
        BY <1>1, <2>2 DEF GoesOn
      <4> QED
        BY <1>1, <2>2, <3>1, <3>2, <4>1
    <3>3. CASE p # n
      <4>1. proc'[p] = proc[p] /\ (Starts(p)' => Starts(p) /\ GoesOn(p))
        BY <2>2, <3>3 DEF Starts, GoesOn
      <4>2. Starts(p)' => ~About(rest, proc'[p].srv)
        BY <1>2, <4>1 DEF Follows, OneAfterTheOther, Leaves
      <4>3. ASSUME proc'[p].st = "forked", NEW q \in Procs, GoesOn(q)',
                   proc'[q].srv = proc'[p].srv
            PROVE  q = p
        <5>1. proc[p].srv # srv
          BY <1>1, <4>1, <4>3 DEF Starts
        <5>2. q # n /\ proc'[q] = proc[q]
          BY <2>2, <4>1, <4>3, <5>1
        <5> QED
          BY <4>1, <4>3, <5>2 DEF GoesOn, Follows, OneAfterTheOther
      <4> QED
        BY <3>1, <4>2, <4>3
    <3> QED
      BY <3>2, <3>3
  <2>5. PidsAreWritten'
    BY <2>2 DEF Follows, PidsAreWritten, Launch
  <2>6. QueuesAreNew(rest)'
    <3> SUFFICES ASSUME NEW p \in Procs,
                        proc'[p].st = "running"
                          \/ (proc'[p].st = "forked" /\ proc'[p].srv = "ccd")
                 PROVE  proc'[p].queues = queues' \/ Kills(rest, proc'[p].srv)
      BY DEF QueuesAreNew
    <3>1. CASE p = n
      BY <2>2, <3>1 DEF Launch
    <3>2. CASE p # n
      BY <1>2, <2>2, <3>2 DEF Follows, QueuesAreNew, Launch
    <3> QED
      BY <3>1, <3>2
  <2> QED
    BY <2>4, <2>5, <2>6 DEF Follows
<1> QED
  BY <1>3, <1>4 DEF Launch

LEMMA TheKinds ==
  ASSUME NEW kind, NEW srv, Execute(<<kind, srv>>)
  PROVE  \/ kind = "kill" /\ Kill(srv)
         \/ kind = "kill9" /\ Kill9(srv)
         \/ kind = "launch" /\ Launch(srv)
         \/ kind = "clear_mq" /\ ClearMq
         \/ kind = "crontab" /\ Crontab
<1>1. <<kind, srv>>[1] = kind /\ <<kind, srv>>[2] = srv
  OBVIOUS
<1>2. Execute(<<kind, srv>>)
  OBVIOUS
<1> DEFINE cmd == <<kind, srv>>
<1>3. cmd[1] = kind /\ cmd[2] = srv /\ Execute(cmd)
  BY <1>1, <1>2
<1> HIDE DEF cmd
<1> QED
  BY <1>3, Zenon DEF Execute

LEMMA ExecuteLeaves ==
  ASSUME NEW script, NEW rest, Leaves(script, rest), script # <<>>, TypeOK, Follows(script),
         NEW kind, NEW srv \in Servers, Head(script) = <<kind, srv>>, Execute(<<kind, srv>>)
  PROVE  Follows(rest)'
<1>1. CASE kind = "kill" /\ Kill(srv)
  BY <1>1, KillLeaves
<1>2. CASE kind = "kill9" /\ Kill9(srv)
  BY <1>2, Kill9Leaves
<1>3. CASE kind = "launch" /\ Launch(srv)
  BY <1>3, LaunchLeaves
<1>4. CASE kind = "clear_mq" /\ ClearMq
  BY <1>4, ClearMqLeaves
<1>5. CASE kind = "crontab" /\ Crontab
  BY <1>5, CrontabLeaves
<1> QED
  BY <1>1, <1>2, <1>3, <1>4, <1>5, TheKinds

LEMMA ExecuteTypes ==
  ASSUME TypeOK, NEW kind, NEW srv \in Servers, Execute(<<kind, srv>>)
  PROVE  /\ proc' \in [Procs -> [srv : Servers, st : States, queues : Nat]]
         /\ pidfile' = pidfile /\ cron' \in BOOLEAN
         /\ queues' = IF kind = "clear_mq" THEN queues + 1 ELSE queues
<1> DEFINE Process == [srv : Servers, st : States, queues : Nat]
<1>1. /\ proc \in [Procs -> Process] /\ cron \in BOOLEAN /\ queues \in Nat
  BY OpScriptsAssumption DEF TypeOK
<1>2. Free \in Process /\ \A q \in Nat : [srv |-> srv, st |-> "forked", queues |-> q] \in Process
  BY DEF Free, Servers, States
<1>3. \A p \in Procs : [proc[p] EXCEPT !.st = "stopping"] \in Process
  BY <1>1 DEF States
<1> HIDE DEF Process
<1>4. ASSUME kind = "kill", Kill(srv)
      PROVE  /\ proc' \in [Procs -> Process] /\ pidfile' = pidfile
             /\ queues' = IF kind = "clear_mq" THEN queues + 1 ELSE queues
  <2>1. proc' \in [Procs -> Process]
    BY <1>1, <1>3, <1>4 DEF Kill, Signal
  <2> QED
    BY <1>4, <2>1 DEF Kill
<1>5. ASSUME kind = "kill9", Kill9(srv)
      PROVE  /\ proc' \in [Procs -> Process] /\ pidfile' = pidfile
             /\ queues' = IF kind = "clear_mq" THEN queues + 1 ELSE queues
  <2>1. proc' \in [Procs -> Process]
    BY <1>1, <1>2, <1>5 DEF Kill9, Signal
  <2> QED
    BY <1>5, <2>1 DEF Kill9
<1>6. ASSUME kind = "launch", Launch(srv)
      PROVE  /\ proc' \in [Procs -> Process] /\ pidfile' = pidfile
             /\ queues' = IF kind = "clear_mq" THEN queues + 1 ELSE queues
  <2>1. proc' \in [Procs -> Process]
    BY <1>1, <1>2, <1>6 DEF Launch
  <2> QED
    BY <1>6, <2>1 DEF Launch
<1>7. ASSUME kind = "clear_mq", ClearMq
      PROVE  /\ proc' \in [Procs -> Process] /\ pidfile' = pidfile
             /\ queues' = IF kind = "clear_mq" THEN queues + 1 ELSE queues
  <2>1. proc' \in [Procs -> Process]
    BY <1>1, <1>7 DEF ClearMq
  <2> QED
    BY <1>7, <2>1 DEF ClearMq
<1>8. ASSUME kind = "crontab", Crontab
      PROVE  /\ proc' \in [Procs -> Process] /\ pidfile' = pidfile
             /\ queues' = IF kind = "clear_mq" THEN queues + 1 ELSE queues
  <2>1. proc' \in [Procs -> Process]
    BY <1>1, <1>8 DEF Crontab
  <2> QED
    BY <1>8, <2>1 DEF Crontab
<1>9. /\ proc' \in [Procs -> Process] /\ pidfile' = pidfile
      /\ queues' = IF kind = "clear_mq" THEN queues + 1 ELSE queues
  BY <1>4, <1>5, <1>6, <1>7, <1>8, TheKinds
<1>10. cron' = cron \/ cron' = TRUE
  BY TheKinds DEF Kill, Kill9, Launch, ClearMq, Crontab
<1>11. cron' \in BOOLEAN
  BY <1>1, <1>10
<1> QED
  BY <1>9, <1>11 DEF Process

LEMMA TheCommand ==
  ASSUME NEW K, NEW script \in Seq(K \X Servers), script # <<>>
  PROVE  \E kind \in K, srv \in Servers : Head(script) = <<kind, srv>>
<1>1. Head(script) \in K \X Servers
  OBVIOUS
<1> QED
  BY <1>1
-----------------------------------------------------------------------------
(* Scripts stay in order *)

LEMMA ScriptsBegin == Init => Scripts
<1> SUFFICES ASSUME Init PROVE Scripts
  OBVIOUS
<1>1. proc \in [Procs -> [srv : Servers, st : States, queues : Nat]]
      /\ pidfile \in [Servers -> Procs \cup {0}] /\ cron \in BOOLEAN
  <2>1. CASE Stopped
    BY <2>1 DEF Stopped, Free, Servers, States
  <2>2. CASE Started
    <3>1. {"ccd", "mcd"} = Servers /\ {1, 2} \subseteq Procs
      BY OpScriptsAssumption DEF Servers
    <3>2. /\ Free \in [srv : Servers, st : States, queues : Nat]
          /\ \A s \in Servers : [srv |-> s, st |-> "running", queues |-> 0]
                                  \in [srv : Servers, st : States, queues : Nat]
      BY DEF Free, Servers, States
    <3>3. proc \in [Procs -> [srv : Servers, st : States, queues : Nat]]
      BY <2>2, <3>1, <3>2 DEF Started
    <3> QED
      BY <2>2, <3>1, <3>3 DEF Started
  <2> QED
    BY <2>1, <2>2 DEF Init
<1>2. op = <<>> /\ check = <<>> /\ queues = 0 /\ commands = 0 /\ crashes = 0 /\ overlapped = FALSE
  BY DEF Init
<1>3. TypeOK
  <2>1. 0 \in 0..MaxCommands /\ 0 \in 0..MaxCrashes
    BY OpScriptsAssumption
  <2>2. op \in Seq(OpCommands) /\ check \in Seq(CheckCommands)
    BY <1>2
  <2>3. overlapped \in BOOLEAN
    BY <1>2
  <2> QED
    BY <1>1, <1>2, <2>1, <2>2, <2>3 DEF TypeOK, OpCommands, CheckCommands
<1>4. Orderly(op) /\ Orderly(check) /\ ClearsOnce
  BY <1>2 DEF Orderly, ClearsOnce
<1> QED
  BY <1>3, <1>4 DEF Scripts

LEMMA OperatorScripts ==
  ASSUME Scripts, NEW name \in DOMAIN Script, Operator(name)
  PROVE  Scripts'
<1>1. TypeOK /\ queues <= commands /\ queues \in Nat /\ commands \in Nat
  BY OpScriptsAssumption DEF Scripts, ClearsOnce, TypeOK
<1>2. op' \in Seq(OpCommands) /\ Orderly(op')
      /\ \A j, k \in DOMAIN op' : op'[j][1] = "clear_mq" /\ op'[k][1] = "clear_mq" => j = k
  BY ScriptsAreOrderly DEF Operator
<1>3. TypeOK'
  <2>1. commands' \in 0..MaxCommands
    BY <1>1, OpScriptsAssumption DEF Operator
  <2>2. overlapped' \in BOOLEAN
    BY DEF Operator
  <2> QED
    BY <1>1, <1>2, <2>1, <2>2 DEF TypeOK, Operator, OpCommands
<1>4. ClearsOnce'
  BY <1>1, <1>2 DEF ClearsOnce, Operator
<1> QED
  BY <1>2, <1>3, <1>4 DEF Scripts, Operator

LEMMA MinuteScripts ==
  ASSUME Scripts, Minute
  PROVE  Scripts'
<1>1. check' \in Seq(CheckCommands)
  BY DEF Minute, CheckCommands, Servers
<1>2. Orderly(check')
  BY DEF Minute, Orderly
<1>3. overlapped' \in BOOLEAN
  BY DEF Minute
<1>4. TypeOK'
  BY <1>1, <1>3 DEF Scripts, TypeOK, Minute, CheckCommands
<1> QED
  BY <1>2, <1>4 DEF Scripts, Minute, ClearsOnce

LEMMA OpStepScripts ==
  ASSUME Scripts, OpStep
  PROVE  Scripts'
<1>1. /\ TypeOK /\ op \in Seq(OpCommands) /\ op # <<>> /\ op' = Tail(op)
      /\ queues \in Nat /\ commands \in 0..MaxCommands /\ queues <= commands
  BY OpScriptsAssumption DEF Scripts, ClearsOnce, TypeOK, OpCommands, OpStep
<1> DEFINE K == {"kill", "kill9", "launch", "clear_mq", "crontab"}
<1>2. PICK kind \in K, srv \in Servers : Head(op) = <<kind, srv>>
  <2>1. op \in Seq(K \X Servers)
    BY <1>1 DEF OpCommands
  <2> HIDE DEF K
  <2> QED
    BY <1>1, <2>1, TheCommand
<1>3. /\ proc' \in [Procs -> [srv : Servers, st : States, queues : Nat]]
      /\ pidfile' = pidfile /\ cron' \in BOOLEAN
      /\ queues' = IF kind = "clear_mq" THEN queues + 1 ELSE queues
  BY <1>1, <1>2, ExecuteTypes DEF OpStep
<1>4. Orderly(op') /\ op' \in Seq(OpCommands)
      /\ \A k \in DOMAIN op' : k + 1 \in DOMAIN op /\ op'[k] = op[k + 1]
      /\ DOMAIN op' \subseteq Nat \ {0}
  <2> DEFINE rest == Tail(op)
  <2>1. rest \in Seq(OpCommands)
    BY <1>1
  <2>2. Orderly(rest) /\ \A k \in DOMAIN rest : k + 1 \in DOMAIN op /\ rest[k] = op[k + 1]
    BY <1>1, TailIsOrderly DEF Scripts
  <2> HIDE DEF rest
  <2>3. DOMAIN rest \subseteq Nat \ {0}
    BY <2>1
  <2> QED
    BY <1>1, <2>1, <2>2, <2>3 DEF rest
<1>5. 1 \in DOMAIN op /\ op[1] = <<kind, srv>>
  BY <1>1, <1>2
<1>6. queues' <= commands
  BY <1>1, <1>3, <1>5 DEF Scripts, ClearsOnce
<1>7. queues' \in 0..MaxCommands
  BY <1>1, <1>3, <1>6, OpScriptsAssumption
<1>8. TypeOK'
  BY <1>1, <1>3, <1>4, <1>7 DEF TypeOK, OpStep, OpCommands
<1>9. ASSUME NEW k \in DOMAIN op', op'[k][1] = "clear_mq"
      PROVE  queues' + 1 <= commands /\ \A j \in DOMAIN op' : op'[j][1] = "clear_mq" => j = k
  <2>1. k + 1 \in DOMAIN op /\ op[k + 1][1] = "clear_mq" /\ k \in Nat \ {0}
    BY <1>4, <1>9
  <2>2. kind # "clear_mq"
    <3> SUFFICES ASSUME kind = "clear_mq" PROVE FALSE
      OBVIOUS
    <3>1. k + 1 = 1
      BY <1>5, <2>1 DEF Scripts, ClearsOnce
    <3> QED
      BY <2>1, <3>1
  <2>3. queues' + 1 <= commands
    BY <1>3, <2>1, <2>2 DEF Scripts, ClearsOnce
  <2>4. ASSUME NEW j \in DOMAIN op', op'[j][1] = "clear_mq" PROVE j = k
    <3>1. j + 1 \in DOMAIN op /\ op[j + 1][1] = "clear_mq" /\ j \in Nat
      BY <1>4, <2>4
    <3>2. j + 1 = k + 1
      BY <2>1, <3>1 DEF Scripts, ClearsOnce
    <3> QED
      BY <2>1, <3>1, <3>2
  <2> QED
    BY <2>3, <2>4
<1>10. ClearsOnce'
  BY <1>6, <1>9 DEF ClearsOnce, OpStep
<1> QED
  BY <1>4, <1>8, <1>10 DEF Scripts, OpStep

LEMMA CheckStepScripts ==
  ASSUME Scripts, CheckStep
  PROVE  Scripts'
<1>1. /\ TypeOK /\ check \in Seq(CheckCommands) /\ check # <<>> /\ check' = Tail(check)
  BY DEF Scripts, TypeOK, CheckCommands, CheckStep
<1>2. PICK kind \in {"count", "kill", "launch"}, srv \in Servers : Head(check) = <<kind, srv>>
  BY <1>1, TheCommand DEF CheckCommands
<1>3. /\ proc' \in [Procs -> [srv : Servers, st : States, queues : Nat]]
      /\ pidfile' = pidfile /\ cron' \in BOOLEAN /\ queues' = queues
  BY <1>1, <1>2, ExecuteTypes DEF CheckStep
<1>4. Orderly(check') /\ check' \in Seq(CheckCommands)
  BY <1>1, TailIsOrderly DEF Scripts
<1>5. TypeOK'
  BY <1>1, <1>3, <1>4 DEF TypeOK, CheckStep, CheckCommands
<1> QED
  BY <1>3, <1>4, <1>5 DEF Scripts, CheckStep, ClearsOnce

LEMMA CountedOrNot ==
  ASSUME check \in Seq(CheckCommands), check # <<>>, Count,
         NEW srv \in Servers, Head(check) = <<"count", srv>>
  PROVE  check' = Start(srv) \o Tail(check) \/ check' = Tail(check)
<1>1. Head(check)[2] = srv
  OBVIOUS
<1>2. PICK grep \in {0, 1} :
        check' = (IF TooFew(Cardinality(Of(srv)) + grep) THEN Start(srv) ELSE <<>>)
                   \o Tail(check)
  BY <1>1 DEF Count
<1>3. CASE TooFew(Cardinality(Of(srv)) + grep)
  BY <1>2, <1>3
<1>4. CASE ~TooFew(Cardinality(Of(srv)) + grep)
  <2>1. check' = <<>> \o Tail(check)
    BY <1>2, <1>4
  <2>2. Tail(check) \in Seq(CheckCommands)
    OBVIOUS
  <2> QED
    BY <2>1, <2>2
<1> QED
  BY <1>3, <1>4

LEMMA CountScripts ==
  ASSUME Scripts, Count
  PROVE  Scripts'
<1>1. /\ TypeOK /\ check \in Seq(CheckCommands) /\ check # <<>>
  BY DEF Scripts, TypeOK, CheckCommands, Count
<1>2. PICK srv \in Servers : Head(check) = <<"count", srv>>
  BY <1>1, TheCommand DEF CheckCommands, Count
<1>3. check' = Start(srv) \o Tail(check) \/ check' = Tail(check)
  BY <1>1, <1>2, CountedOrNot
<1>4. Tail(check) \in Seq(CheckCommands)
  BY <1>1
<1>5. Orderly(check') /\ check' \in Seq(CheckCommands)
  <2>1. Orderly(Tail(check))
    BY <1>1, TailIsOrderly DEF Scripts
  <2>2. /\ Start(srv) \o Tail(check) \in Seq(CheckCommands)
        /\ Orderly(Start(srv) \o Tail(check))
    BY <1>1, <1>2, CountedIsOrderly DEF Scripts
  <2> QED
    BY <1>3, <1>4, <2>1, <2>2
<1>6. TypeOK'
  BY <1>1, <1>5 DEF TypeOK, Count, CheckCommands
<1> QED
  BY <1>5, <1>6 DEF Scripts, Count, ClearsOnce

LEMMA ProcessScripts ==
  ASSUME Scripts, NEW p \in Procs, WritePid(p) \/ MapQueues(p) \/ Exit(p) \/ Crash(p)
  PROVE  Scripts'
<1>1. /\ proc \in [Procs -> [srv : Servers, st : States, queues : Nat]] /\ queues \in Nat
      /\ proc[p] \in [srv : Servers, st : States, queues : Nat]
  BY OpScriptsAssumption DEF Scripts, TypeOK
<1>2. Free \in [srv : Servers, st : States, queues : Nat]
  BY DEF Free, Servers, States
<1>3. proc' \in [Procs -> [srv : Servers, st : States, queues : Nat]]
  <2>1. CASE WritePid(p)
    BY <1>1, <2>1 DEF WritePid, ProcStep, States
  <2>2. CASE MapQueues(p)
    BY <1>1, <2>2 DEF MapQueues, ProcStep, States
  <2>3. CASE Exit(p) \/ Crash(p)
    BY <1>1, <1>2, <2>3 DEF Exit, Crash, ProcStep
  <2> QED
    BY <2>1, <2>2, <2>3
<1>4. UNCHANGED <<queues, cron, op, check, commands, overlapped>>
  BY DEF WritePid, MapQueues, Exit, Crash, ProcStep
<1>5. pidfile' \in [Servers -> Procs \cup {0}] /\ crashes' \in 0..MaxCrashes
  BY <1>1, OpScriptsAssumption DEF Scripts, TypeOK, WritePid, MapQueues, Exit, Crash
<1>6. TypeOK'
  BY <1>3, <1>4, <1>5 DEF Scripts, TypeOK
<1> QED
  BY <1>4, <1>6 DEF Scripts, ClearsOnce

LEMMA ScriptsGoOn == Scripts /\ [Next]_vars => Scripts'
<1> SUFFICES ASSUME Scripts, [Next]_vars PROVE Scripts'
  OBVIOUS
<1>1. CASE \E name \in DOMAIN Script : Operator(name)
  BY <1>1, OperatorScripts
<1>2. CASE \E p \in Procs : WritePid(p) \/ MapQueues(p) \/ Exit(p) \/ Crash(p)
  BY <1>2, ProcessScripts
<1>3. CASE UNCHANGED vars
  BY <1>3 DEF Scripts, TypeOK, ClearsOnce, vars
<1> QED
  BY <1>1, <1>2, <1>3, MinuteScripts, OpStepScripts, CheckStepScripts, CountScripts DEF Next
-----------------------------------------------------------------------------
(* One after the other *)

LEMMA NothingToDo ==
  \A s \in Servers : ~About(<<>>, s) /\ ~Kills(<<>>, s) /\ ~Launches(<<>>, s)
BY DEF About, Kills, Launches

(* A script that begins when nothing is under way.                          *)
LEMMA BeginFollows ==
  ASSUME NEW script, TypeOK, Follows(<<>>), NoneStarting,
         \A s \in Servers : ~Launches(script, s),
         UNCHANGED <<proc, pidfile, queues>>
  PROVE  Follows(script)'
<1>1. \A p \in Procs : proc[p].srv \in Servers /\ ~Starts(p) /\ proc[p].st # "forked"
  BY ProcessTypes DEF NoneStarting, Starts
<1>2. OneAfterTheOther(script)'
  BY <1>1 DEF OneAfterTheOther, Starts
<1>3. PidsAreWritten'
  BY DEF Follows, PidsAreWritten
<1>4. QueuesAreNew(script)'
  BY <1>1, NothingToDo DEF Follows, QueuesAreNew
<1> QED
  BY <1>2, <1>3, <1>4 DEF Follows

LEMMA OperatorInTurn ==
  ASSUME ScriptsInv, NEW name \in DOMAIN Script, Operator(name)
  PROVE  InTurn'
<1> SUFFICES ASSUME ~overlapped' PROVE check' = <<>> /\ Follows(op)'
  BY DEF InTurn
<1>1. PICK script : script = op'
  OBVIOUS
<1>2. check = <<>> /\ op = <<>> /\ NoneStarting /\ ~overlapped /\ TypeOK
  BY DEF Operator, ScriptsInv, Scripts
<1>3. Follows(<<>>)
  BY <1>2 DEF ScriptsInv, InTurn
<1>4. \A s \in Servers : ~Launches(script, s)
  BY <1>1, ScriptsAreOrderly DEF Operator
<1>5. Follows(script)'
  BY <1>2, <1>3, <1>4, BeginFollows DEF Operator
<1>6. Follows(op)'
  BY <1>1, <1>5 DEF Follows, OneAfterTheOther, QueuesAreNew
<1> QED
  BY <1>2, <1>6 DEF Operator

LEMMA MinuteInTurn ==
  ASSUME ScriptsInv, Minute
  PROVE  InTurn'
<1> SUFFICES ASSUME ~overlapped' PROVE op' = <<>> /\ Follows(check)'
  BY DEF InTurn
<1>1. PICK script : script = check'
  OBVIOUS
<1>2. check = <<>> /\ op = <<>> /\ NoneStarting /\ ~overlapped /\ TypeOK
  BY DEF Minute, ScriptsInv, Scripts
<1>3. Follows(<<>>)
  BY <1>2 DEF ScriptsInv, InTurn
<1>4. \A s \in Servers : ~Launches(script, s)
  BY <1>1 DEF Minute, Launches
<1>5. Follows(script)'
  BY <1>2, <1>3, <1>4, BeginFollows DEF Minute
<1>6. Follows(check)'
  BY <1>1, <1>5 DEF Follows, OneAfterTheOther, QueuesAreNew
<1> QED
  BY <1>2, <1>6 DEF Minute

LEMMA OpStepInTurn ==
  ASSUME ScriptsInv, OpStep
  PROVE  InTurn'
<1> SUFFICES ASSUME ~overlapped' PROVE check' = <<>> /\ Follows(op)'
  BY DEF InTurn
<1> DEFINE K == {"kill", "kill9", "launch", "clear_mq", "crontab"}
<1>1. TypeOK /\ op \in Seq(K \X Servers) /\ op # <<>> /\ Orderly(op) /\ ~overlapped
  BY DEF ScriptsInv, Scripts, TypeOK, OpStep
<1> HIDE DEF K
<1>2. check = <<>> /\ Follows(op)
  BY <1>1 DEF ScriptsInv, InTurn
<1>3. PICK kind \in K, srv \in Servers : Head(op) = <<kind, srv>>
  BY <1>1, TheCommand
<1>4. PICK rest : rest = Tail(op)
  OBVIOUS
<1>5. Leaves(op, rest)
  BY <1>1, <1>4, RestOfAScript
<1>6. Follows(rest)'
  BY <1>1, <1>2, <1>3, <1>5, ExecuteLeaves DEF OpStep
<1>7. Follows(op)'
  BY <1>4, <1>6 DEF OpStep, Follows, OneAfterTheOther, QueuesAreNew
<1> QED
  BY <1>2, <1>7 DEF OpStep

LEMMA CheckStepInTurn ==
  ASSUME ScriptsInv, CheckStep
  PROVE  InTurn'
<1> SUFFICES ASSUME ~overlapped' PROVE op' = <<>> /\ Follows(check)'
  BY DEF InTurn
<1> DEFINE K == {"count", "kill", "launch"}
<1>1. TypeOK /\ check \in Seq(K \X Servers) /\ check # <<>> /\ Orderly(check) /\ ~overlapped
  BY DEF ScriptsInv, Scripts, TypeOK, CheckStep
<1> HIDE DEF K
<1>2. op = <<>> /\ Follows(check)
  BY <1>1 DEF ScriptsInv, InTurn
<1>3. PICK kind \in K, srv \in Servers : Head(check) = <<kind, srv>>
  BY <1>1, TheCommand
<1>4. PICK rest : rest = Tail(check)
  OBVIOUS
<1>5. Leaves(check, rest)
  BY <1>1, <1>4, RestOfAScript
<1>6. Follows(rest)'
  BY <1>1, <1>2, <1>3, <1>5, ExecuteLeaves DEF CheckStep
<1>7. Follows(check)'
  BY <1>4, <1>6 DEF CheckStep, Follows, OneAfterTheOther, QueuesAreNew
<1> QED
  BY <1>2, <1>7 DEF CheckStep

(* What check.sh does next is about the server it has counted, or was to    *)
(* be done before.                                                          *)
LEMMA CountedIsAbout ==
  ASSUME NEW script \in Seq(CheckCommands), script # <<>>, Orderly(script),
         NEW srv \in Servers, Head(script) = <<"count", srv>>, NEW next,
         next = Start(srv) \o Tail(script) \/ next = Tail(script)
  PROVE  \A s \in Servers :
           /\ ~Launches(next, s)
           /\ About(next, s) => About(script, s)
           /\ Kills(script, s) => Kills(next, s)
<1> DEFINE rest == Tail(script)
<1>1. rest \in Seq(CheckCommands)
  OBVIOUS
<1>2. Leaves(script, rest)
  BY RestOfAScript
<1> HIDE DEF rest
<1>3. CASE next = rest
  BY <1>2, <1>3 DEF Leaves
<1>4. CASE next = Start(srv) \o rest
  <2> SUFFICES ASSUME NEW s \in Servers
               PROVE  /\ ~Launches(next, s)
                      /\ About(next, s) => About(script, s)
                      /\ Kills(script, s) => Kills(next, s)
    OBVIOUS
  <2>1. Start(srv) \in Seq(CheckCommands) /\ Len(Start(srv)) = 2
        /\ Start(srv)[1] = <<"kill", srv>> /\ Start(srv)[2] = <<"launch", srv>>
    BY DEF Start, CheckCommands
  <2>2. /\ next \in Seq(CheckCommands) /\ Len(next) = Len(rest) + 2
        /\ next[1] = Start(srv)[1] /\ next[2] = Start(srv)[2]
        /\ \A k \in 3..(Len(rest) + 2) : next[k] = rest[k - 2]
    BY <1>1, <1>4, <2>1, TwoBefore
  <2>3. /\ next[1] = <<"kill", srv>> /\ next[2] = <<"launch", srv>>
        /\ DOMAIN next = 1..(Len(rest) + 2) /\ DOMAIN rest = 1..Len(rest) /\ Len(rest) \in Nat
    BY <1>1, <2>1, <2>2
  <2>4. ~Launches(next, s)
    BY <2>2, <2>3 DEF Launches
  <2>5. ASSUME About(next, s) PROVE About(script, s)
    <3>1. PICK k \in DOMAIN next : next[k][2] = s
      BY <2>5 DEF About
    <3>2. CASE k = 1 \/ k = 2
      BY <1>2, <2>3, <3>1, <3>2 DEF Leaves
    <3>3. CASE k > 2
      <4>1. k - 2 \in DOMAIN rest /\ rest[k - 2][2] = s
        BY <2>2, <2>3, <3>1, <3>3
      <4> QED
        BY <1>2, <4>1 DEF Leaves, About
    <3>4. k = 1 \/ k = 2 \/ k > 2
      BY <2>3
    <3> QED
      BY <3>2, <3>3, <3>4
  <2>6. ASSUME Kills(script, s) PROVE Kills(next, s)
    <3>1. PICK k \in DOMAIN rest : rest[k] = <<"kill", s>>
      BY <1>2, <2>6 DEF Leaves, Kills
    <3>2. k \in 1..Len(rest)
      BY <2>3
    <3>3. k + 2 \in 3..(Len(rest) + 2) /\ (k + 2) - 2 = k /\ k + 2 \in 1..(Len(rest) + 2)
      BY <2>3, <3>2
    <3>4. next[k + 2] = rest[k] /\ k + 2 \in DOMAIN next
      BY <2>2, <2>3, <3>3
    <3> QED
      BY <3>1, <3>4 DEF Kills
  <2> QED
    BY <2>4, <2>5, <2>6
<1> QED
  BY <1>3, <1>4 DEF rest

LEMMA CountInTurn ==
  ASSUME ScriptsInv, Count
  PROVE  InTurn'
<1> SUFFICES ASSUME ~overlapped' PROVE op' = <<>> /\ Follows(check)'
  BY DEF InTurn
<1>1. /\ TypeOK /\ check \in Seq(CheckCommands) /\ check # <<>> /\ Orderly(check)
      /\ ~overlapped
  BY DEF ScriptsInv, Scripts, TypeOK, CheckCommands, Count
<1>2. op = <<>> /\ Follows(check)
  BY <1>1 DEF ScriptsInv, InTurn
<1>3. PICK srv \in Servers : Head(check) = <<"count", srv>>
  BY <1>1, TheCommand DEF CheckCommands, Count
<1>4. PICK next : next = check'
  OBVIOUS
<1>5. next = Start(srv) \o Tail(check) \/ next = Tail(check)
  BY <1>1, <1>3, <1>4, CountedOrNot
<1>6. \A s \in Servers :
        /\ ~Launches(next, s)
        /\ About(next, s) => About(check, s)
        /\ Kills(check, s) => Kills(next, s)
  BY <1>1, <1>3, <1>5, CountedIsAbout
<1>7. Follows(next)'
  BY <1>1, <1>2, <1>6, NoneIsNew, ProcessTypes DEF Count
<1>8. Follows(check)'
  BY <1>4, <1>7 DEF Follows, OneAfterTheOther, QueuesAreNew
<1> QED
  BY <1>2, <1>8 DEF Count

LEMMA WritePidFollows ==
  ASSUME NEW script, TypeOK, Follows(script), NEW p \in Procs, WritePid(p)
  PROVE  Follows(script)'
<1> DEFINE next == IF proc[p].srv = "ccd" THEN "running" ELSE "init"
<1>1. /\ proc[p].st = "forked" /\ GoesOn(p) /\ proc[p].srv \in Servers
      /\ ~About(script, proc[p].srv) /\ ~Launches(script, proc[p].srv)
      /\ \A q \in Procs : GoesOn(q) /\ proc[q].srv = proc[p].srv => q = p
  BY ProcessTypes DEF WritePid, ProcStep, GoesOn, Starts, Follows, OneAfterTheOther
<1>2. /\ proc'[p] = [proc[p] EXCEPT !.st = next]
      /\ \A q \in Procs : q # p => proc'[q] = proc[q]
      /\ pidfile'[proc[p].srv] = p
      /\ \A s \in Servers : s # proc[p].srv => pidfile'[s] = pidfile[s]
      /\ queues' = queues
  BY <1>1 DEF WritePid, ProcStep, TypeOK
<1>3. proc'[p].st = next /\ proc'[p].srv = proc[p].srv /\ proc'[p].queues = proc[p].queues
  BY <1>2 DEF TypeOK
<1>4. next \in {"running", "init"} /\ (next = "running" => proc[p].srv = "ccd")
  OBVIOUS
<1> HIDE DEF next
<1>5. OneAfterTheOther(script)'
  <2> SUFFICES ASSUME NEW r \in Procs
               PROVE  /\ Launches(script, proc'[r].srv) => ~GoesOn(r)'
                      /\ Starts(r)' => ~About(script, proc'[r].srv)
                      /\ proc'[r].st = "forked" => \A q \in Procs :
                           GoesOn(q)' /\ proc'[q].srv = proc'[r].srv => q = r
    BY DEF OneAfterTheOther
  <2>1. CASE r = p
    BY <1>1, <1>3, <1>4, <2>1
  <2>2. CASE r # p
    <3>1. proc'[r] = proc[r] /\ (GoesOn(r)' => GoesOn(r)) /\ (Starts(r)' => Starts(r))
      BY <1>2, <2>2 DEF GoesOn, Starts
    <3>2. ASSUME proc'[r].st = "forked", NEW q \in Procs, GoesOn(q)', proc'[q].srv = proc'[r].srv
          PROVE  q = r
      <4>1. proc[r].srv # proc[p].srv
        BY <1>1, <2>2, <3>1, <3>2 DEF GoesOn
      <4>2. q # p /\ proc'[q] = proc[q]
        BY <1>2, <1>3, <3>1, <3>2, <4>1
      <4> QED
        BY <3>1, <3>2, <4>2 DEF GoesOn, Follows, OneAfterTheOther
    <3> QED
      BY <3>1, <3>2 DEF Follows, OneAfterTheOther
  <2> QED
    BY <2>1, <2>2
<1>6. PidsAreWritten'
  <2> SUFFICES ASSUME NEW r \in Procs, proc'[r].st \in {"init", "running"}
               PROVE  pidfile'[proc'[r].srv] = r
    BY DEF PidsAreWritten
  <2>1. CASE r = p
    BY <1>2, <1>3, <2>1
  <2>2. CASE r # p
    <3>1. proc'[r] = proc[r] /\ pidfile[proc[r].srv] = r /\ GoesOn(r) /\ proc[r].srv \in Servers
      BY <1>2, <2>2, ProcessTypes DEF GoesOn, Follows, PidsAreWritten
    <3>2. proc[r].srv # proc[p].srv
      BY <1>1, <2>2, <3>1
    <3> QED
      BY <1>2, <3>1, <3>2
  <2> QED
    BY <2>1, <2>2
<1>7. QueuesAreNew(script)'
  <2> SUFFICES ASSUME NEW r \in Procs,
                      proc'[r].st = "running" \/ (proc'[r].st = "forked" /\ proc'[r].srv = "ccd")
               PROVE  proc'[r].queues = queues' \/ Kills(script, proc'[r].srv)
    BY DEF QueuesAreNew
  <2>1. CASE r = p
    <3>1. proc[p].srv = "ccd"
      BY <1>3, <1>4, <2>1
    <3> QED
      BY <1>1, <1>2, <1>3, <2>1, <3>1 DEF Follows, QueuesAreNew
  <2>2. CASE r # p
    BY <1>2, <2>2 DEF Follows, QueuesAreNew
  <2> QED
    BY <2>1, <2>2
<1> QED
  BY <1>5, <1>6, <1>7 DEF Follows

LEMMA MapQueuesFollows ==
  ASSUME NEW script, TypeOK, Follows(script), NEW p \in Procs, MapQueues(p)
  PROVE  Follows(script)'
<1>1. proc[p].st = "init" /\ GoesOn(p)
  BY DEF MapQueues, ProcStep, GoesOn
<1>2. /\ proc'[p] = [proc[p] EXCEPT !.st = "running", !.queues = queues]
      /\ \A q \in Procs : q # p => proc'[q] = proc[q]
      /\ pidfile' = pidfile /\ queues' = queues
  BY DEF MapQueues, ProcStep, TypeOK
<1>3. proc'[p].st = "running" /\ proc'[p].srv = proc[p].srv /\ proc'[p].queues = queues
  BY <1>2 DEF TypeOK
<1>4. \A q \in Procs : proc'[q].srv = proc[q].srv /\ (GoesOn(q)' => GoesOn(q))
                       /\ (Starts(q)' => Starts(q))
                       /\ (proc'[q].st = "forked" => proc[q].st = "forked")
  BY <1>1, <1>2, <1>3 DEF GoesOn, Starts
<1>5. OneAfterTheOther(script)'
  BY <1>4 DEF Follows, OneAfterTheOther
<1>6. PidsAreWritten'
  BY <1>1, <1>2, <1>3 DEF Follows, PidsAreWritten
<1>7. QueuesAreNew(script)'
  BY <1>2, <1>3 DEF Follows, QueuesAreNew
<1> QED
  BY <1>5, <1>6, <1>7 DEF Follows

LEMMA EndFollows ==
  ASSUME NEW script, TypeOK, Follows(script), NEW p \in Procs, Exit(p) \/ Crash(p)
  PROVE  Follows(script)'
<1>1. /\ \A q \in Procs : proc'[q] = proc[q] \/ proc'[q] = Free
      /\ pidfile' = pidfile /\ queues' = queues
  BY DEF Exit, Crash, ProcStep, TypeOK
<1>2. \A q \in Procs : proc'[q].st \in {"forked", "init", "running"} => proc'[q] = proc[q]
  BY <1>1 DEF Free
<1>3. OneAfterTheOther(script)'
  BY <1>2 DEF Follows, OneAfterTheOther, GoesOn, Starts
<1>4. PidsAreWritten'
  BY <1>1, <1>2 DEF Follows, PidsAreWritten
<1>5. QueuesAreNew(script)'
  BY <1>1, <1>2 DEF Follows, QueuesAreNew
<1> QED
  BY <1>3, <1>4, <1>5 DEF Follows

LEMMA ProcessInTurn ==
  ASSUME ScriptsInv, NEW p \in Procs, WritePid(p) \/ MapQueues(p) \/ Exit(p) \/ Crash(p)
  PROVE  InTurn'
<1>1. TypeOK
  BY DEF ScriptsInv, Scripts
<1>2. UNCHANGED <<op, check, overlapped>>
  BY DEF WritePid, MapQueues, Exit, Crash, ProcStep
<1>3. ASSUME NEW script, Follows(script) PROVE Follows(script)'
  BY <1>1, <1>3, WritePidFollows, MapQueuesFollows, EndFollows
<1>4. PICK first, second : first = op /\ second = check
  OBVIOUS
<1> SUFFICES ASSUME ~overlapped'
             PROVE  (check' = <<>> /\ Follows(op)') \/ (op' = <<>> /\ Follows(check)')
  BY DEF InTurn
<1>5. CASE check = <<>> /\ Follows(op)
  <2>1. Follows(first)'
    BY <1>3, <1>4, <1>5
  <2>2. Follows(op)'
    BY <1>2, <1>4, <2>1 DEF Follows, OneAfterTheOther, QueuesAreNew
  <2> QED
    BY <1>2, <1>5, <2>2
<1>6. CASE op = <<>> /\ Follows(check)
  <2>1. Follows(second)'
    BY <1>3, <1>4, <1>6
  <2>2. Follows(check)'
    BY <1>2, <1>4, <2>1 DEF Follows, OneAfterTheOther, QueuesAreNew
  <2> QED
    BY <1>2, <1>6, <2>2
<1> QED
  BY <1>2, <1>5, <1>6 DEF ScriptsInv, InTurn

LEMMA InTurnBegins == Init => InTurn
<1> SUFFICES ASSUME Init PROVE Follows(op)
  BY DEF Init, InTurn
<1>1. op = <<>> /\ \A p \in Procs : proc[p].srv \in Servers
  BY ScriptsBegin, ProcessTypes DEF Init, Scripts
<1>2. \A s \in Servers : ~Launches(op, s) /\ ~About(op, s)
  BY <1>1, NothingToDo
<1>3. \A p \in Procs :
        /\ proc[p].st \notin {"forked", "init"} /\ proc[p].queues = 0
        /\ proc[p].st = "running" => pidfile[proc[p].srv] = p
  BY DEF Init, Stopped, Started, Free, Servers
<1>4. OneAfterTheOther(op)
  BY <1>1, <1>2, <1>3 DEF OneAfterTheOther, Starts
<1>5. PidsAreWritten /\ QueuesAreNew(op)
  BY <1>3 DEF PidsAreWritten, QueuesAreNew, Init
<1> QED
  BY <1>4, <1>5 DEF Follows

LEMMA ScriptsInductive == Init /\ [][Next]_vars => []ScriptsInv
<1>1. Init => ScriptsInv
  BY ScriptsBegin, InTurnBegins DEF ScriptsInv
<1>2. ScriptsInv /\ [Next]_vars => ScriptsInv'
  <2> SUFFICES ASSUME ScriptsInv, [Next]_vars PROVE ScriptsInv'
    OBVIOUS
  <2>1. Scripts'
    BY ScriptsGoOn DEF ScriptsInv
  <2>2. CASE \E name \in DOMAIN Script : Operator(name)
    BY <2>1, <2>2, OperatorInTurn DEF ScriptsInv
  <2>3. CASE \E p \in Procs : WritePid(p) \/ MapQueues(p) \/ Exit(p) \/ Crash(p)
    BY <2>1, <2>3, ProcessInTurn DEF ScriptsInv
  <2>4. CASE UNCHANGED vars
    <3>1. InTurn'
      BY <2>4 DEF ScriptsInv, InTurn, Follows, OneAfterTheOther, PidsAreWritten, QueuesAreNew,
                  GoesOn, Starts, vars
    <3> QED
      BY <2>1, <3>1 DEF ScriptsInv
  <2>5. CASE Minute \/ OpStep \/ CheckStep \/ Count
    BY <2>1, <2>5, MinuteInTurn, OpStepInTurn, CheckStepInTurn, CountInTurn DEF ScriptsInv
  <2> QED
    BY <2>2, <2>3, <2>4, <2>5 DEF Next
<1> QED
  BY <1>1, <1>2, PTL

(* Whatever the operator, cron and crashes do, as long as no script begins  *)
(* while another is at work, a process that nobody has told to stop is the  *)
(* one its pid file names (start_mcd.sh:4-5, stop_mcd.sh): none can be left *)
(* behind that stop.sh does not reach.                                      *)
THEOREM PidCorrect == Spec => []PidInv
<1>1. ScriptsInv => PidInv
  <2> SUFFICES ASSUME ScriptsInv, Settled, ~overlapped, NEW s \in Servers, NEW p \in Running(s)
               PROVE  pidfile[s] = p
    BY DEF PidInv, NoOrphan, ScriptsInv, Scripts
  <2>1. Follows(op) \/ Follows(check)
    BY DEF ScriptsInv, InTurn
  <2>2. p \in Procs /\ proc[p].srv = s /\ proc[p].st = "running"
    BY DEF Running, Of
  <2> QED
    BY <2>1, <2>2 DEF Follows, PidsAreWritten
<1> QED
  BY <1>1, ScriptsInductive, PTL DEF Spec

(* Nor do ccd and mcd then use different queues, though clear_mq.sh makes   *)
(* new ones under running processes (start.sh) and check.sh starts one      *)
(* server without the other (check.sh).                                     *)
THEOREM SameQueuesCorrect == Spec => []SameQueues
<1>1. ScriptsInv => SameQueues
  <2> SUFFICES ASSUME ScriptsInv, Settled, ~overlapped,
                      NEW p \in Running("ccd"), NEW q \in Running("mcd")
               PROVE  proc[p].queues = proc[q].queues
    BY DEF SameQueues
  <2>1. Follows(<<>>)
    BY DEF ScriptsInv, InTurn, Settled
  <2>2. /\ p \in Procs /\ proc[p].srv \in Servers /\ proc[p].st = "running"
        /\ q \in Procs /\ proc[q].srv \in Servers /\ proc[q].st = "running"
    BY DEF Running, Of, Servers
  <2> QED
    BY <2>1, <2>2, NothingToDo DEF Follows, QueuesAreNew
<1> QED
  BY <1>1, ScriptsInductive, PTL DEF Spec
-----------------------------------------------------------------------------
(* The plug-in, for any streams, limits, sizes of reads and numbers of      *)
(* queues.                                                                  *)

(* The frames of a stream lie one behind the other. *)
LEMMA FramesAreInARow ==
  ASSUME stream \in Streams, NEW f \in Flows
  PROVE  LET m == Len(stream[f]) IN
         /\ m \in Nat /\ stream[f] \in Seq(Frame) /\ DOMAIN stream[f] = 1..m
         /\ \A k \in 1..m : stream[f][k] \in Frame /\ stream[f][k].size >= LEN
         /\ \A k \in 1..(m + 1) : Offset(f, k) \in Nat
         /\ Offset(f, 1) = 0
         /\ \A k \in 1..m : Offset(f, k + 1) = Offset(f, k) + stream[f][k].size
         /\ \A j, k \in 1..(m + 1) : j < k => Offset(f, j) < Offset(f, k)
<1> DEFINE m == Len(stream[f])
           s == Sizes(f)
<1>1. stream[f] \in Seq(Frame)
  BY NetCompleteAssumption
<1>2. m \in Nat /\ DOMAIN stream[f] = 1..m /\ \A k \in 1..m : stream[f][k] \in Frame
  BY <1>1
<1>3. \A k \in 1..m : stream[f][k].size >= LEN
  BY <1>2, NetCompleteAssumption
<1>4. \A k \in 1..m : stream[f][k].size \in Nat \ {0}
  BY <1>2, <1>3, NetCompleteAssumption DEF Frame
<1>5. /\ s \in [1..m -> Nat \ {0}] /\ s \in [1..m -> Nat]
      /\ \A k \in 1..m : s[k] = stream[f][k].size
  BY <1>2, <1>4 DEF Sizes
<1> HIDE DEF s, m
<1>6. /\ Sums(s, m) \in [0..m -> Nat] /\ Sums(s, m)[0] = 0
      /\ \A n \in 1..m : Sums(s, m)[n] = Sums(s, m)[n - 1] + s[n]
  BY <1>2, <1>5, SumsAreSums
<1>7. \A i, j \in 0..m : i < j => Sums(s, m)[i] < Sums(s, m)[j]
  BY <1>2, <1>5, SumsGrow
<1>8. \A k : Offset(f, k) = Sums(s, m)[k - 1]
  BY DEF Offset, s, m
<1>9. \A k \in 1..(m + 1) : k - 1 \in 0..m
  BY <1>2
<1>10. \A k \in 1..(m + 1) : Offset(f, k) \in Nat
  BY <1>6, <1>8, <1>9
<1>11. Offset(f, 1) = 0
  BY <1>6, <1>8
<1>12. ASSUME NEW k \in 1..m PROVE Offset(f, k + 1) = Offset(f, k) + stream[f][k].size
  <2>1. (k + 1) - 1 = k
    OBVIOUS
  <2>2. Offset(f, k + 1) = Sums(s, m)[k]
    BY <1>8, <2>1
  <2> QED
    BY <1>5, <1>6, <1>8, <2>2
<1>13. ASSUME NEW j \in 1..(m + 1), NEW k \in 1..(m + 1), j < k
       PROVE  Offset(f, j) < Offset(f, k)
  <2>1. j - 1 < k - 1 /\ j - 1 \in 0..m /\ k - 1 \in 0..m
    BY <1>2, <1>13
  <2>2. Sums(s, m)[j - 1] < Sums(s, m)[k - 1]
    BY <1>7, <2>1
  <2> QED
    BY <1>8, <2>2
<1> QED
  BY <1>1, <1>2, <1>3, <1>10, <1>11, <1>12, <1>13 DEF m

(* Where a frame begins, its length field is read. *)
LEMMA HeaderOfAFrame ==
  ASSUME stream \in Streams, NEW f \in Flows, NEW k \in DOMAIN stream[f]
  PROVE  HeaderAt(f, Offset(f, k)) = {[net |-> stream[f][k].net, host |-> stream[f][k].host]}
<1> DEFINE begins == {j \in DOMAIN stream[f] : Offset(f, j) = Offset(f, k)}
           m == Len(stream[f])
<1>1. DOMAIN stream[f] = 1..m /\ m \in Nat /\ \A j \in 1..(m + 1) : Offset(f, j) \in Nat
  BY FramesAreInARow
<1>2. \A i, j \in 1..(m + 1) : i < j => Offset(f, i) < Offset(f, j)
  BY FramesAreInARow
<1>3. ASSUME NEW j \in DOMAIN stream[f], j # k PROVE Offset(f, j) # Offset(f, k)
  <2>1. j \in 1..(m + 1) /\ k \in 1..(m + 1) /\ (j < k \/ k < j)
    BY <1>1, <1>3
  <2>2. Offset(f, j) < Offset(f, k) \/ Offset(f, k) < Offset(f, j)
    BY <1>2, <2>1
  <2> QED
    BY <1>1, <2>1, <2>2
<1>4. begins = {k}
  BY <1>3
<1> QED
  BY <1>4 DEF HeaderAt

(* What net_complete_func returns for four bytes that are a header. *)
LEMMA Returned ==
  ASSUME NEW net \in Nat, NEW host \in Int, NEW len \in Int,
         NEW ret, ret = net_complete_func([net |-> net, host |-> host], len)
  PROVE  /\ len > PKT_MAX_LEN => ret = -1
         /\ len <= PKT_MAX_LEN /\ len < LEN => ret = 0
         /\ len <= PKT_MAX_LEN /\ net <= PKT_MAX_LEN /\ len < net => ret = 0
         /\ len <= PKT_MAX_LEN /\ net <= PKT_MAX_LEN /\ len >= LEN /\ len >= net => ret = net
<1>1. ASSUME len > PKT_MAX_LEN PROVE ret = -1
  BY <1>1 DEF net_complete_func
<1>2. ASSUME len <= PKT_MAX_LEN, len < LEN PROVE ret = 0
  <2>1. ~(len > PKT_MAX_LEN)
    BY <1>2, NetCompleteAssumption
  <2> QED
    BY <1>2, <2>1 DEF net_complete_func, longconn_complete_func
<1>3. ASSUME len <= PKT_MAX_LEN, net <= PKT_MAX_LEN, len < net PROVE ret = 0
  <2>1. ~(len > PKT_MAX_LEN) /\ ~(net > PKT_MAX_LEN)
    BY <1>3, NetCompleteAssumption
  <2> QED
    BY <1>3, <2>1 DEF net_complete_func, longconn_complete_func
<1>4. ASSUME len <= PKT_MAX_LEN, net <= PKT_MAX_LEN, len >= LEN, len >= net PROVE ret = net
  <2>1. /\ ~(len > PKT_MAX_LEN) /\ ~(net > PKT_MAX_LEN) /\ ~(len < LEN) /\ ~(len < net)
        /\ net # -1
    BY <1>4, NetCompleteAssumption
  <2> QED
    BY <2>1 DEF net_complete_func, longconn_complete_func
<1> QED
  BY <1>1, <1>2, <1>3, <1>4
-----------------------------------------------------------------------------
LEMMA FlowsTypeInit == InitFlows => FlowsTypeOK
<1> SUFFICES ASSUME InitFlows PROVE FlowsTypeOK
  OBVIOUS
<1>1. \A f \in Flows : Sent(f) \in Nat /\ 0 <= Sent(f)
  <2> SUFFICES ASSUME NEW f \in Flows PROVE Sent(f) \in Nat
    OBVIOUS
  <2>1. Len(stream[f]) + 1 \in 1..(Len(stream[f]) + 1)
    BY FramesAreInARow DEF InitFlows
  <2> QED
    BY <2>1, FramesAreInARow DEF InitFlows, Sent
<1>2. Cardinality({}) = 0
  BY FS_EmptySet
<1>3. messages \in [Flows -> Seq([from : Nat, len : Nat])]
  BY DEF InitFlows
<1>4. ret_index \in 0..(W32 - 1) /\ routed \in [Queues -> Nat]
  BY NetCompleteAssumption DEF InitFlows
<1> QED
  BY <1>1, <1>2, <1>3, <1>4 DEF InitFlows, FlowsTypeOK

LEMMA ResultsAreInts == FlowsTypeOK => Results \subseteq Int
<1> SUFFICES ASSUME FlowsTypeOK PROVE Results \subseteq Int
  OBVIOUS
<1>1. \A g \in Flows : \A k \in DOMAIN stream[g] : stream[g][k].host \in Int
  BY FramesAreInARow DEF FlowsTypeOK, Frame
<1>2. \A h \in Headers : h.host \in Int
  BY NetCompleteAssumption
<1> QED
  BY <1>1, <1>2, NetCompleteAssumption DEF Results

LEMMA FlowsTypeStep == FlowsTypeOK /\ [FlowsNext]_flowVars => FlowsTypeOK'
<1> SUFFICES ASSUME FlowsTypeOK, [FlowsNext]_flowVars PROVE FlowsTypeOK'
  OBVIOUS
<1>1. \A f \in Flows : received[f] \in Nat /\ start[f] \in Nat /\ start[f] <= received[f]
                       /\ received[f] <= Sent(f)
  BY DEF FlowsTypeOK
<1>2. stream' = stream => \A f \in Flows : Sent(f)' = Sent(f)
  BY DEF Sent, Offset, Sizes
<1>3. Cardinality({}) <= 1 /\ \A f \in Flows : Cardinality({f}) <= 1
  BY FS_EmptySet, FS_Singleton
<1>4. ASSUME NEW f \in Flows, NEW n \in 1..Chunk, Receive(f, n) PROVE FlowsTypeOK'
  <2>1. /\ \A g \in Flows : received'[g] = IF g = f THEN received[f] + n ELSE received[g]
        /\ received' \in [Flows -> Nat] /\ received[f] + n <= Sent(f)
    BY <1>1, <1>4 DEF Receive, FlowsTypeOK
  <2>2. start' = start /\ stream' = stream /\ serving' = {f} /\ f \in open'
        /\ UNCHANGED <<open, messages, ret_index, routed>>
    BY <1>4 DEF Receive
  <2>3. \A g \in Flows : start'[g] <= received'[g] /\ received'[g] <= Sent(g)'
    BY <1>1, <1>2, <2>1, <2>2
  <2> QED
    BY <1>3, <2>1, <2>2, <2>3 DEF FlowsTypeOK
<1>5. ASSUME NEW f \in Flows, Waits(f) PROVE FlowsTypeOK'
  BY <1>2, <1>3, <1>5 DEF Waits, FlowsTypeOK
<1>6. ASSUME NEW f \in Flows, NEW ret \in Results, Closes(f, ret) PROVE FlowsTypeOK'
  BY <1>2, <1>3, <1>6 DEF Closes, FlowsTypeOK
<1>7. ASSUME NEW f \in Flows, NEW ret \in Results, Cuts(f, ret) PROVE FlowsTypeOK'
  <2>1. ret \in Nat /\ ret > 0
    BY <1>7, ResultsAreInts DEF Cuts
  <2>2. messages' \in [Flows -> Seq([from : Nat, len : Nat])]
    <3>1. [from |-> start[f], len |-> ret] \in [from : Nat, len : Nat]
      BY <1>1, <2>1
    <3>2. Append(messages[f], [from |-> start[f], len |-> ret]) \in Seq([from : Nat, len : Nat])
      BY <3>1 DEF FlowsTypeOK
    <3> QED
      BY <1>7, <3>2 DEF Cuts, FlowsTypeOK
  <2>3. /\ start' \in [Flows -> Nat]
        /\ \A g \in Flows : start'[g] <= received[g]
    BY <1>1, <1>7, <2>1 DEF Cuts, FlowsTypeOK
  <2>4. ret_index' \in 0..(W32 - 1)
    BY <1>7, NetCompleteAssumption DEF Cuts, NextIndex, FlowsTypeOK
  <2>5. routed' \in [Queues -> Nat]
    <3> DEFINE q == mcd_route_func(ret_index)
    <3>1. routed' = [routed EXCEPT ![q] = @ + 1] /\ routed \in [Queues -> Nat]
      BY <1>7 DEF Cuts, FlowsTypeOK
    <3> HIDE DEF q
    <3>2. routed' = [p \in Queues |-> IF p = q THEN routed[p] + 1 ELSE routed[p]]
      BY <3>1
    <3>3. \A p \in Queues : routed[p] \in Nat /\ routed[p] + 1 \in Nat
      BY <3>1
    <3> QED
      BY <3>2, <3>3
  <2>6. UNCHANGED <<stream, received, open, serving>>
    BY <1>7 DEF Cuts
  <2> QED
    BY <1>1, <1>2, <2>2, <2>3, <2>4, <2>5, <2>6 DEF FlowsTypeOK
<1>8. CASE UNCHANGED flowVars
  BY <1>2, <1>8 DEF flowVars, FlowsTypeOK
<1> QED
  BY <1>4, <1>5, <1>6, <1>7, <1>8 DEF FlowsNext, GetMessage
-----------------------------------------------------------------------------
(* While the frames of a client are well-formed, as many are cut off as     *)
(* requests were made of them, and the cache begins with the next.          *)
CutSoFar(f) ==
  /\ GoodUpTo(f, Len(messages[f])) => start[f] = Offset(f, Len(messages[f]) + 1)
  /\ \A k \in DOMAIN messages[f] : GoodUpTo(f, k) =>
       messages[f][k] = [from |-> Offset(f, k), len |-> stream[f][k].size]
  /\ GoodUpTo(f, Len(stream[f])) => Len(messages[f]) <= Len(stream[f])

CutInv == \A f \in Flows : CutSoFar(f)

(* What is done with the cache of a client whose frames are well-formed up  *)
(* to the one at its beginning.                                             *)
LEMMA NextFrame ==
  ASSUME FlowsTypeOK, CutInv, NEW f \in Flows, NEW ret, Complete(f, ret),
         LET n == Len(messages[f]) IN GoodUpTo(f, n) /\ n < Len(stream[f])
                                      /\ stream[f][n + 1].net <= PKT_MAX_LEN
  PROVE  LET len == received[f] - start[f]
             next == stream[f][Len(messages[f]) + 1]
         IN \/ len > PKT_MAX_LEN /\ ret = -1
            \/ len <= PKT_MAX_LEN /\ (len < LEN \/ len < next.net) /\ ret = 0
            \/ len <= PKT_MAX_LEN /\ len >= LEN /\ len >= next.net /\ ret = next.net
<1> DEFINE k == Len(messages[f]) + 1
<1>1. k \in DOMAIN stream[f] /\ stream[f][k] \in Frame /\ start[f] = Offset(f, k)
      /\ stream[f][k].net <= PKT_MAX_LEN
  <2>1. Len(messages[f]) \in Nat /\ k \in 1..Len(stream[f])
    BY FramesAreInARow DEF FlowsTypeOK
  <2> QED
    BY <2>1, FramesAreInARow DEF FlowsTypeOK, CutInv, CutSoFar
<1> HIDE DEF k
<1>2. PICK net, host, len : net = stream[f][k].net /\ host = stream[f][k].host
                            /\ len = received[f] - start[f]
  OBVIOUS
<1>3. HeaderAt(f, start[f]) = {[net |-> net, host |-> host]}
  BY <1>1, <1>2, HeaderOfAFrame DEF FlowsTypeOK
<1>4. ret = net_complete_func([net |-> net, host |-> host], len)
  BY <1>2, <1>3 DEF Complete
<1>5. net \in Nat /\ host \in Int /\ len \in Int /\ net <= PKT_MAX_LEN
  BY <1>1, <1>2 DEF Frame, FlowsTypeOK
<1>6. CASE len > PKT_MAX_LEN
  <2>1. ret = -1
    BY <1>4, <1>5, <1>6, Returned
  <2> QED
    BY <1>2, <1>6, <2>1 DEF k
<1>7. CASE len <= PKT_MAX_LEN /\ (len < LEN \/ len < net)
  <2>1. ret = 0
    BY <1>4, <1>5, <1>7, Returned
  <2> QED
    BY <1>2, <1>7, <2>1 DEF k
<1>8. CASE len <= PKT_MAX_LEN /\ len >= LEN /\ len >= net
  <2>1. ret = net
    BY <1>4, <1>5, <1>8, Returned
  <2> QED
    BY <1>2, <1>8, <2>1 DEF k
<1> QED
  BY <1>5, <1>6, <1>7, <1>8, NetCompleteAssumption

(* No bytes are left behind the last frame. *)
LEMMA NothingBehind ==
  ASSUME FlowsTypeOK, CutInv, NEW f \in Flows, GoodUpTo(f, Len(messages[f])),
         Len(messages[f]) = Len(stream[f])
  PROVE  /\ start[f] = Sent(f) /\ received[f] = Sent(f)
         /\ \A ret : Complete(f, ret) => ret = 0
<1>1. start[f] = Sent(f)
  BY DEF CutInv, CutSoFar, Sent
<1>2. received[f] = start[f] /\ start[f] \in Nat
  BY <1>1 DEF FlowsTypeOK
<1>3. ASSUME NEW ret, Complete(f, ret) PROVE ret = 0
  <2>1. PICK h \in HeaderAt(f, start[f]) : ret = net_complete_func(h, received[f] - start[f])
    BY <1>3 DEF Complete
  <2>2. received[f] - start[f] = 0 /\ 0 < LEN /\ ~(0 > PKT_MAX_LEN) /\ 0 # -1
    BY <1>2, NetCompleteAssumption
  <2> QED
    BY <2>1, <2>2 DEF net_complete_func, longconn_complete_func
<1> QED
  BY <1>1, <1>2, <1>3

LEMMA OneMoreCut ==
  ASSUME FlowsTypeOK, CutInv, NEW f \in Flows, NEW ret, Cuts(f, ret)
  PROVE  CutSoFar(f)'
<1> DEFINE n == Len(messages[f])
           m == Len(stream[f])
<1>1. /\ n \in Nat /\ messages[f] \in Seq([from : Nat, len : Nat]) /\ DOMAIN messages[f] = 1..n
      /\ stream' = stream /\ Complete(f, ret) /\ ret > 0
      /\ messages'[f] = Append(messages[f], [from |-> start[f], len |-> ret])
      /\ start'[f] = IF start[f] + ret < received[f] THEN start[f] + ret ELSE received[f]
  BY DEF Cuts, FlowsTypeOK
<1>2. /\ Len(messages'[f]) = n + 1 /\ DOMAIN messages'[f] = 1..(n + 1)
      /\ \A k \in 1..n : messages'[f][k] = messages[f][k]
      /\ messages'[f][n + 1] = [from |-> start[f], len |-> ret]
  BY <1>1
<1>3. \A k : (GoodUpTo(f, k) <=> GoodUpTo(f, k)') /\ Offset(f, k)' = Offset(f, k)
  BY <1>1 DEF GoodUpTo, Good, Offset, Sizes
<1>4. m \in Nat
  BY FramesAreInARow DEF FlowsTypeOK
<1>5. ASSUME GoodUpTo(f, n + 1)
      PROVE  /\ start[f] = Offset(f, n + 1) /\ ret = stream[f][n + 1].size
             /\ start'[f] = Offset(f, n + 2)
  <2>1. GoodUpTo(f, n) /\ n < m /\ n + 1 \in 1..m
    BY <1>1, <1>4, <1>5 DEF GoodUpTo
  <2>2. Good(stream[f][n + 1])
    BY <1>1, <1>5 DEF GoodUpTo
  <2>3. start[f] = Offset(f, n + 1)
    BY <2>1 DEF CutInv, CutSoFar
  <2>4. stream[f][n + 1].net = stream[f][n + 1].size /\ stream[f][n + 1].net <= PKT_MAX_LEN
    BY <2>2 DEF Good
  <2>5. ret = stream[f][n + 1].net /\ received[f] - start[f] >= stream[f][n + 1].net
    <3>1. ~(-1 > 0) /\ ~(0 > 0)
      OBVIOUS
    <3> QED
      BY <1>1, <2>1, <2>4, <3>1, NextFrame
  <2>6. /\ Offset(f, (n + 1) + 1) = Offset(f, n + 1) + stream[f][n + 1].size
        /\ (n + 1) + 1 = n + 2 /\ stream[f][n + 1] \in Frame
    <3>1. /\ \A k \in 1..m : stream[f][k] \in Frame
          /\ \A k \in 1..m : Offset(f, k + 1) = Offset(f, k) + stream[f][k].size
      BY FramesAreInARow DEF FlowsTypeOK
    <3>2. (n + 1) + 1 = n + 2
      BY <1>1
    <3> HIDE DEF n, m
    <3> QED
      BY <2>1, <3>1, <3>2
  <2>7. start'[f] = start[f] + ret
    <3>1. start[f] \in Nat /\ received[f] \in Nat /\ ret \in Nat
      BY <2>4, <2>5, <2>6 DEF FlowsTypeOK, Frame
    <3>2. start[f] + ret <= received[f]
      BY <2>5, <3>1
    <3>3. start[f] + ret < received[f] \/ start[f] + ret = received[f]
      BY <3>1, <3>2
    <3> QED
      BY <1>1, <3>3
  <2> QED
    BY <2>3, <2>4, <2>5, <2>6, <2>7
<1>6. GoodUpTo(f, m) => n + 1 <= m
  <2> SUFFICES ASSUME GoodUpTo(f, m) PROVE n + 1 <= m
    OBVIOUS
  <2>1. n <= m
    BY DEF CutInv, CutSoFar
  <2>2. GoodUpTo(f, n)
    BY <1>1, <1>4, <2>1 DEF GoodUpTo
  <2>3. n # m
    <3>1. ~(0 > 0)
      OBVIOUS
    <3> QED
      BY <1>1, <2>2, <3>1, NothingBehind
  <2> QED
    BY <1>1, <1>4, <2>1, <2>3
<1>7. ASSUME NEW k \in 1..(n + 1), GoodUpTo(f, k)
      PROVE  messages'[f][k] = [from |-> Offset(f, k), len |-> stream[f][k].size]
  <2>1. CASE k = n + 1
    BY <1>2, <1>5, <1>7, <2>1
  <2>2. CASE k # n + 1
    <3>1. k \in 1..n
      BY <1>1, <2>2
    <3> QED
      BY <1>1, <1>2, <1>7, <3>1 DEF CutInv, CutSoFar
  <2> QED
    BY <2>1, <2>2
<1>8. (n + 1) + 1 = n + 2
  BY <1>1
<1> QED
  BY <1>1, <1>2, <1>3, <1>5, <1>6, <1>7, <1>8 DEF CutSoFar

LEMMA CutStep == FlowsTypeOK /\ CutInv /\ [FlowsNext]_flowVars => CutInv'
<1> SUFFICES ASSUME FlowsTypeOK, CutInv, [FlowsNext]_flowVars, NEW f \in Flows
             PROVE  CutSoFar(f)'
  BY DEF CutInv
<1>1. ASSUME stream' = stream, messages'[f] = messages[f], start'[f] = start[f]
      PROVE  CutSoFar(f)'
  <2>1. CutSoFar(f)
    BY DEF CutInv
  <2> QED
    BY <1>1, <2>1 DEF CutSoFar, GoodUpTo, Good, Offset, Sizes
<1>2. CASE \E ret : Cuts(f, ret)
  BY <1>2, OneMoreCut
<1>3. CASE \E g \in Flows : g # f /\ \E ret : Cuts(g, ret)
  <2>1. stream' = stream /\ messages'[f] = messages[f] /\ start'[f] = start[f]
    BY <1>3 DEF Cuts, FlowsTypeOK
  <2> QED
    BY <1>1, <2>1
<1>4. CASE UNCHANGED <<stream, messages, start>>
  BY <1>1, <1>4
<1> QED
  BY <1>2, <1>3, <1>4 DEF FlowsNext, GetMessage, Receive, Waits, Closes, flowVars

(* Every flow's fields are of their types, and no more is read than was     *)
(* sent, for every stream and every way to split it.                        *)
THEOREM FlowsTypeCorrect == FlowsSpec => []FlowsTypeOK
<1> QED
  BY FlowsTypeInit, FlowsTypeStep, PTL DEF FlowsSpec

LEMMA CutCorrect == FlowsSpec => []CutInv
<1>1. InitFlows => CutInv
  <2> SUFFICES ASSUME InitFlows, NEW f \in Flows PROVE CutSoFar(f)
    BY DEF CutInv
  <2>1. messages[f] = <<>> /\ start[f] = 0 /\ stream \in Streams
    BY DEF InitFlows
  <2>2. Offset(f, 1) = 0 /\ Len(stream[f]) \in Nat
    BY <2>1, FramesAreInARow
  <2> QED
    BY <2>1, <2>2 DEF CutSoFar
<1> QED
  BY <1>1, CutStep, FlowsTypeCorrect, PTL DEF FlowsSpec

(* However the bytes of a client are split over reads, the requests cut off *)
(* them are its frames, up to the first that is malformed, for any frames   *)
(* and limits (longconn_complete.cpp:36-58).                                *)
THEOREM FramesAreCutExactlyCorrect == FlowsSpec => []FramesAreCutExactly
<1>1. CutInv => FramesAreCutExactly
  BY DEF CutInv, CutSoFar, FramesAreCutExactly
<1> QED
  BY <1>1, CutCorrect, PTL
-----------------------------------------------------------------------------
(* A client that sends well-formed frames, none of them tight, is not       *)
(* closed: its cache is within the limit, and has less than a frame once it *)
(* has been looked at.                                                      *)
CacheOf(f) ==
  AllGood(f) =>
    /\ f \in open
    /\ received[f] - start[f] <= PKT_MAX_LEN
    /\ f \notin serving /\ Len(messages[f]) < Len(stream[f]) =>
         received[f] - start[f] < stream[f][Len(messages[f]) + 1].size

CacheInv == (\A g, h \in serving : g = h) /\ \A f \in Flows : CacheOf(f)

(* Where such a client is: its next frame is well-formed and not tight, or  *)
(* there is none and the cache is empty.                                    *)
LEMMA WhereItIs ==
  ASSUME FlowsTypeOK, CutInv, NEW f \in Flows, AllGood(f)
  PROVE  LET n == Len(messages[f])
             m == Len(stream[f])
         IN /\ n \in Nat /\ m \in Nat /\ GoodUpTo(f, n)
            /\ \/ n = m
               \/ /\ n < m /\ Good(stream[f][n + 1]) /\ ~Tight(stream[f][n + 1])
                  /\ stream[f][n + 1] \in Frame /\ stream[f][n + 1].size >= LEN
                  /\ stream[f][n + 1].net = stream[f][n + 1].size
                  /\ stream[f][n + 1].net <= PKT_MAX_LEN /\ stream[f][n + 1].net <= CCD_MAX_LEN
<1> DEFINE n == Len(messages[f])
           m == Len(stream[f])
<1>1. /\ m \in Nat /\ DOMAIN stream[f] = 1..m
      /\ \A k \in 1..m : stream[f][k] \in Frame /\ stream[f][k].size >= LEN
  BY FramesAreInARow DEF FlowsTypeOK
<1>2. n \in Nat
  BY DEF FlowsTypeOK
<1>3. GoodUpTo(f, m)
  BY <1>1 DEF AllGood, GoodUpTo
<1>4. n <= m
  BY <1>3 DEF CutInv, CutSoFar
<1>5. GoodUpTo(f, n)
  BY <1>1, <1>2, <1>4 DEF AllGood, GoodUpTo
<1>6. CASE n = m
  BY <1>1, <1>2, <1>5, <1>6
<1>7. CASE n # m
  <2>1. n < m /\ n + 1 \in 1..m
    BY <1>1, <1>2, <1>4, <1>7
  <2>2. Good(stream[f][n + 1]) /\ ~Tight(stream[f][n + 1])
    BY <1>1, <2>1 DEF AllGood
  <2> QED
    BY <1>1, <1>2, <1>5, <2>1, <2>2 DEF Good
<1> QED
  BY <1>6, <1>7

(* ccd takes off the cache of such a client a whole frame, or nothing.      *)
LEMMA WhatItGets ==
  ASSUME FlowsTypeOK, CutInv, CacheInv, NEW f \in Flows, AllGood(f), NEW ret, Complete(f, ret)
  PROVE  LET n == Len(messages[f])
         IN /\ ret >= 0 /\ ret <= CCD_MAX_LEN
            /\ ret = 0 /\ n < Len(stream[f]) =>
                 received[f] - start[f] < stream[f][n + 1].size
<1> DEFINE n == Len(messages[f])
           m == Len(stream[f])
           len == received[f] - start[f]
           next == stream[f][n + 1]
<1>1. CASE n = m
  <2>1. ret = 0
    BY <1>1, WhereItIs, NothingBehind
  <2> QED
    BY <1>1, <2>1, WhereItIs, NetCompleteAssumption
<1>2. CASE n # m
  <2>1. /\ GoodUpTo(f, n) /\ n < m /\ next \in Frame /\ next.size >= LEN
        /\ next.net = next.size /\ next.net <= PKT_MAX_LEN /\ next.net <= CCD_MAX_LEN
    BY <1>2, WhereItIs
  <2>2. len <= PKT_MAX_LEN /\ len \in Int
    BY DEF CacheInv, CacheOf, FlowsTypeOK
  <2>3. \/ len > PKT_MAX_LEN /\ ret = -1
        \/ len <= PKT_MAX_LEN /\ (len < LEN \/ len < next.net) /\ ret = 0
        \/ len <= PKT_MAX_LEN /\ len >= LEN /\ len >= next.net /\ ret = next.net
    BY <2>1, NextFrame
  <2>4. next.size \in Nat /\ next.net \in Nat
    BY <2>1 DEF Frame
  <2> HIDE DEF len, next
  <2>5. ((len < LEN \/ len < next.net) /\ ret = 0) \/ ret = next.net
    BY <2>2, <2>3, NetCompleteAssumption
  <2>6. CASE (len < LEN \/ len < next.net) /\ ret = 0
    <3>1. len < next.size
      BY <2>1, <2>2, <2>4, <2>6, NetCompleteAssumption
    <3>2. ret >= 0 /\ ret <= CCD_MAX_LEN
      BY <2>6, NetCompleteAssumption
    <3> QED
      BY <3>1, <3>2 DEF len, next
  <2>7. CASE ret = next.net
    <3>1. ret >= 0 /\ ret <= CCD_MAX_LEN /\ ret # 0
      BY <2>1, <2>4, <2>7, NetCompleteAssumption
    <3> QED
      BY <3>1
  <2> QED
    BY <2>5, <2>6, <2>7
<1> QED
  BY <1>1, <1>2

LEMMA CacheStep == FlowsTypeOK /\ CutInv /\ CacheInv /\ [FlowsNext]_flowVars => CacheInv'
<1> SUFFICES ASSUME FlowsTypeOK, CutInv, CacheInv, [FlowsNext]_flowVars PROVE CacheInv'
  OBVIOUS
<1>1. \A g, h \in serving' : g = h
  BY DEF CacheInv, FlowsNext, GetMessage, Receive, Waits, Closes, Cuts, flowVars
<1>2. ASSUME NEW f \in Flows, AllGood(f)' PROVE CacheOf(f)'
  <2>1. stream' = stream
    BY DEF FlowsNext, GetMessage, Receive, Waits, Closes, Cuts, flowVars
  <2>2. AllGood(f)
    BY <1>2, <2>1 DEF AllGood, Good, Tight
  <2>3. /\ f \in open /\ received[f] - start[f] <= PKT_MAX_LEN
        /\ f \notin serving /\ Len(messages[f]) < Len(stream[f]) =>
             received[f] - start[f] < stream[f][Len(messages[f]) + 1].size
    BY <2>2 DEF CacheInv, CacheOf
  <2>4. /\ received[f] \in Nat /\ start[f] \in Nat /\ received[f] <= Sent(f)
        /\ start[f] <= received[f]
    BY DEF FlowsTypeOK
  <2>5. ASSUME NEW g \in Flows, NEW k \in 1..Chunk, Receive(g, k) PROVE CacheOf(f)'
    <3>1. /\ serving = {} /\ serving' = {g} /\ open' = open /\ start' = start
          /\ messages' = messages /\ received[g] + k <= Sent(g)
          /\ received'[f] = IF f = g THEN received[f] + k ELSE received[f]
      BY <2>5 DEF Receive, FlowsTypeOK
    <3>2. CASE f # g
      BY <2>1, <2>3, <3>1, <3>2 DEF CacheOf
    <3>3. CASE f = g
      <4>1. Len(messages[f]) # Len(stream[f])
        <5>1. received[f] # Sent(f)
          BY <2>4, <3>1, <3>3
        <5> QED
          BY <2>2, <5>1, WhereItIs, NothingBehind
      <4> DEFINE size == stream[f][Len(messages[f]) + 1].size
      <4>2. /\ Len(messages[f]) < Len(stream[f])
            /\ ~(size + Chunk - 1 > PKT_MAX_LEN) /\ size \in Nat
        BY <2>2, <4>1, WhereItIs DEF Tight, Frame
      <4>3. received[f] - start[f] < size
        BY <2>3, <3>1, <4>2
      <4> HIDE DEF size
      <4>4. received[f] + k - start[f] <= PKT_MAX_LEN
        BY <2>4, <4>2, <4>3, NetCompleteAssumption
      <4> QED
        <5>1. f \in open' /\ f \in serving'
          BY <2>3, <3>1, <3>3
        <5>2. received'[f] = received[f] + k /\ start'[f] = start[f]
          BY <3>1, <3>3
        <5>3. received'[f] - start'[f] <= PKT_MAX_LEN
          BY <2>4, <4>4, <5>2
        <5> QED
          BY <5>1, <5>3 DEF CacheOf
    <3> QED
      BY <3>2, <3>3
  <2>6. ASSUME NEW ret, Complete(f, ret)
        PROVE  /\ ret >= 0 /\ ret <= CCD_MAX_LEN
               /\ ret = 0 /\ Len(messages[f]) < Len(stream[f]) =>
                    received[f] - start[f] < stream[f][Len(messages[f]) + 1].size
    BY <2>2, <2>6, WhatItGets
  <2>7. CASE Waits(f)
    <3>1. Complete(f, 0) /\ UNCHANGED <<stream, received, start, open, messages>>
      BY <2>7 DEF Waits
    <3> QED
      BY <2>3, <2>6, <3>1 DEF CacheOf
  <2>8. ASSUME NEW ret \in Results, Closes(f, ret) PROVE FALSE
    <3>1. Complete(f, ret) /\ (ret < 0 \/ ret > CCD_MAX_LEN)
      BY <2>8 DEF Closes
    <3>2. ret \in Int
      BY ResultsAreInts
    <3>3. ret >= 0 /\ ret <= CCD_MAX_LEN
      BY <2>6, <3>1
    <3> QED
      BY <3>1, <3>2, <3>3, NetCompleteAssumption
  <2>9. ASSUME NEW ret \in Results, Cuts(f, ret) PROVE CacheOf(f)'
    <3>1. /\ ret > 0 /\ f \in serving /\ UNCHANGED <<stream, received, open, serving>>
          /\ start'[f] = IF start[f] + ret < received[f] THEN start[f] + ret ELSE received[f]
      BY <2>9 DEF Cuts, Complete, FlowsTypeOK
    <3>2. ret \in Int
      BY ResultsAreInts
    <3>3. start'[f] \in Nat /\ start'[f] >= start[f]
      BY <2>4, <3>1, <3>2
    <3>4. received'[f] - start'[f] <= PKT_MAX_LEN
      BY <2>3, <2>4, <3>1, <3>3, NetCompleteAssumption
    <3> QED
      BY <2>3, <3>1, <3>4 DEF CacheOf
  <2>10. ASSUME NEW g \in Flows, g # f, NEW ret, Waits(g) \/ Closes(g, ret) \/ Cuts(g, ret)
         PROVE  CacheOf(f)'
    <3>1. g \in serving /\ f \notin serving
      BY <2>10 DEF Waits, Closes, Cuts, Complete, CacheInv
    <3>2. /\ f \in open' /\ received'[f] = received[f] /\ start'[f] = start[f]
          /\ messages'[f] = messages[f]
      BY <2>3, <2>10 DEF Waits, Closes, Cuts, FlowsTypeOK
    <3> QED
      BY <2>1, <2>3, <3>1, <3>2 DEF CacheOf
  <2>11. CASE UNCHANGED flowVars
    BY <2>3, <2>11 DEF flowVars, CacheOf
  <2> QED
    BY <2>5, <2>7, <2>8, <2>9, <2>10, <2>11 DEF FlowsNext, GetMessage
<1> QED
  BY <1>1, <1>2 DEF CacheInv, CacheOf

(* A connection is closed only for a malformed frame or a tight one, for    *)
(* any streams, limits and sizes of reads (longconn_complete.cpp:15).       *)
THEOREM ClosedForCauseCorrect == FlowsSpec => []ClosedForCause
<1>1. InitFlows => CacheInv
  <2> SUFFICES ASSUME InitFlows PROVE CacheInv
    OBVIOUS
  <2>1. ASSUME NEW f \in Flows PROVE CacheOf(f)
    <3>1. /\ messages[f] = <<>> /\ start[f] = 0 /\ received[f] = 0 /\ f \in open
          /\ stream \in Streams
      BY DEF InitFlows
    <3>2. \A k \in 1..Len(stream[f]) : stream[f][k].size >= LEN /\ stream[f][k] \in Frame
      BY <3>1, FramesAreInARow
    <3>3. Len(messages[f]) < Len(stream[f]) => stream[f][Len(messages[f]) + 1].size > 0
      <4> SUFFICES ASSUME 0 < Len(stream[f]) PROVE stream[f][0 + 1].size > 0
        BY <3>1
      <4>1. 0 + 1 \in 1..Len(stream[f])
        BY <3>1, FramesAreInARow
      <4> QED
        BY <3>2, <4>1, NetCompleteAssumption DEF Frame
    <3>4. 0 <= PKT_MAX_LEN /\ received[f] - start[f] = 0
      BY <3>1, NetCompleteAssumption
    <3> QED
      BY <3>1, <3>3, <3>4 DEF CacheOf
  <2> QED
    BY <2>1 DEF InitFlows, CacheInv
<1>2. CacheInv => ClosedForCause
  BY DEF CacheInv, CacheOf, AllGood, ClosedForCause
<1> QED
  BY <1>1, <1>2, CacheStep, CutCorrect, FlowsTypeCorrect, PTL DEF FlowsSpec
-----------------------------------------------------------------------------
(* Requests go to queues 1, 2, ... in turn, to 0 after the last, and on     *)
(* from 0 once more when the counter wraps: k whole rounds and m requests   *)
(* since then, and what there was before differs by one for each wrap.      *)
Had(q, m) == IF q # 0 /\ q <= m THEN 1 ELSE 0

RoundsGone(base, wraps, k, m) ==
  /\ ret_index = k * req_mq_cnt + m
  /\ Cut = wraps * W32 + ret_index
  /\ \A q \in Queues : routed[q] = base[q] + k + Had(q, m)
  /\ \A p, q \in Queues : base[p] - base[q] <= wraps

RouteInv == \E base \in [Queues -> Int], wraps \in Nat, k \in Nat, m \in Queues :
              RoundsGone(base, wraps, k, m)

LEMMA OneMoreRouted ==
  ASSUME FlowsTypeOK, FlowsTypeOK', NEW q \in Queues, routed' = [routed EXCEPT ![q] = @ + 1]
  PROVE  Cut' = Cut + 1 /\ Cut \in Nat
<1> DEFINE s == [n \in 1..req_mq_cnt |-> routed[n - 1]]
           t == [n \in 1..req_mq_cnt |-> routed'[n - 1]]
<1>1. req_mq_cnt \in Nat /\ req_mq_cnt > 0 /\ \A n \in 1..req_mq_cnt : n - 1 \in Queues
  BY NetCompleteAssumption DEF Queues
<1>2. routed \in [Queues -> Nat] /\ routed' \in [Queues -> Nat]
  BY DEF FlowsTypeOK
<1>3. s \in [1..req_mq_cnt -> Nat] /\ t \in [1..req_mq_cnt -> Nat]
  BY <1>1, <1>2
<1>4. q + 1 \in 1..req_mq_cnt /\ (q + 1) - 1 = q
  BY <1>1 DEF Queues
<1>5. t[q + 1] = s[q + 1] + 1
  BY <1>2, <1>4
<1>6. ASSUME NEW n \in 1..req_mq_cnt, n # q + 1 PROVE t[n] = s[n]
  <2>1. n - 1 # q /\ n - 1 \in Queues
    BY <1>1, <1>4, <1>6 DEF Queues
  <2> QED
    BY <1>2, <2>1
<1>7. Cut = Sums(s, req_mq_cnt)[req_mq_cnt] /\ Cut' = Sums(t, req_mq_cnt)[req_mq_cnt]
  BY DEF Cut
<1> HIDE DEF s, t
<1>8. Sums(t, req_mq_cnt)[req_mq_cnt] = Sums(s, req_mq_cnt)[req_mq_cnt] + 1
  <2>1. \A d \in Int : t[q + 1] = s[q + 1] + d =>
          Sums(t, req_mq_cnt)[req_mq_cnt] = Sums(s, req_mq_cnt)[req_mq_cnt] + d
    BY <1>1, <1>3, <1>4, <1>6, SumWithMore
  <2> QED
    BY <1>5, <2>1
<1>9. Sums(s, req_mq_cnt)[req_mq_cnt] \in Nat
  BY <1>1, <1>3, SumsAreSums
<1> QED
  BY <1>7, <1>8, <1>9

(* What the counter becomes, and the queue it names. *)
LEMMA NextInTurn ==
  ASSUME NEW idx \in 0..(W32 - 1), NEW k \in Nat, NEW m \in Queues, idx = k * req_mq_cnt + m
  PROVE  \/ idx = W32 - 1 /\ NextIndex(idx) = 0 /\ mcd_route_func(idx) = 0
         \/ /\ idx < W32 - 1 /\ NextIndex(idx) = idx + 1
            /\ \/ m + 1 \in Queues /\ mcd_route_func(idx) = m + 1
               \/ m + 1 = req_mq_cnt /\ mcd_route_func(idx) = 0
<1>0. W32 \in Nat \ {0} /\ req_mq_cnt \in Nat \ {0} /\ Queues = 0..(req_mq_cnt - 1)
  BY NetCompleteAssumption DEF Queues
<1>1. CASE idx = W32 - 1
  <2>1. idx + 1 = 1 * W32 + 0 /\ 0 = 0 * req_mq_cnt + 0
    BY <1>0, <1>1
  <2>2. NextIndex(idx) = 0
    BY <1>0, <2>1, DivisionIsUnique DEF NextIndex
  <2>3. mcd_route_func(idx) = 0
    BY <1>0, <2>1, <2>2, DivisionIsUnique DEF mcd_route_func
  <2> QED
    BY <1>1, <2>2, <2>3
<1>2. CASE idx # W32 - 1
  <2>1. idx < W32 - 1 /\ idx + 1 \in 0..(W32 - 1) /\ idx + 1 = 0 * W32 + (idx + 1)
    BY <1>0, <1>2
  <2> DEFINE x == idx + 1
             c == k + 1
  <2>2. NextIndex(idx) = x
    <3>1. x \in 0..(W32 - 1) /\ x \in Int /\ x = 0 * W32 + x
      BY <2>1
    <3> HIDE DEF x
    <3>2. x % W32 = x
      BY <1>0, <3>1, DivisionIsUnique
    <3> QED
      BY <3>2 DEF NextIndex, x
  <2>3. CASE m + 1 \in Queues
    <3>1. idx + 1 = k * req_mq_cnt + (m + 1)
      BY <1>0, <2>3
    <3>2. x % req_mq_cnt = m + 1
      <4> DEFINE next == m + 1
      <4>1. x \in Int /\ x = k * req_mq_cnt + next /\ next \in 0..(req_mq_cnt - 1)
        BY <1>0, <2>1, <2>3, <3>1
      <4> HIDE DEF x, next
      <4>2. x % req_mq_cnt = next
        BY <1>0, <4>1, DivisionIsUnique
      <4> QED
        BY <4>2 DEF next
    <3>4. mcd_route_func(idx) = m + 1
      BY <2>2, <3>2 DEF mcd_route_func
    <3> QED
      BY <2>1, <2>2, <2>3, <3>4
  <2>4. CASE m + 1 \notin Queues
    <3>1. m + 1 = req_mq_cnt
      BY <1>0, <2>4
    <3>2. x % req_mq_cnt = 0
      <4>1. c * req_mq_cnt = k * req_mq_cnt + req_mq_cnt
        BY <1>0
      <4>2. x = k * req_mq_cnt + m + 1 /\ k * req_mq_cnt \in Int
        BY <1>0
      <4>3. /\ x \in Int /\ c \in Int /\ x = c * req_mq_cnt + 0
            /\ 0 \in 0..(req_mq_cnt - 1)
        BY <1>0, <3>1, <4>1, <4>2
      <4> HIDE DEF x, c
      <4> QED
        BY <1>0, <4>3, DivisionIsUnique
    <3>3. mcd_route_func(idx) = 0
      BY <2>2, <3>2 DEF mcd_route_func
    <3> QED
      BY <2>1, <2>2, <3>1, <3>3
  <2> QED
    BY <2>3, <2>4
<1> QED
  BY <1>1, <1>2

LEMMA RoutesGoOn ==
  ASSUME NEW base \in [Queues -> Int], NEW wraps \in Nat, NEW k \in Nat, NEW m \in Queues,
         RoundsGone(base, wraps, k, m)'
  PROVE  RouteInv'
BY DEF RouteInv

LEMMA RouteStep ==
  ASSUME FlowsTypeOK, FlowsTypeOK', RouteInv, [FlowsNext]_flowVars
  PROVE  RouteInv'
<1>0. W32 \in Nat \ {0} /\ req_mq_cnt \in Nat \ {0} /\ Queues = 0..(req_mq_cnt - 1)
      /\ 0 \in Queues /\ ret_index \in 0..(W32 - 1) /\ routed \in [Queues -> Nat]
  BY NetCompleteAssumption DEF Queues, FlowsTypeOK
<1>1. PICK base \in [Queues -> Int], wraps \in Nat, k \in Nat, m \in Queues :
        RoundsGone(base, wraps, k, m)
  BY DEF RouteInv
<1>2. CASE \E f, ret : Cuts(f, ret)
  <2> DEFINE q == mcd_route_func(ret_index)
  <2>1. routed' = [routed EXCEPT ![q] = @ + 1] /\ ret_index' = NextIndex(ret_index)
    BY <1>2 DEF Cuts
  <2>2. \/ ret_index = W32 - 1 /\ ret_index' = 0 /\ q = 0
        \/ /\ ret_index < W32 - 1 /\ ret_index' = ret_index + 1
           /\ (m + 1 \in Queues /\ q = m + 1) \/ (m + 1 = req_mq_cnt /\ q = 0)
    <3>1. ret_index = k * req_mq_cnt + m
      BY <1>1 DEF RoundsGone
    <3>2. \/ ret_index = W32 - 1 /\ NextIndex(ret_index) = 0 /\ q = 0
          \/ /\ ret_index < W32 - 1 /\ NextIndex(ret_index) = ret_index + 1
             /\ (m + 1 \in Queues /\ q = m + 1) \/ (m + 1 = req_mq_cnt /\ q = 0)
      <4>1. \A idx \in 0..(W32 - 1) : idx = k * req_mq_cnt + m =>
               \/ idx = W32 - 1 /\ NextIndex(idx) = 0 /\ mcd_route_func(idx) = 0
               \/ /\ idx < W32 - 1 /\ NextIndex(idx) = idx + 1
                  /\ \/ m + 1 \in Queues /\ mcd_route_func(idx) = m + 1
                     \/ m + 1 = req_mq_cnt /\ mcd_route_func(idx) = 0
        BY NextInTurn
      <4> QED
        BY <1>0, <3>1, <4>1
    <3> HIDE DEF q
    <3> QED
      BY <2>1, <3>2
  <2> HIDE DEF q
  <2>3. q \in Queues
    BY <1>0, <2>2
  <2>4. Cut' = Cut + 1 /\ Cut \in Nat
    BY <2>1, <2>3, OneMoreRouted
  <2>5. \A p \in Queues : /\ routed'[p] = routed[p] + (IF p = q THEN 1 ELSE 0)
                          /\ routed[p] = base[p] + k + Had(p, m) /\ base[p] \in Int
                          /\ p \in Nat /\ k \in Nat /\ m \in Nat
    <3> SUFFICES ASSUME NEW p \in Queues
                 PROVE  /\ routed'[p] = routed[p] + (IF p = q THEN 1 ELSE 0)
                        /\ routed[p] = base[p] + k + Had(p, m) /\ base[p] \in Int
                        /\ p \in Nat /\ k \in Nat /\ m \in Nat
      OBVIOUS
    <3>1. routed'[p] = routed[p] + (IF p = q THEN 1 ELSE 0)
      BY <1>0, <2>1
    <3>2. routed[p] = base[p] + k + Had(p, m) /\ base[p] \in Int
      BY <1>1 DEF RoundsGone
    <3>3. p \in Nat /\ k \in Nat /\ m \in Nat
      BY <1>0, <1>1
    <3> QED
      BY <3>1, <3>2, <3>3
  <2>6. CASE ret_index = W32 - 1 /\ ret_index' = 0 /\ q = 0
    <3>8. PICK more \in Nat : more = wraps + 1
      OBVIOUS
    <3>0. \A p \in Queues : base[p] + k + (IF p <= m THEN 1 ELSE 0) \in Int
      BY <2>5
    <3>1. PICK after \in [Queues -> Int] :
            \A p \in Queues : after[p] = base[p] + k + (IF p <= m THEN 1 ELSE 0)
      <4> DEFINE sum == [p \in Queues |-> base[p] + k + (IF p <= m THEN 1 ELSE 0)]
      <4>1. sum \in [Queues -> Int]
        BY <3>0
      <4> QED
        BY <4>1
    <3>2. \A p \in Queues : routed'[p] = after[p]
      BY <2>5, <2>6, <3>1 DEF Had
    <3>3. \A p, r \in Queues : after[p] - after[r] <= more
      <4> SUFFICES ASSUME NEW p \in Queues, NEW r \in Queues
                   PROVE  after[p] - after[r] <= more
        OBVIOUS
      <4>1. base[p] - base[r] <= wraps /\ base[p] \in Int /\ base[r] \in Int
        BY <1>1 DEF RoundsGone
      <4>2. after[p] \in {base[p] + k, base[p] + k + 1}
            /\ after[r] \in {base[r] + k, base[r] + k + 1}
        BY <2>5, <3>1
      <4> QED
        BY <3>8, <4>1, <4>2
    <3>4. Cut' = more * W32 + ret_index'
      BY <1>0, <1>1, <2>4, <2>6, <3>8 DEF RoundsGone
    <3>5. ret_index' = 0 * req_mq_cnt + 0
      BY <1>0, <2>6
    <3>6. \A p \in Queues : routed'[p] = after[p] + 0 + Had(p, 0)
      BY <2>5, <3>1, <3>2 DEF Had
    <3>7. RoundsGone(after, more, 0, 0)'
      BY <3>3, <3>4, <3>5, <3>6 DEF RoundsGone
    <3> QED
      BY <1>0, <3>1, <3>7, RoutesGoOn
  <2>7. CASE ret_index < W32 - 1 /\ ret_index' = ret_index + 1 /\ m + 1 \in Queues /\ q = m + 1
    <3>1. ret_index' = k * req_mq_cnt + (m + 1) /\ Cut' = wraps * W32 + ret_index'
      BY <1>0, <1>1, <2>4, <2>7 DEF RoundsGone
    <3>2. \A p \in Queues : routed'[p] = base[p] + k + Had(p, m + 1)
      BY <2>5, <2>7 DEF Had
    <3>3. RoundsGone(base, wraps, k, m + 1)'
      BY <1>1, <3>1, <3>2 DEF RoundsGone
    <3> QED
      BY <2>7, <3>3, RoutesGoOn
  <2>8. CASE ret_index < W32 - 1 /\ ret_index' = ret_index + 1 /\ m + 1 = req_mq_cnt /\ q = 0
    <3>1. ret_index' = (k + 1) * req_mq_cnt + 0 /\ Cut' = wraps * W32 + ret_index'
      BY <1>0, <1>1, <2>4, <2>8 DEF RoundsGone
    <3>2. \A p \in Queues : routed'[p] = base[p] + (k + 1) + Had(p, 0)
      <4> SUFFICES ASSUME NEW p \in Queues PROVE routed'[p] = base[p] + (k + 1) + Had(p, 0)
        OBVIOUS
      <4>1. p <= m /\ Had(p, 0) = 0
        BY <1>0, <2>5, <2>8 DEF Had
      <4>2. CASE p = 0
        BY <2>5, <2>8, <4>1, <4>2 DEF Had
      <4>3. CASE p # 0
        BY <2>5, <2>8, <4>1, <4>3 DEF Had
      <4> QED
        BY <4>2, <4>3
    <3>3. RoundsGone(base, wraps, k + 1, 0)'
      BY <1>1, <3>1, <3>2 DEF RoundsGone
    <3> QED
      BY <1>0, <3>3, RoutesGoOn
  <2> QED
    BY <2>2, <2>6, <2>7, <2>8
<1>3. CASE UNCHANGED <<ret_index, routed>>
  <2>1. Cut' = Cut
    BY <1>3 DEF Cut
  <2>2. RoundsGone(base, wraps, k, m)'
    BY <1>1, <1>3, <2>1 DEF RoundsGone
  <2> QED
    BY <2>2 DEF RouteInv
<1> QED
  BY <1>2, <1>3 DEF FlowsNext, GetMessage, Receive, Waits, Closes, flowVars

LEMMA RouteInit == InitFlows => RouteInv
<1> SUFFICES ASSUME InitFlows PROVE RouteInv
  OBVIOUS
<1>0. W32 \in Nat \ {0} /\ req_mq_cnt \in Nat \ {0} /\ Queues = 0..(req_mq_cnt - 1)
      /\ 0 \in Queues
  BY NetCompleteAssumption DEF Queues
<1> DEFINE s == [n \in 1..req_mq_cnt |-> routed[n - 1]]
           sum == Sums(s, req_mq_cnt)
           S == {n \in 0..req_mq_cnt : sum[n] = 0}
           base == [q \in Queues |-> 0]
<1>1. \A n \in 1..req_mq_cnt : s[n] = 0
  BY <1>0 DEF InitFlows
<1>2. s \in [1..req_mq_cnt -> Nat]
  BY <1>1
<1> HIDE DEF s
<1>3. sum[0] = 0 /\ \A n \in 1..req_mq_cnt : sum[n] = sum[n - 1] + s[n]
  BY <1>0, <1>2, SumsAreSums
<1> HIDE DEF sum
<1>4. 0 \in S
  BY <1>0, <1>3
<1>5. ASSUME NEW n \in 0..(req_mq_cnt - 1), n \in S PROVE n + 1 \in S
  <2>1. n + 1 \in 1..req_mq_cnt /\ (n + 1) - 1 = n
    BY <1>0
  <2>2. sum[n + 1] = 0
    BY <1>1, <1>3, <1>5, <2>1
  <2> QED
    BY <2>1, <2>2
<1> HIDE DEF S
<1>6. \A n \in 0..req_mq_cnt : n \in S
  BY <1>0, <1>4, <1>5, UpToInduction
<1>7. Cut = 0
  BY <1>0, <1>6 DEF S, sum, s, Cut
<1>8. RoundsGone(base, 0, 0, 0)
  BY <1>0, <1>7 DEF InitFlows, RoundsGone, Had
<1>9. base \in [Queues -> Int]
  OBVIOUS
<1> HIDE DEF base
<1> QED
  BY <1>0, <1>8, <1>9 DEF RouteInv

LEMMA RoundsAreBalanced == FlowsTypeOK /\ RouteInv => RoutesAreBalanced
<1> SUFFICES ASSUME FlowsTypeOK, RouteInv, NEW p \in Queues, NEW q \in Queues
             PROVE  routed[p] - routed[q] <= 1 + Cut \div W32
  BY DEF RoutesAreBalanced
<1>1. PICK base \in [Queues -> Int], wraps \in Nat, k \in Nat, m \in Queues :
        RoundsGone(base, wraps, k, m)
  BY DEF RouteInv
<1>2. W32 \in Nat \ {0} /\ ret_index \in 0..(W32 - 1) /\ Cut = wraps * W32 + ret_index
  BY <1>1, NetCompleteAssumption DEF FlowsTypeOK, RoundsGone
<1>3. Cut \div W32 = wraps
  BY <1>2, DivisionIsUnique
<1>4. routed[p] - routed[q] <= wraps + 1
  <2>1. \A r \in Queues : /\ routed[r] = base[r] + k \/ routed[r] = base[r] + k + 1
                          /\ base[r] \in Int
    BY <1>1 DEF RoundsGone, Had
  <2>2. base[p] - base[q] <= wraps
    BY <1>1 DEF RoundsGone
  <2> QED
    BY <2>1, <2>2
<1> QED
  BY <1>2, <1>3, <1>4

(* However often the counter wraps, and whether the number of queues        *)
(* divides 2^32 or not, no queue gets more than the others by more than one *)
(* request and one for each wrap (longconn_complete.cpp:74-78).             *)
THEOREM RoutesAreBalancedCorrect == FlowsSpec => []RoutesAreBalanced
<1>1. FlowsTypeOK /\ FlowsTypeOK' /\ RouteInv /\ [FlowsNext]_flowVars => RouteInv'
  BY RouteStep
<1> QED
  BY <1>1, RouteInit, RoundsAreBalanced, FlowsTypeCorrect, PTL DEF FlowsSpec

(* All the run checks of the framing, for every stream and limit.           *)
THEOREM FramingCorrect == FlowsSpec => []FramingInv
<1>1. FlowsTypeOK /\ FramesAreCutExactly /\ RoutesAreBalanced => FramingInv
  BY DEF FramingInv
<1> QED
  BY <1>1, FlowsTypeCorrect, FramesAreCutExactlyCorrect, RoutesAreBalancedCorrect, PTL
=============================================================================
