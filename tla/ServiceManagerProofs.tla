------------------------ MODULE ServiceManagerProofs ------------------------
(***************************************************************************)
(* Theorems about ServiceManager, for every set of units, processes,       *)
(* clients and requests.                                                   *)
(***************************************************************************)
EXTENDS ServiceManager, SequenceTheorems, TLAPS

USE ConfAssumption, NoPidAssumption, ManagerAssumption

-----------------------------------------------------------------------------
(* Sequences: what the sequence updates of the specification preserve.      *)

\* A function with the domain of a sequence over S and values in S is a
\* sequence over S.
LEMMA SeqByValues ==
    ASSUME NEW S, NEW s \in Seq(S), NEW t,
           t = [i \in DOMAIN s |-> t[i]], \A i \in DOMAIN s : t[i] \in S
    PROVE  t \in Seq(S)
<1>1. DOMAIN s = 1..Len(s) /\ Len(s) \in Nat
  BY LenProperties
<1>2. t \in [1..Len(s) -> S]
  BY <1>1
<1>3. QED
  BY <1>1, <1>2, SeqDef

\* Replacing one element of a sequence over S by an element of S.
LEMMA SeqExcept ==
    ASSUME NEW S, NEW s \in Seq(S), NEW i, NEW x \in S
    PROVE  [s EXCEPT ![i] = x] \in Seq(S)
<1> DEFINE t == [s EXCEPT ![i] = x]
<1>1. t = [j \in DOMAIN s |-> t[j]]
  OBVIOUS
<1>2. \A j \in DOMAIN s : t[j] \in S
  OBVIOUS
<1>3. QED
  BY <1>1, <1>2, SeqByValues

-----------------------------------------------------------------------------
(* The functions of ServiceInstance return instances.                       *)

LEMMA NewInstanceType ==
    ASSUME NEW u \in Unit, NEW p \in OptPid
    PROVE  NewInstance(u, p) \in Instance
BY DEF NewInstance, Instance, Timer, OptPid

LEMMA StartedType ==
    ASSUME NEW u \in Unit, NEW p \in OptPid
    PROVE  Started(u, p) \in Instance
<1>1. NewInstance(u, p) \in Instance
  BY NewInstanceType
<1> DEFINE s == NewInstance(u, p)
<1> HIDE DEF s
<1>2. [s EXCEPT !.waitDaemon = TRUE, !.daemonDeadline = "armed"] \in Instance
  BY <1>1 DEF Instance, Timer, s
<1>3. QED
  BY <1>1, <1>2 DEF Started, s

LEMMA OneshotType ==
    ASSUME NEW u \in Unit
    PROVE  OneshotInstance(u) \in Instance
<1>1. NewInstance(u, NoPid) \in Instance
  BY NewInstanceType DEF OptPid
<1>2. Conf[u].remain \in BOOLEAN
  BY DEF UnitConf
<1>3. QED
  BY <1>1, <1>2 DEF OneshotInstance, Instance

LEMMA CountExitType ==
    ASSUME NEW s \in Instance, NEW failed
    PROVE  CountExit(s, failed) \in Instance
<1> DEFINE count == IF s.firstFailure = "old" THEN 0 ELSE s.failCount
           first == IF s.firstFailure = "old" THEN "none" ELSE s.firstFailure
           ff    == IF count = 0 THEN "recent" ELSE first
<1>1. count + 1 \in Nat /\ ff \in {"none", "recent", "old"}
  BY DEF Instance
<1> HIDE DEF count, ff
<1>2. [s EXCEPT !.failCount = count + 1, !.firstFailure = ff] \in Instance
  BY <1>1 DEF Instance
<1>3. [s EXCEPT !.failCount = 0, !.firstFailure = "none"] \in Instance
  BY DEF Instance
<1>4. QED
  BY <1>2, <1>3 DEF CountExit, count, ff

LEMMA ScheduleRestartType ==
    ASSUME NEW s \in Instance, NEW failed, NEW sd
    PROVE  ScheduleRestart(s, failed, sd) \in Instance
BY CountExitType DEF ScheduleRestart, Instance, Timer

LEMMA RespawnedType ==
    ASSUME NEW s \in Instance, NEW p \in OptPid
    PROVE  Respawned(s, p) \in Instance
<1> DEFINE r == [s EXCEPT !.tracked = NoPid, !.child = p,
                          !.waitReady = Conf[s.name].type = "notify",
                          !.watchdogDeadline = "none"]
           d == IF p # NoPid THEN "armed" ELSE "none"
<1>1. r \in Instance
  BY DEF Instance, Timer, OptPid
<1>2. d \in Timer
  BY DEF Timer
<1> HIDE DEF r, d
<1>3. [r EXCEPT !.waitDaemon = p # NoPid, !.daemonDeadline = d] \in Instance
  BY <1>1, <1>2 DEF Instance
<1>4. QED
  BY <1>1, <1>3 DEF Respawned, r, d

LEMMA FinishDaemonizeType ==
    ASSUME NEW s \in Instance, NEW p \in OptPid
    PROVE  FinishDaemonize(s, p) \in Instance
<1> DEFINE t == IF Conf[s.name].pidfile THEN p ELSE NoPid
<1>1. t \in OptPid
  BY DEF OptPid
<1> HIDE DEF t
<1>2. [s EXCEPT !.child = NoPid, !.waitDaemon = FALSE, !.daemonDeadline = "none",
                !.tracked = t] \in Instance
  BY <1>1 DEF Instance, Timer, OptPid
<1>3. QED
  BY <1>2 DEF FinishDaemonize, t

LEMMA ChildExitedType ==
    ASSUME NEW s \in Instance, NEW failed \in BOOLEAN, NEW sd
    PROVE  ChildExited(s, failed, sd) \in Instance
<1> DEFINE e == [s EXCEPT !.child = NoPid, !.waitReady = FALSE,
                          !.watchdogDeadline = "none",
                          !.active = @ \/ (~failed /\ Conf[s.name].remain)]
<1>1. e \in Instance
  BY DEF Instance, Timer, OptPid
<1>2. QED
  BY <1>1, ScheduleRestartType DEF ChildExited

LEMMA DaemonTimedOutType ==
    ASSUME NEW s \in Instance, NEW sd
    PROVE  DaemonTimedOut(s, sd) \in Instance
<1> DEFINE e == [s EXCEPT !.child = NoPid, !.waitDaemon = FALSE,
                          !.daemonDeadline = "none"]
<1>1. e \in Instance
  BY DEF Instance, Timer, OptPid
<1>2. QED
  BY <1>1, ScheduleRestartType DEF DaemonTimedOut

LEMMA ForgetFailuresType ==
    ASSUME NEW s \in Instance
    PROVE  ForgetFailures(s) \in Instance
BY DEF ForgetFailures, Instance, Timer

-----------------------------------------------------------------------------
(* The process table.                                                       *)

LEMMA NewProcType ==
    ASSUME NEW u \in Unit, NEW p \in OptPid, NEW dm \in BOOLEAN
    PROVE  NewProc(u, p, dm) \in Process
BY DEF NewProc, Process, OptPid

LEMMA FreeProcType == FreeProc \in Process
BY DEF FreeProc, Process, OptPid

LEMMA SignalledType ==
    ASSUME NEW table \in [Pid -> Process], NEW S, NEW sig \in {"term", "kill"}
    PROVE  Signalled(table, S, sig) \in [Pid -> Process]
<1>1. ASSUME NEW p \in Pid
      PROVE  [table[p] EXCEPT !.sig = sig] \in Process
  <2> DEFINE x == table[p]
  <2>1. x \in Process
    OBVIOUS
  <2> HIDE DEF x
  <2>2. [x EXCEPT !.sig = sig] \in Process
    BY <2>1 DEF Process
  <2>3. QED
    BY <2>2 DEF x
<1>2. QED
  BY <1>1 DEF Signalled

LEMMA SpawnedType ==
    ASSUME NEW table \in [Pid -> Process], NEW u \in Unit,
           NEW p \in SpawnResults(table, u)
    PROVE  p \in OptPid /\ Spawned(table, u, p) \in [Pid -> Process]
<1>1. p \in OptPid
  BY DEF SpawnResults, FreePids, OptPid
<1>2. NewProc(u, NoPid, FALSE) \in Process
  BY NewProcType DEF OptPid
<1>3. QED
  BY <1>1, <1>2 DEF Spawned

LEMMA ReapedType ==
    ASSUME proc \in [Pid -> Process], NEW p
    PROVE  Reaped(p) \in [Pid -> Process]
BY DEF Reaped, FreeProc, Process, OptPid

\* A process table in which children of some process were reparented to
\* PID 1 and one entry was replaced.
LEMMA ReparentedType ==
    ASSUME proc \in [Pid -> Process], NEW p, NEW e \in Process
    PROVE  [q \in Pid |-> IF q = p THEN e
                          ELSE IF proc[q].ppid = p
                               THEN [proc[q] EXCEPT !.ppid = NoPid]
                          ELSE proc[q]] \in [Pid -> Process]
BY DEF Process, OptPid

LEMMA FreedType ==
    ASSUME proc \in [Pid -> Process], NEW p
    PROVE  [q \in Pid |-> IF q = p THEN FreeProc
                          ELSE IF proc[q].ppid = p
                               THEN [proc[q] EXCEPT !.ppid = NoPid]
                          ELSE proc[q]] \in [Pid -> Process]
BY FreeProcType, ReparentedType

-----------------------------------------------------------------------------
(* Type correctness.  TypeOK alone is not inductive: a stop that works on   *)
(* an instance, and do_shutdown, index the list by numbers that were valid  *)
(* earlier, and StopStep drops the head of todo.  LockDiscipline says why   *)
(* both are sound: whoever does it has held the mutex since.                *)

Inv == TypeOK /\ LockDiscipline

LEMMA BootInstanceType ==
    ASSUME NEW u \in Unit, NEW p \in OptPid PROVE BootInstance(u, p) \in Instance
<1>1. NoPid \in OptPid
  BY DEF OptPid
<1>2. QED
  BY <1>1, NewInstanceType, StartedType, OneshotType DEF BootInstance

LEMMA InitInv == Init => Inv
<1> SUFFICES ASSUME Init PROVE Inv
  OBVIOUS
<1>1. PICK f \in [DOMAIN BootUnits -> OptPid] :
         /\ services = [i \in DOMAIN BootUnits |-> BootInstance(BootUnits[i], f[i])]
         /\ proc = [p \in Pid |->
                IF \E i \in DOMAIN BootUnits : f[i] = p
                THEN NewProc(BootUnits[CHOOSE i \in DOMAIN BootUnits : f[i] = p],
                             NoPid, FALSE)
                ELSE FreeProc]
  BY DEF Init
<1>2. services \in Seq(Instance)
  <2>1. DOMAIN BootUnits = 1..Len(BootUnits) /\ Len(BootUnits) \in Nat
    BY LenProperties
  <2>2. \A i \in DOMAIN BootUnits : BootUnits[i] \in Unit /\ f[i] \in OptPid
    BY <2>1, ElementOfSeq
  <2>3. \A i \in DOMAIN BootUnits : BootInstance(BootUnits[i], f[i]) \in Instance
    BY <2>2, BootInstanceType
  <2>4. services \in [1..Len(BootUnits) -> Instance]
    BY <1>1, <2>1, <2>3
  <2>5. QED
    BY <2>1, <2>4, SeqDef
<1>3. proc \in [Pid -> Process]
  <2>1. ASSUME NEW p \in Pid, \E i \in DOMAIN BootUnits : f[i] = p
        PROVE  BootUnits[CHOOSE i \in DOMAIN BootUnits : f[i] = p] \in Unit
    <3> DEFINE k == CHOOSE i \in DOMAIN BootUnits : f[i] = p
    <3>1. k \in DOMAIN BootUnits
      BY <2>1
    <3>2. QED
      BY <3>1, LenProperties, ElementOfSeq
  <2> DEFINE entry(p) ==
               IF \E i \in DOMAIN BootUnits : f[i] = p
               THEN NewProc(BootUnits[CHOOSE i \in DOMAIN BootUnits : f[i] = p],
                            NoPid, FALSE)
               ELSE FreeProc
  <2>2. \A p \in Pid : entry(p) \in Process
    BY <2>1, NewProcType, FreeProcType DEF OptPid
  <2>3. proc = [p \in Pid |-> entry(p)]
    BY <1>1
  <2> HIDE DEF entry
  <2>4. QED
    BY <2>2, <2>3
<1>4. trig \in Seq(Unit) /\ todo \in Seq(Job)
  BY EmptySeq DEF Init
<1>5. QED
  BY <1>2, <1>3, <1>4 DEF Init, Inv, TypeOK, LockDiscipline, NothingReady, Timer,
     IdleClient, NoStop, StopPhase, OptPid

\* A step that leaves the lock, the main loop and the stop in progress alone.
LEMMA LockFrame ==
    ASSUME Inv, UNCHANGED <<lock, mainVars, client, jobVars>>,
           services' \in Seq(Instance), DOMAIN services' = DOMAIN services,
           pipe' \in BOOLEAN, shutdown' \in BOOLEAN, deadline' \in Timer,
           evVars' = evVars, proc' \in [Pid -> Process],
           pidfile' \in [Unit -> OptPid]
    PROVE  Inv'
<1>1. TypeOK'
  BY DEF Inv, TypeOK, mainVars, jobVars, evVars
<1>2. LockDiscipline'
  BY DEF Inv, LockDiscipline, mainVars, jobVars
<1>3. QED
  BY <1>1, <1>2 DEF Inv

\* The environment and the clock.
LEMMA EnvironmentInv ==
    ASSUME Inv, Environment \/ Time
    PROVE  Inv'
<1> USE DEF Inv, TypeOK, mainVars, osVars, evVars, jobVars
<1> USE DEF LockDiscipline
<1>1. ASSUME NEW p \in Pid, NEW code \in {"zero", "listed", "bad"}, Exit(p, code)
      PROVE  Inv'
  <2> DEFINE e == [proc[p] EXCEPT !.st = "zombie", !.code = code, !.sig = "none"]
  <2>1. e \in Process
    <3>1. proc[p] \in Process
      OBVIOUS
    <3> HIDE DEF Inv
    <3>2. QED
      BY <3>1 DEF Process
  <2>2. proc' = [q \in Pid |->
            IF q = p THEN e
              ELSE IF proc[q].ppid = p
                   THEN [proc[q] EXCEPT !.ppid = NoPid]
              ELSE proc[q]]
    BY <1>1 DEF Exit
  <2> HIDE DEF e
  <2>3. proc' \in [Pid -> Process]
    <3>1. proc \in [Pid -> Process]
      OBVIOUS
    <3> HIDE DEF Inv
    <3>2. QED
      BY <2>1, <2>2, <3>1, ReparentedType
  <2>4. pipe' \in BOOLEAN
    BY <1>1 DEF Exit
  <2>5. UNCHANGED <<services, lock, mainVars, client, jobVars, shutdown,
                    deadline, evVars, pidfile>>
    BY <1>1 DEF Exit
  <2>6. QED
    BY <2>3, <2>4, <2>5, LockFrame
<1>2. ASSUME NEW p \in Pid, Daemonize(p)
      PROVE  Inv'
  <2>1. proc[p].unit \in Unit \cup {NoUnit} /\ proc[p].st = "run"
    BY <1>2 DEF Daemonize, Process
  <2>2. PICK d \in FreePids(proc) :
         /\ proc' = [proc EXCEPT ![d] = NewProc(proc[p].unit, p, TRUE)]
         /\ pidfile' = IF Conf[proc[p].unit].pidfile
                       THEN [pidfile EXCEPT ![proc[p].unit] = d]
                       ELSE pidfile
    BY <1>2 DEF Daemonize
  <2>3. d \in Pid
    BY DEF FreePids
  <2>4. NewProc(proc[p].unit, p, TRUE) \in Process
    BY <2>1 DEF NewProc, Process, OptPid
  <2>5. proc' \in [Pid -> Process] /\ pidfile' \in [Unit -> OptPid]
    BY <2>2, <2>3, <2>4 DEF OptPid
  <2>6. UNCHANGED <<services, lock, mainVars, client, jobVars, pipe, shutdown,
                    deadline, evVars>>
    BY <1>2 DEF Daemonize
  <2>7. QED
    BY <2>5, <2>6, LockFrame
<1>3. ASSUME NEW p \in Pid, NEW m \in {"READY", "WATCHDOG"}, Notify(p, m)
      PROVE  Inv'
  BY <1>3 DEF Notify
<1>4. ASSUME NEW u \in DOMAIN Socket, SockConnect(u) \/ SockServed(u)
      PROVE  Inv'
  BY <1>4 DEF SockConnect, SockServed
<1>5. ASSUME NEW c \in Client, NEW r \in Request, Connect(c, r)
      PROVE  Inv'
  BY <1>5 DEF Connect
<1>6. CASE SignalShutdown \/ HookExits
  <2>1. CASE SignalShutdown
    <3>1. /\ UNCHANGED <<services, lock, mainVars, client, jobVars, deadline,
                         evVars, proc, pidfile>>
          /\ pipe' \in BOOLEAN /\ shutdown' \in BOOLEAN
      BY <2>1 DEF SignalShutdown
    <3>2. QED
      BY <3>1, LockFrame
  <2>2. CASE HookExits
    <3>1. /\ UNCHANGED <<services, lock, mainVars, client, jobVars, deadline,
                         shutdown, evVars, proc, pidfile>>
          /\ pipe' \in BOOLEAN
      BY <2>2 DEF HookExits
    <3>2. QED
      BY <3>1, LockFrame
  <2>3. QED
    BY <1>6, <2>1, <2>2
<1>7. ASSUME NEW i \in DOMAIN services, NEW f \in TimerField, TimerDue(i, f)
      PROVE  Inv'
  <2>1. services[i] \in Instance
    BY LenProperties
  <2>2. [services[i] EXCEPT ![f] = "due"] \in Instance
    BY <2>1 DEF Instance, TimerField, Timer
  <2>3. services' = [services EXCEPT ![i] = [services[i] EXCEPT ![f] = "due"]]
    BY <1>7 DEF TimerDue
  <2>4. services' \in Seq(Instance) /\ DOMAIN services' = DOMAIN services
    BY <2>2, <2>3, SeqExcept
  <2>5. QED
    BY <1>7, <2>4 DEF TimerDue
<1>8. ASSUME NEW i \in DOMAIN services, WindowEnds(i)
      PROVE  Inv'
  <2>1. services[i] \in Instance
    BY LenProperties
  <2>2. [services[i] EXCEPT !.firstFailure = "old"] \in Instance
    BY <2>1 DEF Instance
  <2>3. services' = [services EXCEPT ![i] =
                        [services[i] EXCEPT !.firstFailure = "old"]]
    BY <1>8 DEF WindowEnds
  <2>4. services' \in Seq(Instance) /\ DOMAIN services' = DOMAIN services
    BY <2>2, <2>3, SeqExcept
  <2>5. QED
    BY <1>8, <2>4 DEF WindowEnds
<1>9. CASE DeadlineDue
  BY <1>9 DEF DeadlineDue, Timer
<1> HIDE DEF Inv, TypeOK, mainVars, osVars, evVars, jobVars, LockDiscipline
<1>10. CASE Environment
  BY <1>1, <1>2, <1>3, <1>4, <1>5, <1>6, <1>10 DEF Environment
<1>11. CASE Time
  BY <1>7, <1>8, <1>9, <1>11 DEF Time
<1>12. QED
  BY <1>10, <1>11

-----------------------------------------------------------------------------
(* The main loop.                                                           *)

LEMMA ScanExitType ==
    ASSUME NEW s \in Instance, proc \in [Pid -> Process], shutdown \in BOOLEAN
    PROVE  /\ ScanExit(s).inst \in Instance
           /\ ScanExit(s).inst.name = s.name
           /\ ScanExit(s).table \in [Pid -> Process]
           /\ ScanExit(s).fired \in Seq(Unit)
<1> DEFINE failed == OurChild(s.child) /\ ~ExitIsSuccess(proc[s.child].code)
           gone   == ChildExited(s, failed, shutdown)
<1>1. failed \in BOOLEAN
  BY DEF OurChild
<1> HIDE DEF failed
<1>2. gone \in Instance
  BY <1>1, ChildExitedType
<1>3. gone.name = s.name
  BY DEF ChildExited, ScheduleRestart, CountExit, Instance
<1>4. Reaped(s.child) \in [Pid -> Process]
  BY ReapedType
<1>5. Conf[s.name].onFailure \in Seq(Unit) /\ Conf[s.name].onSuccess \in Seq(Unit)
  BY DEF Instance, UnitConf
<1>6. <<>> \in Seq(Unit)
  BY EmptySeq
<1> DEFINE tab   == IF OurChild(s.child) THEN Reaped(s.child) ELSE proc
           fired == IF failed THEN Conf[s.name].onFailure
                              ELSE Conf[s.name].onSuccess
<1>7. tab \in [Pid -> Process] /\ fired \in Seq(Unit)
  BY <1>1, <1>4, <1>5
<1>8. \/ ScanExit(s) = [inst |-> s, table |-> proc, fired |-> <<>>]
      \/ ScanExit(s) = [inst |-> gone, table |-> tab, fired |-> fired]
  BY DEF ScanExit, failed
<1> HIDE DEF gone, tab, fired
<1> DEFINE e == ScanExit(s)
<1> HIDE DEF e
<1>9. CASE e = [inst |-> s, table |-> proc, fired |-> <<>>]
  BY <1>6, <1>9 DEF e
<1>10. CASE e = [inst |-> gone, table |-> tab, fired |-> fired]
  BY <1>2, <1>3, <1>7, <1>10 DEF e
<1>11. QED
  BY <1>8, <1>9, <1>10 DEF e

\* What the steps under the lock leave alone.
LEMMA MainScanInv ==
    ASSUME Inv, MainScan
    PROVE  Inv'
<1> DEFINE s == services[idx]
<1>1. /\ services \in Seq(Instance) /\ proc \in [Pid -> Process]
      /\ shutdown \in BOOLEAN /\ pipe \in BOOLEAN /\ trig \in Seq(Unit)
      /\ pidfile \in [Unit -> OptPid] /\ idx \in Nat
  BY DEF Inv, TypeOK
<1>2. s \in Instance /\ s.name \in Unit
  <2>1. idx \in DOMAIN services
    BY DEF MainScan
  <2>2. s \in Instance
    BY <1>1, <2>1, LenProperties
  <2>3. QED
    BY <2>2 DEF Instance
<1> HIDE DEF s
<1>3. ScanDaemonizing(s) \/ ScanRunning(s)
  BY DEF MainScan, s
<1>4. /\ \E x \in Instance : services' = [services EXCEPT ![idx] = x]
                              \/ services' = services
      /\ proc' \in [Pid -> Process] /\ pipe' \in BOOLEAN /\ trig' \in Seq(Unit)
  <2>1. CASE ScanDaemonizing(s)
    <3>1. FinishDaemonize(s, pidfile[s.name]) \in Instance
      BY <1>1, <1>2, FinishDaemonizeType
    <3>2. DaemonTimedOut(s, shutdown) \in Instance
      BY <1>2, DaemonTimedOutType
    <3>3. Reaped(s.child) \in [Pid -> Process]
      BY <1>1, ReapedType
    <3>4. [q \in Pid |-> IF q = s.child THEN FreeProc
                         ELSE IF proc[q].ppid = s.child
                              THEN [proc[q] EXCEPT !.ppid = NoPid]
                         ELSE proc[q]] \in [Pid -> Process]
      BY <1>1, FreedType, Zenon
    <3> DEFINE fin == FinishDaemonize(s, pidfile[s.name])
               out == DaemonTimedOut(s, shutdown)
               rpd == IF Reapable(s.child) THEN Reaped(s.child) ELSE proc
               tab == [q \in Pid |-> IF q = s.child THEN FreeProc
                                     ELSE IF proc[q].ppid = s.child
                                          THEN [proc[q] EXCEPT !.ppid = NoPid]
                                     ELSE proc[q]]
    <3>5. rpd \in [Pid -> Process]
      BY <1>1, <3>3
    <3>6. trig' = trig
      BY <2>1 DEF ScanDaemonizing
    <3>7. \/ services' = [services EXCEPT ![idx] = fin] /\ proc' = rpd
             /\ pipe' = pipe
          \/ services' = [services EXCEPT ![idx] = out] /\ proc' = tab
             /\ pipe' = TRUE
          \/ UNCHANGED <<services, proc, pipe>>
      BY <2>1, Zenon DEF ScanDaemonizing
    <3>8. fin \in Instance /\ out \in Instance /\ tab \in [Pid -> Process]
      BY <3>1, <3>2, <3>4
    <3> HIDE DEF fin, out, rpd, tab
    <3>9. QED
      BY <1>1, <1>2, <3>5, <3>6, <3>7, <3>8
  <2>2. CASE ScanRunning(s)
    <3> DEFINE r == ScanExit(s)
               i == [r.inst EXCEPT !.nextRestart = "none"]
    <3>1. /\ r.inst \in Instance /\ r.table \in [Pid -> Process]
          /\ r.fired \in Seq(Unit)
      BY <1>1, <1>2, ScanExitType
    <3>2. trig' = trig \o r.fired /\ pipe' = pipe
      BY <2>2 DEF ScanRunning
    <3>3. trig' \in Seq(Unit)
      BY <1>1, <3>1, <3>2, ConcatProperties
    <3>4. \/ /\ services' = [services EXCEPT ![idx] = r.inst]
             /\ proc' = r.table
          \/ \E p \in SpawnResults(r.table, s.name) :
                /\ services' = [services EXCEPT ![idx] = Respawned(i, p)]
                /\ proc' = Spawned(r.table, s.name, p)
      BY <2>2 DEF ScanRunning
    <3> HIDE DEF r
    <3>5. i \in Instance
      BY <3>1 DEF Instance, Timer
    <3> HIDE DEF i
    <3>6. \A p \in SpawnResults(r.table, s.name) :
             /\ Respawned(i, p) \in Instance
             /\ Spawned(r.table, s.name, p) \in [Pid -> Process]
      BY <1>2, <3>1, <3>5, SpawnedType, RespawnedType
    <3>7. QED
      BY <1>1, <3>1, <3>2, <3>3, <3>4, <3>6
  <2>3. QED
    BY <1>3, <2>1, <2>2
<1>5. services' \in Seq(Instance) /\ DOMAIN services' = DOMAIN services
  <2>1. CASE services' = services
    BY <1>1, <2>1
  <2>2. ASSUME NEW x \in Instance, services' = [services EXCEPT ![idx] = x]
        PROVE  services' \in Seq(Instance) /\ DOMAIN services' = DOMAIN services
    BY <1>1, <2>2, SeqExcept
  <2>3. QED
    BY <1>4, <2>1, <2>2
<1>6. idx' \in Nat
  BY <1>1 DEF MainScan
<1>7. QED
  BY <1>4, <1>5, <1>6
  DEF Inv, TypeOK, LockDiscipline, MainScan, jobVars, evVars

\* Pushing an instance keeps the list well typed and its indices valid.
LEMMA AppendInstance ==
    ASSUME services \in Seq(Instance), NEW x \in Instance
    PROVE  /\ Append(services, x) \in Seq(Instance)
           /\ DOMAIN services \subseteq DOMAIN Append(services, x)
<1>1. /\ Append(services, x) \in Seq(Instance)
      /\ Len(Append(services, x)) = Len(services) + 1
  BY AppendProperties
<1>2. DOMAIN services = 1..Len(services) /\ Len(services) \in Nat
  BY LenProperties
<1>3. DOMAIN Append(services, x) = 1..(Len(services) + 1)
  BY <1>1, LenProperties
<1>4. QED
  BY <1>1, <1>2, <1>3

LEMMA OrphanReapedType ==
    ASSUME NEW s \in Instance, NEW p \in Pid, pidfile \in [Unit -> OptPid]
    PROVE  OrphanReaped(s, p) \in Instance
<1>1. FinishDaemonize(s, pidfile[s.name]) \in Instance
  BY FinishDaemonizeType DEF Instance
<1> DEFINE e == [s EXCEPT !.tracked = NoPid]
<1>2. e \in Instance
  BY DEF Instance, OptPid
<1> HIDE DEF e
<1>3. ScheduleRestart(e, proc[p].code # "zero", shutdown) \in Instance
  BY <1>2, ScheduleRestartType
<1>4. [s EXCEPT !.child = NoPid] \in Instance
  BY DEF Instance, OptPid
<1>5. QED
  BY <1>1, <1>3, <1>4 DEF OrphanReaped, e

LEMMA NotifiedType ==
    ASSUME NEW s \in Instance
    PROVE  Notified(s) \in Instance
<1> DEFINE has(m) == \E n \in notes : n.msg = m /\ n.pid \in {s.child, s.tracked}
           up     == has("READY") /\ s.waitReady
           wr     == s.waitReady /\ ~up
           wd     == IF Conf[s.name].watchdog /\ (up \/ has("WATCHDOG"))
                     THEN "armed" ELSE s.watchdogDeadline
<1>1. wr \in BOOLEAN /\ wd \in Timer
  BY DEF Instance, Timer
<1>2. Notified(s) = [s EXCEPT !.waitReady = wr, !.watchdogDeadline = wd]
  BY DEF Notified
<1> HIDE DEF wr, wd
<1>3. QED
  BY <1>1, <1>2 DEF Instance

\* start_unit, whatever its outcome.
LEMMA StartUnitType ==
    ASSUME services \in Seq(Instance), proc \in [Pid -> Process], NEW u \in Unit,
           pidfile \in [Unit -> OptPid],
           \/ UNCHANGED <<services, osVars>>
           \/ StartYieldsNothing(u) \/ StartPostFails(u) \/ StartYieldsInstance(u)
    PROVE  /\ services' \in Seq(Instance) /\ proc' \in [Pid -> Process]
           /\ pidfile' \in [Unit -> OptPid]
           /\ DOMAIN services \subseteq DOMAIN services'
<1>1. CASE UNCHANGED <<services, osVars>> \/ StartYieldsNothing(u)
  BY <1>1 DEF StartYieldsNothing, osVars
<1>4. CASE StartPostFails(u)
  <2>1. PICK d \in FreePids(proc) :
           /\ proc' = [proc EXCEPT ![d] = NewProc(u, NoPid, TRUE)]
           /\ pidfile' = IF Conf[u].pidfile THEN [pidfile EXCEPT ![u] = d]
                                            ELSE pidfile
    BY <1>4 DEF StartPostFails
  <2>2. d \in Pid /\ d \in OptPid /\ NewProc(u, NoPid, TRUE) \in Process
    BY NewProcType DEF FreePids, OptPid
  <2>3. QED
    BY <1>4, <2>1, <2>2 DEF StartPostFails
<1>2. CASE StartYieldsInstance(u)
  <2>1. OneshotInstance(u) \in Instance
    BY OneshotType
  <2>2. ASSUME NEW p \in FreePids(proc)
        PROVE  /\ Started(u, p) \in Instance
               /\ Spawned(proc, u, p) \in [Pid -> Process]
    <3>1. p \in OptPid /\ p \in SpawnResults(proc, u)
      BY DEF FreePids, OptPid, SpawnResults
    <3>2. QED
      BY <3>1, StartedType, SpawnedType
  <2>3. ASSUME services' = Append(services, OneshotInstance(u)), proc' = proc
        PROVE  /\ services' \in Seq(Instance) /\ proc' \in [Pid -> Process]
               /\ DOMAIN services \subseteq DOMAIN services'
    BY <2>1, <2>3, AppendInstance
  <2>4. ASSUME NEW p \in FreePids(proc), services' = Append(services, Started(u, p)),
               proc' = Spawned(proc, u, p)
        PROVE  /\ services' \in Seq(Instance) /\ proc' \in [Pid -> Process]
               /\ DOMAIN services \subseteq DOMAIN services'
    BY <2>2, <2>4, AppendInstance
  <2>5. pidfile' \in [Unit -> OptPid]
    BY <1>2 DEF StartYieldsInstance
  <2>6. QED
    BY <1>2, <2>3, <2>4, <2>5 DEF StartYieldsInstance
<1>3. QED
  BY <1>1, <1>2, <1>4

LEMMA MainLoopInv ==
    ASSUME Inv, MainLoop
    PROVE  Inv'
<1> USE DEF Inv, TypeOK, LockDiscipline, mainVars, osVars, evVars, jobVars
<1>1. CASE MainTryLock \/ MainScanEnd \/ MainTriggerEnd \/ MainReapEnd
  <2>1. CASE MainTryLock
    <3>1. trig' \in Seq(Unit)
      BY <2>1, EmptySeq DEF MainTryLock
    <3>2. QED
      BY <2>1, <3>1 DEF MainTryLock
  <2>2. CASE MainScanEnd
    BY <2>2 DEF MainScanEnd
  <2>3. CASE MainTriggerEnd
    BY <2>3 DEF MainTriggerEnd
  <2>4. CASE MainReapEnd
    BY <2>4 DEF MainReapEnd
  <2>5. QED
    BY <1>1, <2>1, <2>2, <2>3, <2>4
<1>2. CASE MainScan
  BY <1>2, MainScanInv
<1>3. CASE MainTrigger
  <2>1. Head(trig) \in Unit /\ trig' \in Seq(Unit)
    BY <1>3, HeadTailProperties DEF MainTrigger
  <2>2. /\ services' \in Seq(Instance) /\ proc' \in [Pid -> Process]
        /\ pidfile' \in [Unit -> OptPid]
        /\ DOMAIN services \subseteq DOMAIN services'
    <3>1. \/ UNCHANGED <<services, osVars>>
          \/ StartYieldsNothing(Head(trig)) \/ StartPostFails(Head(trig))
          \/ StartYieldsInstance(Head(trig))
      BY <1>3 DEF MainTrigger
    <3>2. QED
      BY <2>1, <3>1, StartUnitType
  <2>3. QED
    BY <1>3, <2>1, <2>2 DEF MainTrigger
<1>4. CASE MainTimer \/ MainTimersEnd
  <2>1. CASE MainTimer
    <3>1. ExtTargets[idx] \in Unit
      BY <2>1, LenProperties, ElementOfSeq DEF MainTimer
    <3>2. Append(trig, ExtTargets[idx]) \in Seq(Unit)
      BY <3>1
    <3>3. trig' \in Seq(Unit)
      <4>1. trig \in Seq(Unit) /\ trig' \in {trig, Append(trig, ExtTargets[idx])}
        BY <2>1 DEF MainTimer
      <4> HIDE DEF Inv
      <4>2. QED
        BY <3>2, <4>1
    <3>5. idx' \in Nat
      <4>1. idx \in Nat /\ idx' = idx + 1
        BY <2>1 DEF MainTimer
      <4> HIDE DEF Inv
      <4>2. QED
        BY <4>1
    <3>4. QED
      BY <2>1, <3>3, <3>5 DEF MainTimer
  <2>2. CASE MainTimersEnd
    BY <2>2 DEF MainTimersEnd
  <2>3. QED
    BY <1>4, <2>1, <2>2
<1>5. CASE MainWatchdog
  <2>1. \A i \in DOMAIN services : services'[i] \in Instance
    <3>1. \A i \in DOMAIN services : services[i] \in Instance
      BY LenProperties
    <3>2. ASSUME NEW i \in DOMAIN services
          PROVE  [services[i] EXCEPT !.watchdogDeadline = "none"] \in Instance
      <4> DEFINE x == services[i]
      <4>1. x \in Instance
        BY <3>1
      <4> HIDE DEF x, Inv
      <4>2. [x EXCEPT !.watchdogDeadline = "none"] \in Instance
        BY <4>1 DEF Instance, Timer
      <4>3. QED
        BY <4>2 DEF x
    <3>3. QED
      BY <1>5, <3>1, <3>2 DEF MainWatchdog
  <2>2. services' \in Seq(Instance) /\ DOMAIN services' = DOMAIN services
    BY <1>5, <2>1, SeqByValues DEF MainWatchdog
  <2>3. proc' \in [Pid -> Process]
    BY <1>5, SignalledType DEF MainWatchdog
  <2>4. QED
    BY <1>5, <2>2, <2>3 DEF MainWatchdog
<1>6. ASSUME NEW p \in Pid, MainReap(p)
      PROVE  Inv'
  <2>1. \A i \in DOMAIN services : services'[i] \in Instance
    <3>1. \A i \in DOMAIN services : services[i] \in Instance
      BY LenProperties
    <3>2. QED
      BY <1>6, <3>1, OrphanReapedType DEF MainReap
  <2>2. services' \in Seq(Instance) /\ DOMAIN services' = DOMAIN services
    BY <1>6, <2>1, SeqByValues DEF MainReap
  <2>3. proc' \in [Pid -> Process]
    BY <1>6, ReapedType DEF MainReap
  <2>4. QED
    BY <1>6, <2>2, <2>3 DEF MainReap
<1>7. CASE MainDropLock
  BY <1>7 DEF MainDropLock, NextTimeout
<1>8. CASE MainPollEvent
  <2>1. client' \in [Client -> [st : {"idle", "conn", "wait", "run"},
                                req : Request \cup {NoRequest}]]
    <3>1. /\ client \in [Client -> [st : {"idle", "conn", "wait", "run"},
                                     req : Request \cup {NoRequest}]]
          /\ \/ client' = client
             \/ \E c \in Client : client' = [client EXCEPT ![c].st = "wait"]
      BY <1>8 DEF MainPollEvent
    <3> HIDE DEF Inv
    <3>2. QED
      BY <3>1
  <2>2. QED
    BY <1>8, <2>1 DEF MainPollEvent
<1>9. CASE MainPollTimeout \/ MainPollInterrupted \/ MainRelock
  BY <1>9 DEF MainPollTimeout, MainPollInterrupted, MainRelock
<1>10. ASSUME NEW u \in DOMAIN Socket, MainSocket(u)
       PROVE  Inv'
  <2>1. PICK p \in SpawnResults(proc, u) :
         /\ services' = IF p = NoPid THEN services
                        ELSE Append(services, NewInstance(u, p))
         /\ proc' = Spawned(proc, u, p)
    BY <1>10 DEF MainSocket
  <2>2. p \in OptPid /\ proc' \in [Pid -> Process] /\ u \in Unit
    BY <2>1, SpawnedType
  <2>3. services' \in Seq(Instance) /\ DOMAIN services \subseteq DOMAIN services'
    BY <2>1, <2>2, NewInstanceType, AppendInstance
  <2>4. QED
    BY <1>10, <2>2, <2>3 DEF MainSocket
<1>11. CASE MainNotify
  <2>1. services' \in Seq(Instance) /\ DOMAIN services' = DOMAIN services
    <3>1. CASE ready.notify
      <4>1. services' = [i \in DOMAIN services |-> Notified(services[i])]
        BY <1>11, <3>1 DEF MainNotify
      <4>2. \A i \in DOMAIN services : services'[i] \in Instance
        BY <4>1, LenProperties, NotifiedType
      <4>3. QED
        BY <4>1, <4>2, SeqByValues
    <3>2. CASE ~ready.notify
      BY <1>11, <3>2 DEF MainNotify
    <3>3. QED
      BY <3>1, <3>2
  <2>2. QED
    BY <1>11, <2>1 DEF MainNotify, NothingReady
<1>12. QED
  BY <1>1, <1>2, <1>3, <1>4, <1>5, <1>6, <1>7, <1>8, <1>9, <1>10, <1>11
  DEF MainLoop

-----------------------------------------------------------------------------
(* Stopping an instance, by a control thread or by do_shutdown.             *)

\* Dropping the head of the job list keeps what holds of its jobs.
LEMMA TailJobs ==
    ASSUME todo \in Seq(Job), todo # <<>>
    PROVE  /\ Tail(todo) \in Seq(Job) /\ Head(todo) \in Job
           /\ Head(todo) = todo[1] /\ 1 \in DOMAIN todo
           /\ \A k \in DOMAIN Tail(todo) : k + 1 \in DOMAIN todo
                                           /\ Tail(todo)[k] = todo[k + 1]
<1>1. /\ Tail(todo) \in Seq(Job) /\ Head(todo) \in Job
      /\ Len(Tail(todo)) = Len(todo) - 1
      /\ \A i \in 1 .. Len(Tail(todo)) : Tail(todo)[i] = todo[i + 1]
  BY HeadTailProperties
<1>2. Len(todo) \in Nat \ {0} /\ DOMAIN todo = 1..Len(todo)
  BY EmptySeq, LenProperties
<1>3. DOMAIN Tail(todo) = 1..(Len(todo) - 1)
  BY <1>1, LenProperties
<1>4. Head(todo) = todo[1]
  OBVIOUS
<1>5. QED
  BY <1>1, <1>2, <1>3, <1>4

\* The state of a lock holder that is about to go on with a stop.
StopContext(list, i, table) ==
    /\ Inv
    /\ list \in Seq(Instance) /\ DOMAIN list = DOMAIN services
    /\ i \in DOMAIN services
    /\ table \in [Pid -> Process]
    /\ todo # <<>>
    /\ lock \in Client \/ pc = "shutdown"
    /\ UNCHANGED stopUnchanged

\* The lock holder goes on waiting in the stop it is in.
LEMMA StopFrame ==
    ASSUME Inv, UNCHANGED stopUnchanged, todo' = todo, todo # <<>>,
           lock \in Client \/ pc = "shutdown",
           services' \in Seq(Instance), DOMAIN services' = DOMAIN services,
           proc' \in [Pid -> Process],
           stop' \in [ph : StopPhase, i : Nat, pid : OptPid],
           stop'.i \in DOMAIN services
    PROVE  Inv'
<1>1. TypeOK'
  BY DEF Inv, TypeOK, stopUnchanged, mainVars, evVars
<1>2. LockDiscipline'
  BY DEF Inv, LockDiscipline, stopUnchanged, mainVars
<1>3. QED
  BY <1>1, <1>2 DEF Inv

LEMMA StopDoneInv ==
    ASSUME NEW list, NEW i, NEW table, StopContext(list, i, table),
           \/ StopDone(list, i, table)
           \/ /\ services' = [list EXCEPT ![i].tracked = NoPid] /\ proc' = table
              /\ stop' = NoStop /\ todo' = Tail(todo)
    PROVE  Inv'
<1>1. /\ list \in Seq(Instance) /\ i \in DOMAIN list /\ todo \in Seq(Job)
      /\ todo # <<>> /\ DOMAIN list = DOMAIN services
  BY DEF StopContext, Inv, TypeOK
<1> DEFINE x == list[i]
<1>2. x \in Instance
  BY <1>1, LenProperties
<1> HIDE DEF x
<1>3. /\ [x EXCEPT !.active = FALSE] \in Instance
      /\ [x EXCEPT !.tracked = NoPid] \in Instance
  BY <1>2 DEF Instance, OptPid
<1>4. \/ services' = [list EXCEPT ![i] = [x EXCEPT !.active = FALSE]]
      \/ services' = [list EXCEPT ![i] = [x EXCEPT !.tracked = NoPid]]
  BY DEF StopDone, x
<1>5. services' \in Seq(Instance) /\ DOMAIN services' = DOMAIN services
  <2>1. ASSUME NEW y \in Instance, services' = [list EXCEPT ![i] = y]
        PROVE  services' \in Seq(Instance) /\ DOMAIN services' = DOMAIN services
    BY <1>1, <2>1, SeqExcept
  <2>2. QED
    BY <1>3, <1>4, <2>1
<1>6. proc' = table /\ stop' = NoStop /\ todo' = Tail(todo)
  BY DEF StopDone
<1>7. todo' \in Seq(Job)
  BY <1>1, <1>6, TailJobs
<1>8. pc' = "shutdown" => \A k \in DOMAIN todo' : todo'[k].i \in DOMAIN services'
  BY <1>1, <1>5, <1>6, TailJobs
  DEF StopContext, stopUnchanged, mainVars, Inv, LockDiscipline
<1>9. NoStop \in [ph : StopPhase, i : Nat, pid : OptPid]
  BY DEF NoStop, StopPhase, OptPid
<1>10. QED
  BY <1>5, <1>6, <1>7, <1>8, <1>9
  DEF StopContext, stopUnchanged, mainVars, evVars, Inv, TypeOK, LockDiscipline

LEMMA StopTrackedInv ==
    ASSUME NEW list, NEW i, NEW table, StopContext(list, i, table),
           StopTracked(list, i, table)
    PROVE  Inv'
<1> DEFINE t == list[i].tracked
           x == list[i]
<1>1. CASE t = NoPid /\ StopDone(list, i, table)
  BY <1>1, StopDoneInv
<1>2. CASE /\ services' = [list EXCEPT ![i].tracked = NoPid] /\ proc' = table
           /\ stop' = NoStop /\ todo' = Tail(todo)
  BY <1>2, StopDoneInv
<1>3. CASE /\ services' = [list EXCEPT ![i].tracked = NoPid]
           /\ proc' = Signalled(table, {t}, "term")
           /\ stop' = [ph |-> "tracked", i |-> i, pid |-> t]
           /\ todo' = todo
  <2>1. /\ list \in Seq(Instance) /\ i \in DOMAIN list
        /\ DOMAIN list = DOMAIN services /\ table \in [Pid -> Process]
    BY DEF StopContext
  <2>2. x \in Instance /\ i \in Nat
    BY <2>1, LenProperties
  <2>3. t \in OptPid
    BY <2>2 DEF Instance
  <2>4. [x EXCEPT !.tracked = NoPid] \in Instance
    <3> HIDE DEF x
    <3>1. QED
      BY <2>2 DEF Instance, OptPid
  <2>5. services' \in Seq(Instance) /\ DOMAIN services' = DOMAIN services
    <3>1. services' = [list EXCEPT ![i] = [x EXCEPT !.tracked = NoPid]]
      BY <1>3
    <3> HIDE DEF x
    <3>2. QED
      BY <2>1, <2>4, <3>1, SeqExcept
  <2>6. proc' \in [Pid -> Process]
    BY <1>3, <2>1, SignalledType
  <2>7. stop' \in [ph : StopPhase, i : Nat, pid : OptPid] /\ stop'.i = i
    BY <1>3, <2>2, <2>3 DEF StopPhase
  <2>8. QED
    BY <1>3, <2>1, <2>5, <2>6, <2>7, StopFrame DEF StopContext
<1>4. QED
  BY <1>1, <1>2, <1>3 DEF StopTracked

LEMMA BeginStopInv ==
    ASSUME NEW list, NEW i, StopContext(list, i, proc), BeginStop(list, i)
    PROVE  Inv'
<1> DEFINE x == list[i]
           u == x.name
           c == x.child
           tb == IF Conf[u].killMode # "none" /\ Conf[u].cgroup
                 THEN Signalled(proc, {p \in Pid : proc[p].unit = u}, "kill")
                 ELSE proc
<1>1. /\ list \in Seq(Instance) /\ i \in DOMAIN list
      /\ DOMAIN list = DOMAIN services /\ proc \in [Pid -> Process]
  BY DEF StopContext
<1>2. x \in Instance /\ i \in Nat
  BY <1>1, LenProperties
<1>3. c \in OptPid
  BY <1>2 DEF Instance
<1>4. tb \in [Pid -> Process]
  BY <1>1, SignalledType
<1> HIDE DEF tb
<1>5. CASE c = NoPid
  <2>1. StopTracked(list, i, tb)
    BY <1>5 DEF BeginStop, tb
  <2>2. StopContext(list, i, tb)
    BY <1>4 DEF StopContext
  <2>3. QED
    BY <2>1, <2>2, StopTrackedInv
<1>6. CASE c # NoPid
  <2>1. /\ services' = [list EXCEPT ![i] = [x EXCEPT !.child = NoPid]]
        /\ proc' = IF Conf[u].killMode = "none" THEN tb
                   ELSE Signalled(tb, {c}, "term")
        /\ stop' = [ph |-> "child", i |-> i, pid |-> c]
        /\ todo' = todo
    BY <1>6 DEF BeginStop, tb
  <2> HIDE DEF x
  <2>2. [x EXCEPT !.child = NoPid] \in Instance
    BY <1>2 DEF Instance, OptPid
  <2>3. services' \in Seq(Instance) /\ DOMAIN services' = DOMAIN services
    BY <1>1, <2>1, <2>2, SeqExcept
  <2>4. proc' \in [Pid -> Process]
    BY <1>4, <2>1, SignalledType
  <2>5. stop' \in [ph : StopPhase, i : Nat, pid : OptPid] /\ stop'.i = i
    BY <1>2, <1>3, <2>1 DEF StopPhase
  <2>6. QED
    BY <1>1, <2>1, <2>3, <2>4, <2>5, StopFrame DEF StopContext
<1>7. QED
  BY <1>5, <1>6

LEMMA StopStepInv ==
    ASSUME Inv, StopStep
    PROVE  Inv'
<1> DEFINE tb == IF OurChild(stop.pid) THEN Reaped(stop.pid) ELSE proc
<1>1. tb \in [Pid -> Process]
  BY ReapedType DEF Inv, TypeOK
<1>2. stop # NoStop
  BY DEF StopStep, StopChildGone, StopDaemonGone, StopTimeout, NoStop
<1>3. UNCHANGED stopUnchanged
  BY DEF StopStep, StopChildGone, StopDaemonGone, StopTimeout
<1> HIDE DEF tb
<1>4. StopContext(services, stop.i, tb)
  BY <1>1, <1>2, <1>3 DEF StopContext, Inv, TypeOK, LockDiscipline
<1>5. CASE StopChildGone
  <2>1. StopTracked(services, stop.i, tb)
    BY <1>5 DEF StopChildGone, tb
  <2>2. QED
    BY <1>4, <2>1, StopTrackedInv
<1>6. CASE StopDaemonGone
  <2>1. StopDone(services, stop.i, tb)
    BY <1>6 DEF StopDaemonGone, tb
  <2>2. QED
    BY <1>4, <2>1, StopDoneInv
<1>7. CASE StopTimeout
  <2>1. proc' \in [Pid -> Process]
    BY <1>7, SignalledType DEF StopTimeout, Inv, TypeOK
  <2>2. /\ stop' \in [ph : StopPhase, i : Nat, pid : OptPid]
        /\ stop'.i = stop.i
    BY <1>7 DEF StopTimeout, Inv, TypeOK, StopPhase
  <2>3. /\ stop.i \in DOMAIN services /\ todo # <<>>
        /\ (lock \in Client \/ pc = "shutdown") /\ services \in Seq(Instance)
    BY <1>2 DEF Inv, TypeOK, LockDiscipline
  <2>4. UNCHANGED <<services, todo, stopUnchanged>>
    BY <1>7 DEF StopTimeout
  <2>5. QED
    BY <2>1, <2>2, <2>3, <2>4, StopFrame
<1>8. QED
  BY <1>5, <1>6, <1>7 DEF StopStep

-----------------------------------------------------------------------------
(* The control threads.                                                     *)

LEMMA JobType ==
    ASSUME NEW op \in JobOp, NEW u \in Unit, NEW S \in SUBSET Unit
    PROVE  MkJob(op, u) \in Job /\ SetJob(op, u, S) \in Job
BY DEF MkJob, SetJob, Job

\* One or two jobs put in front of the rest of the list.
LEMMA PrependJobs ==
    ASSUME NEW x \in Job, NEW y \in Job, NEW rest \in Seq(Job)
    PROVE  /\ <<x>> \o rest \in Seq(Job)
           /\ <<x, y>> \o rest \in Seq(Job)
           /\ <<>> \o rest \in Seq(Job)
<1>1. <<x>> \in Seq(Job) /\ <<x, y>> \in Seq(Job) /\ <<>> \in Seq(Job)
  OBVIOUS
<1>2. QED
  BY <1>1, ConcatProperties

LEMMA JobsType ==
    ASSUME NEW r \in Request \cup {NoRequest}
    PROVE  Jobs(r) \in Seq(Job)
<1>1. CASE r = NoRequest
  BY <1>1, EmptySeq DEF Jobs, NoRequest
<1>2. CASE r \in Request
  <2>1. r.u \in Unit /\ r.op \in RequestOp
    BY <1>2
  <2>2. /\ MkJob("start", r.u) \in Job /\ MkJob("stop1", r.u) \in Job
        /\ MkJob("linked", r.u) \in Job /\ MkJob("reset", r.u) \in Job
        /\ MkJob("resetall", r.u) \in Job /\ MkJob("isolate", r.u) \in Job
    BY <2>1, JobType DEF JobOp
  <2> DEFINE st == <<MkJob("stop1", r.u), MkJob("linked", r.u)>>
             sa == <<MkJob("start", r.u)>>
  <2>3. /\ st \in Seq(Job) /\ sa \in Seq(Job) /\ <<>> \in Seq(Job)
        /\ <<MkJob("reset", r.u)>> \in Seq(Job)
        /\ <<MkJob("resetall", r.u)>> \in Seq(Job)
        /\ <<MkJob("isolate", r.u)>> \in Seq(Job)
    BY <2>2
  <2> DEFINE tl == IF Named(r.u) = {} THEN <<>> ELSE sa
  <2>4. tl \in Seq(Job)
    BY <2>3
  <2> HIDE DEF st, tl
  <2>5. st \o tl \in Seq(Job)
    BY <2>3, <2>4, ConcatProperties
  <2>6. CASE r.op = "restart"
    <3>1. Jobs(r) = st \o tl
      BY <2>6 DEF Jobs, st, tl
    <3>2. QED
      BY <2>5, <3>1
  <2>7. CASE r.op \in {"reset", "resetall", "isolate"}
    <3>1. Jobs(r) = <<MkJob(r.op, r.u)>>
      BY <2>7 DEF Jobs
    <3>2. QED
      BY <2>3, <2>7, <3>1
  <2>8. CASE r.op = "start"
    <3>1. Jobs(r) = sa
      BY <2>8 DEF Jobs
    <3>2. QED
      BY <2>3, <3>1
  <2>9. CASE r.op = "stop"
    <3>1. Jobs(r) = st
      BY <2>9 DEF Jobs, st
    <3>2. QED
      BY <2>3, <3>1
  <2>10. CASE r.op = "status"
    <3>1. Jobs(r) = <<>>
      BY <2>10 DEF Jobs
    <3>2. QED
      BY <2>3, <3>1
  <2>11. QED
    BY <2>1, <2>6, <2>7, <2>8, <2>9, <2>10 DEF RequestOp
<1>3. QED
  BY <1>1, <1>2

\* A step of a control thread that only changes the job list.
LEMMA JobListInv ==
    ASSUME Inv, lock \in Client, stop = NoStop, UNCHANGED stopUnchanged,
           UNCHANGED <<services, proc, stop>>, todo' \in Seq(Job)
    PROVE  Inv'
BY DEF Inv, TypeOK, LockDiscipline, stopUnchanged, mainVars, evVars

\* ... or the instance list and the process table, and takes the head off.
LEMMA JobEffectInv ==
    ASSUME Inv, lock \in Client, stop = NoStop, todo # <<>>,
           UNCHANGED stopUnchanged, stop' = stop, todo' = Tail(todo),
           services' \in Seq(Instance), proc' \in [Pid -> Process]
    PROVE  Inv'
<1>1. todo' \in Seq(Job)
  BY TailJobs DEF Inv, TypeOK
<1>2. QED
  BY <1>1 DEF Inv, TypeOK, LockDiscipline, stopUnchanged, mainVars, evVars

LEMMA ClientStepInv ==
    ASSUME Inv, NEW c \in Client, ClientStep(c)
    PROVE  Inv'
<1> DEFINE j == Head(todo)
<1>1. /\ lock \in Client /\ lock = c /\ stop = NoStop /\ todo # <<>>
      /\ UNCHANGED stopUnchanged
  BY DEF ClientStep
<1>2. /\ services \in Seq(Instance) /\ proc \in [Pid -> Process]
      /\ todo \in Seq(Job)
      /\ \A i \in DOMAIN services : services[i] \in Instance
                                    /\ services[i].name \in Unit
  <2>1. /\ services \in Seq(Instance) /\ proc \in [Pid -> Process]
        /\ todo \in Seq(Job)
    BY DEF Inv, TypeOK
  <2>2. \A i \in DOMAIN services : services[i] \in Instance
    BY <2>1
  <2>3. QED
    BY <2>1, <2>2 DEF Instance
<1>3. Tail(todo) \in Seq(Job) /\ j.u \in Unit /\ j.set \in SUBSET Unit
  BY <1>1, <1>2, TailJobs DEF Job
<1> DEFINE u == j.u
           rest == Tail(todo)
<1> HIDE DEF j
<1>4. CASE JobStop1(u)
  <2>1. CASE Find(u) = {} /\ todo' = Tail(todo) /\ UNCHANGED <<services, proc, stop>>
    BY <1>1, <1>3, <2>1, JobListInv
  <2>2. ASSUME NEW i \in Find(u),
               LET list == [services EXCEPT ![i].stopped = TRUE]
               IN  IF UpOrActive(services[i]) THEN BeginStop(list, i)
                   ELSE /\ services' = list /\ todo' = Tail(todo)
                        /\ UNCHANGED <<proc, stop>>
        PROVE  Inv'
    <3> DEFINE list == [services EXCEPT ![i].stopped = TRUE]
               x    == services[i]
    <3>1. i \in DOMAIN services /\ x \in Instance
      BY <1>2 DEF Find, Named
    <3>2. [x EXCEPT !.stopped = TRUE] \in Instance
      <4> HIDE DEF x
      <4>1. QED
        BY <3>1 DEF Instance
    <3>3. list = [services EXCEPT ![i] = [x EXCEPT !.stopped = TRUE]]
      OBVIOUS
    <3> HIDE DEF x, list
    <3>4. list \in Seq(Instance) /\ DOMAIN list = DOMAIN services
      BY <1>2, <3>2, <3>3, SeqExcept
    <3>5. CASE BeginStop(list, i)
      <4>1. StopContext(list, i, proc)
        BY <1>1, <1>2, <3>1, <3>4 DEF StopContext
      <4>2. QED
        BY <3>5, <4>1, BeginStopInv
    <3>6. CASE services' = list /\ todo' = Tail(todo) /\ UNCHANGED <<proc, stop>>
      BY <1>1, <1>2, <3>4, <3>6, JobEffectInv
    <3>7. QED
      BY <2>2, <3>5, <3>6 DEF list
  <2>3. QED
    BY <1>4, <2>1, <2>2 DEF JobStop1
<1>5. CASE JobLinked(u)
  <2> DEFINE S == {services[i].name : i \in
                      {k \in DOMAIN services :
                         /\ services[k].name # u
                         /\ u \in Conf[services[k].name].partOf
                         /\ UpOrActive(services[k])}}
  <2>1. S \in SUBSET Unit
    BY <1>2
  <2>2. todo' = <<SetJob("stopset", u, S)>> \o rest /\ UNCHANGED <<services, proc, stop>>
    BY <1>5 DEF JobLinked
  <2> HIDE DEF S
  <2>3. todo' \in Seq(Job)
    BY <1>3, <2>1, <2>2, JobType, PrependJobs DEF JobOp
  <2>4. QED
    BY <1>1, <2>2, <2>3, JobListInv
<1>6. CASE JobStopSet(u, j.set)
  <2>1. UNCHANGED <<services, proc, stop>>
    BY <1>6 DEF JobStopSet
  <2>2. todo' = Tail(todo) \/ \E v \in Unit :
           todo' = <<MkJob("stop1", v), SetJob("stopset", u, j.set \ {v})>> \o rest
    BY <1>2, <1>3, <1>6 DEF JobStopSet
  <2>3. \A v \in Unit :
           <<MkJob("stop1", v), SetJob("stopset", u, j.set \ {v})>> \o rest \in Seq(Job)
    <3>1. \A v \in Unit : /\ MkJob("stop1", v) \in Job
                          /\ SetJob("stopset", u, j.set \ {v}) \in Job
      BY <1>3, JobType DEF JobOp
    <3>2. QED
      BY <1>3, <3>1, PrependJobs
  <2>4. QED
    BY <1>1, <1>3, <2>1, <2>2, <2>3, JobListInv
<1>7. CASE JobRestartExisting(u)
  <2>1. PICK i \in Find(u) :
          /\ todo' = Tail(todo) /\ stop' = stop
          /\ IF Up(services[i]) THEN UNCHANGED <<services, proc>>
             ELSE \E p \in SpawnResults(proc, u) :
                /\ services' = [services EXCEPT ![i] =
                     Respawned([ForgetFailures(@) EXCEPT !.stopped = FALSE], p)]
                /\ proc' = Spawned(proc, u, p)
    BY <1>7 DEF JobRestartExisting
  <2>2. CASE UNCHANGED <<services, proc>>
    BY <1>1, <1>3, <2>1, <2>2, JobListInv
  <2>3. ASSUME NEW p \in SpawnResults(proc, u),
               services' = [services EXCEPT ![i] =
                     Respawned([ForgetFailures(@) EXCEPT !.stopped = FALSE], p)],
               proc' = Spawned(proc, u, p)
        PROVE  Inv'
    <3> DEFINE x == ForgetFailures(services[i])
               y == [x EXCEPT !.stopped = FALSE]
    <3>1. i \in DOMAIN services /\ services[i] \in Instance
      BY <1>2 DEF Find, Named
    <3>2. x \in Instance
      BY <3>1, ForgetFailuresType
    <3>3. services' = [services EXCEPT ![i] = Respawned(y, p)]
      BY <2>3
    <3> HIDE DEF x
    <3>4. y \in Instance
      BY <3>2 DEF Instance
    <3> HIDE DEF y
    <3>5. p \in OptPid /\ proc' \in [Pid -> Process]
      BY <1>2, <1>3, <2>3, SpawnedType
    <3>6. Respawned(y, p) \in Instance
      BY <3>4, <3>5, RespawnedType
    <3>7. services' \in Seq(Instance)
      BY <1>2, <3>3, <3>6, SeqExcept
    <3>8. QED
      BY <1>1, <2>1, <3>5, <3>7, JobEffectInv
  <2>4. QED
    BY <2>1, <2>2, <2>3
<1>8. CASE JobStartNew(u)
  <2>1. UNCHANGED <<services, proc, stop>>
    BY <1>8 DEF JobStartNew
  <2>2. todo' = Tail(todo) \/
        todo' = <<SetJob("conflicts", u, Conflicting(u)), MkJob("spawn", u)>> \o rest
    BY <1>8 DEF JobStartNew
  <2>3. Conflicting(u) \in SUBSET Unit
    BY <1>3 DEF Conflicting, UnitConf
  <2>4. <<SetJob("conflicts", u, Conflicting(u)), MkJob("spawn", u)>> \o rest \in Seq(Job)
    BY <1>3, <2>3, JobType, PrependJobs DEF JobOp
  <2>5. QED
    BY <1>1, <1>3, <2>1, <2>2, <2>4, JobListInv
<1>9. CASE JobConflicts(u, j.set)
  <2>1. UNCHANGED <<services, proc, stop>>
    BY <1>9 DEF JobConflicts
  <2>2. CASE todo' = Tail(todo)
    BY <1>1, <1>3, <2>1, <2>2, JobListInv
  <2>3. ASSUME NEW v \in j.set,
               todo' = (IF \E i \in Named(v) : Up(services[i])
                        THEN <<MkJob("stop1", v), MkJob("linked", v)>> ELSE <<>>)
                       \o <<SetJob("conflicts", u, j.set \ {v})>> \o rest
        PROVE  Inv'
    <3> DEFINE hd == IF \E i \in Named(v) : Up(services[i])
                     THEN <<MkJob("stop1", v), MkJob("linked", v)>> ELSE <<>>
               md == <<SetJob("conflicts", u, j.set \ {v})>>
    <3>1. /\ MkJob("stop1", v) \in Job /\ MkJob("linked", v) \in Job
          /\ SetJob("conflicts", u, j.set \ {v}) \in Job
      BY <1>3, JobType DEF JobOp
    <3>2. hd \in Seq(Job) /\ md \in Seq(Job)
      BY <3>1
    <3>3. todo' = hd \o md \o rest
      BY <2>3
    <3> HIDE DEF hd, md
    <3>4. todo' \in Seq(Job)
      BY <1>3, <3>2, <3>3, ConcatProperties
    <3>5. QED
      BY <1>1, <2>1, <3>4, JobListInv
  <2>4. QED
    BY <1>9, <2>2, <2>3 DEF JobConflicts
<1>10. CASE JobSpawn(u)
  <2>1. PICK p \in SpawnResults(proc, u) :
          /\ services' = IF p = NoPid THEN services
                         ELSE Append(services, Started(u, p))
          /\ proc' = Spawned(proc, u, p)
          /\ todo' = Tail(todo) /\ stop' = stop
    BY <1>10 DEF JobSpawn
  <2>2. p \in OptPid /\ proc' \in [Pid -> Process]
    BY <1>2, <1>3, <2>1, SpawnedType
  <2>3. services' \in Seq(Instance)
    BY <1>2, <1>3, <2>1, <2>2, StartedType, AppendInstance
  <2>4. QED
    BY <1>1, <2>1, <2>2, <2>3, JobEffectInv
<1>11. CASE JobIsolate(u)
  <2> DEFINE S == Outside(u)
  <2>1. S \in SUBSET Unit
    BY <1>2 DEF Outside
  <2>2. /\ UNCHANGED <<services, proc, stop>>
        /\ \/ todo' = Tail(todo)
           \/ todo' = <<SetJob("stopset", u, S), MkJob("isostart", u)>> \o rest
    BY <1>11 DEF JobIsolate
  <2> HIDE DEF S
  <2>3. <<SetJob("stopset", u, S), MkJob("isostart", u)>> \o rest \in Seq(Job)
    BY <1>3, <2>1, JobType, PrependJobs DEF JobOp
  <2>4. QED
    BY <1>1, <1>3, <2>2, <2>3, JobListInv
<1>12. CASE JobIsoStart(u)
  <2> DEFINE S == {n \in Closure(u) : /\ ~Conf[n].target /\ Conf[n].exec
                                      /\ \A i \in Named(n) :
                                           ~UpOrActive(services[i])}
  <2>1. S \in SUBSET Unit
    BY DEF Closure
  <2>2. todo' = <<SetJob("startset", u, S)>> \o rest /\ UNCHANGED <<services, proc, stop>>
    BY <1>12 DEF JobIsoStart
  <2> HIDE DEF S
  <2>3. todo' \in Seq(Job)
    BY <1>3, <2>1, <2>2, JobType, PrependJobs DEF JobOp
  <2>4. QED
    BY <1>1, <2>2, <2>3, JobListInv
<1>13. CASE JobStartSet(u, j.set)
  <2>1. UNCHANGED <<services, proc, stop>>
    BY <1>13 DEF JobStartSet
  <2>2. todo' = Tail(todo) \/ \E v \in Unit :
           todo' = <<MkJob("start", v), SetJob("startset", u, j.set \ {v})>> \o rest
    BY <1>3, <1>13 DEF JobStartSet
  <2>3. \A v \in Unit :
           <<MkJob("start", v), SetJob("startset", u, j.set \ {v})>> \o rest \in Seq(Job)
    <3>1. \A v \in Unit : /\ MkJob("start", v) \in Job
                          /\ SetJob("startset", u, j.set \ {v}) \in Job
      BY <1>3, JobType DEF JobOp
    <3>2. QED
      BY <1>3, <3>1, PrependJobs
  <2>4. QED
    BY <1>1, <1>3, <2>1, <2>2, <2>3, JobListInv
<1>14. ASSUME NEW S, JobReset(S) PROVE Inv'
  <2>1. \A i \in DOMAIN services : services'[i] \in Instance
    BY <1>2, <1>14, ForgetFailuresType DEF JobReset
  <2>2. services' \in Seq(Instance)
    BY <1>2, <1>14, <2>1, SeqByValues DEF JobReset
  <2>3. QED
    BY <1>1, <1>2, <1>14, <2>2, JobEffectInv DEF JobReset
<1>15. QED
  BY <1>4, <1>5, <1>6, <1>7, <1>8, <1>9, <1>10, <1>11, <1>12, <1>13, <1>14
  DEF ClientStep, j

LEMMA ControlInv ==
    ASSUME Inv, NEW c \in Client, ClientLock(c) \/ ClientStep(c) \/ ClientDone(c)
    PROVE  Inv'
<1>1. CASE ClientLock(c)
  <2>1. client[c].req \in Request \cup {NoRequest}
    BY DEF Inv, TypeOK
  <2>2. todo' \in Seq(Job)
    BY <1>1, <2>1, JobsType DEF ClientLock
  <2>3. /\ stop = NoStop /\ pc # "shutdown"
    BY <1>1 DEF ClientLock, Inv, LockDiscipline, ManagerAssumption
  <2>4. client' \in [Client -> [st : {"idle", "conn", "wait", "run"},
                                req : Request \cup {NoRequest}]]
    BY <1>1 DEF ClientLock, Inv, TypeOK
  <2>5. QED
    BY <1>1, <2>2, <2>3, <2>4
    DEF ClientLock, Inv, TypeOK, LockDiscipline, mainVars, osVars, evVars
<1>2. CASE ClientStep(c)
  BY <1>2, ClientStepInv
<1>3. CASE ClientDone(c)
  <2>1. client' \in [Client -> [st : {"idle", "conn", "wait", "run"},
                                req : Request \cup {NoRequest}]]
    BY <1>3 DEF ClientDone, Inv, TypeOK, IdleClient
  <2>2. QED
    BY <1>3, <2>1
    DEF ClientDone, Inv, TypeOK, LockDiscipline, mainVars, osVars, evVars, jobVars
<1>4. QED
  BY <1>1, <1>2, <1>3

-----------------------------------------------------------------------------
(* do_shutdown.                                                             *)

LEMMA ShutdownInv ==
    ASSUME Inv, Shutdown
    PROVE  Inv'
<1>1. CASE MainShutdown
  <2> DEFINE n == Len(services)
  <2>1. services \in Seq(Instance) /\ DOMAIN services = 1..n /\ n \in Nat
    BY LenProperties DEF Inv, TypeOK
  <2>2. \A k \in 1..n : /\ n + 1 - k \in 1..n /\ n + 1 - k \in Nat
    BY <2>1
  <2>3. \A k \in 1..n : services[n + 1 - k] \in Instance
    BY <2>1, <2>2
  <2>4. \A k \in 1..n : services[n + 1 - k].name \in Unit
    BY <2>3 DEF Instance
  <2> HIDE DEF n
  <2> DEFINE job(k) == [op |-> "kill", u |-> services[n + 1 - k].name,
                        set |-> {}, i |-> n + 1 - k]
  <2>5. \A k \in 1..n : job(k) \in Job /\ job(k).i \in DOMAIN services
    BY <2>1, <2>2, <2>4 DEF Job, JobOp
  <2>6. todo' = [k \in 1..n |-> job(k)]
    BY <1>1, <2>1 DEF MainShutdown, n
  <2> HIDE DEF job
  <2>7. todo' \in Seq(Job) /\ \A k \in DOMAIN todo' : todo'[k].i \in DOMAIN services
    BY <2>1, <2>5, <2>6
  <2>8. QED
    BY <1>1, <2>7
    DEF MainShutdown, Inv, TypeOK, LockDiscipline, evVars, osVars, Timer
<1>2. CASE ShutdownStop
  <2>1. /\ pc = "shutdown" /\ stop = NoStop /\ todo # <<>>
        /\ BeginStop(services, Head(todo).i) /\ UNCHANGED stopUnchanged
    BY <1>2 DEF ShutdownStop
  <2>2. services \in Seq(Instance) /\ proc \in [Pid -> Process] /\ todo \in Seq(Job)
    BY DEF Inv, TypeOK
  <2>3. Head(todo) = todo[1] /\ 1 \in DOMAIN todo
    BY <2>1, <2>2, TailJobs
  <2>4. Head(todo).i \in DOMAIN services
    BY <2>1, <2>3 DEF Inv, LockDiscipline
  <2>5. StopContext(services, Head(todo).i, proc)
    BY <2>1, <2>2, <2>4 DEF StopContext
  <2>6. QED
    BY <2>1, <2>5, BeginStopInv
<1>3. CASE ShutdownKillAll
  <2>1. proc' \in [Pid -> Process]
    BY <1>3, SignalledType DEF ShutdownKillAll, Inv, TypeOK
  <2>2. todo' \in Seq(Job)
    BY <1>3, EmptySeq DEF ShutdownKillAll
  <2>3. QED
    BY <1>3, <2>1, <2>2
    DEF ShutdownKillAll, Inv, TypeOK, LockDiscipline, evVars
<1>4. ASSUME NEW p \in Pid, DrainReap(p) PROVE Inv'
  <2>1. proc' \in [Pid -> Process]
    BY <1>4, ReapedType DEF DrainReap, Inv, TypeOK
  <2>2. QED
    BY <1>4, <2>1
    DEF DrainReap, Inv, TypeOK, LockDiscipline, stopUnchanged, mainVars, evVars
<1>5. CASE DrainDeadline
  <2>1. proc' \in [Pid -> Process]
    BY <1>5, SignalledType DEF DrainDeadline, Inv, TypeOK
  <2>2. QED
    BY <1>5, <2>1
    DEF DrainDeadline, Inv, TypeOK, LockDiscipline, evVars, jobVars
<1>6. CASE PowerOff
  BY <1>6 DEF PowerOff, Inv, TypeOK, LockDiscipline, evVars, jobVars, osVars
<1>7. QED
  BY <1>1, <1>2, <1>3, <1>4, <1>5, <1>6 DEF Shutdown

LEMMA StepInv == Inv /\ [Next]_vars => Inv'
<1>1. ASSUME Inv, Next PROVE Inv'
  BY <1>1, MainLoopInv, ShutdownInv, ControlInv, StopStepInv, EnvironmentInv
  DEF Next, Control
<1>2. ASSUME Inv, UNCHANGED vars PROVE Inv'
  BY <1>2 DEF vars, Inv, TypeOK, LockDiscipline, mainVars, osVars, evVars, jobVars
<1>3. QED
  BY <1>1, <1>2

LEMMA InvHolds == Spec => []Inv
BY InitInv, StepInv, PTL DEF Spec

\* Every variable of init keeps its type, whatever units are loaded, however
\* many processes and control connections there are.
THEOREM TypeCorrect == Spec => []TypeOK
<1>1. Inv => TypeOK
  BY DEF Inv
<1>2. QED
  BY <1>1, InvHolds, PTL

\* The services mutex protects every locked region of the main loop, and a
\* stop in progress (stop_service_instance) works on an instance that exists
\* and belongs to the holder of the mutex.
THEOREM LockDisciplined == Spec => []LockDiscipline
<1>1. Inv => LockDiscipline
  BY DEF Inv
<1>2. QED
  BY <1>1, InvHolds, PTL

-----------------------------------------------------------------------------
(* No wakeup is lost between signal_handler and poll.                       *)

(***************************************************************************)
(* NoLostWakeup speaks of poll only.  It is inductive together with the    *)
(* window before it: once reap_orphans has found no exited child, a child  *)
(* that exits leaves a byte in the self-pipe.                              *)
(***************************************************************************)
NothingMissed ==
    pc \in {"flag", "poll"} /\ ~pipe => \A p \in Pid : ~Reapable(p)

ShutdownSeen == pc = "poll" /\ ~pipe => ~shutdown

WakeInv == NothingMissed /\ ShutdownSeen

\* A step that does not touch pc, pipe and the flag keeps WakeInv unless it
\* makes a child of init exit.
NoNewExit == \A p \in Pid : Reapable(p)' => Reapable(p)

LEMMA QuietStep ==
    ASSUME WakeInv, NoNewExit, pc' = pc, pipe' = pipe, shutdown' = shutdown
    PROVE  WakeInv'
BY DEF WakeInv, NothingMissed, ShutdownSeen, NoNewExit

\* A step that takes the main loop to a place where it does not sleep.
LEMMA AwakeStep ==
    ASSUME pc' \notin {"flag", "poll"}
    PROVE  WakeInv'
BY DEF WakeInv, NothingMissed, ShutdownSeen

\* A step that leaves a byte in the self-pipe.
LEMMA WakingStep ==
    ASSUME pipe' = TRUE
    PROVE  WakeInv'
BY DEF WakeInv, NothingMissed, ShutdownSeen

-----------------------------------------------------------------------------
(* What kill, waitpid and fork do to the process table makes no child exit.  *)

\* q has exited in table and PID 1 is its parent.
ExitedIn(table, q) == table[q].st = "zombie" /\ table[q].ppid = NoPid

\* No exited child in new that was not one in old.
Calm(old, new) == \A q \in Pid : ExitedIn(new, q) => ExitedIn(old, q)

LEMMA SignalledCalm ==
    ASSUME NEW table \in [Pid -> Process], NEW S, NEW sig
    PROVE  Calm(table, Signalled(table, S, sig))
<1> SUFFICES ASSUME NEW q \in Pid
             PROVE  /\ Signalled(table, S, sig)[q].st = table[q].st
                    /\ Signalled(table, S, sig)[q].ppid = table[q].ppid
  BY DEF Calm, ExitedIn
<1>1. table[q] \in Process
  OBVIOUS
<1>2. /\ [table[q] EXCEPT !.sig = sig].st = table[q].st
      /\ [table[q] EXCEPT !.sig = sig].ppid = table[q].ppid
  BY <1>1 DEF Process
<1>3. QED
  BY <1>2 DEF Signalled

LEMMA ReapedCalm ==
    ASSUME proc \in [Pid -> Process], NEW p
    PROVE  Calm(proc, Reaped(p))
<1> SUFFICES ASSUME NEW q \in Pid, ExitedIn(Reaped(p), q)
             PROVE  ExitedIn(proc, q)
  BY DEF Calm
<1>1. CASE q = p
  BY <1>1 DEF ExitedIn, Reaped, FreeProc
<1>2. CASE q # p
  BY <1>2 DEF ExitedIn, Reaped
<1>3. QED
  BY <1>1, <1>2

LEMMA SpawnedCalm ==
    ASSUME NEW table \in [Pid -> Process], NEW u, NEW p
    PROVE  Calm(table, Spawned(table, u, p))
<1> SUFFICES ASSUME NEW q \in Pid, ExitedIn(Spawned(table, u, p), q)
             PROVE  ExitedIn(table, q)
  BY DEF Calm
<1>1. CASE p = NoPid
  BY <1>1 DEF Spawned
<1>2. CASE p # NoPid /\ q = p
  BY <1>2 DEF Spawned, ExitedIn, NewProc
<1>3. CASE p # NoPid /\ q # p
  BY <1>3 DEF Spawned, ExitedIn
<1>4. QED
  BY <1>1, <1>2, <1>3

LEMMA CalmStep ==
    ASSUME Calm(proc, proc')
    PROVE  NoNewExit
BY DEF Calm, ExitedIn, NoNewExit, Reapable

LEMMA CalmChain ==
    ASSUME NEW t1, NEW t2, NEW t3, Calm(t1, t2), Calm(t2, t3)
    PROVE  Calm(t1, t3)
BY DEF Calm

-----------------------------------------------------------------------------
(* stop_service_instance.                                                    *)

LEMMA StopTrackedCalm ==
    ASSUME NEW list, NEW i, NEW table \in [Pid -> Process], Calm(proc, table),
           StopTracked(list, i, table)
    PROVE  Calm(proc, proc')
<1>1. proc' = table \/ proc' = Signalled(table, {list[i].tracked}, "term")
  BY DEF StopTracked, StopDone
<1>2. Calm(table, Signalled(table, {list[i].tracked}, "term"))
  BY SignalledCalm
<1>3. QED
  BY <1>1, <1>2, CalmChain

LEMMA BeginStopCalm ==
    ASSUME NEW list, NEW i, proc \in [Pid -> Process], BeginStop(list, i)
    PROVE  Calm(proc, proc')
<1> DEFINE u == list[i].name
           c == list[i].child
           tb == IF Conf[u].killMode # "none" /\ Conf[u].cgroup
                 THEN Signalled(proc, {p \in Pid : proc[p].unit = u}, "kill")
                 ELSE proc
<1>1. tb \in [Pid -> Process]
  BY SignalledType
<1>2. Calm(proc, proc)
  BY DEF Calm
<1>3. Calm(proc, tb)
  BY <1>2, SignalledCalm
<1>4. \/ c = NoPid /\ StopTracked(list, i, tb)
      \/ proc' = tb
      \/ proc' = Signalled(tb, {c}, "term")
  BY DEF BeginStop
<1> HIDE DEF tb
<1>5. Calm(tb, Signalled(tb, {c}, "term"))
  BY <1>1, SignalledCalm
<1>6. CASE StopTracked(list, i, tb)
  BY <1>1, <1>3, <1>6, StopTrackedCalm
<1>7. QED
  BY <1>3, <1>4, <1>5, <1>6, CalmChain

LEMMA StopStepWake ==
    ASSUME Inv, WakeInv, StopStep
    PROVE  WakeInv'
<1>1. proc \in [Pid -> Process]
  BY DEF Inv, TypeOK
<1>2. /\ pc' = pc /\ pipe' = pipe /\ shutdown' = shutdown
  BY DEF StopStep, StopChildGone, StopDaemonGone, StopTimeout, stopUnchanged, mainVars
<1> DEFINE tb == IF OurChild(stop.pid) THEN Reaped(stop.pid) ELSE proc
<1>3. tb \in [Pid -> Process] /\ Calm(proc, proc)
  BY <1>1, ReapedType DEF Calm
<1>4. Calm(proc, tb)
  BY <1>1, <1>3, ReapedCalm
<1>5. \/ StopTracked(services, stop.i, tb)
      \/ proc' = tb
      \/ proc' = proc
      \/ proc' = Signalled(proc, {stop.pid}, "kill")
  BY DEF StopStep, StopChildGone, StopDaemonGone, StopTimeout, StopDone
<1> HIDE DEF tb
<1>6. CASE StopTracked(services, stop.i, tb)
  BY <1>2, <1>3, <1>4, <1>6, StopTrackedCalm, CalmStep, QuietStep
<1>7. CASE proc' = tb \/ proc' = proc
  BY <1>2, <1>3, <1>4, <1>7, CalmStep, QuietStep
<1>8. CASE proc' = Signalled(proc, {stop.pid}, "kill")
  BY <1>1, <1>2, <1>8, SignalledCalm, CalmStep, QuietStep
<1>9. QED
  BY <1>5, <1>6, <1>7, <1>8

-----------------------------------------------------------------------------
LEMMA ClientWake ==
    ASSUME Inv, WakeInv, NEW c \in Client,
           ClientLock(c) \/ ClientStep(c) \/ ClientDone(c)
    PROVE  WakeInv'
<1>1. proc \in [Pid -> Process] /\ Calm(proc, proc)
  BY DEF Inv, TypeOK, Calm
<1>2. /\ pc' = pc /\ pipe' = pipe /\ shutdown' = shutdown
  BY DEF ClientLock, ClientStep, ClientDone, stopUnchanged, mainVars
<1>3. \/ proc' = proc
      \/ \E list, i : BeginStop(list, i)
      \/ \E u, p : proc' = Spawned(proc, u, p)
  <2>1. CASE ClientLock(c) \/ ClientDone(c)
    BY <2>1 DEF ClientLock, ClientDone, osVars
  <2>2. CASE ClientStep(c)
    <3> DEFINE j == Head(todo)
    <3>1. \/ JobStop1(j.u) \/ JobLinked(j.u) \/ JobStopSet(j.u, j.set)
          \/ JobRestartExisting(j.u) \/ JobStartNew(j.u)
          \/ JobConflicts(j.u, j.set) \/ JobSpawn(j.u) \/ JobIsolate(j.u)
          \/ JobIsoStart(j.u) \/ JobStartSet(j.u, j.set)
          \/ \E S : JobReset(S)
      BY <2>2 DEF ClientStep
    <3> HIDE DEF j
    <3>2. CASE JobStop1(j.u)
      BY <3>2 DEF JobStop1
    <3>3. CASE \/ JobLinked(j.u) \/ JobStopSet(j.u, j.set) \/ JobStartNew(j.u)
               \/ JobConflicts(j.u, j.set) \/ JobIsolate(j.u)
               \/ JobIsoStart(j.u) \/ JobStartSet(j.u, j.set)
               \/ \E S : JobReset(S)
      BY <3>3 DEF JobLinked, JobStopSet, JobStartNew, JobConflicts, JobIsolate,
                  JobIsoStart, JobStartSet, JobReset
    <3>4. CASE JobRestartExisting(j.u) \/ JobSpawn(j.u)
      BY <3>4 DEF JobRestartExisting, JobSpawn
    <3>5. QED
      BY <3>1, <3>2, <3>3, <3>4
  <2>3. QED
    BY <2>1, <2>2
<1>4. Calm(proc, proc')
  BY <1>1, <1>3, BeginStopCalm, SpawnedCalm
<1>5. QED
  BY <1>2, <1>4, CalmStep, QuietStep

\* The environment: an exit that init is to collect writes the pipe.
LEMMA ExitWake ==
    ASSUME Inv, WakeInv, NEW p \in Pid, NEW code, Exit(p, code)
    PROVE  WakeInv'
<1>1. proc \in [Pid -> Process] /\ pipe \in BOOLEAN
  BY DEF Inv, TypeOK
<1>2. pc' = pc /\ shutdown' = shutdown
  BY DEF Exit, mainVars
<1> DEFINE heard == \/ proc[p].ppid = NoPid
                    \/ \E q \in Pid : proc[q].ppid = p /\ proc[q].st = "zombie"
<1>3. pipe' = (pipe \/ heard)
  BY DEF Exit
<1>4. CASE heard
  BY <1>3, <1>4, WakingStep
<1>5. CASE ~heard
  <2>1. pipe' = pipe
    BY <1>1, <1>3, <1>5
  <2>2. ASSUME NEW q \in Pid, Reapable(q)' PROVE Reapable(q)
    <3>1. proc[q] \in Process /\ proc[p] \in Process
      BY <1>1
    <3>2. CASE q = p
      <4> DEFINE x == proc[p]
      <4>a. proc'[q] = [x EXCEPT !.st = "zombie", !.code = code, !.sig = "none"]
        BY <3>2 DEF Exit
      <4>b. x \in Process
        BY <3>1
      <4> HIDE DEF x
      <4>1. proc'[q].ppid = x.ppid
        BY <4>a, <4>b DEF Process
      <4> USE DEF x
      <4>2. QED
        BY <1>5, <2>2, <3>2, <4>1 DEF Reapable
    <3>3. CASE q # p /\ proc[q].ppid = p
      <4>1. proc'[q].st = proc[q].st
        BY <3>1, <3>3 DEF Exit, Process
      <4>2. QED
        BY <1>5, <2>2, <3>3, <4>1 DEF Reapable
    <3>4. CASE q # p /\ proc[q].ppid # p
      <4>1. proc'[q] = proc[q]
        BY <3>4 DEF Exit
      <4>2. QED
        BY <2>2, <4>1 DEF Reapable
    <3>5. QED
      BY <3>2, <3>3, <3>4
  <2>3. QED
    BY <1>2, <2>1, <2>2, QuietStep DEF NoNewExit
<1>6. QED
  BY <1>4, <1>5

LEMMA EnvironmentWake ==
    ASSUME Inv, WakeInv, Environment \/ Time
    PROVE  WakeInv'
<1>1. proc \in [Pid -> Process]
  BY DEF Inv, TypeOK
<1>2. ASSUME NEW p \in Pid, Daemonize(p) PROVE WakeInv'
  <2>1. PICK d \in FreePids(proc) :
           proc' = [proc EXCEPT ![d] = NewProc(proc[p].unit, p, TRUE)]
    BY <1>2 DEF Daemonize
  <2>2. ASSUME NEW q \in Pid, Reapable(q)' PROVE Reapable(q)
    <3>1. q # d
      BY <1>1, <2>1, <2>2 DEF Reapable, NewProc
    <3>2. QED
      BY <1>1, <2>1, <2>2, <3>1 DEF Reapable
  <2>3. QED
    BY <1>2, <2>2, QuietStep DEF NoNewExit, Daemonize, mainVars
<1>3. ASSUME NEW p \in Pid, NEW m, Notify(p, m) PROVE WakeInv'
  BY <1>3, QuietStep DEF Notify, NoNewExit, Reapable, mainVars, osVars
<1>4. ASSUME NEW u, SockConnect(u) \/ SockServed(u) PROVE WakeInv'
  BY <1>4, QuietStep DEF SockConnect, SockServed, NoNewExit, Reapable, mainVars, osVars
<1>5. ASSUME NEW c, NEW r, Connect(c, r) PROVE WakeInv'
  BY <1>5, QuietStep DEF Connect, NoNewExit, Reapable, mainVars, osVars
<1>6. CASE SignalShutdown \/ HookExits
  BY <1>6, WakingStep DEF SignalShutdown, HookExits
<1>7. ASSUME NEW i, NEW f, TimerDue(i, f) PROVE WakeInv'
  BY <1>7, QuietStep DEF TimerDue, NoNewExit, Reapable, mainVars, osVars
<1>8. ASSUME NEW i, WindowEnds(i) PROVE WakeInv'
  BY <1>8, QuietStep DEF WindowEnds, NoNewExit, Reapable, mainVars, osVars
<1>9. CASE DeadlineDue
  BY <1>9, QuietStep DEF DeadlineDue, NoNewExit, Reapable, mainVars, osVars
<1>10. QED
  BY <1>2, <1>3, <1>4, <1>5, <1>6, <1>7, <1>8, <1>9, ExitWake
  DEF Environment, Time

LEMMA MainLoopWake ==
    ASSUME Inv, WakeInv, MainLoop
    PROVE  WakeInv'
<1>1. CASE MainReapEnd
  BY <1>1 DEF MainReapEnd, WakeInv, NothingMissed, ShutdownSeen, Reapable, osVars
<1>2. CASE MainDropLock
  BY <1>2 DEF MainDropLock, WakeInv, NothingMissed, ShutdownSeen, Reapable, osVars
<1>3. CASE \/ MainTryLock \/ MainScan \/ MainScanEnd \/ MainTrigger
           \/ MainTriggerEnd \/ MainTimer \/ MainTimersEnd \/ MainWatchdog
           \/ (\E p \in Pid : MainReap(p))
  <2>1. pc' \notin {"flag", "poll"}
    BY <1>3 DEF MainTryLock, MainScan, MainScanEnd, MainTrigger, MainTriggerEnd,
                MainTimer, MainTimersEnd, MainWatchdog, MainReap, mainVars
  <2>2. QED
    BY <2>1, AwakeStep
<1>4. CASE \/ MainPollEvent \/ MainPollTimeout \/ MainPollInterrupted
           \/ MainRelock \/ (\E u \in DOMAIN Socket : MainSocket(u)) \/ MainNotify
  <2>1. pc' \notin {"flag", "poll"}
    BY <1>4 DEF MainPollEvent, MainPollTimeout, MainPollInterrupted, MainRelock,
                MainSocket, MainNotify
  <2>2. QED
    BY <2>1, AwakeStep
<1>5. QED
  BY <1>1, <1>2, <1>3, <1>4 DEF MainLoop

LEMMA ShutdownWake ==
    ASSUME Shutdown
    PROVE  WakeInv'
<1>1. pc' \notin {"flag", "poll"}
  BY DEF Shutdown, MainShutdown, ShutdownStop, ShutdownKillAll, DrainReap,
         DrainDeadline, PowerOff, stopUnchanged, mainVars
<1>2. QED
  BY <1>1, AwakeStep

LEMMA WakeStep == Inv /\ WakeInv /\ [Next]_vars => WakeInv'
<1>1. ASSUME Inv, WakeInv, Next PROVE WakeInv'
  BY <1>1, MainLoopWake, ShutdownWake, ClientWake, StopStepWake, EnvironmentWake
  DEF Next, Control
<1>2. ASSUME WakeInv, UNCHANGED vars PROVE WakeInv'
  BY <1>2, QuietStep DEF vars, NoNewExit, Reapable, mainVars, osVars
<1>3. QED
  BY <1>1, <1>2

\* While the main loop sleeps in poll with an empty self-pipe, no exited child
\* waits to be collected and no shutdown is requested: signal_handler, the
\* drain and the order of the loop's phases lose no wakeup.
THEOREM WakeupsKept == Spec => []NoLostWakeup
<1>1. Init => WakeInv
  BY DEF Init, WakeInv, NothingMissed, ShutdownSeen
<1>2. WakeInv => NoLostWakeup
  BY DEF WakeInv, NothingMissed, ShutdownSeen, NoLostWakeup
<1>3. QED
  BY <1>1, <1>2, InvHolds, WakeStep, PTL DEF Spec

=============================================================================
