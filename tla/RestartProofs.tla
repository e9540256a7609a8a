---------------------------- MODULE RestartProofs ----------------------------
(***************************************************************************)
(* RunningHasNoRestartPending and RestartWithinBurst hold in every         *)
(* behaviour of ServiceManager.  Neither is inductive without the other    *)
(* half: schedule_restart arms a restart for an instance that has just     *)
(* lost one process, so that process must have been its only one, and no   *)
(* restart may have been pending when the failure counter grew.            *)
(***************************************************************************)
EXTENDS ServiceManagerProofs

\* What holds of every instance record, whoever touches it next.
Good(s) ==
    /\ Up(s) => s.nextRestart = "none"
    /\ s.child = NoPid \/ s.tracked = NoPid
    /\ s.nextRestart # "none" => s.failCount <= Conf[s.name].burst

AllGood(list) == \A i \in DOMAIN list : Good(list[i])

-----------------------------------------------------------------------------
(* The operators of ServiceInstance.                                        *)

\* A record with no restart pending and at most one process is good.
LEMMA GoodIdle ==
    ASSUME NEW s, s.nextRestart = "none", s.child = NoPid \/ s.tracked = NoPid
    PROVE  Good(s)
BY DEF Good, Up

\* Losing processes keeps a record good.
LEMMA GoodLess ==
    ASSUME NEW s, Good(s), NEW r, r.name = s.name,
           r.nextRestart = s.nextRestart, r.failCount = s.failCount,
           r.child \in {s.child, NoPid}, r.tracked \in {s.tracked, NoPid}
    PROVE  Good(r)
BY DEF Good, Up

LEMMA GoodFresh ==
    ASSUME NEW u, NEW p
    PROVE  /\ Good(NewInstance(u, p)) /\ Good(Started(u, p))
           /\ Good(OneshotInstance(u))
<1>1. Good(NewInstance(u, p))
  BY GoodIdle DEF NewInstance
<1>2. Good(Started(u, p))
  <2>1. Started(u, p).nextRestart = "none" /\ Started(u, p).tracked = NoPid
    BY DEF NewInstance, Started
  <2>2. QED
    BY <2>1, GoodIdle
<1>3. Good(OneshotInstance(u))
  BY GoodIdle DEF NewInstance, OneshotInstance
<1>4. QED
  BY <1>1, <1>2, <1>3

LEMMA CountExitKeeps ==
    ASSUME NEW s \in Instance, NEW failed
    PROVE  LET c == CountExit(s, failed)
           IN  /\ c.name = s.name /\ c.child = s.child /\ c.tracked = s.tracked
               /\ c.nextRestart = s.nextRestart
BY DEF CountExit, Instance

\* schedule_restart, called when the only process of s is gone.
LEMMA GoodSchedule ==
    ASSUME NEW s \in Instance, NEW failed, NEW sd,
           s.child = NoPid, s.tracked = NoPid, s.nextRestart = "none"
    PROVE  Good(ScheduleRestart(s, failed, sd))
<1> DEFINE c == CountExit(s, failed)
<1>1. /\ c \in Instance /\ c.child = NoPid /\ c.tracked = NoPid
      /\ c.nextRestart = "none"
  BY CountExitType, CountExitKeeps
<1> HIDE DEF c
<1> DEFINE tm == IF Conf[c.name].delay THEN "armed" ELSE "due"
           r  == [c EXCEPT !.nextRestart = tm]
<1>2. \/ ScheduleRestart(s, failed, sd) = c
      \/ /\ ScheduleRestart(s, failed, sd) = r
         /\ c.failCount <= Conf[c.name].burst
  BY DEF ScheduleRestart, c
<1>3. Good(c)
  BY <1>1, GoodIdle
<1>4. ASSUME c.failCount <= Conf[c.name].burst PROVE Good(r)
  <2> HIDE DEF tm
  <2>1. /\ r.name = c.name /\ r.child = c.child /\ r.tracked = c.tracked
        /\ r.failCount = c.failCount
    BY <1>1 DEF Instance
  <2>2. QED
    BY <1>1, <1>4, <2>1 DEF Good, Up
<1>5. QED
  BY <1>2, <1>3, <1>4

\* respawn_service, called on a record without a pending restart.
LEMMA GoodRespawned ==
    ASSUME NEW s \in Instance, NEW p, s.nextRestart = "none"
    PROVE  Good(Respawned(s, p))
<1> DEFINE r == [s EXCEPT !.tracked = NoPid, !.child = p,
                          !.waitReady = Conf[s.name].type = "notify",
                          !.watchdogDeadline = "none"]
<1>1. r.nextRestart = "none" /\ r.tracked = NoPid
  BY DEF Instance
<1>2. Respawned(s, p).nextRestart = "none" /\ Respawned(s, p).tracked = NoPid
  <2>1. CASE Conf[s.name].type # "forking"
    BY <1>1, <2>1 DEF Respawned
  <2>2. CASE Conf[s.name].type = "forking"
    BY <1>1, <2>2 DEF Respawned, Instance
  <2>3. QED
    BY <2>1, <2>2
<1>3. QED
  BY <1>2, GoodIdle

\* The steps that end a life of an instance with a child.
LEMMA GoodChildGone ==
    ASSUME NEW s \in Instance, Good(s), s.child # NoPid,
           NEW failed, NEW sd, NEW p
    PROVE  /\ Good(FinishDaemonize(s, p))
           /\ Good(DaemonTimedOut(s, sd))
           /\ Good(ChildExited(s, failed, sd))
           /\ Good([s EXCEPT !.child = NoPid])
<1>1. s.nextRestart = "none" /\ s.tracked = NoPid
  BY DEF Good, Up
<1>2. Good(FinishDaemonize(s, p))
  <2>1. /\ FinishDaemonize(s, p).nextRestart = "none"
        /\ FinishDaemonize(s, p).child = NoPid
    BY <1>1 DEF FinishDaemonize, Instance
  <2>2. QED
    BY <2>1, GoodIdle
<1>3. Good(DaemonTimedOut(s, sd))
  <2> DEFINE e == [s EXCEPT !.child = NoPid, !.waitDaemon = FALSE,
                            !.daemonDeadline = "none"]
  <2>1. /\ e \in Instance /\ e.child = NoPid /\ e.tracked = NoPid
        /\ e.nextRestart = "none"
    BY <1>1 DEF Instance, Timer, OptPid
  <2> HIDE DEF e
  <2>2. Good(ScheduleRestart(e, TRUE, sd))
    BY <2>1, GoodSchedule
  <2>3. QED
    BY <2>2 DEF DaemonTimedOut, e
<1>4. Good(ChildExited(s, failed, sd))
  <2> DEFINE act == s.active \/ (~failed /\ Conf[s.name].remain)
             e   == [s EXCEPT !.child = NoPid, !.waitReady = FALSE,
                              !.watchdogDeadline = "none", !.active = act]
  <2>1. act \in BOOLEAN
    BY DEF Instance
  <2> HIDE DEF act
  <2>2. /\ e \in Instance /\ e.child = NoPid /\ e.tracked = NoPid
        /\ e.nextRestart = "none"
    BY <1>1, <2>1 DEF Instance, Timer, OptPid
  <2>3. ChildExited(s, failed, sd)
          = IF e.active THEN e ELSE ScheduleRestart(e, failed, sd)
    BY DEF ChildExited, act
  <2> HIDE DEF e
  <2>4. Good(e) /\ Good(ScheduleRestart(e, failed, sd))
    BY <2>2, GoodIdle, GoodSchedule
  <2>5. QED
    BY <2>3, <2>4
<1>5. Good([s EXCEPT !.child = NoPid])
  BY <1>1, GoodIdle DEF Instance
<1>6. QED
  BY <1>2, <1>3, <1>4, <1>5

\* reap_orphans: the instance it attributes p to has p as child or daemon.
LEMMA GoodOrphan ==
    ASSUME NEW s \in Instance, Good(s), NEW p \in Pid,
           s.tracked = p \/ s.child = p
    PROVE  Good(OrphanReaped(s, p))
<1>1. p # NoPid
  BY NoPidAssumption
<1>2. CASE s.tracked = p
  <2> DEFINE e == [s EXCEPT !.tracked = NoPid]
  <2>1. s.child = NoPid /\ s.nextRestart = "none"
    BY <1>1, <1>2 DEF Good, Up
  <2>2. /\ e \in Instance /\ e.child = NoPid /\ e.tracked = NoPid
        /\ e.nextRestart = "none"
    BY <2>1 DEF Instance, OptPid
  <2> HIDE DEF e
  <2>3. Good(ScheduleRestart(e, proc[p].code # "zero", shutdown))
    BY <2>2, GoodSchedule
  <2>4. QED
    BY <1>2, <2>3 DEF OrphanReaped, e
<1>3. CASE s.tracked # p
  <2>1. s.child # NoPid
    BY <1>1, <1>3
  <2>2. Good(FinishDaemonize(s, pidfile[s.name])) /\ Good([s EXCEPT !.child = NoPid])
    BY <2>1, GoodChildGone
  <2>3. QED
    BY <1>3, <2>2 DEF OrphanReaped
<1>4. QED
  BY <1>2, <1>3

LEMMA GoodForgotten ==
    ASSUME NEW s \in Instance, Good(s)
    PROVE  Good(ForgetFailures(s))
<1>1. /\ ForgetFailures(s).nextRestart = "none"
      /\ ForgetFailures(s).child = s.child /\ ForgetFailures(s).tracked = s.tracked
  BY DEF ForgetFailures, Instance
<1>2. QED
  BY <1>1, GoodIdle DEF Good

-----------------------------------------------------------------------------
(* Lists.                                                                   *)

LEMMA AllGoodExcept ==
    ASSUME NEW list, AllGood(list), NEW i, NEW x, Good(x)
    PROVE  AllGood([list EXCEPT ![i] = x])
BY DEF AllGood

LEMMA AllGoodAppend ==
    ASSUME services \in Seq(Instance), AllGood(services),
           NEW x \in Instance, Good(x)
    PROVE  AllGood(Append(services, x))
BY DEF AllGood

\* A list in which every record was replaced by a good one.
LEMMA AllGoodMap ==
    ASSUME NEW list, NEW f, f = [i \in DOMAIN list |-> f[i]],
           \A i \in DOMAIN list : Good(f[i])
    PROVE  AllGood(f)
BY DEF AllGood

-----------------------------------------------------------------------------
(* The steps.                                                               *)

LEMMA Typed ==
    ASSUME Inv
    PROVE  /\ services \in Seq(Instance)
           /\ \A i \in DOMAIN services : services[i] \in Instance
           /\ proc \in [Pid -> Process] /\ shutdown \in BOOLEAN
           /\ todo \in Seq(Job)
BY DEF Inv, TypeOK

LEMMA MainScanGood ==
    ASSUME Inv, AllGood(services), MainScan
    PROVE  AllGood(services')
<1> DEFINE s == services[idx]
<1>1. s \in Instance /\ Good(s) /\ proc \in [Pid -> Process] /\ shutdown \in BOOLEAN
  BY Typed DEF MainScan, AllGood
<1>2. CASE ScanDaemonizing(s)
  <2>1. \/ services' = services
        \/ /\ s.child # NoPid
           /\ \/ services' = [services EXCEPT ![idx] = FinishDaemonize(s, pidfile[s.name])]
              \/ services' = [services EXCEPT ![idx] = DaemonTimedOut(s, shutdown)]
    BY <1>2 DEF ScanDaemonizing
  <2> DEFINE x == FinishDaemonize(s, pidfile[s.name])
             y == DaemonTimedOut(s, shutdown)
  <2>2. s.child # NoPid => Good(x) /\ Good(y)
    BY <1>1, GoodChildGone
  <2> HIDE DEF x, y
  <2>3. /\ Good(x) => AllGood([services EXCEPT ![idx] = x])
        /\ Good(y) => AllGood([services EXCEPT ![idx] = y])
    BY AllGoodExcept
  <2>4. QED
    BY <2>1, <2>2, <2>3 DEF x, y
<1>3. CASE ScanRunning(s)
  <2> DEFINE r == ScanExit(s).inst
             q == [r EXCEPT !.nextRestart = "none"]
  <2>1. r \in Instance
    BY <1>1, ScanExitType
  <2>2. Good(r)
    <3> DEFINE failed == OurChild(s.child) /\ ~ExitIsSuccess(proc[s.child].code)
    <3>1. r = s \/ (s.child # NoPid /\ r = ChildExited(s, failed, shutdown))
      BY DEF ScanExit
    <3> HIDE DEF s, r, failed
    <3>2. QED
      BY <1>1, <3>1, GoodChildGone
  <2>3. \/ services' = [services EXCEPT ![idx] = r]
        \/ \E p : services' = [services EXCEPT ![idx] = Respawned(q, p)]
    BY <1>3 DEF ScanRunning
  <2> HIDE DEF s, r
  <2>4. q \in Instance /\ q.nextRestart = "none"
    BY <2>1 DEF Instance, Timer
  <2> HIDE DEF q
  <2>5. \A p : Good(Respawned(q, p))
    BY <2>4, GoodRespawned
  <2>6. QED
    BY <2>2, <2>3, <2>5, AllGoodExcept
<1>4. QED
  BY <1>2, <1>3 DEF MainScan

LEMMA MainLoopGood ==
    ASSUME Inv, AllGood(services), MainLoop
    PROVE  AllGood(services')
<1> USE DEF mainVars, osVars, evVars, jobVars
<1>1. ASSUME services' = services PROVE AllGood(services')
  BY <1>1
<1>2. CASE MainScan
  BY <1>2, MainScanGood
<1>3. CASE MainTrigger
  <2> DEFINE u == Head(trig)
  <2>1. u \in Unit
    BY <1>3, HeadTailProperties DEF Inv, TypeOK, MainTrigger
  <2>2. \/ services' = services
        \/ services' = Append(services, OneshotInstance(u))
        \/ \E p \in Pid : services' = Append(services, Started(u, p))
    BY <1>3 DEF MainTrigger, StartYieldsNothing, StartPostFails,
                  StartYieldsInstance, FreePids
  <2> HIDE DEF u
  <2>3. CASE services' = Append(services, OneshotInstance(u))
    BY <2>1, <2>3, Typed, GoodFresh, OneshotType, AllGoodAppend
  <2>4. ASSUME NEW p \in Pid, services' = Append(services, Started(u, p))
        PROVE  AllGood(services')
    <3>1. Started(u, p) \in Instance
      BY <2>1, StartedType DEF OptPid
    <3>2. QED
      BY <2>4, <3>1, Typed, GoodFresh, AllGoodAppend
  <2>5. QED
    BY <1>1, <2>2, <2>3, <2>4
<1>4. CASE MainWatchdog
  <2>1. \A i \in DOMAIN services : Good(services'[i])
    <3> SUFFICES ASSUME NEW i \in DOMAIN services PROVE Good(services'[i])
      OBVIOUS
    <3> DEFINE s == services[i]
               r == [s EXCEPT !.watchdogDeadline = "none"]
    <3>1. services'[i] = s \/ services'[i] = r
      BY <1>4 DEF MainWatchdog
    <3>2. s \in Instance /\ Good(s)
      BY Typed DEF AllGood
    <3> HIDE DEF s
    <3>3. /\ r.name = s.name /\ r.nextRestart = s.nextRestart
          /\ r.failCount = s.failCount /\ r.child = s.child
          /\ r.tracked = s.tracked
      BY <3>2 DEF Instance
    <3> HIDE DEF r
    <3>4. QED
      BY <3>1, <3>2, <3>3, GoodLess
  <2>2. services' = [i \in DOMAIN services |-> services'[i]]
    BY <1>4 DEF MainWatchdog
  <2>3. QED
    BY <2>1, <2>2, AllGoodMap
<1>5. ASSUME NEW p \in Pid, MainReap(p) PROVE AllGood(services')
  <2>1. \A i \in DOMAIN services : Good(services'[i])
    <3> SUFFICES ASSUME NEW i \in DOMAIN services PROVE Good(services'[i])
      OBVIOUS
    <3>1. CASE i \in Owner(p)
      <4>1. services'[i] = OrphanReaped(services[i], p)
        BY <1>5, <3>1 DEF MainReap
      <4>2. services[i].tracked = p \/ services[i].child = p
        BY <3>1 DEF Owner, Owners
      <4>3. services[i] \in Instance /\ Good(services[i])
        BY Typed DEF AllGood
      <4>4. QED
        BY <4>1, <4>2, <4>3, GoodOrphan
    <3>2. CASE i \notin Owner(p)
      BY <1>5, <3>2 DEF MainReap, AllGood
    <3>3. QED
      BY <3>1, <3>2
  <2>2. services' = [i \in DOMAIN services |-> services'[i]]
    BY <1>5 DEF MainReap
  <2>3. QED
    BY <2>1, <2>2, AllGoodMap
<1>6. ASSUME NEW u \in DOMAIN Socket, MainSocket(u) PROVE AllGood(services')
  <2>1. u \in Unit
    BY ManagerAssumption
  <2>2. PICK p \in SpawnResults(proc, u) :
           services' = IF p = NoPid THEN services
                       ELSE Append(services, NewInstance(u, p))
    BY <1>6 DEF MainSocket
  <2>3. NewInstance(u, p) \in Instance
    BY <2>1, Typed, SpawnedType, NewInstanceType
  <2>4. AllGood(Append(services, NewInstance(u, p)))
    BY <2>3, Typed, GoodFresh, AllGoodAppend
  <2>5. QED
    BY <2>2, <2>4
<1>7. CASE MainNotify
  <2>1. CASE services' = services
    BY <2>1
  <2>2. CASE services' = [i \in DOMAIN services |-> Notified(services[i])]
    <3>1. ASSUME NEW i \in DOMAIN services PROVE Good(services'[i])
      <4> DEFINE s == services[i]
                 r == Notified(s)
      <4>1. s \in Instance /\ Good(s)
        BY Typed DEF AllGood
      <4>2. services'[i] = r
        BY <2>2
      <4> HIDE DEF s
      <4>3. /\ r.name = s.name /\ r.nextRestart = s.nextRestart
            /\ r.failCount = s.failCount /\ r.child = s.child
            /\ r.tracked = s.tracked
        BY <4>1 DEF Notified, Instance
      <4> HIDE DEF r
      <4>4. QED
        BY <4>1, <4>2, <4>3, GoodLess
    <3>2. QED
      BY <2>2, <3>1, AllGoodMap
  <2>3. QED
    BY <1>7, <2>1, <2>2 DEF MainNotify
<1>8. CASE \/ MainTryLock \/ MainScanEnd \/ MainTriggerEnd \/ MainTimer
           \/ MainTimersEnd \/ MainReapEnd \/ MainDropLock \/ MainPollEvent \/ MainPollTimeout
           \/ MainPollInterrupted \/ MainRelock
  BY <1>1, <1>8
  DEF MainTryLock, MainScanEnd, MainTriggerEnd, MainTimer, MainTimersEnd, MainReapEnd,
      MainDropLock, MainPollEvent, MainPollTimeout, MainPollInterrupted, MainRelock
<1>9. QED
  BY <1>2, <1>3, <1>4, <1>5, <1>6, <1>7, <1>8 DEF MainLoop

\* stop_service_instance only takes processes away.
LEMMA StopEffectGood ==
    ASSUME NEW list \in Seq(Instance), AllGood(list), NEW i \in DOMAIN list,
           \/ services' = list
           \/ services' = [list EXCEPT ![i].active = FALSE]
           \/ services' = [list EXCEPT ![i].tracked = NoPid]
           \/ services' = [list EXCEPT ![i].child = NoPid]
    PROVE  AllGood(services')
<1> DEFINE s == list[i]
           ra == [s EXCEPT !.active = FALSE]
           rt == [s EXCEPT !.tracked = NoPid]
           rc == [s EXCEPT !.child = NoPid]
<1>1. s \in Instance /\ Good(s)
  BY DEF AllGood
<1>2. \/ services' = list
      \/ services' = [list EXCEPT ![i] = ra]
      \/ services' = [list EXCEPT ![i] = rt]
      \/ services' = [list EXCEPT ![i] = rc]
  OBVIOUS
<1> HIDE DEF s
<1>3. /\ ra.name = s.name /\ ra.nextRestart = s.nextRestart
      /\ ra.failCount = s.failCount /\ ra.child = s.child /\ ra.tracked = s.tracked
  BY <1>1 DEF Instance
<1>4. /\ rt.name = s.name /\ rt.nextRestart = s.nextRestart
      /\ rt.failCount = s.failCount /\ rt.child = s.child /\ rt.tracked = NoPid
  BY <1>1 DEF Instance
<1>5. /\ rc.name = s.name /\ rc.nextRestart = s.nextRestart
      /\ rc.failCount = s.failCount /\ rc.child = NoPid /\ rc.tracked = s.tracked
  BY <1>1 DEF Instance
<1> HIDE DEF ra, rt, rc
<1>6. Good(ra) /\ Good(rt) /\ Good(rc)
  BY <1>1, <1>3, <1>4, <1>5, GoodLess
<1>7. QED
  BY <1>2, <1>6, AllGoodExcept

LEMMA StopTrackedGood ==
    ASSUME NEW list \in Seq(Instance), AllGood(list), NEW i \in DOMAIN list,
           NEW table, StopTracked(list, i, table) \/ StopDone(list, i, table)
    PROVE  AllGood(services')
BY StopEffectGood DEF StopTracked, StopDone

LEMMA BeginStopGood ==
    ASSUME NEW list \in Seq(Instance), AllGood(list), NEW i \in DOMAIN list,
           BeginStop(list, i)
    PROVE  AllGood(services')
<1>1. CASE \E table : StopTracked(list, i, table)
  BY <1>1, StopTrackedGood
<1>2. CASE services' = [list EXCEPT ![i].child = NoPid]
  BY <1>2, StopEffectGood
<1>3. QED
  BY <1>1, <1>2 DEF BeginStop

LEMMA StopStepGood ==
    ASSUME Inv, AllGood(services), StopStep
    PROVE  AllGood(services')
<1>1. services \in Seq(Instance) /\ (stop # NoStop => stop.i \in DOMAIN services)
  BY DEF Inv, TypeOK, LockDiscipline
<1>2. CASE StopTimeout
  BY <1>2 DEF StopTimeout
<1>3. CASE StopChildGone \/ StopDaemonGone
  <2>1. stop # NoStop
    BY <1>3 DEF StopChildGone, StopDaemonGone, NoStop
  <2>2. \E table : StopTracked(services, stop.i, table) \/ StopDone(services, stop.i, table)
    BY <1>3 DEF StopChildGone, StopDaemonGone
  <2>3. QED
    BY <1>1, <2>1, <2>2, StopTrackedGood
<1>4. QED
  BY <1>2, <1>3 DEF StopStep

LEMMA ClientStepGood ==
    ASSUME Inv, AllGood(services), NEW c \in Client, ClientStep(c)
    PROVE  AllGood(services')
<1> DEFINE j == Head(todo)
<1>1. services \in Seq(Instance) /\ \A i \in DOMAIN services : services[i] \in Instance
  BY Typed
<1>2. j.u \in Unit
  BY Typed, TailJobs DEF ClientStep, Job
<1> HIDE DEF j
<1>3. CASE JobStop1(j.u)
  <2>1. CASE services' = services
    BY <2>1
  <2>2. ASSUME NEW i \in DOMAIN services,
               LET list == [services EXCEPT ![i].stopped = TRUE]
               IN  BeginStop(list, i) \/ services' = list
        PROVE  AllGood(services')
    <3> DEFINE x == services[i]
               r == [x EXCEPT !.stopped = TRUE]
               list == [services EXCEPT ![i].stopped = TRUE]
    <3>1. list = [services EXCEPT ![i] = r]
      OBVIOUS
    <3>2. x \in Instance /\ Good(x)
      BY <1>1 DEF AllGood
    <3> HIDE DEF x, list
    <3>3. r \in Instance
      BY <3>2 DEF Instance
    <3>4. /\ r.name = x.name /\ r.nextRestart = x.nextRestart
          /\ r.failCount = x.failCount /\ r.child = x.child /\ r.tracked = x.tracked
      BY <3>2 DEF Instance
    <3> HIDE DEF r
    <3>5. Good(r)
      BY <3>2, <3>4, GoodLess
    <3>6. list \in Seq(Instance) /\ AllGood(list) /\ DOMAIN list = DOMAIN services
      BY <1>1, <3>1, <3>3, <3>5, SeqExcept, AllGoodExcept
    <3>7. BeginStop(list, i) \/ services' = list
      BY <2>2 DEF list
    <3>8. QED
      BY <3>6, <3>7, BeginStopGood
  <2>3. QED
    BY <1>3, <2>1, <2>2 DEF JobStop1, Find, Named
<1>4. CASE JobRestartExisting(j.u)
  <2>1. CASE services' = services
    BY <2>1
  <2>2. ASSUME NEW i \in DOMAIN services, NEW p,
               services' = [services EXCEPT ![i] =
                     Respawned([ForgetFailures(@) EXCEPT !.stopped = FALSE], p)]
        PROVE  AllGood(services')
    <3> DEFINE f == ForgetFailures(services[i])
               r == [f EXCEPT !.stopped = FALSE]
    <3>1. services' = [services EXCEPT ![i] = Respawned(r, p)]
      BY <2>2
    <3>2. f \in Instance /\ f.nextRestart = "none"
      BY <1>1, ForgetFailuresType DEF ForgetFailures, Instance
    <3> HIDE DEF f
    <3>3. r \in Instance /\ r.nextRestart = "none"
      BY <3>2 DEF Instance
    <3> HIDE DEF r
    <3>4. QED
      BY <3>1, <3>3, GoodRespawned, AllGoodExcept
  <2>3. QED
    BY <1>4, <2>1, <2>2 DEF JobRestartExisting, Find, Named
<1>5. CASE JobSpawn(j.u)
  <2> DEFINE u == j.u
  <2>1. PICK p \in SpawnResults(proc, u) :
           services' = IF p = NoPid THEN services ELSE Append(services, Started(u, p))
    BY <1>5 DEF JobSpawn
  <2>2. Started(u, p) \in Instance
    BY <1>2, Typed, SpawnedType, StartedType
  <2>3. AllGood(Append(services, Started(u, p)))
    BY <1>1, <2>2, GoodFresh, AllGoodAppend
  <2>4. QED
    BY <2>1, <2>3
<1>6. ASSUME NEW S, JobReset(S) PROVE AllGood(services')
  <2>1. services' = [i \in DOMAIN services |-> services'[i]]
    BY <1>6 DEF JobReset
  <2>2. \A i \in DOMAIN services : Good(services'[i])
    <3> SUFFICES ASSUME NEW i \in DOMAIN services PROVE Good(services'[i])
      OBVIOUS
    <3>1. services'[i] = services[i] \/ services'[i] = ForgetFailures(services[i])
      BY <1>6 DEF JobReset
    <3>2. services[i] \in Instance /\ Good(services[i])
      BY <1>1 DEF AllGood
    <3>3. QED
      BY <3>1, <3>2, GoodForgotten
  <2>3. QED
    BY <2>1, <2>2, AllGoodMap
<1>7. CASE \/ JobLinked(j.u) \/ JobStopSet(j.u, j.set) \/ JobStartNew(j.u)
           \/ JobConflicts(j.u, j.set) \/ JobIsolate(j.u) \/ JobIsoStart(j.u)
           \/ JobStartSet(j.u, j.set)
  BY <1>7 DEF JobLinked, JobStopSet, JobStartNew, JobConflicts, JobIsolate,
              JobIsoStart, JobStartSet
<1>8. QED
  <2>1. \/ JobStop1(j.u) \/ JobLinked(j.u) \/ JobStopSet(j.u, j.set)
        \/ JobRestartExisting(j.u) \/ JobStartNew(j.u)
        \/ JobConflicts(j.u, j.set) \/ JobSpawn(j.u) \/ JobIsolate(j.u)
        \/ JobIsoStart(j.u) \/ JobStartSet(j.u, j.set)
        \/ \E S : JobReset(S)
    BY DEF ClientStep, j
  <2>2. QED
    BY <1>3, <1>4, <1>5, <1>6, <1>7, <2>1

LEMMA ShutdownGood ==
    ASSUME Inv, AllGood(services), Shutdown
    PROVE  AllGood(services')
<1>1. CASE ShutdownStop
  <2>1. /\ services \in Seq(Instance) /\ todo \in Seq(Job) /\ todo # <<>>
        /\ \A k \in DOMAIN todo : todo[k].i \in DOMAIN services
    BY <1>1 DEF Inv, TypeOK, LockDiscipline, ShutdownStop
  <2>2. Head(todo).i \in DOMAIN services
    BY <2>1, TailJobs
  <2>3. QED
    BY <1>1, <2>1, <2>2, BeginStopGood DEF ShutdownStop
<1>2. CASE \/ MainShutdown \/ ShutdownKillAll \/ (\E p \in Pid : DrainReap(p))
           \/ DrainDeadline \/ PowerOff
  BY <1>2 DEF MainShutdown, ShutdownKillAll, DrainReap, DrainDeadline, PowerOff
<1>3. QED
  BY <1>1, <1>2 DEF Shutdown

\* Time: only a pending restart that is armed becomes due.
LEMMA TimeGood ==
    ASSUME Inv, AllGood(services), Time
    PROVE  AllGood(services')
<1>1. ASSUME NEW i \in DOMAIN services, NEW f \in TimerField, TimerDue(i, f)
      PROVE  AllGood(services')
  <2> DEFINE s == services[i]
             r == [s EXCEPT ![f] = "due"]
  <2>1. s \in Instance /\ Good(s) /\ s[f] = "armed"
    BY <1>1, Typed DEF TimerDue, AllGood
  <2>2. services' = [services EXCEPT ![i] = r]
    BY <1>1 DEF TimerDue
  <2> HIDE DEF s
  <2>3. CASE f = "nextRestart"
    <3>1. /\ r.name = s.name /\ r.failCount = s.failCount
          /\ r.child = s.child /\ r.tracked = s.tracked /\ s.nextRestart # "none"
      BY <2>1, <2>3 DEF Instance
    <3> HIDE DEF r
    <3>2. Good(r)
      BY <2>1, <3>1 DEF Good, Up
    <3>3. QED
      BY <2>2, <3>2, AllGoodExcept
  <2>4. CASE f \in {"daemonDeadline", "watchdogDeadline"}
    <3>1. /\ r.name = s.name /\ r.failCount = s.failCount
          /\ r.child = s.child /\ r.tracked = s.tracked
          /\ r.nextRestart = s.nextRestart
      BY <2>1, <2>4 DEF Instance
    <3> HIDE DEF r
    <3>2. QED
      BY <2>1, <2>2, <3>1, GoodLess, AllGoodExcept
  <2>5. QED
    BY <2>3, <2>4 DEF TimerField
<1>2. ASSUME NEW i \in DOMAIN services, WindowEnds(i) PROVE AllGood(services')
  <2> DEFINE s == services[i]
             r == [s EXCEPT !.firstFailure = "old"]
  <2>1. s \in Instance /\ Good(s)
    BY Typed DEF AllGood
  <2>2. services' = [services EXCEPT ![i] = r]
    BY <1>2 DEF WindowEnds
  <2> HIDE DEF s
  <2>3. /\ r.name = s.name /\ r.failCount = s.failCount
        /\ r.child = s.child /\ r.tracked = s.tracked
        /\ r.nextRestart = s.nextRestart
    BY <2>1 DEF Instance
  <2> HIDE DEF r
  <2>4. QED
    BY <2>1, <2>2, <2>3, GoodLess, AllGoodExcept
<1>3. CASE DeadlineDue
  BY <1>3 DEF DeadlineDue
<1>4. QED
  BY <1>1, <1>2, <1>3 DEF Time

-----------------------------------------------------------------------------
LEMMA InitGood == Init => AllGood(services)
<1> SUFFICES ASSUME Init PROVE AllGood(services)
  OBVIOUS
<1>1. PICK f \in [DOMAIN BootUnits -> OptPid] :
         services = [i \in DOMAIN BootUnits |-> BootInstance(BootUnits[i], f[i])]
  BY DEF Init
<1>2. QED
  BY <1>1, GoodFresh DEF AllGood, BootInstance

LEMMA NextGood ==
    ASSUME Inv, AllGood(services), [Next]_vars
    PROVE  AllGood(services')
<1>1. CASE Environment
  BY <1>1 DEF Environment, Exit, Daemonize, Notify, SockConnect, SockServed,
              Connect, SignalShutdown, HookExits
<1>2. ASSUME NEW c \in Client, ClientLock(c) \/ ClientDone(c)
      PROVE  AllGood(services')
  BY <1>2 DEF ClientLock, ClientDone
<1>3. CASE UNCHANGED vars
  BY <1>3 DEF vars
<1>4. QED
  BY <1>1, <1>2, <1>3, MainLoopGood, ShutdownGood, ClientStepGood, StopStepGood,
     TimeGood
  DEF Next, Control

LEMMA GoodHolds == Spec => []AllGood(services)
<1>1. Inv /\ AllGood(services) /\ [Next]_vars => AllGood(services)'
  BY NextGood
<1>2. QED
  BY <1>1, InitGood, InvHolds, PTL DEF Spec

\* An instance that has a process never has a restart pending, so the main loop
\* never respawns over a live child or a tracked daemon, and the two kinds of
\* process exclude each other (services.rs, mod.rs).
THEOREM NoRestartWhileRunning == Spec => []RunningHasNoRestartPending
<1>1. AllGood(services) => RunningHasNoRestartPending
  BY DEF AllGood, Good, RunningHasNoRestartPending
<1>2. QED
  BY <1>1, GoodHolds, PTL

\* Whatever happens between scheduling and respawn, a pending automatic restart
\* is one that StartLimitBurst allows (schedule_restart).
THEOREM RestartsWithinBurst == Spec => []RestartWithinBurst
<1>1. AllGood(services) => RestartWithinBurst
  BY DEF AllGood, Good, RestartWithinBurst
<1>2. QED
  BY <1>1, GoodHolds, PTL

-----------------------------------------------------------------------------
(* OnlyStartRevives and MainLeavesStoppedAlone: no step but a control       *)
(* thread's gives a process to an instance that is down for good, or a new  *)
(* child to one that is marked stopped.  Both say what a step does to each  *)
(* record of the list, so the argument is about pairs (s before, r after)   *)
(* and needs no invariant beyond Inv.                                       *)

\* What a step that is not a control thread's may do to a record.
Stays(s, r) ==
    /\ ~Up(s) /\ s.nextRestart = "none" => ~Up(r)
    /\ s.stopped => r.child \in {NoPid, s.child}

AllStay == \A i \in DOMAIN services : Stays(services[i], services'[i])

\* Losing processes, and whatever leaves the processes alone.
LEMMA LessStays ==
    ASSUME NEW s, NEW r, r.child \in {s.child, NoPid},
           r.tracked \in {s.tracked, NoPid}
    PROVE  Stays(s, r)
BY DEF Stays, Up

LEMMA SameStays == ASSUME services' = services PROVE AllStay
BY LessStays DEF AllStay

\* A step that replaces one record.
LEMMA ExceptStays ==
    ASSUME NEW i, NEW x, services' = [services EXCEPT ![i] = x],
           i \in DOMAIN services => Stays(services[i], x)
    PROVE  AllStay
<1> SUFFICES ASSUME NEW k \in DOMAIN services
             PROVE  Stays(services[k], services'[k])
  BY DEF AllStay
<1>1. CASE k = i
  BY <1>1
<1>2. CASE k # i
  <2>1. services'[k] = services[k]
    BY <1>2
  <2>2. QED
    BY <2>1, LessStays
<1>3. QED
  BY <1>1, <1>2

\* Pushing a record changes none of the others.
LEMMA AppendStays ==
    ASSUME services \in Seq(Instance), NEW x \in Instance,
           services' = Append(services, x)
    PROVE  AllStay
<1> SUFFICES ASSUME NEW k \in DOMAIN services
             PROVE  Stays(services[k], services'[k])
  BY DEF AllStay
<1>1. services'[k] = services[k]
  OBVIOUS
<1>2. QED
  BY <1>1, LessStays

LEMMA ScheduleKeeps ==
    ASSUME NEW s \in Instance, NEW failed, NEW sd
    PROVE  LET r == ScheduleRestart(s, failed, sd)
           IN  r.child = s.child /\ r.tracked = s.tracked /\ r.stopped = s.stopped
<1> DEFINE c == CountExit(s, failed)
<1>0. \E n, f : c = [s EXCEPT !.failCount = n, !.firstFailure = f]
  BY DEF CountExit
<1>1. /\ c \in Instance /\ c.child = s.child /\ c.tracked = s.tracked
      /\ c.stopped = s.stopped
  <2>1. PICK n, f : c = [s EXCEPT !.failCount = n, !.firstFailure = f]
    BY <1>0
  <2>2. c.child = s.child /\ c.tracked = s.tracked /\ c.stopped = s.stopped
    <3> HIDE DEF c
    <3>1. QED
      BY <2>1 DEF Instance
  <2>3. QED
    BY <2>2, CountExitType
<1> HIDE DEF c
<1>2. ScheduleRestart(s, failed, sd) \in
        {c} \cup {[c EXCEPT !.nextRestart = x] : x \in Timer}
  BY DEF ScheduleRestart, Timer, c
<1>3. QED
  BY <1>1, <1>2 DEF Instance

LEMMA ChildExitedKeeps ==
    ASSUME NEW s \in Instance, NEW failed, NEW sd
    PROVE  LET r == ChildExited(s, failed, sd)
           IN  r.child = NoPid /\ r.tracked = s.tracked /\ r.stopped = s.stopped
<1> DEFINE act == s.active \/ (~failed /\ Conf[s.name].remain)
           e   == [s EXCEPT !.child = NoPid, !.waitReady = FALSE,
                            !.watchdogDeadline = "none", !.active = act]
<1>1. act \in BOOLEAN
  BY DEF Instance
<1> HIDE DEF act
<1>2. /\ e \in Instance /\ e.child = NoPid /\ e.tracked = s.tracked
      /\ e.stopped = s.stopped
  BY <1>1 DEF Instance, Timer, OptPid
<1>3. ChildExited(s, failed, sd)
        = IF e.active THEN e ELSE ScheduleRestart(e, failed, sd)
  BY DEF ChildExited, act
<1> HIDE DEF e
<1>4. QED
  BY <1>2, <1>3, ScheduleKeeps

LEMMA DaemonTimedOutKeeps ==
    ASSUME NEW s \in Instance, NEW sd
    PROVE  LET r == DaemonTimedOut(s, sd)
           IN  r.child = NoPid /\ r.tracked = s.tracked
<1> DEFINE e == [s EXCEPT !.child = NoPid, !.waitDaemon = FALSE,
                          !.daemonDeadline = "none"]
<1>1. e.child = NoPid /\ e.tracked = s.tracked
  BY DEF Instance
<1>2. e \in Instance
  BY DEF Instance, Timer, OptPid
<1>3. DaemonTimedOut(s, sd) = ScheduleRestart(e, TRUE, sd)
  BY Zenon DEF DaemonTimedOut
<1> HIDE DEF e
<1>4. /\ ScheduleRestart(e, TRUE, sd).child = e.child
      /\ ScheduleRestart(e, TRUE, sd).tracked = e.tracked
  BY <1>2, ScheduleKeeps
<1>5. QED
  BY <1>1, <1>3, <1>4, Zenon

\* finish_daemonize: the instance had a child until now.
LEMMA FinishStays ==
    ASSUME NEW s \in Instance, s.child # NoPid, NEW p
    PROVE  Stays(s, FinishDaemonize(s, p))
<1>1. FinishDaemonize(s, p).child = NoPid
  BY DEF FinishDaemonize, Instance
<1>2. QED
  BY <1>1 DEF Stays, Up

LEMMA ListTyped ==
    ASSUME Inv
    PROVE  /\ services \in Seq(Instance)
           /\ \A i \in DOMAIN services : services[i] \in Instance
           /\ proc \in [Pid -> Process] /\ shutdown \in BOOLEAN
           /\ todo \in Seq(Job)
BY DEF Inv, TypeOK

-----------------------------------------------------------------------------
(* The steps of the main thread.                                            *)

LEMMA MainScanStays ==
    ASSUME Inv, MainScan
    PROVE  AllStay
<1> DEFINE s == services[idx]
<1>1. /\ s \in Instance /\ idx \in DOMAIN services
      /\ proc \in [Pid -> Process] /\ shutdown \in BOOLEAN
  BY ListTyped DEF MainScan
<1>2. CASE ScanDaemonizing(s)
  <2> DEFINE x == FinishDaemonize(s, pidfile[s.name])
             y == DaemonTimedOut(s, shutdown)
  <2>1. \/ services' = services
        \/ s.child # NoPid /\ services' = [services EXCEPT ![idx] = x]
        \/ services' = [services EXCEPT ![idx] = y]
    BY <1>2 DEF ScanDaemonizing
  <2>2. (s.child # NoPid => Stays(s, x)) /\ Stays(s, y)
    BY <1>1, FinishStays, DaemonTimedOutKeeps, LessStays
  <2> HIDE DEF x, y
  <2>3. QED
    BY <2>1, <2>2, SameStays, ExceptStays
<1>3. CASE ScanRunning(s)
  <2> DEFINE r == ScanExit(s).inst
             failed == OurChild(s.child) /\ ~ExitIsSuccess(proc[s.child].code)
  <2>1. r = s \/ (s.child # NoPid /\ r = ChildExited(s, failed, shutdown))
    BY DEF ScanExit
  <2>2. r.child \in {s.child, NoPid} /\ r.tracked = s.tracked /\ r.stopped = s.stopped
    BY <1>1, <2>1, ChildExitedKeeps
  <2>3. \/ services' = [services EXCEPT ![idx] = r]
        \/ /\ RestartDue(r)
           /\ \E p : services' = [services EXCEPT ![idx] =
                        Respawned([r EXCEPT !.nextRestart = "none"], p)]
    BY <1>3 DEF ScanRunning
  <2> HIDE DEF s, r, failed
  <2>4. Stays(s, r)
    BY <2>2, LessStays
  <2>5. ASSUME RestartDue(r), NEW x PROVE Stays(s, x)
    <3>1. ~s.stopped
      BY <2>2, <2>5 DEF RestartDue
    <3>2. Up(s) \/ s.nextRestart # "none"
      BY <2>1, <2>5 DEF RestartDue, Up
    <3>3. QED
      BY <3>1, <3>2 DEF Stays
  <2>6. QED
    BY <2>3, <2>4, <2>5, ExceptStays DEF s
<1>4. QED
  BY <1>2, <1>3 DEF MainScan

LEMMA MainLoopStays ==
    ASSUME Inv, MainLoop
    PROVE  AllStay
<1> USE DEF mainVars, osVars, evVars, jobVars
<1>1. CASE MainScan
  BY <1>1, MainScanStays
<1>2. CASE MainTrigger
  <2> DEFINE u == Head(trig)
  <2>1. u \in Unit
    BY <1>2, HeadTailProperties DEF Inv, TypeOK, MainTrigger
  <2>2. \/ services' = services
        \/ services' = Append(services, OneshotInstance(u))
        \/ \E p \in Pid : services' = Append(services, Started(u, p))
    BY <1>2 DEF MainTrigger, StartYieldsNothing, StartPostFails,
                  StartYieldsInstance, FreePids
  <2> HIDE DEF u
  <2>3. OneshotInstance(u) \in Instance /\ \A p \in Pid : Started(u, p) \in Instance
    BY <2>1, OneshotType, StartedType DEF OptPid
  <2>4. QED
    BY <2>2, <2>3, ListTyped, SameStays, AppendStays
<1>3. CASE MainWatchdog
  <2> SUFFICES ASSUME NEW i \in DOMAIN services
               PROVE  Stays(services[i], services'[i])
    BY DEF AllStay
  <2> DEFINE s == services[i]
             r == [s EXCEPT !.watchdogDeadline = "none"]
  <2>1. s \in Instance /\ services'[i] \in {s, r}
    BY <1>3, ListTyped DEF MainWatchdog
  <2> HIDE DEF s
  <2>2. r.child = s.child /\ r.tracked = s.tracked
    BY <2>1 DEF Instance
  <2> HIDE DEF r
  <2>3. QED
    BY <2>1, <2>2, LessStays DEF s
<1>4. ASSUME NEW p \in Pid, MainReap(p) PROVE AllStay
  <2> SUFFICES ASSUME NEW i \in DOMAIN services
               PROVE  Stays(services[i], services'[i])
    BY DEF AllStay
  <2> DEFINE s == services[i]
             e == [s EXCEPT !.tracked = NoPid]
             h == [s EXCEPT !.child = NoPid]
  <2>1. s \in Instance
    BY ListTyped
  <2>2. \/ services'[i] = s
        \/ services'[i] = ScheduleRestart(e, proc[p].code # "zero", shutdown)
        \/ s.child # NoPid /\ services'[i] = FinishDaemonize(s, pidfile[s.name])
        \/ services'[i] = h
    <3>1. CASE i \notin Owner(p)
      BY <1>4, <3>1 DEF MainReap
    <3>2. CASE i \in Owner(p)
      <4>1. services'[i] = OrphanReaped(s, p)
        BY <1>4, <3>2 DEF MainReap
      <4>2. s.tracked = p \/ s.child # NoPid
        BY <3>2, NoPidAssumption DEF Owner, Owners
      <4>3. QED
        BY <4>1, <4>2 DEF OrphanReaped
    <3>3. QED
      BY <3>1, <3>2
  <2> HIDE DEF s
  <2>3. /\ e \in Instance /\ e.child = s.child /\ e.tracked = NoPid
        /\ h.child = NoPid /\ h.tracked = s.tracked
    BY <2>1 DEF Instance, OptPid
  <2> HIDE DEF e, h
  <2>4. Stays(s, s) /\ Stays(s, h)
    BY <2>3, LessStays
  <2>5. Stays(s, ScheduleRestart(e, proc[p].code # "zero", shutdown))
    BY <2>3, ScheduleKeeps, LessStays
  <2>6. QED
    BY <2>1, <2>2, <2>4, <2>5, FinishStays DEF s
<1>5. ASSUME NEW u \in DOMAIN Socket, MainSocket(u) PROVE AllStay
  <2>1. PICK p \in SpawnResults(proc, u) :
           services' = IF p = NoPid THEN services
                       ELSE Append(services, NewInstance(u, p))
    BY <1>5 DEF MainSocket
  <2>2. NewInstance(u, p) \in Instance
    BY ManagerAssumption, ListTyped, SpawnedType, NewInstanceType
  <2>3. QED
    BY <2>1, <2>2, ListTyped, SameStays, AppendStays
<1>6. CASE MainNotify
  <2>1. CASE services' = services
    BY <2>1, SameStays
  <2>2. CASE services' = [i \in DOMAIN services |-> Notified(services[i])]
    <3> SUFFICES ASSUME NEW i \in DOMAIN services
                 PROVE  Stays(services[i], services'[i])
      BY DEF AllStay
    <3> DEFINE s == services[i]
               r == Notified(s)
    <3>1. s \in Instance /\ services'[i] = r
      BY <2>2, ListTyped
    <3> HIDE DEF s
    <3>2. r.child = s.child /\ r.tracked = s.tracked
      BY <3>1 DEF Notified, Instance
    <3> HIDE DEF r
    <3>3. QED
      BY <3>1, <3>2, LessStays DEF s
  <2>3. QED
    BY <1>6, <2>1, <2>2 DEF MainNotify
<1>7. CASE \/ MainTryLock \/ MainScanEnd \/ MainTriggerEnd \/ MainTimer
           \/ MainTimersEnd \/ MainReapEnd \/ MainDropLock \/ MainPollEvent \/ MainPollTimeout
           \/ MainPollInterrupted \/ MainRelock
  BY <1>7, SameStays
  DEF MainTryLock, MainScanEnd, MainTriggerEnd, MainTimer, MainTimersEnd, MainReapEnd,
      MainDropLock, MainPollEvent, MainPollTimeout, MainPollInterrupted, MainRelock
<1>8. QED
  BY <1>1, <1>2, <1>3, <1>4, <1>5, <1>6, <1>7 DEF MainLoop

-----------------------------------------------------------------------------
(* Stops, shutdown, time.                                                   *)

LEMMA StopEffectStays ==
    ASSUME services \in Seq(Instance), NEW i \in DOMAIN services,
           \/ services' = services
           \/ services' = [services EXCEPT ![i].active = FALSE]
           \/ services' = [services EXCEPT ![i].tracked = NoPid]
           \/ services' = [services EXCEPT ![i].child = NoPid]
    PROVE  AllStay
<1> DEFINE s == services[i]
           ra == [s EXCEPT !.active = FALSE]
           rt == [s EXCEPT !.tracked = NoPid]
           rc == [s EXCEPT !.child = NoPid]
<1>1. s \in Instance
  OBVIOUS
<1>2. \/ services' = services
      \/ services' = [services EXCEPT ![i] = ra]
      \/ services' = [services EXCEPT ![i] = rt]
      \/ services' = [services EXCEPT ![i] = rc]
  OBVIOUS
<1> HIDE DEF s
<1>3. ra.child = s.child /\ ra.tracked = s.tracked
  BY <1>1 DEF Instance
<1>4. rt.child = s.child /\ rt.tracked = NoPid
  BY <1>1 DEF Instance
<1>5. rc.child = NoPid /\ rc.tracked = s.tracked
  BY <1>1 DEF Instance
<1> HIDE DEF ra, rt, rc
<1>6. Stays(s, ra) /\ Stays(s, rt) /\ Stays(s, rc)
  BY <1>3, <1>4, <1>5, LessStays
<1>7. QED
  BY <1>2, <1>6, SameStays, ExceptStays DEF s

LEMMA StopTrackedStays ==
    ASSUME services \in Seq(Instance), NEW i \in DOMAIN services, NEW table,
           StopTracked(services, i, table) \/ StopDone(services, i, table)
    PROVE  AllStay
BY StopEffectStays DEF StopTracked, StopDone

LEMMA StopStepStays ==
    ASSUME Inv, StopStep
    PROVE  AllStay
<1>1. services \in Seq(Instance) /\ (stop # NoStop => stop.i \in DOMAIN services)
  BY DEF Inv, TypeOK, LockDiscipline
<1>2. CASE StopTimeout
  BY <1>2, SameStays DEF StopTimeout
<1>3. CASE StopChildGone \/ StopDaemonGone
  <2>1. stop # NoStop
    BY <1>3 DEF StopChildGone, StopDaemonGone, NoStop
  <2>2. \E table : \/ StopTracked(services, stop.i, table)
                   \/ StopDone(services, stop.i, table)
    BY <1>3 DEF StopChildGone, StopDaemonGone
  <2>3. QED
    BY <1>1, <2>1, <2>2, StopTrackedStays
<1>4. QED
  BY <1>2, <1>3 DEF StopStep

LEMMA ShutdownStays ==
    ASSUME Inv, Shutdown
    PROVE  AllStay
<1>1. CASE ShutdownStop
  <2> DEFINE i == Head(todo).i
  <2>1. /\ services \in Seq(Instance) /\ todo \in Seq(Job) /\ todo # <<>>
        /\ \A k \in DOMAIN todo : todo[k].i \in DOMAIN services
    BY <1>1 DEF Inv, TypeOK, LockDiscipline, ShutdownStop
  <2>2. i \in DOMAIN services
    BY <2>1, TailJobs
  <2>3. BeginStop(services, i)
    BY <1>1 DEF ShutdownStop
  <2> HIDE DEF i
  <2>4. \/ \E table : StopTracked(services, i, table)
        \/ services' = [services EXCEPT ![i].child = NoPid]
    BY <2>3 DEF BeginStop
  <2>5. QED
    BY <2>1, <2>2, <2>4, StopTrackedStays, StopEffectStays
<1>2. CASE \/ MainShutdown \/ ShutdownKillAll \/ (\E p \in Pid : DrainReap(p))
           \/ DrainDeadline \/ PowerOff
  BY <1>2, SameStays
  DEF MainShutdown, ShutdownKillAll, DrainReap, DrainDeadline, PowerOff
<1>3. QED
  BY <1>1, <1>2 DEF Shutdown

LEMMA TimeStays ==
    ASSUME Inv, Time
    PROVE  AllStay
<1>1. ASSUME NEW i \in DOMAIN services, NEW f \in TimerField \cup {"firstFailure"},
             NEW v, services' = [services EXCEPT ![i][f] = v]
      PROVE  AllStay
  <2> DEFINE s == services[i]
             r == [s EXCEPT ![f] = v]
  <2>1. s \in Instance /\ services' = [services EXCEPT ![i] = r]
    BY <1>1, ListTyped
  <2> HIDE DEF s
  <2>2. r.child = s.child /\ r.tracked = s.tracked
    BY <2>1 DEF Instance, TimerField
  <2> HIDE DEF r
  <2>3. Stays(s, r)
    BY <2>2, LessStays
  <2>4. QED
    BY <2>1, <2>3, ExceptStays DEF s
<1>2. ASSUME NEW i \in DOMAIN services, WindowEnds(i) PROVE AllStay
  <2>1. services' = [services EXCEPT ![i]["firstFailure"] = "old"]
    BY <1>2 DEF WindowEnds
  <2>2. QED
    BY <1>1, <2>1
<1>3. ASSUME NEW i \in DOMAIN services, NEW f \in TimerField, TimerDue(i, f)
      PROVE  AllStay
  BY <1>1, <1>3 DEF TimerDue
<1>4. CASE DeadlineDue
  BY <1>4, SameStays DEF DeadlineDue
<1>5. QED
  BY <1>2, <1>3, <1>4 DEF Time

-----------------------------------------------------------------------------
\* Every step is a control thread's, or changes each record as Stays allows.
LEMMA NextStays ==
    ASSUME Inv, [Next]_vars
    PROVE  lock \in Client \/ AllStay
<1>1. CASE Environment
  BY <1>1, SameStays
  DEF Environment, Exit, Daemonize, Notify, SockConnect, SockServed, Connect,
      SignalShutdown, HookExits
<1>2. ASSUME NEW c \in Client, ClientLock(c) PROVE AllStay
  BY <1>2, SameStays DEF ClientLock
<1>3. ASSUME NEW c \in Client, ClientStep(c) \/ ClientDone(c) PROVE lock \in Client
  BY <1>3 DEF ClientStep, ClientDone
<1>4. CASE UNCHANGED vars
  BY <1>4, SameStays DEF vars
<1>5. QED
  BY <1>1, <1>2, <1>3, <1>4, MainLoopStays, ShutdownStays, StopStepStays, TimeStays
  DEF Next, Control

\* Whatever exits, times out, is triggered or is reaped, an instance without a
\* process and without a pending restart gets a process only from a control
\* thread (do_start).
THEOREM RevivedByRequestOnly == Spec => OnlyStartRevives
<1>1. Inv /\ [Next]_vars =>
        [\A i \in DOMAIN services :
          /\ ~Up(services[i]) /\ services[i].nextRestart = "none"
          /\ Up(services'[i])
          => lock \in Client]_vars
  BY NextStays DEF AllStay, Stays
<1>2. QED
  BY <1>1, InvHolds, PTL DEF Spec, OnlyStartRevives

\* A restart that was pending when its instance was stopped is never carried
\* out by the main loop: a stopped instance gets no new child from it.
THEOREM StoppedStaysStopped == Spec => MainLeavesStoppedAlone
<1>1. Inv /\ [Next]_vars =>
        [\A i \in DOMAIN services :
          /\ services[i].stopped
          /\ services'[i].child # NoPid /\ services'[i].child # services[i].child
          => lock \in Client]_vars
  BY NextStays DEF AllStay, Stays
<1>2. QED
  BY <1>1, InvHolds, PTL DEF Spec, MainLeavesStoppedAlone

=============================================================================
