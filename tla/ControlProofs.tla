---------------------------- MODULE ControlProofs ----------------------------
(***************************************************************************)
(* What the control server promises: a Child handle is one of ours, a stop *)
(* is final, a first start stops what conflicts with it, isolate leaves    *)
(* only the target, and a unit that only triggers start runs once.  Each   *)
(* theorem names the configurations for which the code keeps the promise.  *)
(***************************************************************************)
EXTENDS RestartProofs, WellFoundedInduction

(***************************************************************************)
(* The hypotheses.  A pid read from a PIDFile may be stale and somebody    *)
(* else's by now; a daemon without one is known to nobody; triggers and    *)
(* sockets push a second instance of a unit, and a stop ends only the      *)
(* first.                                                                  *)
(***************************************************************************)
NoDaemonFiles == \A u \in Unit : Conf[u].type = "forking" => ~Conf[u].pidfile
NoDaemons == \A u \in Unit : Conf[u].type # "forking"
StartedOnRequest ==
    /\ DOMAIN Socket = {} /\ ExtTargets = <<>>
    /\ \A u \in Unit : Conf[u].onSuccess = <<>> /\ Conf[u].onFailure = <<>>

(***************************************************************************)
(* Who owns a process: the record that has its handle, or the stop that    *)
(* has taken the handle out of the record.                                 *)
(***************************************************************************)
Ours(table, p) == p \in Pid /\ table[p].st # "free" /\ table[p].ppid = NoPid

Record(s) ==
    /\ s.name \in Unit /\ s.tracked = NoPid
    /\ s.waitDaemon => Conf[s.name].type = "forking"

Handle(list, table, i) ==
    list[i].child # NoPid =>
        /\ Ours(table, list[i].child)
        /\ table[list[i].child].unit = list[i].name
        /\ \A j \in DOMAIN list : j # i => list[j].child # list[i].child

Owned(list, st, table) ==
    /\ \A i \in DOMAIN list : Record(list[i]) /\ Handle(list, table, i)
    /\ st.ph \in {"none", "child", "childWait"}
    /\ st.ph # "none" => /\ Ours(table, st.pid) /\ table[st.pid].unit \in Unit
                         /\ \A i \in DOMAIN list : list[i].child # st.pid

\* Every running process has an owner, and a stopped instance has no process.
Attended(list, st, table) ==
    \A p \in Pid : table[p].st = "run" =>
        (\E i \in DOMAIN list : list[i].child = p) \/ (st.ph # "none" /\ st.pid = p)
Settled(list) == \A i \in DOMAIN list : list[i].stopped => list[i].child = NoPid

Held(list, st, table) ==
    /\ Owned(list, st, table)
    /\ NoDaemons => Attended(list, st, table) /\ Settled(list)

Leaving == {"drain", "killed", "off"}
HeldInv == pc \notin Leaving => Held(services, stop, proc)

-----------------------------------------------------------------------------
(* Records.  Less: what happens to a record that gets no new process.        *)

Less(s, r) ==
    /\ r.name = s.name
    /\ r.child \in {s.child, NoPid}
    /\ r.tracked = s.tracked
    /\ r.waitDaemon => s.waitDaemon
    /\ r.stopped => s.stopped \/ r.child = NoPid

\* r is a record around the process p of unit u, or around none.
Fresh(r, u, p) ==
    /\ r.name = u /\ r.child = p /\ Record(r)
    /\ r.stopped => r.child = NoPid

LEMMA LessSelf == ASSUME NEW s PROVE Less(s, s)
BY DEF Less

LEMMA LessChain ==
    ASSUME NEW s, NEW r, NEW q, Less(s, r), Less(r, q)
    PROVE  Less(s, q)
BY DEF Less

LEMMA ScheduleLess ==
    ASSUME NEW s \in Instance, NEW failed, NEW sd
    PROVE  LET r == ScheduleRestart(s, failed, sd)
           IN  r.child = s.child /\ Less(s, r)
<1> DEFINE c == CountExit(s, failed)
<1>1. /\ c \in Instance /\ c.name = s.name /\ c.child = s.child
      /\ c.tracked = s.tracked /\ c.waitDaemon = s.waitDaemon /\ c.stopped = s.stopped
  <2>1. PICK n, f : c = [s EXCEPT !.failCount = n, !.firstFailure = f]
    BY DEF CountExit
  <2>2. c \in Instance
    BY CountExitType
  <2> HIDE DEF c
  <2>3. QED
    BY <2>1, <2>2 DEF Instance
<1>2. ScheduleRestart(s, failed, sd) \in
        {c} \cup {[c EXCEPT !.nextRestart = x] : x \in Timer}
  BY DEF ScheduleRestart, Timer
<1> HIDE DEF c
<1>3. \A x \in Timer : LET r == [c EXCEPT !.nextRestart = x]
                       IN  /\ r.name = c.name /\ r.child = c.child
                           /\ r.tracked = c.tracked /\ r.waitDaemon = c.waitDaemon
                           /\ r.stopped = c.stopped
  BY <1>1 DEF Instance
<1>4. QED
  BY <1>1, <1>2, <1>3 DEF Less

LEMMA ChildExitedLess ==
    ASSUME NEW s \in Instance, NEW failed, NEW sd
    PROVE  LET r == ChildExited(s, failed, sd)
           IN  r.child = NoPid /\ Less(s, r)
<1> DEFINE act == s.active \/ (~failed /\ Conf[s.name].remain)
           e   == [s EXCEPT !.child = NoPid, !.waitReady = FALSE,
                            !.watchdogDeadline = "none", !.active = act]
<1>1. act \in BOOLEAN
  BY DEF Instance
<1> HIDE DEF act
<1>2. /\ e \in Instance /\ e.child = NoPid /\ e.name = s.name /\ e.tracked = s.tracked
      /\ e.waitDaemon = s.waitDaemon /\ e.stopped = s.stopped
  BY <1>1 DEF Instance, Timer, OptPid
<1>3. ChildExited(s, failed, sd)
        = IF e.active THEN e ELSE ScheduleRestart(e, failed, sd)
  BY DEF ChildExited, act
<1> HIDE DEF e
<1>4. Less(s, e)
  BY <1>2 DEF Less
<1>5. /\ ScheduleRestart(e, failed, sd).child = e.child
      /\ Less(e, ScheduleRestart(e, failed, sd))
  BY <1>2, ScheduleLess
<1>6. QED
  BY <1>2, <1>3, <1>4, <1>5, LessChain

LEMMA DaemonTimedOutLess ==
    ASSUME NEW s \in Instance, NEW sd
    PROVE  LET r == DaemonTimedOut(s, sd)
           IN  r.child = NoPid /\ Less(s, r)
<1> DEFINE e == [s EXCEPT !.child = NoPid, !.waitDaemon = FALSE,
                          !.daemonDeadline = "none"]
<1>1. /\ e \in Instance /\ e.child = NoPid /\ e.name = s.name /\ e.tracked = s.tracked
      /\ e.waitDaemon = FALSE /\ e.stopped = s.stopped
  BY DEF Instance, Timer, OptPid
<1>2. DaemonTimedOut(s, sd) = ScheduleRestart(e, TRUE, sd)
  BY Zenon DEF DaemonTimedOut
<1> HIDE DEF e
<1>3. Less(s, e)
  BY <1>1 DEF Less
<1>4. /\ ScheduleRestart(e, TRUE, sd).child = e.child
      /\ Less(e, ScheduleRestart(e, TRUE, sd))
  BY <1>1, ScheduleLess
<1>5. QED
  BY <1>1, <1>2, <1>3, <1>4, LessChain

LEMMA FinishLess ==
    ASSUME NoDaemonFiles, NEW s \in Instance, Record(s), s.waitDaemon, NEW p
    PROVE  LET r == FinishDaemonize(s, p)
           IN  r.child = NoPid /\ Less(s, r)
<1>1. ~Conf[s.name].pidfile
  BY DEF NoDaemonFiles, Record, Instance
<1>2. FinishDaemonize(s, p) = [s EXCEPT !.child = NoPid, !.waitDaemon = FALSE,
                                        !.daemonDeadline = "none", !.tracked = NoPid]
  BY <1>1 DEF FinishDaemonize
<1> DEFINE r == [s EXCEPT !.child = NoPid, !.waitDaemon = FALSE,
                          !.daemonDeadline = "none", !.tracked = NoPid]
<1>3. /\ r.child = NoPid /\ r.name = s.name /\ r.tracked = NoPid
      /\ r.waitDaemon = FALSE /\ r.stopped = s.stopped
  BY DEF Instance
<1> HIDE DEF r
<1>4. QED
  BY <1>2, <1>3 DEF Less, Record, r

LEMMA RespawnedFresh ==
    ASSUME NEW s \in Instance, Record(s), ~s.stopped, NEW p \in OptPid
    PROVE  Fresh(Respawned(s, p), s.name, p)
<1> DEFINE r == [s EXCEPT !.tracked = NoPid, !.child = p,
                          !.waitReady = Conf[s.name].type = "notify",
                          !.watchdogDeadline = "none"]
           d == IF p # NoPid THEN "armed" ELSE "none"
           q == [r EXCEPT !.waitDaemon = p # NoPid, !.daemonDeadline = d]
<1>1. /\ r \in Instance /\ r.name = s.name /\ r.child = p /\ r.tracked = NoPid
      /\ r.waitDaemon = s.waitDaemon /\ r.stopped = s.stopped
  BY DEF Instance, Timer, OptPid
<1>2. Respawned(s, p) = IF Conf[s.name].type # "forking" THEN r ELSE q
  BY DEF Respawned
<1> HIDE DEF r, d
<1>3. q.name = s.name /\ q.child = p /\ q.tracked = NoPid /\ q.stopped = s.stopped
  BY <1>1 DEF Instance
<1> HIDE DEF q
<1>4. QED
  BY <1>1, <1>2, <1>3 DEF Fresh, Record

LEMMA StartedFresh ==
    ASSUME NEW u \in Unit, NEW p \in OptPid
    PROVE  /\ Fresh(NewInstance(u, p), u, p) /\ Fresh(Started(u, p), u, p)
           /\ Fresh(OneshotInstance(u), u, NoPid)
<1>1. Fresh(NewInstance(u, p), u, p)
  BY DEF NewInstance, Fresh, Record
<1>2. Fresh(OneshotInstance(u), u, NoPid)
  BY DEF NewInstance, OneshotInstance, Fresh, Record
<1>3. Fresh(Started(u, p), u, p)
  <2> DEFINE s == NewInstance(u, p)
             q == [s EXCEPT !.waitDaemon = TRUE, !.daemonDeadline = "armed"]
  <2>1. s \in Instance /\ s.name = u /\ s.child = p /\ s.tracked = NoPid /\ s.stopped = FALSE
    BY NewInstanceType DEF NewInstance
  <2>2. Started(u, p) = IF Conf[u].type = "forking" THEN q ELSE s
    BY DEF Started
  <2> HIDE DEF s
  <2>3. q.name = u /\ q.child = p /\ q.tracked = NoPid /\ q.stopped = FALSE
    BY <2>1 DEF Instance
  <2> HIDE DEF q
  <2>4. QED
    BY <1>1, <2>2, <2>3 DEF Fresh, Record, s
<1>4. QED
  BY <1>1, <1>2, <1>3

-----------------------------------------------------------------------------
(* Process tables.  Kept: nothing but the pids of F is given up, and nobody   *)
(* begins to run.                                                             *)

Kept(t, r, F) ==
    \A p \in Pid :
        /\ p \notin F /\ t[p].st # "free" =>
              /\ r[p].st # "free" /\ r[p].unit = t[p].unit
              /\ t[p].ppid = NoPid => r[p].ppid = NoPid
        /\ r[p].st = "run" => t[p].st = "run" /\ p \notin F

LEMMA KeptSelf == ASSUME NEW t PROVE Kept(t, t, {})
BY DEF Kept

LEMMA KeptChain ==
    ASSUME NEW t, NEW r, NEW q, Kept(t, r, {}), Kept(r, q, {})
    PROVE  Kept(t, q, {})
BY DEF Kept

LEMMA SignalledKept ==
    ASSUME NEW t \in [Pid -> Process], NEW S, NEW sig
    PROVE  Kept(t, Signalled(t, S, sig), {})
<1> SUFFICES ASSUME NEW p \in Pid
             PROVE  LET r == Signalled(t, S, sig)[p]
                    IN  r.st = t[p].st /\ r.unit = t[p].unit /\ r.ppid = t[p].ppid
  BY DEF Kept
<1> DEFINE x == t[p]
           y == [x EXCEPT !.sig = sig]
<1>1. x \in Process
  OBVIOUS
<1>2. Signalled(t, S, sig)[p] \in {x, y}
  BY DEF Signalled
<1> HIDE DEF x
<1>3. y.st = x.st /\ y.unit = x.unit /\ y.ppid = x.ppid
  BY <1>1 DEF Process
<1> HIDE DEF y
<1>4. QED
  BY <1>2, <1>3 DEF x

LEMMA ReapedKept ==
    ASSUME proc \in [Pid -> Process], NEW p \in Pid
    PROVE  Kept(proc, Reaped(p), {p})
BY DEF Kept, Reaped, FreeProc

\* The children of p are reparented, and p exits (e) or is killed and collected.
LEMMA ReparentedKept ==
    ASSUME proc \in [Pid -> Process], NEW p \in Pid, NEW e, NEW F,
           e.st # "run",
           p \in F \/ (e.st # "free" /\ e.unit = proc[p].unit /\ e.ppid = proc[p].ppid),
           F \subseteq {p}
    PROVE  Kept(proc, [q \in Pid |->
                 IF q = p THEN e
                 ELSE IF proc[q].ppid = p THEN [proc[q] EXCEPT !.ppid = NoPid]
                 ELSE proc[q]], F)
<1> DEFINE r == [q \in Pid |->
                 IF q = p THEN e
                 ELSE IF proc[q].ppid = p THEN [proc[q] EXCEPT !.ppid = NoPid]
                 ELSE proc[q]]
<1>1. ASSUME NEW q \in Pid, q # p
      PROVE  /\ r[q].st = proc[q].st /\ r[q].unit = proc[q].unit
             /\ proc[q].ppid = NoPid => r[q].ppid = NoPid
  <2> DEFINE x == proc[q]
             y == [x EXCEPT !.ppid = NoPid]
  <2>1. x \in Process
    OBVIOUS
  <2>2. r[q] \in {x, y}
    BY <1>1
  <2> HIDE DEF x, r
  <2>3. y.st = x.st /\ y.unit = x.unit /\ y.ppid = NoPid
    BY <2>1 DEF Process
  <2> HIDE DEF y
  <2>4. QED
    BY <2>2, <2>3 DEF x
<1>2. r[p] = e
  OBVIOUS
<1> HIDE DEF r
<1>3. QED
  BY <1>1, <1>2 DEF Kept, r

-----------------------------------------------------------------------------
(* Shrink: records lose their processes, a stop takes one over or ends.      *)

LEMMA Shrink ==
    ASSUME NEW list, NEW list2, NEW st, NEW st2, NEW t, NEW t2, NEW F,
           Held(list, st, t), DOMAIN list2 = DOMAIN list,
           \A i \in DOMAIN list : Less(list[i], list2[i]),
           Kept(t, t2, F),
           \A i \in DOMAIN list : list2[i].child # NoPid => list2[i].child \notin F,
           st2.ph \in {"none", "child", "childWait"},
           st2.ph # "none" =>
             /\ st2.pid \notin F
             /\ \/ st.ph # "none" /\ st2.pid = st.pid
                \/ /\ st.ph = "none"
                   /\ \E k \in DOMAIN list : /\ list[k].child = st2.pid
                                            /\ list[k].child # NoPid
                                            /\ list2[k].child = NoPid,
           NoDaemons => \A i \in DOMAIN list :
             list2[i].child # list[i].child =>
               t2[list[i].child].st # "run" \/ (st2.ph # "none" /\ st2.pid = list[i].child),
           NoDaemons /\ st.ph # "none" =>
               t2[st.pid].st # "run" \/ (st2.ph # "none" /\ st2.pid = st.pid)
    PROVE  Held(list2, st2, t2)
<1>1. ASSUME NEW i \in DOMAIN list2
      PROVE  Record(list2[i]) /\ Handle(list2, t2, i)
  <2>1. Record(list2[i])
    BY DEF Held, Owned, Record, Less
  <2>2. ASSUME list2[i].child # NoPid
        PROVE  /\ Ours(t2, list2[i].child) /\ t2[list2[i].child].unit = list2[i].name
               /\ \A j \in DOMAIN list2 : j # i => list2[j].child # list2[i].child
    <3>1. /\ list2[i].child = list[i].child /\ list2[i].name = list[i].name
          /\ list[i].child # NoPid /\ list[i].child \notin F
          /\ Handle(list, t, i) /\ \A j \in DOMAIN list : list2[j].child \in {list[j].child, NoPid}
      BY <2>2 DEF Less, Held, Owned
    <3>2. QED
      BY <3>1 DEF Handle, Ours, Kept
  <2>3. QED
    BY <2>1, <2>2 DEF Handle
<1>2. ASSUME st2.ph # "none"
      PROVE  /\ Ours(t2, st2.pid) /\ t2[st2.pid].unit \in Unit
             /\ \A i \in DOMAIN list2 : list2[i].child # st2.pid
  <2>1. \A i \in DOMAIN list : /\ list2[i].child \in {list[i].child, NoPid}
                               /\ Record(list[i]) /\ Handle(list, t, i)
    BY DEF Less, Held, Owned
  <2>2. CASE st.ph # "none" /\ st2.pid = st.pid
    <3>1. /\ Ours(t, st.pid) /\ t[st.pid].unit \in Unit
          /\ \A i \in DOMAIN list : list[i].child # st.pid
      BY <2>2 DEF Held, Owned
    <3>2. st.pid # NoPid
      BY <3>1, NoPidAssumption DEF Ours
    <3>3. QED
      BY <1>2, <2>1, <2>2, <3>1, <3>2 DEF Ours, Kept
  <2>3. ASSUME NEW k \in DOMAIN list, list[k].child = st2.pid, list[k].child # NoPid,
               list2[k].child = NoPid
        PROVE  /\ Ours(t2, st2.pid) /\ t2[st2.pid].unit \in Unit
               /\ \A i \in DOMAIN list2 : list2[i].child # st2.pid
    BY <1>2, <2>1, <2>3 DEF Handle, Record, Ours, Kept
  <2>4. QED
    BY <1>2, <2>2, <2>3
<1>3. ASSUME NoDaemons PROVE Attended(list2, st2, t2) /\ Settled(list2)
  <2>1. Attended(list, st, t) /\ Settled(list)
    BY <1>3 DEF Held
  <2>2. Settled(list2)
    BY <2>1 DEF Settled, Less
  <2>3. ASSUME NEW p \in Pid, t2[p].st = "run"
        PROVE  (\E i \in DOMAIN list2 : list2[i].child = p) \/ (st2.ph # "none" /\ st2.pid = p)
    <3>1. t[p].st = "run"
      BY <2>3 DEF Kept
    <3>2. CASE st.ph # "none" /\ st.pid = p
      BY <1>3, <2>3, <3>2
    <3>3. ASSUME NEW i \in DOMAIN list, list[i].child = p
          PROVE  (\E k \in DOMAIN list2 : list2[k].child = p) \/ (st2.ph # "none" /\ st2.pid = p)
      BY <1>3, <2>3, <3>3
    <3>4. QED
      BY <2>1, <3>1, <3>2, <3>3 DEF Attended
  <2>4. QED
    BY <2>2, <2>3 DEF Attended
<1>4. QED
  BY <1>1, <1>2, <1>3 DEF Held, Owned

\* Grow: a record without a process, or a new one, gets the process p or none.
LEMMA Grow ==
    ASSUME NEW list, NEW list2, NEW t, NEW u \in Unit, NEW p, NEW k \in DOMAIN list2,
           t \in [Pid -> Process],
           Held(list, NoStop, t), p \in FreePids(t) \cup {NoPid},
           DOMAIN list2 = DOMAIN list \cup {k},
           \A i \in DOMAIN list : i # k => list2[i] = list[i],
           k \in DOMAIN list => list[k].child = NoPid,
           Fresh(list2[k], u, p)
    PROVE  Held(list2, NoStop, Spawned(t, u, p))
<1> DEFINE t2 == Spawned(t, u, p)
<1>1. NoPid \notin Pid /\ NoStop.ph = "none"
  BY NoPidAssumption DEF NoStop
<1>2. p # NoPid => /\ p \in Pid /\ t[p].st = "free" /\ t2[p].st = "run" /\ t2[p].unit = u
                   /\ t2[p].ppid = NoPid
  BY DEF FreePids, Spawned, NewProc
<1>3. \A q \in Pid : q # p => t2[q] = t[q]
  BY DEF Spawned
<1> HIDE DEF t2
<1>4. \A i \in DOMAIN list : Record(list[i]) /\ Handle(list, t, i)
  BY DEF Held, Owned
<1>5. \A i \in DOMAIN list : list[i].child # NoPid => list[i].child \in Pid /\ list[i].child # p
  BY <1>2, <1>4 DEF Handle, Ours
<1>6. list2[k].child = p /\ list2[k].name = u /\ Record(list2[k])
  BY DEF Fresh
<1>7. ASSUME NEW i \in DOMAIN list2
      PROVE  Record(list2[i]) /\ Handle(list2, t2, i)
  <2>1. CASE i = k
    <3>1. \A j \in DOMAIN list2 : j # k /\ p # NoPid => list2[j].child # p
      BY <1>5
    <3>2. QED
      BY <1>2, <1>6, <2>1, <3>1 DEF Handle, Ours
  <2>2. CASE i # k
    <3>1. i \in DOMAIN list /\ list2[i] = list[i]
      BY <2>2
    <3>2. \A j \in DOMAIN list2 : j # i /\ list[i].child # NoPid => list2[j].child # list[i].child
      BY <1>4, <1>5, <1>6, <3>1 DEF Handle
    <3>3. QED
      BY <1>3, <1>4, <1>5, <3>1, <3>2 DEF Handle, Ours
  <2>3. QED
    BY <2>1, <2>2
<1>8. ASSUME NoDaemons PROVE Attended(list2, NoStop, t2) /\ Settled(list2)
  <2>1. Attended(list, NoStop, t) /\ Settled(list)
    BY <1>8 DEF Held
  <2>2. Settled(list2)
    BY <2>1 DEF Settled, Fresh
  <2>3. ASSUME NEW q \in Pid, t2[q].st = "run" PROVE \E i \in DOMAIN list2 : list2[i].child = q
    <3>1. CASE q = p
      BY <1>6, <3>1
    <3>2. CASE q # p
      <4>1. PICK i \in DOMAIN list : list[i].child = q
        BY <1>1, <1>3, <2>1, <2>3, <3>2 DEF Attended
      <4>2. i # k
        BY <1>1, <4>1
      <4>3. QED
        BY <4>1, <4>2
    <3>3. QED
      BY <3>1, <3>2
  <2>4. QED
    BY <2>2, <2>3 DEF Attended
<1>9. QED
  BY <1>1, <1>7, <1>8 DEF Held, Owned, t2

-----------------------------------------------------------------------------
(* The steps.                                                                *)

\* Records that keep their processes, in a table that keeps its own.
LEMMA Steady ==
    ASSUME NEW list, NEW list2, NEW st, NEW t, NEW t2, Held(list, st, t),
           DOMAIN list2 = DOMAIN list,
           \A i \in DOMAIN list : Less(list[i], list2[i]) /\ list2[i].child = list[i].child,
           Kept(t, t2, {})
    PROVE  Held(list2, st, t2)
<1>1. st.ph \in {"none", "child", "childWait"}
  BY DEF Held, Owned
<1>2. NoDaemons /\ st.ph # "none" => t2[st.pid].st # "run" \/ (st.ph # "none" /\ st.pid = st.pid)
  OBVIOUS
<1>3. QED
  BY <1>1, <1>2, Shrink

\* The record k has lost its process, which the table has given up.
LEMMA Lost ==
    ASSUME NEW list, NEW t, NEW t2, NEW k \in DOMAIN list, NEW x, Held(list, NoStop, t),
           Less(list[k], x), x.child = NoPid, list[k].child # NoPid,
           Kept(t, t2, {list[k].child})
    PROVE  Held([list EXCEPT ![k] = x], NoStop, t2)
<1> DEFINE list2 == [list EXCEPT ![k] = x]
           c == list[k].child
<1>1. DOMAIN list2 = DOMAIN list /\ list2[k] = x /\ \A i \in DOMAIN list : i # k => list2[i] = list[i]
  OBVIOUS
<1> HIDE DEF list2
<1>2. Handle(list, t, k) /\ c \in Pid
  BY DEF Held, Owned, Handle, Ours
<1>3. \A i \in DOMAIN list : Less(list[i], list2[i])
  BY <1>1, LessSelf
<1>4. \A i \in DOMAIN list : list2[i].child # NoPid => list2[i].child \notin {c}
  BY <1>1, <1>2 DEF Handle
<1>5. t2[c].st # "run"
  BY <1>2 DEF Kept
<1>6. \A i \in DOMAIN list : list2[i].child # list[i].child => t2[list[i].child].st # "run"
  BY <1>1, <1>5
<1>7. NoStop.ph = "none"
  BY DEF NoStop
<1>8. QED
  BY <1>1, <1>3, <1>4, <1>6, <1>7, Shrink DEF list2

LEMMA Idle ==
    ASSUME Inv, pc \in {"scan", "trig", "timers", "ext", "wdog", "reap", "flag", "sock"}
    PROVE  stop = NoStop
BY ManagerAssumption DEF Inv, TypeOK, LockDiscipline

LEMMA OwnChild ==
    ASSUME Held(services, stop, proc), NEW i \in DOMAIN services, services[i].child # NoPid
    PROVE  OurChild(services[i].child) /\ services[i].child \in Pid
BY DEF Held, Owned, Handle, Ours, OurChild

LEMMA MainScanHeld ==
    ASSUME NoDaemonFiles, Inv, AllGood(services), Held(services, stop, proc), MainScan
    PROVE  Held(services', stop', proc')
<1> DEFINE s == services[idx]
           c == s.child
<1>1. /\ s \in Instance /\ Good(s) /\ idx \in DOMAIN services /\ services \in Seq(Instance)
      /\ proc \in [Pid -> Process] /\ shutdown \in BOOLEAN
  BY Typed DEF MainScan, AllGood
<1>2. stop = NoStop /\ stop' = NoStop
  BY Idle DEF MainScan, jobVars
<1>3. Record(s) /\ (c # NoPid => c \in Pid /\ OurChild(c))
  BY <1>1, OwnChild DEF Held, Owned
<1>4. Held(services, NoStop, proc)
  BY <1>2
<1>5. c # NoPid => Kept(proc, Reaped(c), {c})
  BY <1>1, <1>3, ReapedKept
<1>6. CASE ScanDaemonizing(s)
  <2>1. CASE /\ c # NoPid /\ (Reapable(c) \/ ~OurChild(c))
             /\ services' = [services EXCEPT ![idx] = FinishDaemonize(s, pidfile[s.name])]
             /\ proc' = IF Reapable(c) THEN Reaped(c) ELSE proc
    <3> DEFINE x == FinishDaemonize(s, pidfile[s.name])
    <3>1. x.child = NoPid /\ Less(s, x)
      BY <1>1, <1>3, <1>6, FinishLess DEF ScanDaemonizing
    <3>2. proc' = Reaped(c) /\ services' = [services EXCEPT ![idx] = x]
      BY <1>3, <2>1
    <3> HIDE DEF x
    <3>3. Held([services EXCEPT ![idx] = x], NoStop, Reaped(c))
      BY <1>1, <1>4, <1>5, <2>1, <3>1, Lost
    <3>4. QED
      BY <1>2, <3>2, <3>3
  <2>2. CASE /\ c # NoPid
             /\ services' = [services EXCEPT ![idx] = DaemonTimedOut(s, shutdown)]
             /\ proc' = [q \in Pid |->
                   IF q = c THEN FreeProc
                   ELSE IF proc[q].ppid = c THEN [proc[q] EXCEPT !.ppid = NoPid]
                   ELSE proc[q]]
    <3> DEFINE x == DaemonTimedOut(s, shutdown)
    <3>1. x.child = NoPid /\ Less(s, x)
      BY <1>1, DaemonTimedOutLess
    <3>2. FreeProc.st # "run" /\ c \in Pid /\ {c} \subseteq {c}
      BY <1>3, <2>2 DEF FreeProc
    <3>3. Kept(proc, proc', {c})
      BY <1>1, <2>2, <3>2, ReparentedKept
    <3>4. services' = [services EXCEPT ![idx] = x]
      BY <2>2
    <3> HIDE DEF x
    <3>5. Held([services EXCEPT ![idx] = x], NoStop, proc')
      BY <1>1, <1>4, <2>2, <3>1, <3>3, Lost
    <3>6. QED
      BY <1>2, <3>4, <3>5
  <2>3. CASE UNCHANGED <<services, proc>>
    BY <1>2, <1>4, <2>3
  <2>4. QED
    BY <1>6, <2>1, <2>2, <2>3 DEF ScanDaemonizing
<1>7. CASE ScanRunning(s)
  <2> DEFINE r    == ScanExit(s).inst
             tb   == ScanExit(s).table
             list == [services EXCEPT ![idx] = r]
  <2>1. r \in Instance /\ r.name = s.name /\ tb \in [Pid -> Process]
    BY <1>1, ScanExitType
  <2>2. /\ Held(list, NoStop, tb) /\ Less(s, r)
        /\ r = s \/ r.child = NoPid
    <3> DEFINE failed == OurChild(c) /\ ~ExitIsSuccess(proc[c].code)
               x      == ChildExited(s, failed, shutdown)
    <3>1. CASE r = s /\ tb = proc
      <4>1. list = services
        BY <1>1, <3>1
      <4>2. QED
        BY <1>4, <3>1, <4>1, LessSelf
    <3>2. CASE c # NoPid /\ r = x /\ tb = Reaped(c)
      <4>1. x.child = NoPid /\ Less(s, x)
        BY <1>1, ChildExitedLess
      <4> HIDE DEF x, r, tb
      <4>2. Held([services EXCEPT ![idx] = x], NoStop, Reaped(c))
        BY <1>1, <1>4, <1>5, <3>2, <4>1, Lost
      <4>3. QED
        BY <3>2, <4>1, <4>2
    <3>3. (r = s /\ tb = proc) \/ (c # NoPid /\ r = x /\ tb = Reaped(c))
      BY <1>3 DEF ScanExit
    <3>4. QED
      BY <3>1, <3>2, <3>3
  <2>3. CASE ~RestartDue(r)
    <3>1. services' = list /\ proc' = tb
      BY <1>7, <2>3 DEF ScanRunning
    <3>2. QED
      BY <1>2, <2>2, <3>1
  <2>4. CASE RestartDue(r)
    <3> DEFINE q == [r EXCEPT !.nextRestart = "none"]
    <3>1. PICK p \in SpawnResults(tb, s.name) :
             /\ services' = [services EXCEPT ![idx] = Respawned(q, p)]
             /\ proc' = Spawned(tb, s.name, p)
      BY <1>7, <2>4 DEF ScanRunning
    <3>2. r.child = NoPid /\ ~r.stopped /\ Record(r)
      <4>1. r.nextRestart = "due" /\ ~r.stopped
        BY <2>4 DEF RestartDue
      <4> HIDE DEF r
      <4>2. QED
        BY <1>1, <1>3, <2>2, <4>1 DEF Good, Up, Record, Less
    <3> HIDE DEF r, tb
    <3>3. /\ q \in Instance /\ q.name = r.name /\ q.tracked = r.tracked
          /\ q.waitDaemon = r.waitDaemon /\ q.stopped = r.stopped
      BY <2>1 DEF Instance, Timer
    <3>4. p \in FreePids(tb) \cup {NoPid} /\ p \in OptPid
      BY <2>1, SpawnedType DEF SpawnResults, FreePids, OptPid
    <3> HIDE DEF q
    <3>5. Fresh(Respawned(q, p), s.name, p)
      <4>1. Record(q) /\ ~q.stopped
        BY <3>2, <3>3 DEF Record
      <4>2. QED
        BY <2>1, <3>3, <3>4, <4>1, RespawnedFresh
    <3> DEFINE y == Respawned(q, p)
               list2 == [services EXCEPT ![idx] = y]
    <3> HIDE DEF y
    <3>6. /\ DOMAIN list2 = DOMAIN list \cup {idx} /\ idx \in DOMAIN list2
          /\ \A i \in DOMAIN list : i # idx => list2[i] = list[i]
          /\ list2[idx] = y /\ list[idx].child = NoPid
      BY <1>1, <3>2
    <3>7. s.name \in Unit
      BY <1>1 DEF Instance
    <3>8. Held(list2, NoStop, Spawned(tb, s.name, p))
      <4> HIDE DEF list, list2
      <4>1. QED
        BY <2>1, <2>2, <3>4, <3>5, <3>6, <3>7, Grow DEF y
    <3>9. QED
      BY <1>2, <3>1, <3>8 DEF y
  <2>5. QED
    BY <2>3, <2>4
<1>8. QED
  BY <1>6, <1>7 DEF MainScan

\* A new record at the end of the list.
LEMMA Pushed ==
    ASSUME services \in Seq(Instance), proc \in [Pid -> Process],
           Held(services, NoStop, proc), NEW u \in Unit, NEW x \in Instance,
           NEW p \in FreePids(proc) \cup {NoPid}, Fresh(x, u, p)
    PROVE  Held(Append(services, x), NoStop, Spawned(proc, u, p))
<1> DEFINE k == Len(services) + 1
           list == Append(services, x)
<1>1. Len(services) \in Nat /\ DOMAIN services = 1..Len(services)
  OBVIOUS
<1>2. /\ DOMAIN list = 1..k /\ list[k] = x
      /\ \A i \in DOMAIN services : i # k => list[i] = services[i]
  BY <1>1, AppendProperties
<1>3. DOMAIN list = DOMAIN services \cup {k} /\ k \in DOMAIN list /\ k \notin DOMAIN services
  BY <1>1, <1>2
<1> HIDE DEF k, list
<1>4. Fresh(list[k], u, p) /\ (k \in DOMAIN services => services[k].child = NoPid)
  BY <1>2, <1>3
<1>5. Held(list, NoStop, Spawned(proc, u, p))
  BY <1>2, <1>3, <1>4, Grow
<1>6. QED
  BY <1>5 DEF list

LEMMA MainReapHeld ==
    ASSUME NoDaemonFiles, Inv, Held(services, stop, proc), NEW p \in Pid, MainReap(p)
    PROVE  Held(services', stop', proc')
<1>1. /\ services \in Seq(Instance) /\ proc \in [Pid -> Process]
      /\ \A i \in DOMAIN services : services[i] \in Instance
      /\ DOMAIN services \subseteq Nat
  BY Typed
<1>2. stop = NoStop /\ stop' = NoStop
  BY Idle DEF MainReap, jobVars
<1>3. Kept(proc, proc', {p}) /\ DOMAIN services' = DOMAIN services
  BY <1>1, ReapedKept DEF MainReap
<1>4. ASSUME NEW i \in DOMAIN services
      PROVE  /\ Less(services[i], services'[i]) /\ services'[i].child # p
             /\ services'[i].child # services[i].child => services[i].child = p
  <2>1. Record(services[i]) /\ Handle(services, proc, i)
    BY DEF Held, Owned
  <2>2. p # NoPid /\ services[i].tracked # p
    BY <2>1, NoPidAssumption DEF Record
  <2>3. CASE services[i].child # p
    <3>1. i \notin Owner(p)
      BY <2>2, <2>3 DEF Owner, Owners
    <3>2. QED
      BY <2>3, <3>1, LessSelf DEF MainReap
  <2>4. CASE services[i].child = p
    <3>1. \A j \in DOMAIN services : services[j].tracked = NoPid
      BY DEF Held, Owned, Record
    <3>2. \A j \in Owners(p) : j = i
      BY <2>1, <2>2, <2>4, <3>1 DEF Owners, Handle
    <3>3. i \in Owner(p)
      BY <1>1, <2>4, <3>2 DEF Owner, Owners
    <3> DEFINE s == services[i]
               x == OrphanReaped(s, p)
    <3>4. services'[i] = x
      BY <3>3 DEF MainReap
    <3>5. x.child = NoPid /\ Less(s, x)
      <4>1. CASE s.waitDaemon
        <5>1. x = FinishDaemonize(s, pidfile[s.name])
          BY <2>2, <4>1 DEF OrphanReaped
        <5>2. QED
          BY <1>1, <2>1, <4>1, <5>1, FinishLess
      <4>2. CASE ~s.waitDaemon
        <5> DEFINE y == [s EXCEPT !.child = NoPid]
        <5>1. x = y /\ s \in Instance
          BY <1>1, <2>2, <4>2 DEF OrphanReaped
        <5> HIDE DEF s, x
        <5>2. /\ y.name = s.name /\ y.child = NoPid /\ y.tracked = s.tracked
              /\ y.waitDaemon = s.waitDaemon
          BY <5>1 DEF Instance
        <5>3. QED
          BY <5>1, <5>2 DEF Less
      <4>3. QED
        BY <4>1, <4>2
    <3>6. QED
      BY <2>2, <2>4, <3>4, <3>5
  <2>5. QED
    BY <2>3, <2>4
<1>5. proc'[p].st # "run"
  BY <1>3 DEF Kept
<1>6. NoStop.ph = "none" /\ Held(services, NoStop, proc)
  BY <1>2 DEF NoStop
<1>7. \A i \in DOMAIN services :
          /\ services'[i].child # NoPid => services'[i].child \notin {p}
          /\ services'[i].child # services[i].child => proc'[services[i].child].st # "run"
  BY <1>4, <1>5
<1>8. Held(services', NoStop, proc')
  BY <1>3, <1>4, <1>6, <1>7, Shrink
<1>9. QED
  BY <1>2, <1>8

LEMMA MainWatchdogHeld ==
    ASSUME Inv, Held(services, stop, proc), MainWatchdog
    PROVE  Held(services', stop', proc')
<1>1. DOMAIN services' = DOMAIN services /\ stop' = stop /\ proc \in [Pid -> Process]
  BY Typed DEF MainWatchdog, jobVars
<1>2. \E S : proc' = Signalled(proc, S, "term")
  BY DEF MainWatchdog
<1>3. Kept(proc, proc', {})
  BY <1>1, <1>2, SignalledKept
<1>4. ASSUME NEW i \in DOMAIN services
      PROVE  Less(services[i], services'[i]) /\ services'[i].child = services[i].child
  <2> DEFINE s == services[i]
             r == [s EXCEPT !.watchdogDeadline = "none"]
  <2>1. s \in Instance /\ services'[i] \in {s, r}
    BY Typed DEF MainWatchdog
  <2> HIDE DEF s
  <2>2. /\ r.name = s.name /\ r.child = s.child /\ r.tracked = s.tracked
        /\ r.waitDaemon = s.waitDaemon /\ r.stopped = s.stopped
    BY <2>1 DEF Instance
  <2> HIDE DEF r
  <2>3. QED
    BY <2>1, <2>2 DEF Less, s
<1>5. Held(services', stop, proc')
  BY <1>1, <1>3, <1>4, Steady
<1>6. QED
  BY <1>1, <1>5

LEMMA MainNotifyHeld ==
    ASSUME Inv, Held(services, stop, proc), MainNotify
    PROVE  Held(services', stop', proc')
<1>1. proc' = proc /\ stop' = stop /\ Kept(proc, proc, {})
  BY KeptSelf DEF MainNotify, jobVars, osVars
<1>2. CASE services' = services
  BY <1>1, <1>2
<1>3. CASE services' = [i \in DOMAIN services |-> Notified(services[i])]
  <2>1. ASSUME NEW i \in DOMAIN services
        PROVE  Less(services[i], services'[i]) /\ services'[i].child = services[i].child
    <3> DEFINE s == services[i]
               r == Notified(s)
    <3>1. s \in Instance /\ services'[i] = r
      BY <1>3, Typed
    <3> HIDE DEF s
    <3>2. /\ r.name = s.name /\ r.child = s.child /\ r.tracked = s.tracked
          /\ r.waitDaemon = s.waitDaemon /\ r.stopped = s.stopped
      BY <3>1 DEF Notified, Instance
    <3> HIDE DEF r
    <3>3. QED
      BY <3>1, <3>2 DEF Less, s
  <2>2. DOMAIN services' = DOMAIN services
    BY <1>3
  <2>3. Held(services', stop, proc)
    BY <1>1, <2>1, <2>2, Steady
  <2>4. QED
    BY <1>1, <2>3
<1>4. QED
  BY <1>2, <1>3 DEF MainNotify

\* A daemon that a failed ExecStartPost leaves behind belongs to nobody; it is
\* no instance's child.
LEMMA LeftBehindHeld ==
    ASSUME proc \in [Pid -> Process], NEW u \in Unit, StartPostFails(u),
           Held(services, NoStop, proc)
    PROVE  Held(services', NoStop, proc')
<1>1. PICK d \in FreePids(proc) : proc' = [proc EXCEPT ![d] = NewProc(u, NoPid, TRUE)]
  BY DEF StartPostFails
<1>2. services' = services /\ ~NoDaemons
  BY DEF StartPostFails, NoDaemons
<1>3. \A q : Ours(proc, q) => Ours(proc', q) /\ proc'[q] = proc[q]
  BY <1>1 DEF FreePids, Ours
<1>4. QED
  BY <1>2, <1>3 DEF Held, Owned, Handle, NoStop

LEMMA MainLoopHeld ==
    ASSUME NoDaemonFiles, Inv, AllGood(services), Held(services, stop, proc), MainLoop
    PROVE  Held(services', stop', proc')
<1> USE DEF mainVars, osVars, evVars, jobVars
<1>1. CASE MainScan
  BY <1>1, MainScanHeld
<1>2. services \in Seq(Instance) /\ proc \in [Pid -> Process]
  BY Typed
<1>3. CASE MainTrigger
  <2> DEFINE u == Head(trig)
  <2>1. u \in Unit
    BY <1>3, HeadTailProperties DEF Inv, TypeOK, MainTrigger
  <2>2. \/ services' = services /\ proc' = proc
        \/ services' = Append(services, OneshotInstance(u)) /\ proc' = proc
        \/ \E p \in FreePids(proc) : /\ services' = Append(services, Started(u, p))
                                     /\ proc' = Spawned(proc, u, p)
        \/ StartPostFails(u)
    BY <1>3 DEF MainTrigger, StartYieldsNothing, StartYieldsInstance
  <2>3. stop = NoStop /\ stop' = NoStop /\ Held(services, NoStop, proc)
    BY <1>3, Idle DEF MainTrigger
  <2> HIDE DEF u
  <2>4. CASE services' = Append(services, OneshotInstance(u)) /\ proc' = proc
    <3>1. OneshotInstance(u) \in Instance /\ Fresh(OneshotInstance(u), u, NoPid)
      BY <2>1, OneshotType, StartedFresh DEF OptPid
    <3>2. Held(Append(services, OneshotInstance(u)), NoStop, Spawned(proc, u, NoPid))
      BY <1>2, <2>1, <2>3, <3>1, Pushed
    <3>3. QED
      BY <2>3, <2>4, <3>2 DEF Spawned
  <2>5. ASSUME NEW p \in FreePids(proc), services' = Append(services, Started(u, p)),
               proc' = Spawned(proc, u, p)
        PROVE  Held(services', stop', proc')
    <3>1. p \in OptPid
      BY DEF FreePids, OptPid
    <3>2. Started(u, p) \in Instance /\ Fresh(Started(u, p), u, p)
      BY <2>1, <3>1, StartedType, StartedFresh
    <3>3. Held(Append(services, Started(u, p)), NoStop, Spawned(proc, u, p))
      BY <1>2, <2>1, <2>3, <3>2, Pushed
    <3>4. QED
      BY <2>3, <2>5, <3>3
  <2>6. CASE StartPostFails(u)
    BY <1>2, <2>1, <2>3, <2>6, LeftBehindHeld
  <2>7. QED
    BY <2>2, <2>3, <2>4, <2>5, <2>6
<1>4. CASE MainWatchdog
  BY <1>4, MainWatchdogHeld
<1>5. ASSUME NEW p \in Pid, MainReap(p) PROVE Held(services', stop', proc')
  BY <1>5, MainReapHeld
<1>6. ASSUME NEW u \in DOMAIN Socket, MainSocket(u) PROVE Held(services', stop', proc')
  <2>1. u \in Unit
    BY ManagerAssumption
  <2>2. PICK p \in SpawnResults(proc, u) :
           /\ services' = IF p = NoPid THEN services ELSE Append(services, NewInstance(u, p))
           /\ proc' = Spawned(proc, u, p)
    BY <1>6 DEF MainSocket
  <2>3. stop = NoStop /\ stop' = NoStop /\ Held(services, NoStop, proc)
    BY <1>6, Idle DEF MainSocket
  <2>4. p \in OptPid /\ p \in FreePids(proc) \cup {NoPid}
    BY <1>2, <2>1, SpawnedType DEF SpawnResults
  <2>5. NewInstance(u, p) \in Instance /\ Fresh(NewInstance(u, p), u, p)
    BY <2>1, <2>4, NewInstanceType, StartedFresh
  <2>6. Held(Append(services, NewInstance(u, p)), NoStop, Spawned(proc, u, p))
    BY <1>2, <2>1, <2>3, <2>4, <2>5, Pushed
  <2>7. QED
    BY <2>2, <2>3, <2>6 DEF Spawned
<1>7. CASE MainNotify
  BY <1>7, MainNotifyHeld
<1>8. CASE \/ MainTryLock \/ MainScanEnd \/ MainTriggerEnd \/ MainTimer
           \/ MainTimersEnd \/ MainReapEnd \/ MainDropLock \/ MainPollEvent \/ MainPollTimeout
           \/ MainPollInterrupted \/ MainRelock
  BY <1>8
  DEF MainTryLock, MainScanEnd, MainTriggerEnd, MainTimer, MainTimersEnd, MainReapEnd,
      MainDropLock, MainPollEvent, MainPollTimeout, MainPollInterrupted, MainRelock
<1>9. QED
  BY <1>1, <1>3, <1>4, <1>5, <1>6, <1>7, <1>8 DEF MainLoop

\* stop_service_instance takes the child over, or finds none and is done.
LEMMA BeginStopHeld ==
    ASSUME Inv, Held(services, NoStop, proc), NEW i \in DOMAIN services,
           NEW y \in Instance, y = services[i] \/ y = [services[i] EXCEPT !.stopped = TRUE],
           BeginStop([services EXCEPT ![i] = y], i)
    PROVE  Held(services', stop', proc')
<1> DEFINE list == [services EXCEPT ![i] = y]
           s == services[i]
           c == y.child
           act == [y EXCEPT !.active = FALSE]
           off == [y EXCEPT !.child = NoPid]
           t == IF Conf[y.name].killMode # "none" /\ Conf[y.name].cgroup
                THEN Signalled(proc, {p \in Pid : proc[p].unit = y.name}, "kill")
                ELSE proc
<1>1. s \in Instance /\ proc \in [Pid -> Process] /\ Record(s)
  BY Typed DEF Held, Owned
<1>2. list[i] = y /\ DOMAIN list = DOMAIN services
  OBVIOUS
<1>3. y.name = s.name /\ y.child = s.child /\ y.tracked = s.tracked /\ y.waitDaemon = s.waitDaemon
  <2>1. y = s \/ y = [s EXCEPT !.stopped = TRUE]
    OBVIOUS
  <2> HIDE DEF s
  <2>2. QED
    BY <1>1, <2>1 DEF Instance
<1>4. y.tracked = NoPid
  BY <1>1, <1>3 DEF Record
<1>5. /\ act.name = y.name /\ act.child = y.child /\ act.tracked = y.tracked
      /\ act.waitDaemon = y.waitDaemon /\ act.stopped = y.stopped
      /\ off.name = y.name /\ off.child = NoPid /\ off.tracked = y.tracked
      /\ off.waitDaemon = y.waitDaemon
  BY DEF Instance
<1>6. t \in [Pid -> Process] /\ Kept(proc, t, {})
  BY <1>1, SignalledKept, SignalledType, KeptSelf
<1>7. CASE c = NoPid
  <2>1. BeginStop(list, i) = StopTracked(list, i, t)
    BY <1>2, <1>7 DEF BeginStop
  <2>2. StopDone(list, i, t)
    BY <1>2, <1>4, <2>1 DEF StopTracked
  <2>3. services' = [services EXCEPT ![i] = act] /\ proc' = t /\ stop' = NoStop
    BY <2>2 DEF StopDone
  <2>4. Less(s, act) /\ act.child = s.child
    BY <1>3, <1>5, <1>7 DEF Less
  <2> HIDE DEF act, t
  <2> DEFINE list2 == [services EXCEPT ![i] = act]
  <2>5. /\ DOMAIN list2 = DOMAIN services
        /\ \A k \in DOMAIN services : Less(services[k], list2[k]) /\ list2[k].child = services[k].child
    BY <2>4, LessSelf
  <2> HIDE DEF list2
  <2>6. Held(list2, NoStop, t)
    BY <1>6, <2>5, Steady
  <2>7. QED
    BY <2>3, <2>6 DEF list2
<1>8. CASE c # NoPid
  <2>1. /\ services' = [list EXCEPT ![i].child = NoPid]
        /\ proc' = IF Conf[y.name].killMode = "none" THEN t ELSE Signalled(t, {c}, "term")
        /\ stop' = [ph |-> "child", i |-> i, pid |-> c]
    BY <1>2, <1>8 DEF BeginStop
  <2>2. services' = [services EXCEPT ![i] = off]
    BY <2>1
  <2>3. Kept(proc, proc', {})
    BY <1>6, <2>1, SignalledKept, KeptChain
  <2> HIDE DEF off, t
  <2> DEFINE list2 == [services EXCEPT ![i] = off]
             st2 == [ph |-> "child", i |-> i, pid |-> c]
  <2>4. Less(s, off) /\ s.child = c
    BY <1>3, <1>5 DEF Less
  <2>5. /\ DOMAIN list2 = DOMAIN services /\ list2[i].child = NoPid
        /\ \A k \in DOMAIN services : Less(services[k], list2[k])
        /\ \A k \in DOMAIN services : list2[k].child # services[k].child => k = i
    BY <1>5, <2>4, LessSelf
  <2>6. st2.ph = "child" /\ st2.pid = c /\ NoStop.ph = "none"
    BY DEF NoStop
  <2> HIDE DEF list2, st2, s, c
  <2>7. /\ \A k \in DOMAIN services : list2[k].child # services[k].child =>
             st2.ph # "none" /\ st2.pid = services[k].child
        /\ \E k \in DOMAIN services : /\ services[k].child = st2.pid /\ services[k].child # NoPid
                                      /\ list2[k].child = NoPid
    BY <1>8, <2>4, <2>5, <2>6 DEF s
  <2>8. Held(list2, st2, proc')
    BY <2>3, <2>5, <2>6, <2>7, Shrink
  <2>9. QED
    BY <2>1, <2>2, <2>8 DEF list2, st2
<1>9. QED
  BY <1>7, <1>8

LEMMA StopStepHeld ==
    ASSUME Inv, Held(services, stop, proc), StopStep
    PROVE  Held(services', stop', proc')
<1>1. stop.ph \in {"child", "childWait"}
  BY DEF StopStep, StopChildGone, StopDaemonGone, StopTimeout, Held, Owned
<1>2. /\ stop.i \in DOMAIN services /\ services \in Seq(Instance) /\ proc \in [Pid -> Process]
      /\ services[stop.i] \in Instance
  <2>1. stop # NoStop
    BY <1>1 DEF NoStop
  <2>2. QED
    BY <2>1, Typed DEF Inv, LockDiscipline
<1>3. OurChild(stop.pid) /\ stop.pid \in Pid /\ services[stop.i].tracked = NoPid
  BY <1>1, <1>2 DEF Held, Owned, Ours, OurChild, Record
<1>4. CASE StopChildGone
  <2> DEFINE s == services[stop.i]
             r == [s EXCEPT !.active = FALSE]
             list2 == [services EXCEPT ![stop.i] = r]
  <2>1. services' = list2 /\ proc' = Reaped(stop.pid) /\ stop' = NoStop
    BY <1>3, <1>4 DEF StopChildGone, StopTracked, StopDone
  <2>2. /\ r.name = s.name /\ r.child = s.child /\ r.tracked = s.tracked
        /\ r.waitDaemon = s.waitDaemon /\ r.stopped = s.stopped
    <3> HIDE DEF s
    <3>1. QED
      BY <1>2 DEF Instance, s
  <2> HIDE DEF r
  <2>3. /\ DOMAIN list2 = DOMAIN services
        /\ \A k \in DOMAIN services : Less(services[k], list2[k]) /\ list2[k].child = services[k].child
    BY <2>2, LessSelf DEF Less
  <2> HIDE DEF list2
  <2>4. Kept(proc, Reaped(stop.pid), {stop.pid})
    BY <1>2, <1>3, ReapedKept
  <2>5. \A k \in DOMAIN services : list2[k].child # NoPid => list2[k].child \notin {stop.pid}
    BY <1>1, <2>3 DEF Held, Owned
  <2>6. Reaped(stop.pid)[stop.pid].st # "run" /\ NoStop.ph = "none"
    BY <1>3, <2>4 DEF Kept, NoStop
  <2>7. Held(list2, NoStop, Reaped(stop.pid))
    BY <2>3, <2>4, <2>5, <2>6, Shrink
  <2>8. QED
    BY <2>1, <2>7
<1>5. CASE StopTimeout
  <2>1. services' = services /\ Kept(proc, proc', {})
    BY <1>2, <1>5, SignalledKept, KeptSelf DEF StopTimeout
  <2>2. stop'.ph = "childWait" /\ stop'.pid = stop.pid
    <3>1. stop' = [stop EXCEPT !.ph = IF @ = "child" THEN "childWait" ELSE "trackedWait"]
          /\ stop.ph = "child" /\ stop \in [ph : StopPhase, i : Nat, pid : OptPid]
      BY <1>1, <1>5 DEF StopTimeout, Inv, TypeOK
    <3>2. QED
      BY <3>1
  <2>3. \A k \in DOMAIN services : Less(services[k], services[k])
    BY LessSelf
  <2>4. Held(services, stop', proc')
    BY <1>1, <2>1, <2>2, <2>3, Shrink
  <2>5. QED
    BY <2>1, <2>4
<1>6. QED
  BY <1>1, <1>4, <1>5 DEF StopStep, StopDaemonGone

\* The fields that no handle depends on.
LEMMA ForgottenLess ==
    ASSUME NEW s \in Instance
    PROVE  /\ ForgetFailures(s).child = s.child /\ Less(s, ForgetFailures(s))
<1> DEFINE r == ForgetFailures(s)
<1>1. /\ r.name = s.name /\ r.child = s.child /\ r.tracked = s.tracked
      /\ r.waitDaemon = s.waitDaemon /\ r.stopped = s.stopped
  BY DEF ForgetFailures, Instance
<1> HIDE DEF r
<1>2. QED
  BY <1>1 DEF Less, r

LEMMA ClientStepHeld ==
    ASSUME Inv, Held(services, stop, proc), NEW c \in Client, ClientStep(c)
    PROVE  Held(services', stop', proc')
<1> DEFINE j == Head(todo)
<1>1. /\ services \in Seq(Instance) /\ \A i \in DOMAIN services : services[i] \in Instance
      /\ proc \in [Pid -> Process]
  BY Typed
<1>2. j.u \in Unit
  BY Typed, TailJobs DEF ClientStep, Job
<1>3. stop = NoStop /\ Held(services, NoStop, proc)
  BY DEF ClientStep
<1> HIDE DEF j
<1>4. CASE JobStop1(j.u)
  <2>1. CASE UNCHANGED <<services, proc, stop>>
    BY <2>1
  <2>2. ASSUME NEW i \in DOMAIN services,
               IF UpOrActive(services[i])
               THEN BeginStop([services EXCEPT ![i].stopped = TRUE], i)
               ELSE /\ services' = [services EXCEPT ![i].stopped = TRUE]
                    /\ UNCHANGED <<proc, stop>>
        PROVE  Held(services', stop', proc')
    <3> DEFINE x == services[i]
               y == [x EXCEPT !.stopped = TRUE]
               list == [services EXCEPT ![i] = y]
    <3>1. x \in Instance /\ list = [services EXCEPT ![i].stopped = TRUE]
      BY <1>1
    <3>2. /\ y \in Instance /\ y.name = x.name /\ y.child = x.child
          /\ y.tracked = x.tracked /\ y.waitDaemon = x.waitDaemon
      <4> HIDE DEF x
      <4>1. QED
        BY <3>1 DEF Instance
    <3>3. CASE UpOrActive(x)
      <4>1. BeginStop(list, i)
        BY <2>2, <3>1, <3>3
      <4>2. y = [services[i] EXCEPT !.stopped = TRUE]
        OBVIOUS
      <4> HIDE DEF y
      <4>3. QED
        BY <1>3, <3>2, <4>1, <4>2, BeginStopHeld
    <3>4. CASE ~UpOrActive(x)
      <4>1. services' = list /\ proc' = proc /\ stop' = stop
        BY <2>2, <3>1, <3>4
      <4> HIDE DEF x, y
      <4>2. x.child = NoPid
        BY <3>4 DEF UpOrActive, Up
      <4>3. Less(x, y) /\ y.child = x.child
        BY <3>2, <4>2 DEF Less
      <4>4. /\ DOMAIN list = DOMAIN services
            /\ \A k \in DOMAIN services :
                  Less(services[k], list[k]) /\ list[k].child = services[k].child
        BY <4>3, LessSelf DEF x
      <4> HIDE DEF list
      <4>5. Held(list, stop, proc)
        BY <4>4, KeptSelf, Steady
      <4>6. QED
        BY <4>1, <4>5
    <3>5. QED
      BY <3>3, <3>4
  <2>3. QED
    BY <1>4, <2>1, <2>2 DEF JobStop1, Find, Named
<1>5. CASE JobRestartExisting(j.u)
  <2>1. CASE UNCHANGED <<services, proc, stop>>
    BY <2>1
  <2>2. ASSUME NEW i \in Find(j.u), ~Up(services[i]), NEW p \in SpawnResults(proc, j.u),
               services' = [services EXCEPT ![i] =
                     Respawned([ForgetFailures(@) EXCEPT !.stopped = FALSE], p)],
               proc' = Spawned(proc, j.u, p), stop' = stop
        PROVE  Held(services', stop', proc')
    <3> DEFINE f == ForgetFailures(services[i])
               r == [f EXCEPT !.stopped = FALSE]
               x == Respawned(r, p)
               list2 == [services EXCEPT ![i] = x]
    <3>1. i \in DOMAIN services /\ services[i].name = j.u /\ services[i].child = NoPid
      BY <2>2 DEF Find, Named, Up
    <3>2. /\ f \in Instance /\ f.name = j.u /\ Record(f)
      <4>1. Record(services[i])
        BY <3>1 DEF Held, Owned
      <4>2. f \in Instance /\ Less(services[i], f)
        BY <1>1, <3>1, ForgottenLess, ForgetFailuresType
      <4> HIDE DEF f
      <4>3. QED
        BY <3>1, <4>1, <4>2 DEF Less, Record
    <3>3. services' = list2
      BY <2>2
    <3> HIDE DEF f
    <3>4. r \in Instance /\ r.name = j.u /\ Record(r) /\ ~r.stopped
      <4>1. /\ r \in Instance /\ r.name = f.name /\ r.tracked = f.tracked
            /\ r.waitDaemon = f.waitDaemon /\ ~r.stopped
        BY <3>2 DEF Instance
      <4> HIDE DEF r
      <4>2. QED
        BY <3>2, <4>1 DEF Record
    <3> HIDE DEF r
    <3>5. p \in OptPid /\ p \in FreePids(proc) \cup {NoPid}
      BY <1>1, <1>2, SpawnedType DEF SpawnResults
    <3>6. Fresh(x, j.u, p)
      BY <3>4, <3>5, RespawnedFresh
    <3> HIDE DEF x
    <3>7. /\ DOMAIN list2 = DOMAIN services \cup {i} /\ i \in DOMAIN list2 /\ list2[i] = x
          /\ \A k \in DOMAIN services : k # i => list2[k] = services[k]
      BY <3>1
    <3> HIDE DEF list2
    <3>8. Held(list2, NoStop, Spawned(proc, j.u, p))
      BY <1>1, <1>2, <1>3, <3>1, <3>5, <3>6, <3>7, Grow
    <3>9. QED
      BY <1>3, <2>2, <3>3, <3>8
  <2>3. QED
    BY <1>5, <2>1, <2>2 DEF JobRestartExisting
<1>6. CASE JobSpawn(j.u)
  <2> DEFINE u == j.u
  <2>1. PICK p \in SpawnResults(proc, u) :
           /\ services' = IF p = NoPid THEN services ELSE Append(services, Started(u, p))
           /\ proc' = Spawned(proc, u, p) /\ stop' = stop
    BY <1>6 DEF JobSpawn
  <2>2. p \in OptPid /\ p \in FreePids(proc) \cup {NoPid}
    BY <1>1, <1>2, SpawnedType DEF SpawnResults
  <2>3. Started(u, p) \in Instance /\ Fresh(Started(u, p), u, p)
    BY <1>2, <2>2, StartedType, StartedFresh
  <2>4. Held(Append(services, Started(u, p)), NoStop, Spawned(proc, u, p))
    BY <1>1, <1>2, <1>3, <2>2, <2>3, Pushed
  <2>5. QED
    BY <1>3, <2>1, <2>4 DEF Spawned
<1>7. ASSUME NEW S, JobReset(S) PROVE Held(services', stop', proc')
  <2>1. DOMAIN services' = DOMAIN services /\ proc' = proc /\ stop' = stop
    BY <1>7 DEF JobReset
  <2>2. \A i \in DOMAIN services :
            services'[i] = services[i] \/ services'[i] = ForgetFailures(services[i])
    BY <1>7 DEF JobReset
  <2>3. \A i \in DOMAIN services :
            Less(services[i], services'[i]) /\ services'[i].child = services[i].child
    BY <1>1, <2>2, LessSelf, ForgottenLess
  <2>4. Held(services', stop, proc)
    BY <2>1, <2>3, KeptSelf, Steady
  <2>5. QED
    BY <2>1, <2>4
<1>8. CASE \/ JobLinked(j.u) \/ JobStopSet(j.u, j.set) \/ JobStartNew(j.u)
           \/ JobConflicts(j.u, j.set) \/ JobIsolate(j.u) \/ JobIsoStart(j.u)
           \/ JobStartSet(j.u, j.set)
  BY <1>8 DEF JobLinked, JobStopSet, JobStartNew, JobConflicts, JobIsolate,
              JobIsoStart, JobStartSet
<1>9. QED
  <2>1. \/ JobStop1(j.u) \/ JobLinked(j.u) \/ JobStopSet(j.u, j.set)
        \/ JobRestartExisting(j.u) \/ JobStartNew(j.u)
        \/ JobConflicts(j.u, j.set) \/ JobSpawn(j.u) \/ JobIsolate(j.u)
        \/ JobIsoStart(j.u) \/ JobStartSet(j.u, j.set)
        \/ \E S : JobReset(S)
    BY DEF ClientStep, j
  <2>2. QED
    BY <1>4, <1>5, <1>6, <1>7, <1>8, <2>1

LEMMA EnvironmentHeld ==
    ASSUME Inv, Held(services, stop, proc), Environment
    PROVE  Held(services', stop', proc')
<1> USE DEF mainVars, osVars, evVars, jobVars
<1>1. /\ proc \in [Pid -> Process]
      /\ \A k \in DOMAIN services : Less(services[k], services[k])
  BY Typed, LessSelf
<1>2. ASSUME NEW p \in Pid, NEW code \in {"zero", "listed", "bad"}, Exit(p, code)
      PROVE  Held(services', stop', proc')
  <2> DEFINE x == proc[p]
             e == [x EXCEPT !.st = "zombie", !.code = code, !.sig = "none"]
  <2>1. /\ proc' = [q \in Pid |->
              IF q = p THEN e
              ELSE IF proc[q].ppid = p THEN [proc[q] EXCEPT !.ppid = NoPid]
              ELSE proc[q]]
        /\ services' = services /\ stop' = stop
    BY <1>2 DEF Exit
  <2>2. e.st = "zombie" /\ e.unit = x.unit /\ e.ppid = x.ppid
    <3>1. x \in Process
      BY <1>1
    <3> HIDE DEF x
    <3>2. QED
      BY <3>1 DEF Process
  <2> HIDE DEF e
  <2>3. Kept(proc, proc', {})
    BY <1>1, <2>1, <2>2, ReparentedKept
  <2>4. Held(services, stop, proc')
    BY <1>1, <2>3, Steady
  <2>5. QED
    BY <2>1, <2>4
<1>3. ASSUME NEW p \in Pid, Daemonize(p) PROVE Held(services', stop', proc')
  <2>1. PICK d \in FreePids(proc) : proc' = [proc EXCEPT ![d] = NewProc(proc[p].unit, p, TRUE)]
    BY <1>3 DEF Daemonize
  <2>2. services' = services /\ stop' = stop /\ proc[p].st = "run"
        /\ Conf[proc[p].unit].type = "forking"
    BY <1>3 DEF Daemonize
  <2>3. ~NoDaemons
    <3>1. SUFFICES ASSUME NoDaemons PROVE FALSE
      OBVIOUS
    <3>2. (\E i \in DOMAIN services : services[i].child = p) \/ (stop.ph # "none" /\ stop.pid = p)
      BY <2>2, <3>1 DEF Held, Attended
    <3>3. p # NoPid
      BY NoPidAssumption
    <3>4. proc[p].unit \in Unit
      BY <3>2, <3>3 DEF Held, Owned, Record, Handle
    <3>5. QED
      BY <2>2, <3>1, <3>4 DEF NoDaemons
  <2>4. \A q \in Pid : Ours(proc, q) => Ours(proc', q) /\ proc'[q] = proc[q]
    BY <1>1, <2>1 DEF Ours, FreePids
  <2>5. Owned(services, stop, proc')
    <3>1. \A i \in DOMAIN services : Record(services[i]) /\ Handle(services, proc', i)
      BY <2>4 DEF Held, Owned, Handle, Ours
    <3>2. stop.ph # "none" => /\ Ours(proc', stop.pid) /\ proc'[stop.pid].unit \in Unit
                              /\ \A i \in DOMAIN services : services[i].child # stop.pid
      BY <2>4 DEF Held, Owned, Ours
    <3>3. stop.ph \in {"none", "child", "childWait"}
      BY DEF Held, Owned
    <3>4. QED
      BY <3>1, <3>2, <3>3 DEF Owned
  <2>6. QED
    BY <2>2, <2>3, <2>5 DEF Held
<1>4. CASE UNCHANGED <<services, stop, proc>>
  BY <1>4
<1>5. QED
  BY <1>2, <1>3, <1>4
  DEF Environment, Notify, SockConnect, SockServed, Connect, SignalShutdown, HookExits

LEMMA TimeHeld ==
    ASSUME Inv, Held(services, stop, proc), Time
    PROVE  Held(services', stop', proc')
<1>1. ASSUME NEW i \in DOMAIN services, NEW f \in TimerField \cup {"firstFailure"},
             NEW v, services' = [services EXCEPT ![i][f] = v], UNCHANGED <<stop, proc>>
      PROVE  Held(services', stop', proc')
  <2> DEFINE s == services[i]
             r == [s EXCEPT ![f] = v]
             list == [services EXCEPT ![i] = r]
  <2>1. s \in Instance /\ services' = list
    BY <1>1, Typed
  <2> HIDE DEF s
  <2>2. /\ r.name = s.name /\ r.child = s.child /\ r.tracked = s.tracked
        /\ r.waitDaemon = s.waitDaemon /\ r.stopped = s.stopped
    BY <2>1 DEF Instance, TimerField
  <2> HIDE DEF r
  <2>3. /\ DOMAIN list = DOMAIN services
        /\ \A k \in DOMAIN services : Less(services[k], list[k]) /\ list[k].child = services[k].child
    BY <2>2, LessSelf DEF Less, s
  <2> HIDE DEF list
  <2>4. Held(list, stop, proc)
    BY <2>3, KeptSelf, Steady
  <2>5. QED
    BY <1>1, <2>1, <2>4
<1>2. ASSUME NEW i \in DOMAIN services, WindowEnds(i) PROVE Held(services', stop', proc')
  <2>1. services' = [services EXCEPT ![i]["firstFailure"] = "old"] /\ UNCHANGED <<stop, proc>>
    BY <1>2 DEF WindowEnds, jobVars, osVars
  <2>2. QED
    BY <1>1, <2>1
<1>3. ASSUME NEW i \in DOMAIN services, NEW f \in TimerField, TimerDue(i, f)
      PROVE  Held(services', stop', proc')
  BY <1>1, <1>3 DEF TimerDue, jobVars, osVars
<1>4. CASE DeadlineDue
  BY <1>4 DEF DeadlineDue, jobVars, osVars
<1>5. QED
  BY <1>2, <1>3, <1>4 DEF Time

LEMMA ShutdownHeld ==
    ASSUME Inv, HeldInv, Shutdown
    PROVE  HeldInv'
<1>1. CASE MainShutdown
  BY <1>1 DEF MainShutdown, HeldInv, Leaving, osVars
<1>2. CASE ShutdownStop
  <2>1. /\ services \in Seq(Instance) /\ todo \in Seq(Job) /\ todo # <<>>
        /\ \A k \in DOMAIN todo : todo[k].i \in DOMAIN services
    BY <1>2 DEF Inv, TypeOK, LockDiscipline, ShutdownStop
  <2> DEFINE i == Head(todo).i
             y == services[i]
  <2>2. i \in DOMAIN services
    BY <2>1, TailJobs
  <2>3. y \in Instance /\ [services EXCEPT ![i] = y] = services
    BY <2>1, <2>2
  <2>4. BeginStop(services, i) /\ Held(services, NoStop, proc)
    BY <1>2 DEF ShutdownStop, HeldInv, Leaving
  <2> HIDE DEF i, y
  <2>5. Held(services', stop', proc')
    BY <2>2, <2>3, <2>4, BeginStopHeld DEF y
  <2>6. QED
    BY <2>5 DEF HeldInv
<1>3. CASE ShutdownKillAll \/ (\E p \in Pid : DrainReap(p)) \/ DrainDeadline \/ PowerOff
  BY <1>3 DEF ShutdownKillAll, DrainReap, DrainDeadline, PowerOff, HeldInv, Leaving,
              stopUnchanged, mainVars
<1>4. QED
  BY <1>1, <1>2, <1>3 DEF Shutdown

LEMMA NextHeld ==
    ASSUME NoDaemonFiles, Inv, AllGood(services), HeldInv, [Next]_vars
    PROVE  HeldInv'
<1> USE DEF HeldInv
<1>1. CASE MainLoop
  <2>1. pc \notin Leaving
    BY <1>1 DEF MainLoop, MainTryLock, MainScan, MainScanEnd, MainTrigger,
        MainTriggerEnd, MainTimer, MainTimersEnd, MainWatchdog, MainReap, MainReapEnd, MainDropLock,
        MainPollEvent, MainPollTimeout, MainPollInterrupted, MainRelock, MainSocket,
        MainNotify, Leaving
  <2>2. QED
    BY <1>1, <2>1, MainLoopHeld
<1>2. CASE Shutdown
  BY <1>2, ShutdownHeld
<1>3. ASSUME NEW c \in Client, ClientLock(c) \/ ClientDone(c) PROVE HeldInv'
  BY <1>3 DEF ClientLock, ClientDone, mainVars, osVars, jobVars
<1>4. ASSUME NEW c \in Client, ClientStep(c) PROVE HeldInv'
  <2>1. pc' = pc
    BY <1>4 DEF ClientStep, stopUnchanged, mainVars
  <2>2. QED
    BY <1>4, <2>1, ClientStepHeld
<1>5. CASE StopStep
  <2>1. pc' = pc
    BY <1>5 DEF StopStep, StopChildGone, StopDaemonGone, StopTimeout, stopUnchanged, mainVars
  <2>2. QED
    BY <1>5, <2>1, StopStepHeld
<1>6. CASE Time
  <2>1. pc' = pc
    BY <1>6 DEF Time, TimerDue, WindowEnds, DeadlineDue, mainVars
  <2>2. QED
    BY <1>6, <2>1, TimeHeld
<1>7. CASE Environment
  <2>1. pc' = pc
    BY <1>7 DEF Environment, Exit, Daemonize, Notify, SockConnect, SockServed, Connect,
                SignalShutdown, HookExits, mainVars
  <2>2. QED
    BY <1>7, <2>1, EnvironmentHeld
<1>8. CASE UNCHANGED vars
  BY <1>8 DEF vars, mainVars, osVars, jobVars
<1>9. QED
  BY <1>1, <1>2, <1>3, <1>4, <1>5, <1>6, <1>7, <1>8 DEF Next, Control

LEMMA InitHeld == Init => HeldInv
<1> SUFFICES ASSUME Init PROVE Held(services, stop, proc)
  BY DEF HeldInv
<1>1. PICK f \in [DOMAIN BootUnits -> OptPid] :
         /\ \A i \in DOMAIN BootUnits : f[i] \in BootPids(BootUnits[i])
         /\ \A i, j \in DOMAIN BootUnits : i # j /\ f[i] # NoPid => f[i] # f[j]
         /\ services = [i \in DOMAIN BootUnits |-> BootInstance(BootUnits[i], f[i])]
         /\ proc = [p \in Pid |->
                IF \E i \in DOMAIN BootUnits : f[i] = p
                THEN NewProc(BootUnits[CHOOSE i \in DOMAIN BootUnits : f[i] = p],
                             NoPid, FALSE)
                ELSE FreeProc]
  BY DEF Init
<1>2. stop.ph = "none"
  BY DEF Init, NoStop
<1>3. ASSUME NEW i \in DOMAIN services
      PROVE  /\ Record(services[i]) /\ services[i].child = f[i]
             /\ services[i].stopped => f[i] = NoPid
             /\ services[i].name = BootUnits[i] /\ f[i] \in OptPid
  <2> DEFINE u == BootUnits[i]
             p == f[i]
  <2>1. i \in DOMAIN BootUnits /\ services[i] = BootInstance(u, p)
    BY <1>1
  <2>2. u \in Unit /\ p \in OptPid /\ p \in BootPids(u)
    BY <1>1, <2>1, ManagerAssumption
  <2> HIDE DEF u, p
  <2>3. Fresh(BootInstance(u, p), u, p)
    BY <2>2, StartedFresh DEF BootInstance, BootPids
  <2>4. QED
    BY <2>1, <2>2, <2>3 DEF Fresh, u, p
<1>4. ASSUME NEW i \in DOMAIN BootUnits, f[i] # NoPid
      PROVE  f[i] \in Pid /\ proc[f[i]] = NewProc(BootUnits[i], NoPid, FALSE)
  <2>1. (CHOOSE k \in DOMAIN BootUnits : f[k] = f[i]) = i
    BY <1>1, <1>4
  <2>2. f[i] \in Pid
    BY <1>1, <1>4 DEF OptPid
  <2>3. QED
    BY <1>1, <2>1, <2>2
<1>5. DOMAIN services = DOMAIN BootUnits
  BY <1>1
<1>6. ASSUME NEW i \in DOMAIN services PROVE Record(services[i]) /\ Handle(services, proc, i)
  <2>1. Record(services[i]) /\ services[i].child = f[i] /\ services[i].name = BootUnits[i]
    BY <1>3
  <2>2. ASSUME f[i] # NoPid
        PROVE  Ours(proc, f[i]) /\ proc[f[i]].unit = BootUnits[i]
    <3>1. f[i] \in Pid /\ proc[f[i]] = NewProc(BootUnits[i], NoPid, FALSE)
      BY <1>4, <1>5, <2>2
    <3>2. QED
      BY <3>1 DEF Ours, NewProc
  <2>3. ASSUME f[i] # NoPid, NEW j \in DOMAIN services, j # i
        PROVE  services[j].child # f[i]
    <3>1. services[j].child = f[j]
      BY <1>3
    <3>2. f[i] # f[j]
      BY <1>1, <1>5, <2>3
    <3>3. QED
      BY <3>1, <3>2
  <2>4. QED
    BY <2>1, <2>2, <2>3 DEF Handle
<1>7. Attended(services, stop, proc)
  <2>1. ASSUME NEW p \in Pid, proc[p].st = "run" PROVE \E i \in DOMAIN services : services[i].child = p
    <3>1. \E i \in DOMAIN BootUnits : f[i] = p
      BY <1>1, <2>1 DEF FreeProc
    <3>2. QED
      BY <1>3, <1>5, <3>1
  <2>2. QED
    BY <2>1 DEF Attended
<1>8. Settled(services)
  BY <1>3 DEF Settled
<1>9. QED
  BY <1>2, <1>6, <1>7, <1>8 DEF Held, Owned

LEMMA HeldHolds == ASSUME NoDaemonFiles PROVE Spec => []HeldInv
<1>1. Inv /\ AllGood(services) /\ HeldInv /\ [Next]_vars => HeldInv'
  BY NextHeld
<1>2. QED
  BY <1>1, InitHeld, InvHolds, GoodHolds, PTL DEF Spec

\* When no forking unit names a PIDFile, a Child handle is always an unreaped
\* child of init's that runs the unit's command and that no other instance has:
\* the orphan reaping never takes a status that try_wait or a stop waits for
\* (mod.rs, services.rs).
THEOREM ChildrenAreOurs == ASSUME NoDaemonFiles PROVE Spec => []ChildIsOurs
<1>1. HeldInv => ChildIsOurs
  BY DEF HeldInv, Leaving, Held, Owned, Handle, Ours, ChildIsOurs, OurChild
<1>2. QED
  BY <1>1, HeldHolds, PTL

-----------------------------------------------------------------------------
(* Requests.  What a list of jobs still has to do, and what it leaves alone.  *)

JobsOf(t) == {t[k] : k \in DOMAIN t}

\* The jobs that start something come last, and only startset follows them.
Late == {"start", "spawn", "startset", "isostart", "isolate"}
Phased(t) ==
    \A k, m \in DOMAIN t : k < m /\ t[k].op \in Late => t[m].op = "startset"

Distinct(list) == \A i, j \in DOMAIN list : i # j => list[i].name # list[j].name

\* v has no process, or one of the jobs J will stop it.
Down(list, v) == \A i \in DOMAIN list : list[i].name = v => ~Up(list[i])
Pending(J, v) ==
    \E j \in J : \/ j.op = "stop1" /\ j.u = v
                 \/ j.op \in {"conflicts", "stopset"} /\ v \in j.set
Covered(list, J, v) == Down(list, v) \/ Pending(J, v)

Spawning(list, J) ==
    \A j \in J : j.op = "spawn" =>
        /\ \A i \in DOMAIN list : list[i].name # j.u
        /\ \A v \in Conflicting(j.u) : Covered(list, J, v)

\* Isolating g starts only what g pulls in, and stops everything else.
Allowed(j, g) ==
    /\ j.op \in {"start", "spawn"} => j.u \in Closure(g)
    /\ j.op = "startset" => j.set \subseteq Closure(g)
    /\ j.op \in {"isolate", "isostart"} => j.u = g
Within(list, J, g) ==
    /\ \A j \in J : Allowed(j, g)
    /\ \/ \E j \in J : j.op = "isolate"
       \/ \A v \in Unit \ Closure(g) : Covered(list, J, v)

Serving ==
    /\ todo # <<>> => lock \in Client \/ pc = "shutdown"
    /\ pc = "shutdown" => \A k \in DOMAIN todo : todo[k].op = "kill"
    /\ lock \in Client => client[lock].st = "run"

\* A stop that a control thread is in serves the job at the head, and has
\* taken the only process of its instance.
Stopping ==
    stop # NoStop /\ lock \in Client =>
        /\ Head(todo).op = "stop1" /\ Head(todo).u = services[stop.i].name
        /\ ~Up(services[stop.i])

Isolating ==
    \A c \in Client :
        lock = c /\ client[c].req.op = "isolate" /\ Conf[client[c].req.u].target
          => Within(services, JobsOf(todo), client[c].req.u)

ReqInv ==
    /\ trig = <<>> /\ Serving /\ Stopping /\ Isolating
    /\ Distinct(services) /\ Phased(todo) /\ Spawning(services, JobsOf(todo))

-----------------------------------------------------------------------------
(* Lists of jobs.                                                            *)

LEMMA TailOf ==
    ASSUME todo \in Seq(Job), todo # <<>>
    PROVE  /\ JobsOf(todo) = {Head(todo)} \cup JobsOf(Tail(todo))
           /\ Phased(todo) =>
                /\ Phased(Tail(todo))
                /\ Head(todo).op \in Late => \A j \in JobsOf(Tail(todo)) : j.op = "startset"
<1> DEFINE r == Tail(todo)
<1>1. /\ Len(todo) \in Nat /\ Len(todo) # 0 /\ DOMAIN todo = 1..Len(todo)
      /\ DOMAIN r = 1..(Len(todo) - 1) /\ Head(todo) = todo[1]
      /\ \A k \in DOMAIN r : r[k] = todo[k + 1]
  <2>1. r \in Seq(Job) /\ Len(r) = Len(todo) - 1
    BY HeadTailProperties
  <2>2. QED
    BY <2>1, TailJobs, EmptySeq
<1> HIDE DEF r
<1>2. \A k \in DOMAIN todo : k = 1 \/ (k - 1 \in DOMAIN r /\ r[k - 1] = todo[k])
  BY <1>1
<1>3. \A k \in DOMAIN r : k + 1 \in DOMAIN todo /\ 1 < k + 1
  BY <1>1
<1>4. JobsOf(todo) = {Head(todo)} \cup JobsOf(r)
  <2>1. ASSUME NEW k \in DOMAIN todo PROVE todo[k] \in {Head(todo)} \cup JobsOf(r)
    BY <1>1, <1>2 DEF JobsOf
  <2>2. ASSUME NEW k \in DOMAIN r PROVE r[k] \in JobsOf(todo)
    BY <1>1, <1>3 DEF JobsOf
  <2>3. Head(todo) \in JobsOf(todo)
    BY <1>1 DEF JobsOf
  <2>4. QED
    BY <2>1, <2>2, <2>3 DEF JobsOf
<1>5. ASSUME Phased(todo) PROVE Phased(r)
  <2>1. ASSUME NEW k \in DOMAIN r, NEW m \in DOMAIN r, k < m, r[k].op \in Late
        PROVE  r[m].op = "startset"
    <3>1. k + 1 < m + 1
      BY <1>1, <2>1
    <3>2. QED
      BY <1>1, <1>3, <1>5, <2>1, <3>1 DEF Phased
  <2>2. QED
    BY <2>1 DEF Phased
<1>6. ASSUME Phased(todo), Head(todo).op \in Late, NEW k \in DOMAIN r
      PROVE  r[k].op = "startset"
  <2>1. 1 \in DOMAIN todo
    BY <1>1
  <2>2. QED
    BY <1>1, <1>3, <1>6, <2>1 DEF Phased
<1>7. QED
  BY <1>4, <1>5, <1>6 DEF JobsOf, r

LEMMA Prepended ==
    ASSUME NEW pre \in Seq(Job), NEW r \in Seq(Job), NEW t, t = pre \o r
    PROVE  /\ JobsOf(t) = JobsOf(pre) \cup JobsOf(r)
           /\ Phased(pre) /\ Phased(r)
              /\ ((\E j \in JobsOf(pre) : j.op \in Late) => \A j \in JobsOf(r) : j.op = "startset")
              => Phased(t)
<1> DEFINE n == Len(pre)
<1>1. /\ n \in Nat /\ Len(r) \in Nat /\ DOMAIN pre = 1..n /\ DOMAIN r = 1..Len(r)
      /\ DOMAIN t = 1..(n + Len(r))
      /\ \A k \in DOMAIN t : t[k] = IF k <= n THEN pre[k] ELSE r[k - n]
  BY ConcatProperties
<1> HIDE DEF n
<1>2. \A k \in DOMAIN pre : k \in DOMAIN t /\ t[k] = pre[k] /\ k <= n
  BY <1>1
<1>3. \A k \in DOMAIN r : k + n \in DOMAIN t /\ t[k + n] = r[k]
  <2> SUFFICES ASSUME NEW k \in DOMAIN r PROVE k + n \in DOMAIN t /\ t[k + n] = r[k]
    OBVIOUS
  <2>1. k \in Nat /\ k + n \in DOMAIN t /\ ~(k + n <= n) /\ (k + n) - n = k
    BY <1>1
  <2>2. QED
    BY <1>1, <2>1
<1>4. \A k \in DOMAIN t : \/ k \in DOMAIN pre /\ t[k] = pre[k] /\ k <= n
                          \/ k - n \in DOMAIN r /\ t[k] = r[k - n] /\ ~(k <= n)
  BY <1>1
<1>5. JobsOf(t) = JobsOf(pre) \cup JobsOf(r)
  <2>1. ASSUME NEW k \in DOMAIN t PROVE t[k] \in JobsOf(pre) \cup JobsOf(r)
    BY <1>4 DEF JobsOf
  <2>2. ASSUME NEW k \in DOMAIN pre PROVE pre[k] \in JobsOf(t)
    BY <1>2 DEF JobsOf
  <2>3. ASSUME NEW k \in DOMAIN r PROVE r[k] \in JobsOf(t)
    BY <1>3 DEF JobsOf
  <2>4. QED
    BY <2>1, <2>2, <2>3 DEF JobsOf
<1>6. ASSUME Phased(pre), Phased(r),
             (\E j \in JobsOf(pre) : j.op \in Late) => \A j \in JobsOf(r) : j.op = "startset",
             NEW k \in DOMAIN t, NEW m \in DOMAIN t, k < m, t[k].op \in Late
      PROVE  t[m].op = "startset"
  <2>1. CASE m <= n
    <3>1. k <= n
      BY <1>1, <1>6, <2>1
    <3>2. QED
      BY <1>4, <1>6, <2>1, <3>1 DEF Phased
  <2>2. CASE k <= n /\ ~(m <= n)
    <3>1. k \in DOMAIN pre /\ t[k] = pre[k] /\ m - n \in DOMAIN r /\ t[m] = r[m - n]
      BY <1>4, <2>2
    <3>2. pre[k] \in JobsOf(pre) /\ r[m - n] \in JobsOf(r)
      BY <3>1 DEF JobsOf
    <3>3. QED
      BY <1>6, <3>1, <3>2
  <2>3. CASE ~(k <= n) /\ ~(m <= n)
    <3>1. /\ k - n \in DOMAIN r /\ t[k] = r[k - n] /\ m - n \in DOMAIN r /\ t[m] = r[m - n]
      BY <1>4, <2>3
    <3>2. k - n < m - n
      BY <1>1, <1>6
    <3>3. QED
      BY <1>6, <3>1, <3>2 DEF Phased
  <2>4. QED
    BY <2>1, <2>2, <2>3
<1>7. QED
  BY <1>5, <1>6 DEF Phased

\* The lists of at most two jobs that a step puts in front.
LEMMA ShortLists ==
    ASSUME NEW x \in Job, NEW y \in Job
    PROVE  /\ <<>> \in Seq(Job) /\ JobsOf(<<>>) = {} /\ Phased(<<>>)
           /\ <<x>> \in Seq(Job) /\ JobsOf(<<x>>) = {x} /\ Phased(<<x>>)
           /\ <<x, y>> \in Seq(Job) /\ JobsOf(<<x, y>>) = {x, y}
           /\ (x.op \notin Late \/ y.op = "startset") => Phased(<<x, y>>)
<1>1. <<>> \in Seq(Job) /\ <<x>> \in Seq(Job) /\ <<x, y>> \in Seq(Job)
  OBVIOUS
<1>2. DOMAIN <<>> = {} /\ DOMAIN <<x>> = {1} /\ DOMAIN <<x, y>> = {1, 2}
  OBVIOUS
<1>3. JobsOf(<<>>) = {} /\ JobsOf(<<x>>) = {x} /\ JobsOf(<<x, y>>) = {x, y}
  BY <1>2 DEF JobsOf
<1>4. Phased(<<>>) /\ Phased(<<x>>)
  BY <1>2 DEF Phased
<1>5. (x.op \notin Late \/ y.op = "startset") => Phased(<<x, y>>)
  BY <1>2 DEF Phased
<1>6. QED
  BY <1>1, <1>3, <1>4, <1>5

-----------------------------------------------------------------------------
(* Kinds of steps.                                                           *)

\* The same records, of which some may have lost a process.
Shut(list, list2) ==
    /\ DOMAIN list2 = DOMAIN list
    /\ \A i \in DOMAIN list : /\ list2[i].name = list[i].name
                              /\ Up(list2[i]) => Up(list[i])

LEMMA ShutCovered ==
    ASSUME NEW list, NEW list2, Shut(list, list2), NEW J
    PROVE  /\ \A v : Covered(list, J, v) => Covered(list2, J, v)
           /\ Distinct(list) => Distinct(list2)
           /\ Spawning(list, J) => Spawning(list2, J)
           /\ \A g : Within(list, J, g) => Within(list2, J, g)
<1>1. \A v : Covered(list, J, v) => Covered(list2, J, v)
  BY DEF Shut, Covered, Down
<1>2. Distinct(list) => Distinct(list2)
  BY DEF Shut, Distinct
<1>3. Spawning(list, J) => Spawning(list2, J)
  BY <1>1 DEF Shut, Spawning
<1>4. \A g : Within(list, J, g) => Within(list2, J, g)
  BY <1>1 DEF Within
<1>5. QED
  BY <1>1, <1>2, <1>3, <1>4

\* A step that leaves the jobs alone and starts nothing.
LEMMA ReqFrame ==
    ASSUME ReqInv, trig' = <<>>, UNCHANGED <<lock, todo>>, Stopping',
           Shut(services, services'),
           pc' = pc \/ (pc # "shutdown" /\ pc' # "shutdown"),
           lock \in Client => client'[lock] = client[lock]
    PROVE  ReqInv'
<1>1. Serving'
  BY DEF ReqInv, Serving
<1>2. Isolating'
  BY ShutCovered DEF ReqInv, Isolating
<1>3. Distinct(services)' /\ Phased(todo)' /\ Spawning(services, JobsOf(todo))'
  <2>1. Distinct(services') /\ Phased(todo') /\ Spawning(services', JobsOf(todo'))
    BY ShutCovered DEF ReqInv
  <2>2. QED
    BY <2>1
<1>4. QED
  BY <1>1, <1>2, <1>3 DEF ReqInv

\* A step of the main thread, after which no control thread has the lock.
LEMMA ReqIdle ==
    ASSUME trig' = <<>>, lock' \notin Client, todo' = <<>> \/ pc' = "shutdown",
           \A k \in DOMAIN todo' : todo'[k].op = "kill", Distinct(services')
    PROVE  ReqInv'
<1>1. Serving' /\ Stopping' /\ Isolating'
  BY DEF Serving, Stopping, Isolating
<1>2. Phased(todo') /\ Spawning(services', JobsOf(todo'))
  BY DEF Phased, Late, Spawning, JobsOf
<1>3. QED
  BY <1>1, <1>2 DEF ReqInv

\* A step of a control thread: the job at the head is replaced by pre.
LEMMA Worked ==
    ASSUME ReqInv, Inv, lock \in Client, todo # <<>>, UNCHANGED <<lock, client, pc, trig>>,
           stop' = NoStop, NEW pre \in Seq(Job), todo' = pre \o Tail(todo),
           NEW h \in Job, h = Head(todo), NEW P, P = JobsOf(pre), Phased(pre),
           \A j \in P : j.op \in Late => h.op \in Late,
           Distinct(services'),
           h.op \notin Late =>
              /\ DOMAIN services' \subseteq DOMAIN services
              /\ \A i \in DOMAIN services' : services'[i].name = services[i].name,
           \A v \in Unit : Down(services, v) /\ (h.op \in {"start", "spawn"} => v # h.u)
                              => Down(services', v),
           \A v \in Unit : Pending({h}, v) => Covered(services', P, v),
           \A j \in P : j.op = "spawn" =>
              /\ \A i \in DOMAIN services' : services'[i].name # j.u
              /\ \A v \in Conflicting(j.u) : Covered(services', P, v),
           \A j \in P, g \in Unit : Allowed(h, g) => Allowed(j, g),
           h.op = "isolate" /\ Conf[h.u].target =>
              /\ services' = services
              /\ \A v \in Unit \ Closure(h.u) : Covered(services, P, v)
    PROVE  ReqInv'
<1> DEFINE R == JobsOf(Tail(todo))
           J == JobsOf(todo)
           K == JobsOf(todo')
<1>1. todo \in Seq(Job) /\ Tail(todo) \in Seq(Job)
  BY TailJobs DEF Inv, TypeOK
<1>2. J = {h} \cup R /\ (h.op \in Late => \A j \in R : j.op = "startset")
  BY <1>1, TailOf DEF ReqInv
<1>3. K = P \cup R /\ Phased(todo')
  <2>1. Phased(Tail(todo))
    BY <1>1, TailOf DEF ReqInv
  <2>2. (\E j \in JobsOf(pre) : j.op \in Late) => \A j \in R : j.op = "startset"
    BY <1>2
  <2>3. QED
    BY <1>1, <2>1, <2>2, Prepended
<1> HIDE DEF R, J, K
<1>4. \A v \in Unit : Covered(services, J, v) /\ (h.op \in {"start", "spawn"} => v # h.u)
                        => Covered(services', K, v)
  <2> SUFFICES ASSUME NEW v \in Unit, Covered(services, J, v),
                      h.op \in {"start", "spawn"} => v # h.u
               PROVE  Covered(services', K, v)
    OBVIOUS
  <2>1. CASE Down(services, v)
    BY <2>1 DEF Covered
  <2>2. CASE Pending({h}, v)
    BY <1>3, <2>2 DEF Covered, Pending
  <2>3. CASE Pending(R, v)
    BY <1>3, <2>3 DEF Covered, Pending
  <2>4. Down(services, v) \/ Pending({h}, v) \/ Pending(R, v)
    BY <1>2 DEF Covered, Pending
  <2>5. QED
    BY <2>1, <2>2, <2>3, <2>4
<1>5. Spawning(services', K)
  <2> SUFFICES ASSUME NEW j \in K, j.op = "spawn"
               PROVE  /\ \A i \in DOMAIN services' : services'[i].name # j.u
                      /\ \A v \in Conflicting(j.u) : Covered(services', K, v)
    BY DEF Spawning
  <2>1. CASE j \in P
    BY <1>3, <2>1 DEF Covered, Pending
  <2>2. CASE j \in R
    <3>1. h.op \notin Late /\ h.op \notin {"start", "spawn"}
      BY <1>2, <2>2 DEF Late
    <3>2. j \in J /\ j.u \in Unit
      <4>1. j \in J
        BY <1>2, <2>2
      <4>2. j \in Job
        BY <1>1, <2>2 DEF R, JobsOf
      <4>3. QED
        BY <4>1, <4>2 DEF Job
    <3>3. Conflicting(j.u) \subseteq Unit
      BY <3>2, ConfAssumption DEF Conflicting, UnitConf
    <3>4. /\ \A i \in DOMAIN services : services[i].name # j.u
          /\ \A v \in Conflicting(j.u) : Covered(services, J, v)
      BY <3>2 DEF ReqInv, Spawning, J
    <3>5. QED
      BY <1>4, <3>1, <3>3, <3>4
  <2>3. QED
    BY <1>3, <2>1, <2>2
<1>6. ASSUME NEW g \in Unit, Conf[g].target, Within(services, J, g)
      PROVE  Within(services', K, g)
  <2>1. Allowed(h, g) /\ \A j \in R : Allowed(j, g)
    BY <1>2, <1>6 DEF Within
  <2>2. \A j \in K : Allowed(j, g)
    BY <1>3, <2>1
  <2>3. CASE h.op = "isolate"
    <3>1. h.u = g
      BY <2>1, <2>3 DEF Allowed
    <3>2. \A v \in Unit \ Closure(g) : Covered(services', K, v)
      BY <1>3, <1>6, <2>3, <3>1 DEF Covered, Pending
    <3>3. QED
      BY <2>2, <3>2 DEF Within
  <2>4. CASE \E j \in R : j.op = "isolate"
    BY <1>3, <2>2, <2>4 DEF Within
  <2>5. CASE \A v \in Unit \ Closure(g) : Covered(services, J, v)
    <3>1. h.op \in {"start", "spawn"} => h.u \in Closure(g)
      BY <2>1 DEF Allowed
    <3>2. \A v \in Unit \ Closure(g) : Covered(services', K, v)
      BY <1>4, <2>5, <3>1
    <3>3. QED
      BY <2>2, <3>2 DEF Within
  <2>6. QED
    BY <1>2, <1>6, <2>3, <2>4, <2>5 DEF Within
<1>7. pc # "shutdown"
  BY ManagerAssumption DEF Inv, LockDiscipline
<1>8. Serving' /\ Stopping'
  BY <1>7 DEF ReqInv, Serving, Stopping
<1>9. Isolating'
  <2> SUFFICES ASSUME NEW c \in Client, lock = c, client[c].req.op = "isolate",
                      Conf[client[c].req.u].target
               PROVE  Within(services', K, client[c].req.u)
    BY DEF Isolating, K
  <2>1. client[c].req.u \in Unit
    <3>1. client[c].req \in Request \cup {NoRequest}
      BY DEF Inv, TypeOK
    <3>2. NoRequest.op # "isolate"
      BY DEF NoRequest
    <3>3. QED
      BY <3>1, <3>2, ManagerAssumption
  <2>2. Within(services, J, client[c].req.u)
    BY DEF ReqInv, Isolating, J
  <2>3. QED
    BY <1>6, <2>1, <2>2
<1>10. QED
  BY <1>3, <1>5, <1>8, <1>9 DEF ReqInv, K

-----------------------------------------------------------------------------
(* The jobs.                                                                 *)

\* find returns nothing only if no record has the name.
LEMMA FindSome ==
    ASSUME Inv, NEW u, Find(u) = {}
    PROVE  Named(u) = {}
<1> SUFFICES ASSUME Named(u) # {} PROVE FALSE
  OBVIOUS
<1>1. Named(u) \in SUBSET Nat
  BY Typed DEF Named
<1>2. IsWellFoundedOn(OpToRel(<, Nat), Nat)
  BY NatLessThanWellFounded
<1>3. PICK x \in Named(u) : \A y \in Named(u) : ~(<<y, x>> \in OpToRel(<, Nat))
  BY <1>1, <1>2, WFMin
<1>4. \A y \in Named(u) : ~(y < x)
  BY <1>1, <1>3 DEF OpToRel
<1>5. \A y \in Named(u) : x <= y
  BY <1>1, <1>4
<1>6. x \in Find(u)
  BY <1>5 DEF Find
<1>7. QED
  BY <1>6

\* The jobs that only rewrite the list of jobs.
LEMMA Rewritten ==
    ASSUME ReqInv, Inv, NEW c \in Client, ClientStep(c), UNCHANGED <<services, stop>>,
           NEW pre \in Seq(Job), todo' = pre \o Tail(todo),
           NEW h \in Job, h = Head(todo), NEW P, P = JobsOf(pre), Phased(pre),
           \A j \in P : j.op \in Late => h.op \in Late,
           \A v \in Unit : Pending({h}, v) => Covered(services, P, v),
           \A j \in P : j.op = "spawn" =>
              /\ \A i \in DOMAIN services : services[i].name # j.u
              /\ \A v \in Conflicting(j.u) : Covered(services, P, v),
           \A j \in P, g \in Unit : Allowed(h, g) => Allowed(j, g),
           h.op = "isolate" /\ Conf[h.u].target =>
              \A v \in Unit \ Closure(h.u) : Covered(services, P, v)
    PROVE  ReqInv'
<1>1. /\ lock \in Client /\ todo # <<>> /\ UNCHANGED <<lock, client, pc, trig>> /\ stop' = NoStop
  BY DEF ClientStep, stopUnchanged, mainVars
<1>2. Distinct(services') /\ \A v : Down(services', v) <=> Down(services, v)
  BY DEF ReqInv
<1>3. QED
  BY <1>1, <1>2, Worked

LEMMA ConflictsListed ==
    ASSUME NEW u \in Unit
    PROVE  Conflicting(u) \in SUBSET Unit
BY ConfAssumption DEF Conflicting, UnitConf

LEMMA JobFields ==
    ASSUME NEW op, NEW u, NEW S
    PROVE  /\ MkJob(op, u).op = op /\ MkJob(op, u).u = u /\ MkJob(op, u).set = {}
           /\ SetJob(op, u, S).op = op /\ SetJob(op, u, S).u = u /\ SetJob(op, u, S).set = S
BY DEF MkJob, SetJob

\* One kind of job leaves the head's work to others.
LEMMA DroppedReq ==
    ASSUME ReqInv, Inv, NEW c \in Client, ClientStep(c), UNCHANGED <<services, stop>>,
           todo' = Tail(todo), ~(Head(todo).op = "isolate" /\ Conf[Head(todo).u].target),
           \A v \in Unit : Pending({Head(todo)}, v) => Down(services, v)
    PROVE  ReqInv'
<1>1. todo \in Seq(Job) /\ todo # <<>>
  BY DEF Inv, TypeOK, ClientStep
<1>2. Head(todo) \in Job /\ Tail(todo) \in Seq(Job)
  BY <1>1, TailJobs
<1>3. <<>> \in Seq(Job) /\ JobsOf(<<>>) = {} /\ Phased(<<>>)
  BY <1>2, ShortLists
<1>4. todo' = <<>> \o Tail(todo)
  BY <1>2
<1>5. \A v \in Unit : Pending({Head(todo)}, v) => Covered(services, {}, v)
  BY DEF Covered
<1>6. QED
  BY <1>2, <1>3, <1>4, <1>5, Rewritten

LEMMA LinkedReq ==
    ASSUME ReqInv, Inv, NEW c \in Client, ClientStep(c),
           NEW h \in Job, h = Head(todo), h.op = "linked", JobLinked(h.u)
    PROVE  ReqInv'
<1> DEFINE S == {services[i].name : i \in
                    {k \in DOMAIN services :
                       /\ services[k].name # h.u
                       /\ h.u \in Conf[services[k].name].partOf
                       /\ UpOrActive(services[k])}}
           x == SetJob("stopset", h.u, S)
           pre == <<x>>
<1>1. S \in SUBSET Unit /\ h.u \in Unit
  BY Typed DEF Instance, Job
<1>2. todo' = pre \o Tail(todo) /\ UNCHANGED <<services, stop>>
  BY DEF JobLinked
<1> HIDE DEF S
<1>3. x \in Job /\ x.op = "stopset"
  BY <1>1, JobType, JobFields DEF JobOp
<1> HIDE DEF x
<1>4. pre \in Seq(Job) /\ JobsOf(pre) = {x} /\ Phased(pre)
  BY <1>3, ShortLists
<1> HIDE DEF pre
<1>5. \A v \in Unit : ~Pending({h}, v)
  BY DEF Pending
<1>6. QED
  BY <1>2, <1>3, <1>4, <1>5, Rewritten DEF Late, Allowed

LEMMA StopSetReq ==
    ASSUME ReqInv, Inv, NEW c \in Client, ClientStep(c),
           NEW h \in Job, h = Head(todo), h.op = "stopset", JobStopSet(h.u, h.set)
    PROVE  ReqInv'
<1> DEFINE listed == {i \in DOMAIN services : services[i].name \in h.set}
<1>1. UNCHANGED <<services, stop>> /\ h.set \in SUBSET Unit /\ h.u \in Unit
  BY DEF JobStopSet, Job
<1>2. CASE listed = {} /\ todo' = Tail(todo)
  <2>1. \A v \in Unit : Pending({h}, v) => Down(services, v)
    BY <1>2 DEF Pending, Down
  <2>2. QED
    BY <1>1, <1>2, <2>1, DroppedReq
<1>3. ASSUME NEW i \in listed,
             todo' = <<MkJob("stop1", services[i].name),
                       SetJob("stopset", h.u, h.set \ {services[i].name})>> \o Tail(todo)
      PROVE  ReqInv'
  <2> DEFINE w == services[i].name
             x == MkJob("stop1", w)
             y == SetJob("stopset", h.u, h.set \ {w})
             pre == <<x, y>>
  <2>1. w \in Unit /\ todo' = pre \o Tail(todo)
    BY <1>1, <1>3
  <2> HIDE DEF w
  <2>2. /\ x \in Job /\ x.op = "stop1" /\ x.u = w
        /\ y \in Job /\ y.op = "stopset" /\ y.set = h.set \ {w}
    BY <1>1, <2>1, JobType, JobFields DEF JobOp
  <2> HIDE DEF x, y
  <2>3. pre \in Seq(Job) /\ JobsOf(pre) = {x, y} /\ Phased(pre)
    BY <2>2, ShortLists DEF Late
  <2> HIDE DEF pre
  <2>4. \A v \in Unit : Pending({h}, v) => Covered(services, {x, y}, v)
    BY <2>2 DEF Pending, Covered
  <2>5. QED
    BY <1>1, <2>1, <2>2, <2>3, <2>4, Rewritten DEF Late, Allowed
<1>4. QED
  BY <1>2, <1>3 DEF JobStopSet

LEMMA StartNewReq ==
    ASSUME ReqInv, Inv, NEW c \in Client, ClientStep(c),
           NEW h \in Job, h = Head(todo), h.op = "start", JobStartNew(h.u)
    PROVE  ReqInv'
<1>1. UNCHANGED <<services, stop>> /\ h.u \in Unit /\ Named(h.u) = {}
  BY FindSome DEF JobStartNew, Job
<1>2. \A v \in Unit : ~Pending({h}, v)
  BY DEF Pending
<1>3. CASE todo' = Tail(todo)
  BY <1>1, <1>2, <1>3, DroppedReq
<1>4. CASE todo' = <<SetJob("conflicts", h.u, Conflicting(h.u)), MkJob("spawn", h.u)>> \o Tail(todo)
  <2> DEFINE x == SetJob("conflicts", h.u, Conflicting(h.u))
             y == MkJob("spawn", h.u)
             pre == <<x, y>>
  <2>1. todo' = pre \o Tail(todo)
    BY <1>4
  <2>2. /\ x \in Job /\ x.op = "conflicts" /\ x.set = Conflicting(h.u)
        /\ y \in Job /\ y.op = "spawn" /\ y.u = h.u
    BY <1>1, ConflictsListed, JobType, JobFields DEF JobOp
  <2> HIDE DEF x, y
  <2>3. pre \in Seq(Job) /\ JobsOf(pre) = {x, y} /\ Phased(pre)
    BY <2>2, ShortLists DEF Late
  <2> HIDE DEF pre
  <2>4. \A j \in {x, y} : j.op = "spawn" =>
          /\ \A i \in DOMAIN services : services[i].name # j.u
          /\ \A v \in Conflicting(j.u) : Covered(services, {x, y}, v)
    BY <1>1, <2>2 DEF Named, Covered, Pending
  <2>5. QED
    BY <1>1, <1>2, <2>1, <2>2, <2>3, <2>4, Rewritten DEF Late, Allowed
<1>5. QED
  BY <1>3, <1>4 DEF JobStartNew

LEMMA ConflictsReq ==
    ASSUME ReqInv, Inv, NEW c \in Client, ClientStep(c),
           NEW h \in Job, h = Head(todo), h.op = "conflicts", JobConflicts(h.u, h.set)
    PROVE  ReqInv'
<1>1. UNCHANGED <<services, stop>> /\ h.set \in SUBSET Unit /\ h.u \in Unit
  BY DEF JobConflicts, Job
<1>2. CASE h.set = {} /\ todo' = Tail(todo)
  <2>1. \A v \in Unit : ~Pending({h}, v)
    BY <1>2 DEF Pending
  <2>2. QED
    BY <1>1, <1>2, <2>1, DroppedReq
<1>3. ASSUME NEW w \in h.set,
             todo' = (IF \E i \in Named(w) : Up(services[i])
                      THEN <<MkJob("stop1", w), MkJob("linked", w)>> ELSE <<>>)
                     \o <<SetJob("conflicts", h.u, h.set \ {w})>> \o Tail(todo)
      PROVE  ReqInv'
  <2> DEFINE x == MkJob("stop1", w)
             y == MkJob("linked", w)
             z == SetJob("conflicts", h.u, h.set \ {w})
  <2>1. /\ x \in Job /\ x.op = "stop1" /\ x.u = w /\ y \in Job /\ y.op = "linked"
        /\ z \in Job /\ z.op = "conflicts" /\ z.set = h.set \ {w}
    BY <1>1, JobType, JobFields DEF JobOp
  <2>2. CASE \E i \in Named(w) : Up(services[i])
    <3> DEFINE pre == <<x, y>> \o <<z>>
    <3>1. todo' = pre \o Tail(todo)
      BY <1>3, <2>2
    <3> HIDE DEF x, y, z
    <3>2. /\ x.op \notin Late /\ y.op \notin Late /\ \A j \in {x, y} : j.op \notin Late
      BY <2>1 DEF Late
    <3>3. /\ <<x, y>> \in Seq(Job) /\ JobsOf(<<x, y>>) = {x, y} /\ Phased(<<x, y>>)
          /\ <<z>> \in Seq(Job) /\ JobsOf(<<z>>) = {z} /\ Phased(<<z>>)
      BY <2>1, <3>2, ShortLists
    <3>4. pre \in Seq(Job) /\ JobsOf(pre) = {x, y, z} /\ Phased(pre)
      <4>1. pre \in Seq(Job)
        BY <3>3, ConcatProperties
      <4> DEFINE a == <<x, y>>
                 b == <<z>>
      <4> HIDE DEF a, b
      <4>2. JobsOf(a \o b) = {x, y} \cup {z} /\ Phased(a \o b)
        <5>1. /\ a \in Seq(Job) /\ JobsOf(a) = {x, y} /\ Phased(a)
              /\ b \in Seq(Job) /\ JobsOf(b) = {z} /\ Phased(b)
          BY <3>3 DEF a, b
        <5>2. ~\E j \in JobsOf(a) : j.op \in Late
          BY <3>2, <5>1
        <5>3. PICK ab : ab = a \o b
          OBVIOUS
        <5>4. JobsOf(ab) = JobsOf(a) \cup JobsOf(b) /\ Phased(ab)
          BY <5>1, <5>2, <5>3, Prepended
        <5>5. QED
          BY <5>1, <5>3, <5>4
      <4>3. QED
        BY <4>1, <4>2 DEF a, b
    <3> HIDE DEF pre
    <3>5. \A v \in Unit : Pending({h}, v) => Covered(services, {x, y, z}, v)
      BY <2>1 DEF Pending, Covered
    <3>6. QED
      BY <1>1, <2>1, <3>1, <3>4, <3>5, Rewritten DEF Late, Allowed
  <2>3. CASE ~\E i \in Named(w) : Up(services[i])
    <3> DEFINE pre == <<z>>
    <3>1. todo' = <<>> \o <<z>> \o Tail(todo)
      BY <1>3, <2>3
    <3> HIDE DEF z
    <3>2. <<>> \o <<z>> = pre
      OBVIOUS
    <3>3. pre \in Seq(Job) /\ JobsOf(pre) = {z} /\ Phased(pre)
      BY <2>1, ShortLists
    <3>4. todo' = pre \o Tail(todo)
      BY <3>1, <3>2
    <3> HIDE DEF pre
    <3>5. \A v \in Unit : Pending({h}, v) => Covered(services, {z}, v)
      BY <2>1, <2>3 DEF Pending, Covered, Down, Named
    <3>6. QED
      BY <1>1, <2>1, <3>3, <3>4, <3>5, Rewritten DEF Late, Allowed
  <2>4. QED
    BY <2>2, <2>3
<1>4. QED
  BY <1>2, <1>3 DEF JobConflicts

LEMMA IsolateReq ==
    ASSUME ReqInv, Inv, NEW c \in Client, ClientStep(c), NEW h \in Job, h = Head(todo),
           (h.op = "isolate" /\ JobIsolate(h.u)) \/ (h.op = "isostart" /\ JobIsoStart(h.u))
    PROVE  ReqInv'
<1>1. h.u \in Unit /\ \A v \in Unit : ~Pending({h}, v)
  BY DEF Job, Pending
<1>2. ASSUME h.op = "isolate", Conf[h.u].target, UNCHANGED <<services, stop>>,
             todo' = <<SetJob("stopset", h.u, Outside(h.u)), MkJob("isostart", h.u)>> \o Tail(todo)
      PROVE  ReqInv'
  <2> DEFINE x == SetJob("stopset", h.u, Outside(h.u))
             y == MkJob("isostart", h.u)
             pre == <<x, y>>
  <2>1. Outside(h.u) \in SUBSET Unit
    BY Typed DEF Outside, Instance
  <2>2. /\ x \in Job /\ x.op = "stopset" /\ x.set = Outside(h.u)
        /\ y \in Job /\ y.op = "isostart" /\ y.u = h.u
    <3>1. "stopset" \in JobOp /\ "isostart" \in JobOp
      BY DEF JobOp
    <3>2. x \in Job /\ y \in Job
      BY <1>1, <2>1, <3>1, JobType
    <3>3. QED
      BY <3>2 DEF SetJob, MkJob
  <2>3. todo' = pre \o Tail(todo)
    BY <1>2
  <2> HIDE DEF x, y
  <2>4. pre \in Seq(Job) /\ JobsOf(pre) = {x, y} /\ Phased(pre)
    BY <2>2, ShortLists DEF Late
  <2> HIDE DEF pre
  <2>5. \A v \in Unit \ Closure(h.u) : Covered(services, {x, y}, v)
    <3> SUFFICES ASSUME NEW v \in Unit \ Closure(h.u), NEW i \in DOMAIN services,
                        services[i].name = v, Up(services[i])
                 PROVE  Pending({x, y}, v)
      BY DEF Covered, Down
    <3>1. v \in Outside(h.u)
      BY DEF Outside, UpOrActive
    <3>2. QED
      BY <2>2, <3>1 DEF Pending
  <2>6. QED
    BY <1>1, <1>2, <2>2, <2>3, <2>4, <2>5, Rewritten DEF Late, Allowed
<1>3. ASSUME h.op = "isostart", JobIsoStart(h.u) PROVE ReqInv'
  <2> DEFINE S == {n \in Closure(h.u) : /\ ~Conf[n].target /\ Conf[n].exec
                                        /\ \A i \in Named(n) : ~UpOrActive(services[i])}
             x == SetJob("startset", h.u, S)
             pre == <<x>>
  <2>1. S \subseteq Closure(h.u) /\ S \in SUBSET Unit
    BY DEF Closure
  <2>2. todo' = pre \o Tail(todo) /\ UNCHANGED <<services, stop>>
    BY <1>3 DEF JobIsoStart
  <2> HIDE DEF S
  <2>3. x \in Job /\ x.op = "startset" /\ x.set = S
    BY <1>1, <2>1, JobType, JobFields DEF JobOp
  <2> HIDE DEF x
  <2>4. pre \in Seq(Job) /\ JobsOf(pre) = {x} /\ Phased(pre)
    BY <2>3, ShortLists
  <2> HIDE DEF pre
  <2>5. \A j \in {x}, g \in Unit : Allowed(h, g) => Allowed(j, g)
    BY <1>3, <2>1, <2>3 DEF Allowed
  <2>6. QED
    BY <1>1, <1>3, <2>2, <2>3, <2>4, <2>5, Rewritten DEF Late
<1>4. CASE h.op = "isolate" /\ ~Conf[h.u].target /\ JobIsolate(h.u)
  <2>1. todo' = Tail(todo) /\ UNCHANGED <<services, stop>>
    BY <1>4 DEF JobIsolate
  <2>2. QED
    BY <1>1, <1>4, <2>1, DroppedReq
<1>5. QED
  BY <1>2, <1>3, <1>4 DEF JobIsolate

LEMMA StartSetReq ==
    ASSUME ReqInv, Inv, NEW c \in Client, ClientStep(c),
           NEW h \in Job, h = Head(todo), h.op = "startset", JobStartSet(h.u, h.set)
    PROVE  ReqInv'
<1>1. UNCHANGED <<services, stop>> /\ h.set \in SUBSET Unit /\ h.u \in Unit
  BY DEF JobStartSet, Job
<1>2. \A v \in Unit : ~Pending({h}, v)
  BY DEF Pending
<1>3. CASE todo' = Tail(todo)
  BY <1>1, <1>2, <1>3, DroppedReq
<1>4. ASSUME NEW n \in h.set,
             todo' = <<MkJob("start", n), SetJob("startset", h.u, h.set \ {n})>> \o Tail(todo)
      PROVE  ReqInv'
  <2> DEFINE x == MkJob("start", n)
             y == SetJob("startset", h.u, h.set \ {n})
             pre == <<x, y>>
  <2>1. /\ x \in Job /\ x.op = "start" /\ x.u = n
        /\ y \in Job /\ y.op = "startset" /\ y.set = h.set \ {n}
    BY <1>1, JobType, JobFields DEF JobOp
  <2>2. todo' = pre \o Tail(todo)
    BY <1>4
  <2> HIDE DEF x, y
  <2>3. pre \in Seq(Job) /\ JobsOf(pre) = {x, y} /\ Phased(pre)
    BY <2>1, ShortLists
  <2> HIDE DEF pre
  <2>4. \A j \in {x, y}, g \in Unit : Allowed(h, g) => Allowed(j, g)
    BY <2>1 DEF Allowed
  <2>5. QED
    BY <1>1, <1>2, <2>1, <2>2, <2>3, <2>4, Rewritten DEF Late
<1>5. QED
  BY <1>3, <1>4 DEF JobStartSet

\* The jobs that change one record or add one: what the list is afterwards.
LEMMA ReplacedShut ==
    ASSUME NEW list, NEW i \in DOMAIN list, NEW x,
           x.name = list[i].name, Up(x) => Up(list[i])
    PROVE  Shut(list, [list EXCEPT ![i] = x])
BY DEF Shut

\* The head of the list is done, and nothing was started.
LEMMA StoppedReq ==
    ASSUME ReqInv, Inv, lock \in Client, todo # <<>>, UNCHANGED <<lock, client, pc, trig>>,
           stop' = NoStop, todo' = Tail(todo), Shut(services, services'),
           Head(todo).op \in {"stop1", "reset", "resetall"},
           Head(todo).op = "stop1" => Down(services', Head(todo).u)
    PROVE  ReqInv'
<1>1. todo \in Seq(Job)
  BY DEF Inv, TypeOK
<1>2. Head(todo) \in Job /\ Tail(todo) \in Seq(Job)
  BY <1>1, TailJobs
<1>3. <<>> \in Seq(Job) /\ JobsOf(<<>>) = {} /\ Phased(<<>>)
  BY <1>2, ShortLists
<1>4. todo' = <<>> \o Tail(todo)
  BY <1>2
<1>5. Distinct(services') /\ Head(todo).op \notin Late
  BY ShutCovered DEF ReqInv, Late
<1>6. \A v \in Unit : Down(services, v) => Down(services', v)
  BY DEF Shut, Down
<1>7. \A v \in Unit : Pending({Head(todo)}, v) => Covered(services', {}, v)
  BY DEF Pending, Covered
<1>8. /\ DOMAIN services' \subseteq DOMAIN services
      /\ \A i \in DOMAIN services' : services'[i].name = services[i].name
  BY DEF Shut
<1>9. QED
  BY <1>2, <1>3, <1>4, <1>5, <1>6, <1>7, <1>8, Worked

\* stop_service_instance on a record with at most one process takes that
\* process at once.
LEMMA BeginStopTakes ==
    ASSUME NEW list \in Seq(Instance), NEW i \in DOMAIN list, Good(list[i]), BeginStop(list, i)
    PROVE  \E x : /\ services' = [list EXCEPT ![i] = x]
                  /\ x.name = list[i].name /\ ~Up(x)
                  /\ \/ stop' = NoStop /\ todo' = Tail(todo)
                     \/ stop' # NoStop /\ stop'.i = i /\ todo' = todo
<1> DEFINE s == list[i]
           xc == [s EXCEPT !.child = NoPid]
           xt == [s EXCEPT !.tracked = NoPid]
           xa == [s EXCEPT !.active = FALSE]
<1>1. s \in Instance /\ (s.child = NoPid \/ s.tracked = NoPid)
  BY DEF Good
<1>2. \/ /\ s.child # NoPid /\ services' = [list EXCEPT ![i] = xc]
         /\ stop'.ph = "child" /\ stop'.i = i /\ todo' = todo
      \/ /\ s.child = NoPid /\ s.tracked = NoPid /\ services' = [list EXCEPT ![i] = xa]
         /\ stop' = NoStop /\ todo' = Tail(todo)
      \/ /\ s.child = NoPid /\ services' = [list EXCEPT ![i] = xt]
         /\ \/ stop' = NoStop /\ todo' = Tail(todo)
            \/ stop'.ph = "tracked" /\ stop'.i = i /\ todo' = todo
  BY DEF BeginStop, StopTracked, StopDone
<1> HIDE DEF s
<1>3. /\ xc.name = s.name /\ xc.child = NoPid /\ xc.tracked = s.tracked
      /\ xt.name = s.name /\ xt.child = s.child /\ xt.tracked = NoPid
      /\ xa.name = s.name /\ xa.child = s.child /\ xa.tracked = s.tracked
  BY <1>1 DEF Instance
<1> HIDE DEF xc, xt, xa
<1>4. NoStop.ph = "none"
  BY DEF NoStop
<1>5. QED
  BY <1>1, <1>2, <1>3, <1>4 DEF Up, s

LEMMA Stop1Req ==
    ASSUME ReqInv, Inv, AllGood(services), NEW c \in Client, ClientStep(c),
           NEW h \in Job, h = Head(todo), h.op = "stop1", JobStop1(h.u)
    PROVE  ReqInv'
<1>1. /\ lock \in Client /\ todo # <<>> /\ UNCHANGED <<lock, client, pc, trig>> /\ stop = NoStop
  BY DEF ClientStep, stopUnchanged, mainVars
<1>2. CASE Find(h.u) = {} /\ todo' = Tail(todo) /\ UNCHANGED <<services, proc, stop>>
  <2>1. Down(services', h.u) /\ Shut(services, services')
    BY <1>2, FindSome DEF Down, Named, Shut
  <2>2. QED
    BY <1>1, <1>2, <2>1, StoppedReq
<1>3. ASSUME NEW i \in Find(h.u),
             IF UpOrActive(services[i])
             THEN BeginStop([services EXCEPT ![i].stopped = TRUE], i)
             ELSE /\ services' = [services EXCEPT ![i].stopped = TRUE]
                  /\ todo' = Tail(todo) /\ UNCHANGED <<proc, stop>>
      PROVE  ReqInv'
  <2> DEFINE s == services[i]
             y == [s EXCEPT !.stopped = TRUE]
             list == [services EXCEPT ![i] = y]
  <2>1. i \in DOMAIN services /\ s.name = h.u /\ s \in Instance /\ Good(s) /\ services \in Seq(Instance)
    BY Typed DEF Find, Named, AllGood
  <2>2. list = [services EXCEPT ![i].stopped = TRUE]
    OBVIOUS
  <2>3. /\ y \in Instance /\ y.name = s.name /\ y.child = s.child /\ y.tracked = s.tracked
        /\ y.nextRestart = s.nextRestart /\ y.failCount = s.failCount
    <3> HIDE DEF s
    <3>1. QED
      BY <2>1 DEF Instance
  <2>4. PICK x : /\ services' = [services EXCEPT ![i] = x]
                 /\ x.name = s.name /\ ~Up(x)
                 /\ \/ stop' = NoStop /\ todo' = Tail(todo)
                    \/ stop' # NoStop /\ stop'.i = i /\ todo' = todo
    <3>1. CASE UpOrActive(s)
      <4>1. BeginStop(list, i)
        BY <1>3, <2>2, <3>1
      <4> HIDE DEF y
      <4>2. list \in Seq(Instance) /\ i \in DOMAIN list /\ list[i] = y
        BY <2>1, <2>3, SeqExcept
      <4>3. Good(y)
        BY <2>1, <2>3, GoodLess
      <4>4. PICK x : /\ services' = [list EXCEPT ![i] = x] /\ x.name = y.name /\ ~Up(x)
                     /\ \/ stop' = NoStop /\ todo' = Tail(todo)
                        \/ stop' # NoStop /\ stop'.i = i /\ todo' = todo
        <5> HIDE DEF list
        <5>1. QED
          BY <4>1, <4>2, <4>3, BeginStopTakes
      <4>5. QED
        BY <2>3, <4>4
    <3>2. CASE ~UpOrActive(s)
      <4>1. services' = list /\ todo' = Tail(todo) /\ stop' = NoStop
        BY <1>1, <1>3, <2>2, <3>2
      <4> HIDE DEF s, y
      <4>2. ~Up(y)
        BY <2>3, <3>2 DEF UpOrActive, Up
      <4>3. QED
        BY <2>3, <4>1, <4>2
    <3>3. QED
      BY <3>1, <3>2
  <2>5. Shut(services, services') /\ services'[i] = x
    BY <2>1, <2>4, ReplacedShut
  <2>6. Down(services', h.u)
    BY <2>1, <2>4, <2>5 DEF Down, Shut, ReqInv, Distinct
  <2>7. CASE stop' = NoStop /\ todo' = Tail(todo)
    BY <1>1, <2>5, <2>6, <2>7, StoppedReq
  <2>8. CASE stop' # NoStop /\ stop'.i = i /\ todo' = todo
    <3>1. Stopping'
      BY <2>1, <2>4, <2>5, <2>8 DEF Stopping
    <3>2. trig' = <<>>
      BY <1>1 DEF ReqInv
    <3>3. QED
      BY <1>1, <2>5, <2>8, <3>1, <3>2, ReqFrame
  <2>9. QED
    BY <2>4, <2>7, <2>8
<1>4. QED
  BY <1>2, <1>3 DEF JobStop1

\* The head has started something; only startset jobs follow.
LEMMA StartedReq ==
    ASSUME ReqInv, Inv, NEW c \in Client, ClientStep(c), NEW h \in Job, h = Head(todo),
           h.op \in {"start", "spawn"}, todo' = Tail(todo), stop' = stop,
           Distinct(services'),
           \A v \in Unit : Down(services, v) /\ v # h.u => Down(services', v)
    PROVE  ReqInv'
<1>1. /\ lock \in Client /\ todo # <<>> /\ UNCHANGED <<lock, client, pc, trig>> /\ stop' = NoStop
  BY DEF ClientStep, stopUnchanged, mainVars
<1>2. Tail(todo) \in Seq(Job)
  BY <1>1, TailJobs DEF Inv, TypeOK
<1>3. <<>> \in Seq(Job) /\ JobsOf(<<>>) = {} /\ Phased(<<>>)
  BY ShortLists
<1>4. todo' = <<>> \o Tail(todo)
  BY <1>2
<1>5. h.op \in Late /\ \A v \in Unit : ~Pending({h}, v)
  BY DEF Late, Pending
<1>6. QED
  BY <1>1, <1>3, <1>4, <1>5, Worked

LEMMA StartExistingReq ==
    ASSUME ReqInv, Inv, NEW c \in Client, ClientStep(c), NEW h \in Job, h = Head(todo),
           h.op = "start", JobRestartExisting(h.u)
    PROVE  ReqInv'
<1>1. todo' = Tail(todo) /\ stop' = stop
  BY DEF JobRestartExisting
<1>2. /\ DOMAIN services' = DOMAIN services
      /\ \A k \in DOMAIN services :
            \/ services'[k] = services[k]
            \/ services'[k].name = h.u /\ services[k].name = h.u
  <2>1. CASE services' = services
    BY <2>1
  <2>2. ASSUME NEW i \in Find(h.u), NEW p \in SpawnResults(proc, h.u),
               services' = [services EXCEPT ![i] =
                     Respawned([ForgetFailures(@) EXCEPT !.stopped = FALSE], p)]
        PROVE  /\ DOMAIN services' = DOMAIN services
               /\ \A k \in DOMAIN services :
                     \/ services'[k] = services[k]
                     \/ services'[k].name = h.u /\ services[k].name = h.u
    <3> DEFINE f == ForgetFailures(services[i])
               r == [f EXCEPT !.stopped = FALSE]
               x == Respawned(r, p)
    <3>1. i \in DOMAIN services /\ services[i].name = h.u /\ services[i] \in Instance
      BY Typed DEF Find, Named
    <3>2. f \in Instance /\ f.name = h.u
      <4>1. f \in Instance /\ Less(services[i], f)
        BY <3>1, ForgottenLess, ForgetFailuresType
      <4>2. QED
        BY <3>1, <4>1 DEF Less
    <3>3. services' = [services EXCEPT ![i] = x]
      BY <2>2
    <3> HIDE DEF f
    <3>4. r \in Instance /\ r.name = h.u
      BY <3>2 DEF Instance
    <3> HIDE DEF r
    <3>5. x.name = h.u
      BY <3>4 DEF Respawned, Instance
    <3> HIDE DEF x
    <3>6. QED
      BY <3>1, <3>3, <3>5
  <2>3. QED
    BY <2>1, <2>2 DEF JobRestartExisting
<1>3. Distinct(services')
  BY <1>2 DEF ReqInv, Distinct
<1>4. \A v \in Unit : Down(services, v) /\ v # h.u => Down(services', v)
  BY <1>2 DEF Down
<1>5. QED
  BY <1>1, <1>3, <1>4, StartedReq

LEMMA SpawnReq ==
    ASSUME ReqInv, Inv, NEW c \in Client, ClientStep(c), NEW h \in Job, h = Head(todo),
           h.op = "spawn", JobSpawn(h.u)
    PROVE  ReqInv'
<1>1. todo' = Tail(todo) /\ stop' = stop /\ h.u \in Unit
  BY DEF JobSpawn, Job
<1>2. todo \in Seq(Job) /\ todo # <<>> /\ services \in Seq(Instance) /\ proc \in [Pid -> Process]
  BY Typed DEF ClientStep
<1>3. \A i \in DOMAIN services : services[i].name # h.u
  <2>1. h \in JobsOf(todo)
    BY <1>2, TailOf
  <2>2. QED
    BY <2>1 DEF ReqInv, Spawning
<1>4. PICK p \in SpawnResults(proc, h.u) :
         services' = IF p = NoPid THEN services ELSE Append(services, Started(h.u, p))
  BY DEF JobSpawn
<1> DEFINE x == Started(h.u, p)
<1>5. x \in Instance /\ x.name = h.u
  <2>1. p \in OptPid
    BY <1>1, <1>2, SpawnedType
  <2>2. QED
    BY <1>1, <2>1, StartedType, StartedFresh DEF Fresh
<1> HIDE DEF x
<1>6. Distinct(services') /\ \A v \in Unit : Down(services, v) /\ v # h.u => Down(services', v)
  <2>1. CASE services' = services
    BY <2>1 DEF ReqInv
  <2>2. CASE services' = Append(services, x)
    <3> DEFINE n == Len(services)
    <3>1. /\ n \in Nat /\ DOMAIN services = 1..n /\ DOMAIN services' = 1..(n + 1)
          /\ services'[n + 1] = x /\ \A i \in DOMAIN services : services'[i] = services[i]
      BY <1>2, <1>5, <2>2, AppendProperties
    <3> HIDE DEF n
    <3>2. \A i \in DOMAIN services' : i = n + 1 \/ i \in DOMAIN services
      BY <3>1
    <3>3. Distinct(services')
      BY <1>3, <1>5, <3>1, <3>2 DEF ReqInv, Distinct
    <3>4. \A v \in Unit : Down(services, v) /\ v # h.u => Down(services', v)
      BY <1>5, <3>1, <3>2 DEF Down
    <3>5. QED
      BY <3>3, <3>4
  <2>3. QED
    BY <1>4, <2>1, <2>2 DEF x
<1>7. QED
  BY <1>1, <1>6, StartedReq

LEMMA ResetReq ==
    ASSUME ReqInv, Inv, NEW c \in Client, ClientStep(c), NEW S, JobReset(S),
           Head(todo).op \in {"reset", "resetall"}
    PROVE  ReqInv'
<1>1. /\ lock \in Client /\ todo # <<>> /\ UNCHANGED <<lock, client, pc, trig>> /\ stop' = NoStop
      /\ todo' = Tail(todo)
  BY DEF ClientStep, stopUnchanged, mainVars, JobReset
<1>2. DOMAIN services' = DOMAIN services
  BY DEF JobReset
<1>3. ASSUME NEW i \in DOMAIN services
      PROVE  services'[i].name = services[i].name /\ (Up(services'[i]) => Up(services[i]))
  <2>1. services'[i] = services[i] \/ services'[i] = ForgetFailures(services[i])
    BY DEF JobReset
  <2>2. services[i] \in Instance
    BY Typed
  <2>3. /\ ForgetFailures(services[i]).child = services[i].child
        /\ Less(services[i], ForgetFailures(services[i]))
    BY <2>2, ForgottenLess
  <2>4. QED
    BY <2>1, <2>3 DEF Less, Up
<1>4. Shut(services, services')
  BY <1>2, <1>3 DEF Shut
<1>5. QED
  BY <1>1, <1>4, StoppedReq

LEMMA ClientStepReq ==
    ASSUME ReqInv, Inv, AllGood(services), NEW c \in Client, ClientStep(c)
    PROVE  ReqInv'
<1>1. todo \in Seq(Job) /\ todo # <<>>
  BY DEF Inv, TypeOK, ClientStep
<1> DEFINE h == Head(todo)
<1>2. h \in Job
  BY <1>1, TailJobs
<1>3. \/ h.op = "stop1"     /\ JobStop1(h.u)
      \/ h.op = "linked"    /\ JobLinked(h.u)
      \/ h.op = "stopset"   /\ JobStopSet(h.u, h.set)
      \/ h.op = "start"     /\ (JobRestartExisting(h.u) \/ JobStartNew(h.u))
      \/ h.op = "conflicts" /\ JobConflicts(h.u, h.set)
      \/ h.op = "spawn"     /\ JobSpawn(h.u)
      \/ h.op = "isolate"   /\ JobIsolate(h.u)
      \/ h.op = "isostart"  /\ JobIsoStart(h.u)
      \/ h.op = "startset"  /\ JobStartSet(h.u, h.set)
      \/ h.op \in {"reset", "resetall"} /\ \E S : JobReset(S)
  BY DEF ClientStep
<1> HIDE DEF h
<1>4. h = Head(todo)
  BY DEF h
<1>5. CASE h.op = "stop1" /\ JobStop1(h.u)
  BY <1>2, <1>4, <1>5, Stop1Req
<1>6. CASE h.op = "linked" /\ JobLinked(h.u)
  BY <1>2, <1>4, <1>6, LinkedReq
<1>7. CASE h.op = "stopset" /\ JobStopSet(h.u, h.set)
  BY <1>2, <1>4, <1>7, StopSetReq
<1>8. CASE h.op = "start" /\ JobRestartExisting(h.u)
  BY <1>2, <1>4, <1>8, StartExistingReq
<1>9. CASE h.op = "start" /\ JobStartNew(h.u)
  BY <1>2, <1>4, <1>9, StartNewReq
<1>10. CASE h.op = "conflicts" /\ JobConflicts(h.u, h.set)
  BY <1>2, <1>4, <1>10, ConflictsReq
<1>11. CASE h.op = "spawn" /\ JobSpawn(h.u)
  BY <1>2, <1>4, <1>11, SpawnReq
<1>12. CASE (h.op = "isolate" /\ JobIsolate(h.u)) \/ (h.op = "isostart" /\ JobIsoStart(h.u))
  BY <1>2, <1>4, <1>12, IsolateReq
<1>13. CASE h.op = "startset" /\ JobStartSet(h.u, h.set)
  BY <1>2, <1>4, <1>13, StartSetReq
<1>14. CASE h.op \in {"reset", "resetall"} /\ \E S : JobReset(S)
  BY <1>4, <1>14, ResetReq
<1>15. QED
  BY <1>3, <1>5, <1>6, <1>7, <1>8, <1>9, <1>10, <1>11, <1>12, <1>13, <1>14

-----------------------------------------------------------------------------
(* The other steps.                                                          *)

LEMMA ReqKept ==
    ASSUME ReqInv, Inv, trig' = <<>>, UNCHANGED <<lock, todo, stop>>,
           Shut(services, services'),
           pc' = pc \/ (pc # "shutdown" /\ pc' # "shutdown"),
           lock \in Client => client'[lock] = client[lock]
    PROVE  ReqInv'
<1>1. Stopping'
  BY DEF ReqInv, Stopping, Shut, Inv, LockDiscipline
<1>2. QED
  BY <1>1, ReqFrame

SameNames(list, list2) ==
    DOMAIN list2 = DOMAIN list /\ \A i \in DOMAIN list : list2[i].name = list[i].name

\* A step of the main thread, which holds the lock and has no jobs.
LEMMA ReqMain ==
    ASSUME ReqInv, Inv, lock \notin Client, pc # "shutdown", lock' \in {"free", "main"},
           trig' = <<>>, todo' = todo, SameNames(services, services')
    PROVE  ReqInv'
<1>1. todo = <<>> /\ DOMAIN <<>> = {}
  BY DEF ReqInv, Serving
<1>2. Distinct(services')
  BY DEF ReqInv, Distinct, SameNames
<1>3. lock' \notin Client
  BY ManagerAssumption
<1>4. QED
  BY <1>1, <1>2, <1>3, ReqIdle

LEMMA StopStepReq ==
    ASSUME ReqInv, Inv, StopStep
    PROVE  ReqInv'
<1> DEFINE i == stop.i
           s == services[i]
           xa == [s EXCEPT !.active = FALSE]
           xt == [s EXCEPT !.tracked = NoPid]
<1>1. UNCHANGED <<lock, client, pc, trig>> /\ trig' = <<>> /\ stop # NoStop
  BY DEF StopStep, StopChildGone, StopDaemonGone, StopTimeout, NoStop, stopUnchanged,
         mainVars, ReqInv
<1>2. /\ lock \in Client \/ pc = "shutdown"
      /\ i \in DOMAIN services /\ todo # <<>> /\ todo \in Seq(Job)
      /\ s \in Instance
  BY <1>1, Typed DEF Inv, LockDiscipline
<1>3. /\ xa.name = s.name /\ xa.child = s.child /\ xa.tracked = s.tracked
      /\ xt.name = s.name
  <2> HIDE DEF s
  <2>1. QED
    BY <1>2 DEF Instance
<1>4. CASE lock \in Client
  <2>1. Head(todo).op = "stop1" /\ Head(todo).u = s.name /\ ~Up(s)
    BY <1>1, <1>4 DEF ReqInv, Stopping
  <2>2. CASE StopTimeout
    <3>1. UNCHANGED <<services, todo>> /\ stop'.i = i /\ stop' # NoStop
      BY <2>2 DEF StopTimeout, Inv, TypeOK, NoStop
    <3>2. Stopping' /\ Shut(services, services')
      BY <2>1, <3>1 DEF Stopping, Shut
    <3>3. QED
      BY <1>1, <3>1, <3>2, ReqFrame
  <2>3. CASE StopChildGone \/ StopDaemonGone
    <3>1. services' = [services EXCEPT ![i] = xa] /\ stop' = NoStop /\ todo' = Tail(todo)
      BY <2>1, <2>3 DEF StopChildGone, StopDaemonGone, StopTracked, StopDone, Up
    <3>2. ~Up(xa)
      BY <1>3, <2>1 DEF Up
    <3> HIDE DEF xa
    <3>3. Shut(services, services') /\ services'[i] = xa
      BY <1>2, <1>3, <3>1, <3>2, ReplacedShut
    <3>4. Down(services', Head(todo).u)
      BY <1>2, <2>1, <3>2, <3>3 DEF Down, Shut, ReqInv, Distinct
    <3>5. QED
      BY <1>1, <1>2, <1>4, <2>1, <3>1, <3>3, <3>4, StoppedReq
  <2>4. QED
    BY <2>2, <2>3 DEF StopStep
<1>5. CASE lock \notin Client
  <2>1. \/ services' = services
        \/ services' = [services EXCEPT ![i] = xa]
        \/ services' = [services EXCEPT ![i] = xt]
    BY DEF StopStep, StopChildGone, StopDaemonGone, StopTimeout, StopTracked, StopDone
  <2>2. todo' = todo \/ todo' = Tail(todo)
    BY DEF StopStep, StopChildGone, StopDaemonGone, StopTimeout, StopTracked, StopDone
  <2> HIDE DEF xa, xt
  <2>3. Distinct(services')
    BY <1>3, <2>1 DEF ReqInv, Distinct
  <2>4. \A k \in DOMAIN todo' : todo'[k].op = "kill"
    BY <1>2, <1>5, <2>2, TailJobs DEF ReqInv, Serving
  <2>5. QED
    BY <1>1, <1>2, <1>5, <2>3, <2>4, ReqIdle
<1>6. QED
  BY <1>4, <1>5

LEMMA MainScanNames ==
    ASSUME Inv, MainScan
    PROVE  SameNames(services, services')
<1> DEFINE s == services[idx]
<1>1. /\ s \in Instance /\ idx \in DOMAIN services /\ proc \in [Pid -> Process]
      /\ shutdown \in BOOLEAN
  BY Typed DEF MainScan
<1>2. services' = services \/ \E x : services' = [services EXCEPT ![idx] = x] /\ x.name = s.name
  <2>1. CASE ScanDaemonizing(s)
    <3> DEFINE x == FinishDaemonize(s, pidfile[s.name])
               y == DaemonTimedOut(s, shutdown)
    <3>1. x.name = s.name
      <4> HIDE DEF s
      <4>1. QED
        BY <1>1 DEF FinishDaemonize, Instance
    <3>2. y.name = s.name
      BY <1>1, DaemonTimedOutLess DEF Less
    <3>3. \/ services' = services
          \/ services' = [services EXCEPT ![idx] = x]
          \/ services' = [services EXCEPT ![idx] = y]
      BY <2>1 DEF ScanDaemonizing
    <3> HIDE DEF x, y
    <3>4. QED
      BY <3>1, <3>2, <3>3
  <2>2. CASE ScanRunning(s)
    <3> DEFINE r == ScanExit(s).inst
               q == [r EXCEPT !.nextRestart = "none"]
    <3>1. r \in Instance /\ r.name = s.name
      BY <1>1, ScanExitType
    <3>2. \/ services' = [services EXCEPT ![idx] = r]
          \/ \E p : services' = [services EXCEPT ![idx] = Respawned(q, p)]
      BY <2>2 DEF ScanRunning
    <3> HIDE DEF r
    <3>3. q \in Instance /\ q.name = s.name
      BY <3>1 DEF Instance, Timer
    <3> HIDE DEF q
    <3>4. \A p : Respawned(q, p).name = s.name
      BY <3>3 DEF Respawned, Instance
    <3>5. QED
      BY <3>1, <3>2, <3>4
  <2>3. QED
    BY <2>1, <2>2 DEF MainScan
<1>3. QED
  BY <1>1, <1>2 DEF SameNames

LEMMA MainReapNames ==
    ASSUME Inv, NEW p \in Pid, MainReap(p)
    PROVE  SameNames(services, services')
<1> SUFFICES ASSUME NEW i \in DOMAIN services PROVE services'[i].name = services[i].name
  BY DEF MainReap, SameNames
<1> DEFINE s == services[i]
           t == [s EXCEPT !.tracked = NoPid]
           e == [s EXCEPT !.child = NoPid]
           f == FinishDaemonize(s, pidfile[s.name])
           r == ScheduleRestart(t, proc[p].code # "zero", shutdown)
<1>1. s \in Instance /\ services'[i] \in {s, r, f, e}
  BY Typed DEF MainReap, OrphanReaped
<1> HIDE DEF s
<1>2. t \in Instance /\ t.name = s.name /\ e.name = s.name /\ f.name = s.name
  BY <1>1 DEF Instance, OptPid, FinishDaemonize
<1> HIDE DEF t, e, f
<1>3. r.name = s.name
  BY <1>2, ScheduleLess DEF Less
<1> HIDE DEF r
<1>4. QED
  BY <1>1, <1>2, <1>3 DEF s

LEMMA MainLoopReq ==
    ASSUME StartedOnRequest, ReqInv, Inv, MainLoop
    PROVE  ReqInv'
<1> USE DEF mainVars, osVars, evVars, jobVars
<1>1. "main" \notin Client /\ "free" \notin Client /\ trig = <<>>
  BY ManagerAssumption DEF ReqInv
<1>2. pc \in {"scan", "timers", "wdog", "trig", "ext", "reap", "flag", "sock"} => lock = "main"
  BY DEF Inv, LockDiscipline
<1>3. SameNames(services, services)
  BY DEF SameNames
<1>4. CASE MainScan
  <2>1. trig' = <<>>
    <3> DEFINE s == services[idx]
    <3>1. s.name \in Unit
      BY <1>4, Typed DEF MainScan, Instance
    <3>2. Conf[s.name].onFailure = <<>> /\ Conf[s.name].onSuccess = <<>>
      BY <3>1 DEF StartedOnRequest
    <3>3. ScanExit(s).fired = <<>>
      BY <3>2 DEF ScanExit
    <3>4. trig' = trig \/ trig' = trig \o ScanExit(s).fired
      BY <1>4 DEF MainScan, ScanDaemonizing, ScanRunning
    <3>5. <<>> \o <<>> = <<>>
      OBVIOUS
    <3>6. QED
      BY <1>1, <3>3, <3>4, <3>5
  <2>2. lock' = lock /\ todo' = todo /\ pc = "scan"
    BY <1>4 DEF MainScan
  <2>3. QED
    BY <1>1, <1>2, <1>4, <2>1, <2>2, MainScanNames, ReqMain
<1>5. CASE MainTrigger
  BY <1>1, <1>5 DEF MainTrigger
<1>6. ASSUME NEW u \in DOMAIN Socket PROVE FALSE
  BY <1>6 DEF StartedOnRequest
<1>7. CASE MainTimer
  BY <1>7 DEF MainTimer, StartedOnRequest
<1>8. CASE MainWatchdog
  <2>1. ASSUME NEW i \in DOMAIN services PROVE services'[i].name = services[i].name
    <3> DEFINE s == services[i]
               r == [s EXCEPT !.watchdogDeadline = "none"]
    <3>1. s \in Instance /\ services'[i] \in {s, r}
      BY <1>8, Typed DEF MainWatchdog
    <3> HIDE DEF s
    <3>2. r.name = s.name
      BY <3>1 DEF Instance
    <3> HIDE DEF r
    <3>3. QED
      BY <3>1, <3>2 DEF s
  <2>2. SameNames(services, services')
    BY <1>8, <2>1 DEF MainWatchdog, SameNames
  <2>3. QED
    BY <1>1, <1>2, <1>8, <2>2, ReqMain DEF MainWatchdog
<1>9. ASSUME NEW p \in Pid, MainReap(p) PROVE ReqInv'
  <2>1. lock' = lock /\ todo' = todo /\ trig' = trig /\ pc = "reap"
    BY <1>9 DEF MainReap
  <2>2. QED
    BY <1>1, <1>2, <1>9, <2>1, MainReapNames, ReqMain
<1>10. CASE MainNotify
  <2>1. SameNames(services, services')
    <3>1. CASE services' = [i \in DOMAIN services |-> Notified(services[i])]
      <4>1. \A i \in DOMAIN services : Notified(services[i]).name = services[i].name
        BY Typed DEF Notified, Instance
      <4>2. QED
        BY <3>1, <4>1 DEF SameNames
    <3>2. QED
      BY <1>3, <1>10, <3>1 DEF MainNotify
  <2>2. lock' = "free" /\ todo' = todo /\ trig' = trig /\ pc = "sock"
    BY <1>10 DEF MainNotify
  <2>3. QED
    BY <1>1, <1>2, <2>1, <2>2, ReqMain
<1>11. CASE \/ MainTryLock \/ MainScanEnd \/ MainTriggerEnd \/ MainTimersEnd
            \/ MainReapEnd \/ MainDropLock \/ MainRelock
  <2>1. /\ lock \in {"free", "main"} /\ lock' \in {"free", "main"} /\ pc # "shutdown"
        /\ trig' = <<>> /\ UNCHANGED <<todo, services>>
    BY <1>1, <1>2, <1>11 DEF MainTryLock, MainScanEnd, MainTriggerEnd, MainTimersEnd,
                             MainReapEnd, MainDropLock, MainRelock
  <2>2. QED
    BY <1>1, <1>3, <2>1, ReqMain
<1>12. CASE MainPollEvent \/ MainPollTimeout \/ MainPollInterrupted
  <2>1. /\ UNCHANGED <<lock, todo, stop, services, trig>> /\ pc = "poll" /\ pc' # "shutdown"
    BY <1>12 DEF MainPollEvent, MainPollTimeout, MainPollInterrupted
  <2>2. lock \in Client => client'[lock] = client[lock]
    <3>1. CASE client' = client
      BY <3>1
    <3>2. ASSUME NEW d \in Client, client[d].st = "conn",
                 client' = [client EXCEPT ![d].st = "wait"], lock \in Client
          PROVE  client'[lock] = client[lock]
      <4>1. lock # d
        BY <3>2 DEF ReqInv, Serving
      <4>2. QED
        BY <3>2, <4>1
    <3>3. QED
      BY <1>12, <3>1, <3>2 DEF MainPollEvent, MainPollTimeout, MainPollInterrupted
  <2>3. Shut(services, services') /\ trig' = <<>>
    BY <1>1, <2>1 DEF Shut
  <2>4. QED
    BY <2>1, <2>2, <2>3, ReqKept
<1>13. QED
  BY <1>4, <1>5, <1>6, <1>7, <1>8, <1>9, <1>10, <1>11, <1>12 DEF MainLoop

LEMMA ShutdownReq ==
    ASSUME ReqInv, Inv, AllGood(services), Shutdown
    PROVE  ReqInv'
<1> USE DEF mainVars, osVars, evVars, jobVars, stopUnchanged
<1>1. /\ "main" \notin Client /\ trig = <<>> /\ services \in Seq(Instance) /\ todo \in Seq(Job)
      /\ Distinct(services) /\ SameNames(services, services)
  BY ManagerAssumption DEF ReqInv, Inv, TypeOK, SameNames
<1>2. CASE MainShutdown
  <2>1. lock = "main" /\ lock' = lock /\ pc' = "shutdown" /\ trig' = trig /\ services' = services
    BY <1>2 DEF MainShutdown, Inv, LockDiscipline
  <2>2. \A k \in DOMAIN todo' : todo'[k].op = "kill"
    BY <1>2 DEF MainShutdown
  <2>3. QED
    BY <1>1, <2>1, <2>2, ReqIdle
<1>3. CASE ShutdownStop
  <2> DEFINE i == Head(todo).i
  <2>1. /\ todo # <<>> /\ \A k \in DOMAIN todo : todo[k].i \in DOMAIN services
        /\ lock = "main" /\ pc = "shutdown" /\ UNCHANGED <<lock, pc, trig>>
        /\ BeginStop(services, i)
    BY <1>3 DEF ShutdownStop, Inv, LockDiscipline
  <2>2. i \in DOMAIN services
    BY <1>1, <2>1, TailJobs
  <2>3. Good(services[i])
    BY <2>2 DEF AllGood
  <2> HIDE DEF i
  <2>4. PICK x : /\ services' = [services EXCEPT ![i] = x]
                 /\ x.name = services[i].name
                 /\ todo' = Tail(todo) \/ todo' = todo
    BY <1>1, <2>1, <2>2, <2>3, BeginStopTakes
  <2>5. Distinct(services')
    BY <1>1, <2>2, <2>4 DEF Distinct
  <2>6. \A k \in DOMAIN todo' : todo'[k].op = "kill"
    <3>1. \A k \in DOMAIN todo : todo[k].op = "kill"
      BY <2>1 DEF ReqInv, Serving
    <3>2. \A k \in DOMAIN Tail(todo) : Tail(todo)[k].op = "kill"
      BY <1>1, <2>1, <3>1, TailJobs
    <3>3. QED
      BY <2>4, <3>1, <3>2
  <2>7. QED
    BY <1>1, <2>1, <2>5, <2>6, ReqIdle
<1>4. CASE ShutdownKillAll
  <2>1. /\ lock = "main" /\ lock' = lock /\ trig' = trig /\ services' = services
        /\ todo' = <<>> /\ DOMAIN <<>> = {}
    BY <1>4 DEF ShutdownKillAll, Inv, LockDiscipline
  <2>2. QED
    BY <1>1, <2>1, ReqIdle
<1>5. CASE (\E p \in Pid : DrainReap(p)) \/ DrainDeadline \/ PowerOff
  <2>1. /\ lock = "main" /\ lock' = lock /\ trig' = trig /\ services' = services
        /\ todo' = todo /\ pc # "shutdown"
    BY <1>5 DEF DrainReap, DrainDeadline, PowerOff, Inv, LockDiscipline
  <2>2. QED
    BY <1>1, <2>1, ReqMain
<1>6. QED
  BY <1>2, <1>3, <1>4, <1>5 DEF Shutdown

LEMMA EnvironmentReq ==
    ASSUME ReqInv, Inv, Environment
    PROVE  ReqInv'
<1>1. trig = <<>> /\ Shut(services, services)
  BY DEF ReqInv, Shut
<1>2. UNCHANGED <<services, lock, todo, stop, trig, pc>>
  BY DEF Environment, Exit, Daemonize, Notify, SockConnect, SockServed, Connect,
         SignalShutdown, HookExits, mainVars, jobVars
<1>3. lock \in Client => client'[lock] = client[lock]
  <2>1. ASSUME NEW c \in Client, NEW r \in Request, Connect(c, r), lock \in Client
        PROVE  client'[lock] = client[lock]
    <3>1. lock # c
      BY <2>1 DEF Connect, ReqInv, Serving
    <3>2. QED
      BY <2>1, <3>1 DEF Connect, Inv, TypeOK
  <2>2. client' = client \/ \E c \in Client, r \in Request : Connect(c, r)
    BY DEF Environment, Exit, Daemonize, Notify, SockConnect, SockServed,
           SignalShutdown, HookExits
  <2>3. QED
    BY <2>1, <2>2
<1>4. QED
  BY <1>1, <1>2, <1>3, ReqKept

LEMMA TimeReq ==
    ASSUME ReqInv, Inv, Time
    PROVE  ReqInv'
<1>1. UNCHANGED <<lock, todo, stop, trig, pc, client>> /\ trig' = <<>>
  BY DEF Time, TimerDue, WindowEnds, DeadlineDue, mainVars, jobVars, ReqInv
<1>2. Shut(services, services')
  <2>1. ASSUME NEW i \in DOMAIN services, NEW f \in TimerField \cup {"firstFailure"},
               NEW v, services' = [services EXCEPT ![i][f] = v]
        PROVE  Shut(services, services')
    <3> DEFINE s == services[i]
               r == [s EXCEPT ![f] = v]
    <3>1. s \in Instance /\ services' = [services EXCEPT ![i] = r]
      BY <2>1, Typed
    <3> HIDE DEF s
    <3>2. r.name = s.name /\ r.child = s.child /\ r.tracked = s.tracked
      BY <3>1 DEF Instance, TimerField
    <3> HIDE DEF r
    <3>3. r.name = services[i].name /\ (Up(r) => Up(services[i]))
      BY <3>2 DEF Up, s
    <3>4. QED
      BY <3>1, <3>3, ReplacedShut
  <2>2. ASSUME NEW i \in DOMAIN services, WindowEnds(i) PROVE Shut(services, services')
    <3>1. services' = [services EXCEPT ![i]["firstFailure"] = "old"]
      BY <2>2 DEF WindowEnds
    <3>2. QED
      BY <2>1, <3>1
  <2>3. ASSUME NEW i \in DOMAIN services, NEW f \in TimerField, TimerDue(i, f)
        PROVE  Shut(services, services')
    BY <2>1, <2>3 DEF TimerDue
  <2>4. CASE DeadlineDue
    BY <2>4 DEF DeadlineDue, Shut
  <2>5. QED
    BY <2>2, <2>3, <2>4 DEF Time
<1>3. QED
  BY <1>1, <1>2, ReqKept

\* What a request is turned into.
Asked(j, req) ==
    /\ j.u = req.u
    /\ \/ j.op \in {"stop1", "linked", "reset", "resetall"}
       \/ j.op = "start" /\ req.op \in {"start", "restart"}
       \/ j.op = "isolate" /\ req.op = "isolate"

LEMMA RequestJobs ==
    ASSUME Inv, NEW req \in Request \cup {NoRequest}, NEW t, t = Jobs(req)
    PROVE  /\ Phased(t)
           /\ \A j \in JobsOf(t) : j.op # "spawn"
           /\ \A j \in JobsOf(t) : req \in Request /\ Asked(j, req)
           /\ req.op = "isolate" => Within(services, JobsOf(t), req.u)
<1>1. CASE req = NoRequest
  <2>1. t = <<>> /\ req.op = "none" /\ DOMAIN <<>> = {}
    BY <1>1 DEF NoRequest, Jobs
  <2>2. QED
    BY <2>1 DEF Phased, JobsOf
<1>2. CASE req \in Request
  <2>1. req.op \in RequestOp /\ req.u \in Unit
    BY <1>2, ManagerAssumption
  <2> DEFINE x(op) == MkJob(op, req.u)
  <2>2. \A op \in JobOp : x(op) \in Job /\ x(op).op = op /\ x(op).u = req.u
    BY <2>1 DEF MkJob, Job
  <2>3. {"start", "stop1", "linked", "reset", "resetall", "isolate"} \subseteq JobOp
    BY DEF JobOp
  <2> HIDE DEF x
  <2>4. ASSUME NEW op \in {"start", "reset", "resetall", "isolate"}, t = <<x(op)>>
        PROVE  Phased(t) /\ JobsOf(t) = {x(op)}
    BY <2>2, <2>3, <2>4, ShortLists
  <2>5. CASE req.op = "isolate"
    <3>1. t = <<x("isolate")>>
      BY <2>5 DEF Jobs, x
    <3>2. Within(services, {x("isolate")}, req.u)
      BY <2>2, <2>3 DEF Within, Allowed
    <3>3. QED
      BY <1>2, <2>2, <2>3, <2>4, <2>5, <3>1, <3>2 DEF Asked
  <2>6. CASE req.op \in {"start", "reset", "resetall"}
    <3>1. t = <<x(req.op)>>
      BY <2>6 DEF Jobs, x
    <3>2. QED
      BY <1>2, <2>2, <2>3, <2>4, <2>6, <3>1 DEF Asked
  <2>7. CASE req.op \in {"stop", "restart"}
    <3>1. PICK ab : ab = <<x("stop1"), x("linked")>>
      OBVIOUS
    <3>2. ab \in Seq(Job) /\ JobsOf(ab) = {x("stop1"), x("linked")} /\ Phased(ab)
      BY <2>2, <2>3, <3>1, ShortLists DEF Late
    <3>3. PICK r : /\ r \in Seq(Job) /\ Phased(r) /\ \A j \in JobsOf(r) : j.op = "start" /\ Asked(j, req)
                   /\ t = ab \/ t = ab \o r
      <4>1. CASE t = ab
        <5>1. <<>> \in Seq(Job) /\ Phased(<<>>) /\ JobsOf(<<>>) = {}
          BY <2>2, <2>3, ShortLists
        <5>2. QED
          BY <4>1, <5>1
      <4>2. CASE t = ab \o <<x("start")>> /\ req.op = "restart"
        <5>1. <<x("start")>> \in Seq(Job) /\ Phased(<<x("start")>>) /\ JobsOf(<<x("start")>>) = {x("start")}
          BY <2>2, <2>3, ShortLists
        <5>2. QED
          BY <2>2, <2>3, <4>2, <5>1 DEF Asked
      <4>3. t = ab \/ t = ab \o <<>> \/ (t = ab \o <<x("start")>> /\ req.op = "restart")
        BY <2>7, <3>1 DEF Jobs, x
      <4>4. ab \o <<>> = ab
        BY <3>2
      <4>5. QED
        BY <4>1, <4>2, <4>3, <4>4
    <3>4. \A j \in JobsOf(ab) : j.op \in {"stop1", "linked"} /\ Asked(j, req)
      BY <2>2, <2>3, <3>2 DEF Asked
    <3>5. Phased(t) /\ \A j \in JobsOf(t) : j.op \in {"stop1", "linked", "start"} /\ Asked(j, req)
      <4>1. PICK w : w = ab \o r
        OBVIOUS
      <4>2. JobsOf(w) = JobsOf(ab) \cup JobsOf(r) /\ Phased(w)
        BY <3>2, <3>3, <3>4, <4>1, Prepended DEF Late
      <4>3. QED
        BY <3>2, <3>3, <3>4, <4>1, <4>2
    <3>6. QED
      BY <1>2, <2>7, <3>5
  <2>8. CASE req.op = "status"
    <3>1. t = <<>> /\ DOMAIN <<>> = {}
      BY <2>8 DEF Jobs
    <3>2. QED
      BY <2>8, <3>1 DEF Phased, JobsOf
  <2>9. QED
    BY <2>1, <2>5, <2>6, <2>7, <2>8 DEF RequestOp
<1>3. QED
  BY <1>1, <1>2

LEMMA ClientLockReq ==
    ASSUME ReqInv, Inv, NEW c \in Client, ClientLock(c)
    PROVE  ReqInv'
<1> DEFINE req == client[c].req
<1>1. /\ req \in Request \cup {NoRequest} /\ lock = "free" /\ "free" \notin Client
      /\ client \in [Client -> [st : {"idle", "conn", "wait", "run"},
                                req : Request \cup {NoRequest}]]
  BY ManagerAssumption DEF ClientLock, Inv, TypeOK
<1>2. pc # "shutdown" /\ stop = NoStop
  BY <1>1 DEF Inv, LockDiscipline
<1>3. /\ lock' = c /\ client'[c].st = "run" /\ client'[c].req = req
      /\ todo' = Jobs(req) /\ UNCHANGED <<services, pc, trig, stop>>
  BY <1>1 DEF ClientLock, mainVars
<1> HIDE DEF req
<1>4. /\ Phased(todo') /\ \A j \in JobsOf(todo') : j.op # "spawn"
      /\ req.op = "isolate" => Within(services, JobsOf(todo'), req.u)
  BY <1>1, <1>3, RequestJobs
<1>5. Serving' /\ Stopping'
  BY <1>2, <1>3 DEF Serving, Stopping
<1>6. Isolating'
  BY <1>3, <1>4 DEF Isolating
<1>7. Spawning(services', JobsOf(todo'))
  BY <1>4 DEF Spawning
<1>8. QED
  BY <1>3, <1>4, <1>5, <1>6, <1>7 DEF ReqInv

LEMMA ClientDoneReq ==
    ASSUME ReqInv, Inv, NEW c \in Client, ClientDone(c)
    PROVE  ReqInv'
<1>1. /\ lock' \notin Client /\ todo' = <<>> /\ DOMAIN <<>> = {} /\ trig' = <<>>
      /\ Distinct(services')
  BY ManagerAssumption DEF ClientDone, ReqInv, mainVars, jobVars
<1>2. QED
  BY <1>1, ReqIdle

LEMMA NextReq ==
    ASSUME StartedOnRequest, Inv, AllGood(services), ReqInv, [Next]_vars
    PROVE  ReqInv'
<1>1. ASSUME NEW c \in Client, ClientLock(c) \/ ClientStep(c) \/ ClientDone(c) PROVE ReqInv'
  BY <1>1, ClientLockReq, ClientStepReq, ClientDoneReq
<1>2. CASE UNCHANGED vars
  <2>1. Shut(services, services) /\ UNCHANGED <<services, lock, todo, stop, trig, pc, client>>
    BY <1>2 DEF vars, mainVars, jobVars, Shut
  <2>2. trig' = <<>>
    BY <2>1 DEF ReqInv
  <2>3. QED
    BY <2>1, <2>2, ReqKept
<1>3. QED
  BY <1>1, <1>2, MainLoopReq, ShutdownReq, StopStepReq, TimeReq, EnvironmentReq
  DEF Next, Control

LEMMA InitReq == ASSUME StartedOnRequest PROVE Init => ReqInv
<1> SUFFICES ASSUME Init PROVE ReqInv
  OBVIOUS
<1>1. PICK f \in [DOMAIN BootUnits -> OptPid] :
         services = [i \in DOMAIN BootUnits |-> BootInstance(BootUnits[i], f[i])]
  BY DEF Init
<1>2. ASSUME NEW i \in DOMAIN services PROVE services[i].name = BootUnits[i]
  <2>1. i \in DOMAIN BootUnits /\ services[i] = BootInstance(BootUnits[i], f[i])
    BY <1>1
  <2>2. BootUnits[i] \in Unit /\ f[i] \in OptPid
    BY <2>1, ManagerAssumption DEF OptPid
  <2>3. QED
    BY <2>1, <2>2, StartedFresh DEF Fresh, BootInstance, OptPid
<1>3. Distinct(services)
  BY <1>1, <1>2, ManagerAssumption DEF Distinct
<1>4. todo = <<>> /\ DOMAIN <<>> = {} /\ lock \notin Client /\ pc # "shutdown" /\ trig = <<>>
  BY ManagerAssumption DEF Init
<1>5. Serving /\ Stopping /\ Isolating
  BY <1>4 DEF Serving, Stopping, Isolating
<1>6. Phased(todo) /\ Spawning(services, JobsOf(todo))
  BY <1>4 DEF Phased, Spawning, JobsOf
<1>7. QED
  BY <1>3, <1>4, <1>5, <1>6 DEF ReqInv

LEMMA ReqHolds == ASSUME StartedOnRequest PROVE Spec => []ReqInv
<1>1. Inv /\ AllGood(services) /\ ReqInv /\ [Next]_vars => ReqInv'
  BY NextReq
<1>2. QED
  BY <1>1, InitReq, InvHolds, GoodHolds, PTL DEF Spec

-----------------------------------------------------------------------------

\* In a configuration without forking units, in which every instance goes back
\* to boot or to a start request: once a stop has been carried out and the lock
\* is free, no process of a stopped unit runs (do_stop_one,
\* stop_service_instance).
THEOREM StopsAreFinal ==
    ASSUME StartedOnRequest, NoDaemons PROVE Spec => []StoppedUnitsAreDown
<1>1. NoDaemonFiles
  BY DEF NoDaemons, NoDaemonFiles
<1>2. ASSUME Inv, HeldInv, ReqInv PROVE StoppedUnitsAreDown
  <2> SUFFICES ASSUME lock = "free", NEW i \in DOMAIN services, services[i].stopped,
                      NEW p \in Pid, proc[p].unit = services[i].name, proc[p].st = "run"
               PROVE  FALSE
    BY DEF StoppedUnitsAreDown
  <2>1. pc \notin Leaving /\ pc # "shutdown" /\ stop = NoStop
    BY <1>2, ManagerAssumption DEF Inv, LockDiscipline, Leaving
  <2>2. Held(services, stop, proc) /\ stop.ph = "none"
    BY <1>2, <2>1 DEF HeldInv, NoStop
  <2>3. PICK j \in DOMAIN services : services[j].child = p
    BY <2>2 DEF Held, Attended
  <2>4. p # NoPid
    BY NoPidAssumption
  <2>5. proc[p].unit = services[j].name
    BY <2>2, <2>3, <2>4 DEF Held, Owned, Handle
  <2>6. i = j
    BY <1>2, <2>5 DEF ReqInv, Distinct
  <2>7. QED
    BY <2>2, <2>3, <2>4, <2>6 DEF Held, Settled
<1>3. QED
  BY <1>1, <1>2, InvHolds, HeldHolds, ReqHolds, PTL

\* While a control thread has the lock, only its own spawn adds a record.
LEMMA OnlySpawnGrows ==
    ASSUME Inv, [Next]_vars, lock \in Client, DOMAIN services' # DOMAIN services
    PROVE  todo # <<>> /\ Head(todo).op = "spawn" /\ JobSpawn(Head(todo).u)
<1> USE DEF mainVars, osVars, evVars, jobVars
<1>1. /\ lock # "main" /\ lock # "free"
      /\ pc \notin {"scan", "trig", "timers", "ext", "wdog", "reap", "flag", "sock",
                   "shutdown", "drain", "killed", "off"}
  BY ManagerAssumption DEF Inv, LockDiscipline
<1>2. ~MainLoop
  BY <1>1 DEF MainLoop, MainTryLock, MainScan, MainScanEnd, MainTrigger, MainTriggerEnd,
      MainTimer, MainTimersEnd, MainWatchdog, MainReap, MainReapEnd, MainDropLock,
      MainPollEvent, MainPollTimeout, MainPollInterrupted, MainRelock, MainSocket, MainNotify
<1>3. ~Shutdown
  BY <1>1 DEF Shutdown, MainShutdown, ShutdownStop, ShutdownKillAll, DrainReap,
              DrainDeadline, PowerOff
<1>4. ~StopStep
  BY DEF StopStep, StopChildGone, StopDaemonGone, StopTimeout, StopTracked, StopDone
<1>5. ~Time /\ ~Environment /\ ~UNCHANGED vars
  BY DEF Time, TimerDue, WindowEnds, DeadlineDue, Environment, Exit, Daemonize, Notify,
         SockConnect, SockServed, Connect, SignalShutdown, HookExits, vars
<1>6. PICK c \in Client : ClientStep(c)
  BY <1>2, <1>3, <1>4, <1>5 DEF Next, Control, ClientLock, ClientDone
<1> DEFINE h == Head(todo)
<1>7. ~JobStop1(h.u) /\ ~JobRestartExisting(h.u) /\ \A S : ~JobReset(S)
  BY DEF JobStop1, BeginStop, StopTracked, StopDone, JobRestartExisting, JobReset
<1>8. /\ ~JobLinked(h.u) /\ ~JobStopSet(h.u, h.set) /\ ~JobStartNew(h.u)
      /\ ~JobConflicts(h.u, h.set) /\ ~JobIsolate(h.u) /\ ~JobIsoStart(h.u)
      /\ ~JobStartSet(h.u, h.set)
  BY DEF JobLinked, JobStopSet, JobStartNew, JobConflicts, JobIsolate, JobIsoStart, JobStartSet
<1>9. QED
  BY <1>6, <1>7, <1>8 DEF ClientStep

\* When every instance goes back to boot or to a start request: the first start
\* of a unit by a request stops every unit that conflicts with it, in either
\* direction, before the new process exists (do_start without a record).  A
\* start of a unit that has a record stops none.
THEOREM ConflictsAreDown ==
    ASSUME StartedOnRequest PROVE Spec => FirstStartStopsConflicts
<1> DEFINE Pushes == \A i \in DOMAIN services' \ DOMAIN services :
             lock \in Client =>
               \A j \in DOMAIN services :
                 Exclude(services'[i].name, services'[j].name) => ~Up(services'[j])
<1>1. ASSUME Inv, ReqInv, [Next]_vars PROVE Pushes
  <2> SUFFICES ASSUME NEW i \in DOMAIN services' \ DOMAIN services, lock \in Client,
                      NEW j \in DOMAIN services,
                      Exclude(services'[i].name, services'[j].name)
               PROVE  ~Up(services'[j])
    OBVIOUS
  <2> DEFINE h == Head(todo)
  <2>1. todo # <<>> /\ h.op = "spawn" /\ JobSpawn(h.u)
    BY <1>1, OnlySpawnGrows
  <2>2. todo \in Seq(Job) /\ services \in Seq(Instance) /\ proc \in [Pid -> Process]
    BY <1>1, Typed DEF Inv, TypeOK
  <2>3. h \in Job /\ h.u \in Unit
    BY <2>1, <2>2, TailJobs DEF Job
  <2>4. PICK p \in SpawnResults(proc, h.u) : services' = Append(services, Started(h.u, p))
    BY <2>1 DEF JobSpawn
  <2>5. p \in OptPid
    BY <2>2, <2>3, SpawnedType
  <2>6. Started(h.u, p) \in Instance /\ Started(h.u, p).name = h.u
    BY <2>3, <2>5, StartedType, StartedFresh DEF Fresh
  <2>7. services'[i].name = h.u /\ services'[j] = services[j] /\ services[j] \in Instance
    <3> DEFINE x == Started(h.u, p)
    <3>1. /\ Len(services) \in Nat /\ DOMAIN services = 1..Len(services)
          /\ DOMAIN Append(services, x) = 1..(Len(services) + 1)
          /\ Append(services, x)[Len(services) + 1] = x
          /\ \A k \in DOMAIN services : Append(services, x)[k] = services[k]
      BY <2>2, <2>6, AppendProperties
    <3> HIDE DEF x
    <3>2. i = Len(services) + 1
      BY <2>4, <3>1 DEF x
    <3>3. QED
      BY <2>2, <2>4, <2>6, <3>1, <3>2 DEF x
  <2>8. services[j].name \in Conflicting(h.u)
    BY <2>7 DEF Exclude, Conflicting, Instance
  <2>9. /\ JobsOf(todo) = {h} \cup JobsOf(Tail(todo))
        /\ \A k \in JobsOf(Tail(todo)) : k.op = "startset"
    BY <1>1, <2>1, <2>2, TailOf DEF ReqInv, Late
  <2> HIDE DEF h
  <2>10. Covered(services, JobsOf(todo), services[j].name)
    BY <1>1, <2>1, <2>8, <2>9 DEF ReqInv, Spawning
  <2>11. ~Pending(JobsOf(todo), services[j].name)
    BY <2>1, <2>9 DEF Pending
  <2>12. QED
    BY <2>7, <2>10, <2>11 DEF Covered, Down
<1>2. Inv /\ ReqInv /\ [Next]_vars => [Pushes]_vars
  BY <1>1
<1>3. QED
  BY <1>2, InvHolds, ReqHolds, PTL DEF Spec, FirstStartStopsConflicts

\* When every instance goes back to boot or to a start request: what runs when
\* isolate is through with a target is what the target pulls in (do_isolate),
\* with the stops, the conflicts and the failed spawns on the way.
THEOREM IsolateIsComplete ==
    ASSUME StartedOnRequest PROVE Spec => []IsolateLeavesOnlyTarget
<1>1. ASSUME Inv, ReqInv PROVE IsolateLeavesOnlyTarget
  <2> SUFFICES ASSUME NEW c \in Client, lock = c, todo = <<>>, client[c].req.op = "isolate",
                      Conf[client[c].req.u].target,
                      NEW i \in DOMAIN services, Up(services[i])
               PROVE  services[i].name \in Closure(client[c].req.u)
    BY DEF IsolateLeavesOnlyTarget
  <2>1. services[i].name \in Unit
    BY <1>1, Typed DEF Instance
  <2>2. JobsOf(todo) = {}
    BY DEF JobsOf
  <2>3. \A v \in Unit \ Closure(client[c].req.u) : Covered(services, {}, v)
    BY <1>1, <2>2 DEF ReqInv, Isolating, Within
  <2>4. QED
    BY <2>1, <2>3 DEF Covered, Pending, Down
<1>2. QED
  BY <1>1, InvHolds, ReqHolds, PTL

-----------------------------------------------------------------------------
(* Triggers.  A unit of Lone may have several records, of which at most one  *)
(* runs or is active.                                                        *)

Alone(s) == s.nextRestart = "none" /\ s.tracked = NoPid /\ ~s.waitDaemon

Sole(list) ==
    \A i \in DOMAIN list : list[i].name \in Lone =>
        /\ Alone(list[i])
        /\ \A j \in DOMAIN list : i # j /\ list[i].name = list[j].name
              => ~(UpOrActive(list[i]) /\ UpOrActive(list[j]))

Permitted(j) ==
    /\ j.op \in {"start", "spawn"} => j.u \notin Lone
    /\ j.op = "startset" => j.set \cap Lone = {}
    /\ j.op \in {"isolate", "isostart"} => Closure(j.u) \cap Lone = {}

\* The jobs of a control thread do not start such a unit.
Lawful(J) == \A j \in J : Permitted(j)

TrigInv ==
    /\ \A k \in DOMAIN trig : trig[k] \in Triggered
    /\ Serving /\ Phased(todo) /\ Lawful(JobsOf(todo)) /\ Sole(services)

\* What becomes of a record of such a unit in a step that does not start it.
Eases(s, r) ==
    /\ r.name = s.name
    /\ s.name \in Lone /\ Alone(s) => Alone(r) /\ (UpOrActive(r) => UpOrActive(s))
Relaxes(list, list2) ==
    DOMAIN list2 = DOMAIN list /\ \A i \in DOMAIN list : Eases(list[i], list2[i])

LEMMA RelaxesSelf == ASSUME NEW list PROVE Relaxes(list, list)
BY DEF Relaxes, Eases

LEMMA RelaxedSole ==
    ASSUME NEW list, NEW list2, Relaxes(list, list2), Sole(list)
    PROVE  Sole(list2)
<1>1. \A i \in DOMAIN list2 : i \in DOMAIN list /\ Eases(list[i], list2[i])
  BY DEF Relaxes
<1>2. ASSUME NEW i \in DOMAIN list2, list2[i].name \in Lone
      PROVE  /\ list[i].name = list2[i].name /\ Alone(list[i]) /\ Alone(list2[i])
             /\ UpOrActive(list2[i]) => UpOrActive(list[i])
  BY <1>1, <1>2 DEF Sole, Eases
<1>3. ASSUME NEW i \in DOMAIN list2, NEW j \in DOMAIN list2, i # j,
             list2[i].name = list2[j].name, list2[i].name \in Lone
      PROVE  ~(UpOrActive(list2[i]) /\ UpOrActive(list2[j]))
  <2>1. i \in DOMAIN list /\ j \in DOMAIN list /\ list[i].name = list[j].name
        /\ list[i].name \in Lone
    BY <1>1, <1>2, <1>3
  <2>2. ~(UpOrActive(list[i]) /\ UpOrActive(list[j]))
    BY <1>3, <2>1 DEF Sole
  <2>3. QED
    BY <1>2, <1>3, <2>2
<1>4. QED
  BY <1>2, <1>3 DEF Sole

LEMMA ReplacedRelaxes ==
    ASSUME NEW list, NEW i \in DOMAIN list, NEW x, Eases(list[i], x)
    PROVE  Relaxes(list, [list EXCEPT ![i] = x])
BY DEF Relaxes, Eases

LEMMA GrownSole ==
    ASSUME services \in Seq(Instance), Sole(services), NEW x \in Instance,
           x.name \in Lone => /\ Alone(x)
                              /\ \A i \in Named(x.name) : ~UpOrActive(services[i])
    PROVE  Sole(Append(services, x))
<1> DEFINE n == Len(services)
           list == Append(services, x)
<1>1. /\ n \in Nat /\ DOMAIN services = 1..n /\ DOMAIN list = 1..(n + 1)
      /\ list[n + 1] = x /\ \A i \in DOMAIN services : list[i] = services[i]
  BY AppendProperties
<1> HIDE DEF n, list
<1>2. \A i \in DOMAIN list : i = n + 1 \/ i \in DOMAIN services
  BY <1>1
<1>3. \A i \in DOMAIN list : list[i].name \in Lone => Alone(list[i])
  BY <1>1, <1>2 DEF Sole
<1>4. ASSUME NEW i \in DOMAIN services, services[i].name = x.name, x.name \in Lone
      PROVE  ~UpOrActive(services[i])
  BY <1>4 DEF Named
<1>5. ASSUME NEW i \in DOMAIN list, NEW j \in DOMAIN list, i # j,
             list[i].name = list[j].name, list[i].name \in Lone
      PROVE  ~(UpOrActive(list[i]) /\ UpOrActive(list[j]))
  <2>1. CASE i \in DOMAIN services /\ j \in DOMAIN services
    BY <1>1, <1>5, <2>1 DEF Sole
  <2>2. CASE i = n + 1 /\ j \in DOMAIN services
    BY <1>1, <1>4, <1>5, <2>2
  <2>3. CASE j = n + 1 /\ i \in DOMAIN services
    BY <1>1, <1>4, <1>5, <2>3
  <2>4. QED
    BY <1>2, <1>5, <2>1, <2>2, <2>3
<1>6. QED
  BY <1>3, <1>5 DEF Sole, list

\* The list of triggers.
LEMMA FiredTriggers ==
    ASSUME Inv, NEW s \in Instance, NEW k \in DOMAIN ScanExit(s).fired
    PROVE  ScanExit(s).fired[k] \in Triggered
<1>1. s.name \in Unit
  BY DEF Instance
<1>2. Conf[s.name].onSuccess \in Seq(Unit) /\ Conf[s.name].onFailure \in Seq(Unit)
  BY <1>1, ConfAssumption DEF UnitConf
<1>3. ScanExit(s).fired \in {<<>>, Conf[s.name].onSuccess, Conf[s.name].onFailure}
  BY DEF ScanExit
<1>4. DOMAIN <<>> = {}
  OBVIOUS
<1>5. ScanExit(s).fired \in {Conf[s.name].onSuccess, Conf[s.name].onFailure}
  BY <1>3, <1>4
<1>6. ScanExit(s).fired[k] \in Unit
  BY <1>2, <1>5
<1>7. QED
  BY <1>1, <1>5, <1>6 DEF Triggered

-----------------------------------------------------------------------------
(* Kinds of steps, for TrigInv.                                              *)

\* A step that leaves the jobs alone.
LEMMA TrigFrame ==
    ASSUME TrigInv, trig' = trig, UNCHANGED <<lock, todo>>, Relaxes(services, services'),
           pc' = pc \/ (pc # "shutdown" /\ pc' # "shutdown"),
           lock \in Client => client'[lock] = client[lock]
    PROVE  TrigInv'
<1>1. Serving'
  BY DEF TrigInv, Serving
<1>2. Phased(todo') /\ Lawful(JobsOf(todo')) /\ Sole(services')
  BY RelaxedSole DEF TrigInv
<1>3. QED
  BY <1>1, <1>2 DEF TrigInv

\* A step after which no control thread has the lock.
LEMMA TrigIdle ==
    ASSUME \A k \in DOMAIN trig' : trig'[k] \in Triggered,
           lock' \notin Client, todo' = <<>> \/ pc' = "shutdown",
           \A k \in DOMAIN todo' : todo'[k].op = "kill", Sole(services')
    PROVE  TrigInv'
<1>1. Serving'
  BY DEF Serving
<1>2. Phased(todo') /\ Lawful(JobsOf(todo'))
  BY DEF Phased, Late, Lawful, Permitted, JobsOf
<1>3. QED
  BY <1>1, <1>2 DEF TrigInv

\* A step of the main thread, which holds the lock and has no jobs.
LEMMA TrigMain ==
    ASSUME TrigInv, lock \notin Client, pc # "shutdown", lock' \in {"free", "main"},
           \A k \in DOMAIN trig' : trig'[k] \in Triggered, todo' = todo, Sole(services')
    PROVE  TrigInv'
<1>1. todo = <<>> /\ DOMAIN <<>> = {}
  BY DEF TrigInv, Serving
<1>2. lock' \notin Client
  BY ManagerAssumption
<1>3. QED
  BY <1>1, <1>2, TrigIdle

\* A step of a control thread: the job at the head is replaced by pre.
LEMMA TrigWorked ==
    ASSUME TrigInv, Inv, lock \in Client, todo # <<>>, UNCHANGED <<lock, client, pc, trig>>,
           NEW pre \in Seq(Job), todo' = pre \o Tail(todo),
           NEW h \in Job, h = Head(todo), NEW P, P = JobsOf(pre), Phased(pre),
           \A j \in P : j.op \in Late => h.op \in Late,
           Sole(services'), Permitted(h) => Lawful(P)
    PROVE  TrigInv'
<1> DEFINE R == JobsOf(Tail(todo))
<1>1. todo \in Seq(Job) /\ Tail(todo) \in Seq(Job)
  BY TailJobs DEF Inv, TypeOK
<1>2. /\ JobsOf(todo) = {h} \cup R /\ Phased(Tail(todo))
      /\ h.op \in Late => \A j \in R : j.op = "startset"
  BY <1>1, TailOf DEF TrigInv
<1>3. JobsOf(todo') = P \cup R /\ Phased(todo')
  <2>1. (\E j \in JobsOf(pre) : j.op \in Late) => \A j \in R : j.op = "startset"
    BY <1>2
  <2>2. QED
    BY <1>1, <1>2, <2>1, Prepended
<1> HIDE DEF R
<1>4. Permitted(h) /\ Lawful(R)
  BY <1>2 DEF TrigInv, Lawful
<1>6. Lawful(JobsOf(todo'))
  BY <1>3, <1>4 DEF Lawful
<1>7. Serving'
  BY ManagerAssumption DEF TrigInv, Serving, Inv, LockDiscipline
<1>8. QED
  BY <1>3, <1>6, <1>7 DEF TrigInv

-----------------------------------------------------------------------------
(* The main loop and the triggers.                                           *)

LEMMA NoRestartScheduled ==
    ASSUME NEW s \in Instance, s.name \in Lone, NEW failed, NEW sd
    PROVE  LET r == ScheduleRestart(s, failed, sd)
           IN  /\ r.name = s.name /\ r.child = s.child /\ r.tracked = s.tracked
               /\ r.waitDaemon = s.waitDaemon /\ r.active = s.active
               /\ r.nextRestart = s.nextRestart
<1> DEFINE c == CountExit(s, failed)
<1>1. /\ c.name = s.name /\ c.child = s.child /\ c.tracked = s.tracked
      /\ c.waitDaemon = s.waitDaemon /\ c.active = s.active /\ c.nextRestart = s.nextRestart
  BY DEF CountExit, Instance
<1>2. c.name = s.name
  BY <1>1
<1>3. ~WantRestart(c.name, failed)
  BY <1>2 DEF WantRestart, Lone
<1>4. ScheduleRestart(s, failed, sd) = c
  BY <1>3 DEF ScheduleRestart
<1> HIDE DEF c
<1>5. QED
  BY <1>1, <1>4

\* try_wait: an exit leaves such an instance without a process, active or not.
LEMMA ScanExitEases ==
    ASSUME NEW s \in Instance, s.name \in Lone, Alone(s),
           proc \in [Pid -> Process], shutdown \in BOOLEAN
    PROVE  LET r == ScanExit(s).inst
           IN  Alone(r) /\ (UpOrActive(r) => UpOrActive(s))
<1> DEFINE failed == OurChild(s.child) /\ ~ExitIsSuccess(proc[s.child].code)
           act == s.active \/ (~failed /\ Conf[s.name].remain)
           e   == [s EXCEPT !.child = NoPid, !.waitReady = FALSE,
                            !.watchdogDeadline = "none", !.active = act]
           r == ScanExit(s).inst
           g == ScheduleRestart(e, failed, shutdown)
<1>1. r = s \/ (s.child # NoPid /\ r = ChildExited(s, failed, shutdown))
  BY DEF ScanExit
<1>2. CASE r = s
  BY <1>2
<1>3. CASE s.child # NoPid /\ r = ChildExited(s, failed, shutdown)
  <2>1. ChildExited(s, failed, shutdown) = IF e.active THEN e ELSE g
    BY DEF ChildExited
  <2>2. act \in BOOLEAN
    BY DEF Instance
  <2> HIDE DEF act, failed
  <2>3. /\ e \in Instance /\ e.name = s.name /\ e.tracked = s.tracked /\ e.waitDaemon = s.waitDaemon
        /\ e.nextRestart = s.nextRestart
    BY <2>2 DEF Instance, Timer, OptPid
  <2> HIDE DEF e
  <2>4. /\ g.tracked = e.tracked /\ g.waitDaemon = e.waitDaemon /\ g.nextRestart = e.nextRestart
    BY <2>3, NoRestartScheduled
  <2> HIDE DEF g
  <2>5. Alone(r)
    BY <1>3, <2>1, <2>3, <2>4 DEF Alone
  <2>6. UpOrActive(s)
    BY <1>3 DEF UpOrActive, Up
  <2>7. QED
    BY <2>5, <2>6
<1>4. QED
  BY <1>1, <1>2, <1>3

LEMMA MainScanRelaxes ==
    ASSUME Inv, MainScan
    PROVE  Relaxes(services, services')
<1> DEFINE s == services[idx]
<1>1. /\ s \in Instance /\ idx \in DOMAIN services /\ proc \in [Pid -> Process]
      /\ shutdown \in BOOLEAN
  BY Typed DEF MainScan
<1>2. SameNames(services, services')
  BY MainScanNames
<1>3. \A i \in DOMAIN services : i # idx => services'[i] = services[i]
  BY DEF MainScan, ScanDaemonizing, ScanRunning
<1>4. ASSUME s.name \in Lone, Alone(s)
      PROVE  Alone(services'[idx]) /\ (UpOrActive(services'[idx]) => UpOrActive(s))
  <2> DEFINE r == ScanExit(s).inst
  <2>1. ScanRunning(s)
    BY <1>4 DEF MainScan, ScanDaemonizing, Alone
  <2>2. Alone(r) /\ (UpOrActive(r) => UpOrActive(s))
    BY <1>1, <1>4, ScanExitEases
  <2>3. ~RestartDue(r)
    BY <2>2 DEF RestartDue, Alone
  <2>4. services' = [services EXCEPT ![idx] = r]
    BY <2>1, <2>3 DEF ScanRunning
  <2> HIDE DEF r
  <2>5. services'[idx] = r
    BY <1>1, <2>4
  <2>6. QED
    BY <2>2, <2>5
<1>5. QED
  BY <1>2, <1>3, <1>4 DEF SameNames, Relaxes, Eases

LEMMA MainReapRelaxes ==
    ASSUME Inv, NEW p \in Pid, MainReap(p)
    PROVE  Relaxes(services, services')
<1>1. SameNames(services, services')
  BY MainReapNames
<1>2. ASSUME NEW i \in DOMAIN services, Alone(services[i])
      PROVE  Alone(services'[i]) /\ (UpOrActive(services'[i]) => UpOrActive(services[i]))
  <2> DEFINE s == services[i]
             e == [s EXCEPT !.child = NoPid]
  <2>1. s \in Instance
    BY Typed
  <2>2. s.tracked # p
    BY <1>2, NoPidAssumption DEF Alone
  <2>3. services'[i] \in {s, e}
    BY <1>2, <2>2 DEF MainReap, OrphanReaped, Alone
  <2> HIDE DEF s
  <2>4. /\ e.tracked = s.tracked /\ e.waitDaemon = s.waitDaemon /\ e.nextRestart = s.nextRestart
        /\ e.child = NoPid /\ e.active = s.active
    BY <2>1 DEF Instance
  <2> HIDE DEF e
  <2>5. Alone(s)
    BY <1>2 DEF s
  <2>6. Alone(e) /\ (UpOrActive(e) => UpOrActive(s))
    BY <2>4, <2>5 DEF Alone, UpOrActive, Up
  <2>7. Alone(services'[i]) /\ (UpOrActive(services'[i]) => UpOrActive(s))
    BY <2>3, <2>5, <2>6
  <2>8. QED
    BY <2>7 DEF s
<1>3. QED
  BY <1>1, <1>2 DEF SameNames, Relaxes, Eases

\* A step that touches none of the fields in question.
LEMMA SameEases ==
    ASSUME NEW s, NEW r, r.name = s.name, r.child = s.child, r.tracked = s.tracked,
           r.active = s.active, r.waitDaemon = s.waitDaemon, r.nextRestart = s.nextRestart
    PROVE  Eases(s, r)
BY DEF Eases, Alone, UpOrActive, Up

LEMMA MainWatchdogRelaxes == ASSUME Inv, MainWatchdog PROVE Relaxes(services, services')
<1>1. ASSUME NEW i \in DOMAIN services PROVE Eases(services[i], services'[i])
  <2> DEFINE s == services[i]
             r == [s EXCEPT !.watchdogDeadline = "none"]
  <2>1. s \in Instance /\ services'[i] \in {s, r}
    BY Typed DEF MainWatchdog
  <2> HIDE DEF s
  <2>2. /\ r.name = s.name /\ r.child = s.child /\ r.tracked = s.tracked /\ r.active = s.active
        /\ r.waitDaemon = s.waitDaemon /\ r.nextRestart = s.nextRestart
    BY <2>1 DEF Instance
  <2> HIDE DEF r
  <2>3. Eases(s, s) /\ Eases(s, r)
    BY <2>2, SameEases
  <2>4. QED
    BY <2>1, <2>3 DEF s
<1>2. QED
  BY <1>1 DEF MainWatchdog, Relaxes

LEMMA MainNotifyRelaxes == ASSUME Inv, MainNotify PROVE Relaxes(services, services')
<1>1. CASE services' = [i \in DOMAIN services |-> Notified(services[i])]
  <2>1. ASSUME NEW s \in Instance PROVE Eases(s, Notified(s))
    <3> DEFINE r == Notified(s)
    <3>1. /\ r.name = s.name /\ r.child = s.child /\ r.tracked = s.tracked /\ r.active = s.active
          /\ r.waitDaemon = s.waitDaemon /\ r.nextRestart = s.nextRestart
      BY DEF Notified, Instance
    <3> HIDE DEF r
    <3>2. Eases(s, r)
      BY <3>1, SameEases
    <3>3. QED
      BY <3>2 DEF r
  <2>2. QED
    BY <1>1, <2>1, Typed DEF Relaxes
<1>2. QED
  BY <1>1, RelaxesSelf DEF MainNotify

\* 1c and 1d: what is started had no running instance.
LEMMA MainTriggerSole ==
    ASSUME Inv, TrigInv, MainTrigger
    PROVE  Sole(services')
<1> DEFINE u == Head(trig)
<1>1. services \in Seq(Instance) /\ Sole(services) /\ trig \in Seq(Unit) /\ trig # <<>>
  BY DEF Inv, TypeOK, TrigInv, MainTrigger
<1>2. u \in Triggered /\ u \in Unit
  <2>1. 1 \in DOMAIN trig /\ u = trig[1]
    BY <1>1
  <2>2. QED
    BY <2>1 DEF TrigInv, Triggered
<1>3. services' = services \/
        \E x \in Instance : /\ services' = Append(services, x) /\ x.name = u
                            /\ u \in Lone => Alone(x)
                            /\ ~\E i \in Named(u) : ChildOrActive(services[i])
  <2>1. CASE \E i \in Named(u) : ChildOrActive(services[i])
    BY <2>1 DEF MainTrigger
  <2>2. CASE StartYieldsNothing(u) \/ StartPostFails(u)
    BY <2>2 DEF StartYieldsNothing, StartPostFails
  <2>3. CASE ~(\E i \in Named(u) : ChildOrActive(services[i])) /\ StartYieldsInstance(u)
    <3>1. CASE services' = Append(services, OneshotInstance(u))
      <4> DEFINE x == OneshotInstance(u)
      <4>1. x \in Instance /\ x.name = u /\ Alone(x)
        <5>1. x \in Instance
          BY <1>2, OneshotType
        <5>2. x.name = u /\ x.nextRestart = "none" /\ x.tracked = NoPid /\ x.waitDaemon = FALSE
          BY DEF OneshotInstance, NewInstance
        <5>3. QED
          BY <5>1, <5>2 DEF Alone
      <4> HIDE DEF x
      <4>2. QED
        BY <2>3, <3>1, <4>1 DEF x
    <3>2. ASSUME NEW p \in FreePids(proc), services' = Append(services, Started(u, p))
          PROVE  \E x \in Instance : /\ services' = Append(services, x) /\ x.name = u
                                     /\ u \in Lone => Alone(x)
      <4> DEFINE x == Started(u, p)
      <4>1. p \in OptPid
        BY DEF FreePids, OptPid
      <4>2. x \in Instance /\ x.name = u
        BY <1>2, <4>1, StartedType, StartedFresh DEF Fresh
      <4>3. ASSUME u \in Lone PROVE Alone(x)
        <5>1. x = NewInstance(u, p)
          BY <4>3 DEF Started, Lone
        <5>2. QED
          BY <5>1 DEF NewInstance, Alone
      <4> HIDE DEF x
      <4>4. QED
        BY <3>2, <4>2, <4>3 DEF x
    <3>3. QED
      BY <2>3, <3>1, <3>2 DEF StartYieldsInstance
  <2>4. QED
    BY <2>1, <2>2, <2>3 DEF MainTrigger
<1> HIDE DEF u
<1>4. ASSUME NEW x \in Instance, services' = Append(services, x), x.name = u,
             u \in Lone => Alone(x), ~\E i \in Named(u) : ChildOrActive(services[i])
      PROVE  Sole(services')
  <2>2. ASSUME u \in Lone, NEW i \in Named(u) PROVE ~UpOrActive(services[i])
    <3>1. Alone(services[i])
      BY <1>1, <2>2 DEF Named, Sole
    <3>2. QED
      BY <1>4, <2>2, <3>1 DEF Alone, ChildOrActive, UpOrActive, Up
  <2>3. QED
    BY <1>1, <1>4, <2>2, GrownSole
<1>5. QED
  BY <1>1, <1>3, <1>4

\* An accepted connection adds an instance of a socket unit.
LEMMA MainSocketSole ==
    ASSUME Inv, TrigInv, NEW u \in DOMAIN Socket, MainSocket(u)
    PROVE  Sole(services')
<1>1. services \in Seq(Instance) /\ Sole(services) /\ u \in Unit /\ proc \in [Pid -> Process]
  BY ManagerAssumption DEF Inv, TypeOK, TrigInv
<1>2. PICK p \in SpawnResults(proc, u) :
        services' = IF p = NoPid THEN services ELSE Append(services, NewInstance(u, p))
  BY DEF MainSocket
<1> DEFINE x == NewInstance(u, p)
<1>3. x \in Instance /\ x.name = u
  BY <1>1, SpawnedType, NewInstanceType DEF NewInstance
<1>4. services' = services \/ services' = Append(services, x)
  BY <1>2
<1> HIDE DEF x
<1>5. x.name \notin Lone
  BY <1>3 DEF Lone
<1>6. QED
  BY <1>1, <1>3, <1>4, <1>5, GrownSole

LEMMA MainLoopTrig ==
    ASSUME TrigInv, Inv, MainLoop
    PROVE  TrigInv'
<1> USE DEF mainVars, osVars, evVars, jobVars
<1>1. /\ "main" \notin Client /\ "free" \notin Client
      /\ \A k \in DOMAIN trig : trig[k] \in Triggered
      /\ Sole(services) /\ trig \in Seq(Unit)
  BY ManagerAssumption DEF TrigInv, Inv, TypeOK
<1>2. pc \in {"scan", "timers", "wdog", "trig", "ext", "reap", "flag", "sock"} => lock = "main"
  BY DEF Inv, LockDiscipline
<1>3. CASE MainScan
  <2> DEFINE f == ScanExit(services[idx]).fired
  <2>1. /\ lock' = lock /\ todo' = todo /\ pc = "scan" /\ services[idx] \in Instance
        /\ proc \in [Pid -> Process] /\ shutdown \in BOOLEAN
        /\ trig' = trig \/ trig' = trig \o f
    BY <1>3, Typed DEF MainScan, ScanDaemonizing, ScanRunning
  <2>2. f \in Seq(Unit) /\ \A k \in DOMAIN f : f[k] \in Triggered
    BY <2>1, ScanExitType, FiredTriggers
  <2> HIDE DEF f
  <2>3. \A k \in DOMAIN trig' : trig'[k] \in Triggered
    <3>1. CASE trig' = trig
      BY <1>1, <3>1
    <3>2. CASE trig' = trig \o f
      <4>1. /\ Len(trig) \in Nat /\ Len(f) \in Nat /\ DOMAIN trig = 1..Len(trig) /\ DOMAIN f = 1..Len(f)
            /\ DOMAIN (trig \o f) = 1..(Len(trig) + Len(f))
            /\ \A k \in 1..(Len(trig) + Len(f)) :
                  (trig \o f)[k] = IF k <= Len(trig) THEN trig[k] ELSE f[k - Len(trig)]
        BY <1>1, <2>2, ConcatProperties
      <4>2. ASSUME NEW k \in 1..(Len(trig) + Len(f)) PROVE (trig \o f)[k] \in Triggered
        <5>1. CASE k <= Len(trig)
          BY <1>1, <4>1, <5>1
        <5>2. CASE ~(k <= Len(trig))
          <6>1. k - Len(trig) \in DOMAIN f
            BY <4>1, <5>2
          <6>2. QED
            BY <2>2, <4>1, <5>2, <6>1
        <5>3. QED
          BY <5>1, <5>2
      <4>3. QED
        BY <3>2, <4>1, <4>2
    <3>3. QED
      BY <2>1, <3>1, <3>2
  <2>4. Sole(services')
    BY <1>1, <1>3, MainScanRelaxes, RelaxedSole
  <2>5. QED
    BY <1>1, <1>2, <2>1, <2>3, <2>4, TrigMain
<1>4. CASE MainTrigger
  <2>1. lock' = lock /\ todo' = todo /\ pc \in {"trig", "ext"} /\ trig' = Tail(trig) /\ trig # <<>>
    BY <1>4 DEF MainTrigger
  <2>2. \A k \in DOMAIN trig' : trig'[k] \in Triggered
    <3>1. /\ Tail(trig) \in Seq(Unit) /\ Len(Tail(trig)) = Len(trig) - 1
          /\ \A k \in 1..Len(Tail(trig)) : Tail(trig)[k] = trig[k + 1]
      BY <1>1, <2>1, HeadTailProperties
    <3>2. Len(trig) \in Nat /\ DOMAIN trig = 1..Len(trig) /\ DOMAIN Tail(trig) = 1..(Len(trig) - 1)
      BY <1>1, <3>1
    <3>3. \A k \in DOMAIN Tail(trig) : k + 1 \in DOMAIN trig /\ Tail(trig)[k] = trig[k + 1]
      BY <3>1, <3>2
    <3>4. QED
      BY <1>1, <2>1, <3>3
  <2>3. QED
    BY <1>1, <1>2, <1>4, <2>1, <2>2, MainTriggerSole, TrigMain
<1>5. ASSUME NEW u \in DOMAIN Socket, MainSocket(u) PROVE TrigInv'
  <2>1. lock' = lock /\ todo' = todo /\ pc = "sock" /\ trig' = trig
    BY <1>5 DEF MainSocket
  <2>2. QED
    BY <1>1, <1>2, <1>5, <2>1, MainSocketSole, TrigMain
<1>6. CASE MainTimer
  <2>1. /\ lock' = lock /\ todo' = todo /\ pc = "timers" /\ services' = services
        /\ idx \in DOMAIN ExtTargets /\ trig' \in {trig, Append(trig, ExtTargets[idx])}
    BY <1>6 DEF MainTimer
  <2>2. ExtTargets[idx] \in Triggered
    BY <2>1, ManagerAssumption DEF Triggered
  <2>3. \A k \in DOMAIN trig' : trig'[k] \in Triggered
    <3>1. CASE trig' = trig
      BY <1>1, <3>1
    <3>2. CASE trig' = Append(trig, ExtTargets[idx])
      <4> DEFINE n == Len(trig)
                 u == ExtTargets[idx]
      <4>1. u \in Unit
        BY <2>2 DEF Triggered
      <4>2. /\ n \in Nat /\ DOMAIN trig = 1..n /\ DOMAIN Append(trig, u) = 1..(n + 1)
            /\ Append(trig, u)[n + 1] = u
            /\ \A k \in DOMAIN trig : Append(trig, u)[k] = trig[k]
        BY <1>1, <4>1, AppendProperties
      <4> HIDE DEF n, u
      <4>3. \A k \in 1..(n + 1) : k = n + 1 \/ k \in 1..n
        BY <4>2
      <4>4. u \in Triggered
        BY <2>2 DEF u
      <4>5. \A k \in DOMAIN Append(trig, u) : Append(trig, u)[k] \in Triggered
        BY <1>1, <4>2, <4>3, <4>4
      <4>6. QED
        BY <3>2, <4>5 DEF u
    <3>3. QED
      BY <2>1, <3>1, <3>2
  <2>4. QED
    BY <1>1, <1>2, <2>1, <2>3, TrigMain
<1>7. CASE MainWatchdog \/ MainNotify
  <2>1. lock' \in {"free", "main"} /\ todo' = todo /\ pc \in {"wdog", "sock"} /\ trig' = trig
    BY <1>2, <1>7 DEF MainWatchdog, MainNotify
  <2>2. Sole(services')
    BY <1>1, <1>7, MainWatchdogRelaxes, MainNotifyRelaxes, RelaxedSole
  <2>3. QED
    BY <1>1, <1>2, <2>1, <2>2, TrigMain
<1>8. ASSUME NEW p \in Pid, MainReap(p) PROVE TrigInv'
  <2>1. lock' = lock /\ todo' = todo /\ trig' = trig /\ pc = "reap"
    BY <1>8 DEF MainReap
  <2>2. Sole(services')
    BY <1>1, <1>8, MainReapRelaxes, RelaxedSole
  <2>3. QED
    BY <1>1, <1>2, <2>1, <2>2, TrigMain
<1>9. CASE \/ MainTryLock \/ MainScanEnd \/ MainTriggerEnd \/ MainTimersEnd
           \/ MainReapEnd \/ MainDropLock \/ MainRelock
  <2>1. /\ lock \in {"free", "main"} /\ lock' \in {"free", "main"} /\ pc # "shutdown"
        /\ trig' = trig \/ trig' = <<>>
        /\ UNCHANGED <<todo, services>>
    BY <1>1, <1>2, <1>9 DEF MainTryLock, MainScanEnd, MainTriggerEnd, MainTimersEnd,
                            MainReapEnd, MainDropLock, MainRelock
  <2>2. DOMAIN <<>> = {}
    OBVIOUS
  <2>3. \A k \in DOMAIN trig' : trig'[k] \in Triggered
    BY <1>1, <2>1, <2>2
  <2>4. QED
    BY <1>1, <2>1, <2>3, TrigMain
<1>10. CASE MainPollEvent \/ MainPollTimeout \/ MainPollInterrupted
  <2>1. UNCHANGED <<lock, todo, services, trig>> /\ pc = "poll" /\ pc' # "shutdown"
    BY <1>10 DEF MainPollEvent, MainPollTimeout, MainPollInterrupted
  <2>2. lock \in Client => client'[lock] = client[lock]
    <3>1. CASE client' = client
      BY <3>1
    <3>2. ASSUME NEW d \in Client, client[d].st = "conn",
                 client' = [client EXCEPT ![d].st = "wait"], lock \in Client
          PROVE  client'[lock] = client[lock]
      <4>1. lock # d
        BY <3>2 DEF TrigInv, Serving
      <4>2. QED
        BY <3>2, <4>1
    <3>3. QED
      BY <1>10, <3>1, <3>2 DEF MainPollEvent, MainPollTimeout, MainPollInterrupted
  <2>3. QED
    BY <2>1, <2>2, RelaxesSelf, TrigFrame
<1>11. QED
  BY <1>3, <1>4, <1>5, <1>6, <1>7, <1>8, <1>9, <1>10 DEF MainLoop

-----------------------------------------------------------------------------
(* Stops, requests and shutdown.                                             *)

\* A stop takes a process out of a record, or ends its active state.
LEMMA StopEases ==
    ASSUME NEW s \in Instance
    PROVE  /\ Eases(s, [s EXCEPT !.child = NoPid]) /\ Eases(s, [s EXCEPT !.tracked = NoPid])
           /\ Eases(s, [s EXCEPT !.active = FALSE]) /\ Eases(s, [s EXCEPT !.stopped = TRUE])
<1> DEFINE xc == [s EXCEPT !.child = NoPid]
           xt == [s EXCEPT !.tracked = NoPid]
           xa == [s EXCEPT !.active = FALSE]
           xs == [s EXCEPT !.stopped = TRUE]
<1>1. /\ xc.name = s.name /\ xc.child = NoPid /\ xc.tracked = s.tracked /\ xc.active = s.active
      /\ xc.waitDaemon = s.waitDaemon /\ xc.nextRestart = s.nextRestart
  BY DEF Instance
<1>2. /\ xt.name = s.name /\ xt.child = s.child /\ xt.tracked = NoPid /\ xt.active = s.active
      /\ xt.waitDaemon = s.waitDaemon /\ xt.nextRestart = s.nextRestart
  BY DEF Instance
<1>3. /\ xa.name = s.name /\ xa.child = s.child /\ xa.tracked = s.tracked /\ xa.active = FALSE
      /\ xa.waitDaemon = s.waitDaemon /\ xa.nextRestart = s.nextRestart
  BY DEF Instance
<1>4. /\ xs.name = s.name /\ xs.child = s.child /\ xs.tracked = s.tracked /\ xs.active = s.active
      /\ xs.waitDaemon = s.waitDaemon /\ xs.nextRestart = s.nextRestart
  BY DEF Instance
<1> HIDE DEF xc, xt, xa, xs
<1>5. Eases(s, xc) /\ Eases(s, xt) /\ Eases(s, xa) /\ Eases(s, xs)
  BY <1>1, <1>2, <1>3, <1>4 DEF Eases, Alone, UpOrActive, Up
<1>6. QED
  BY <1>5 DEF xc, xt, xa, xs

LEMMA EasesChain == ASSUME NEW s, NEW r, NEW q, Eases(s, r), Eases(r, q) PROVE Eases(s, q)
BY DEF Eases

LEMMA BeginStopRelaxes ==
    ASSUME NEW list \in Seq(Instance), NEW i \in DOMAIN list, BeginStop(list, i)
    PROVE  Relaxes(list, services') /\ (todo' = todo \/ todo' = Tail(todo))
<1> DEFINE s == list[i]
           xc == [s EXCEPT !.child = NoPid]
           xt == [s EXCEPT !.tracked = NoPid]
           xa == [s EXCEPT !.active = FALSE]
<1>1. s \in Instance
  OBVIOUS
<1>2. /\ \/ services' = [list EXCEPT ![i] = xc] \/ services' = [list EXCEPT ![i] = xa]
         \/ services' = [list EXCEPT ![i] = xt]
      /\ todo' = todo \/ todo' = Tail(todo)
  BY DEF BeginStop, StopTracked, StopDone
<1>3. Eases(s, xc) /\ Eases(s, xt) /\ Eases(s, xa)
  BY <1>1, StopEases
<1> HIDE DEF xc, xt, xa
<1>4. QED
  BY <1>2, <1>3, ReplacedRelaxes

\* A control thread's step that starts nothing and is done with the head, or not.
LEMMA TrigStopped ==
    ASSUME TrigInv, Inv, lock \in Client, todo # <<>>, UNCHANGED <<lock, client, pc, trig>>,
           todo' = todo \/ todo' = Tail(todo), Relaxes(services, services')
    PROVE  TrigInv'
<1>1. CASE todo' = todo
  BY <1>1, TrigFrame
<1>2. CASE todo' = Tail(todo)
  <2>1. todo \in Seq(Job) /\ Head(todo) \in Job /\ Tail(todo) \in Seq(Job)
    BY TailJobs DEF Inv, TypeOK
  <2>2. <<>> \in Seq(Job) /\ JobsOf(<<>>) = {} /\ Phased(<<>>)
    BY <2>1, ShortLists
  <2>3. todo' = <<>> \o Tail(todo)
    BY <1>2, <2>1
  <2>4. Sole(services') /\ Lawful({})
    BY RelaxedSole DEF TrigInv, Lawful
  <2>5. QED
    BY <2>1, <2>2, <2>3, <2>4, TrigWorked
<1>3. QED
  BY <1>1, <1>2

LEMMA StopStepTrig ==
    ASSUME TrigInv, Inv, StopStep
    PROVE  TrigInv'
<1> DEFINE i == stop.i
           s == services[i]
           xa == [s EXCEPT !.active = FALSE]
           xt == [s EXCEPT !.tracked = NoPid]
<1>1. UNCHANGED <<lock, client, pc, trig>> /\ stop # NoStop
  BY DEF StopStep, StopChildGone, StopDaemonGone, StopTimeout, NoStop, stopUnchanged, mainVars
<1>2. /\ lock \in Client \/ pc = "shutdown"
      /\ i \in DOMAIN services /\ todo # <<>> /\ todo \in Seq(Job)
      /\ s \in Instance
  BY <1>1, Typed DEF Inv, LockDiscipline
<1>3. /\ \/ services' = services
         \/ services' = [services EXCEPT ![i] = xa]
         \/ services' = [services EXCEPT ![i] = xt]
      /\ todo' = todo \/ todo' = Tail(todo)
  BY DEF StopStep, StopChildGone, StopDaemonGone, StopTimeout, StopTracked, StopDone
<1>4. Eases(s, xa) /\ Eases(s, xt)
  BY <1>2, StopEases
<1> HIDE DEF xa, xt
<1>5. Relaxes(services, services')
  BY <1>2, <1>3, <1>4, RelaxesSelf, ReplacedRelaxes
<1>6. CASE lock \in Client
  BY <1>1, <1>2, <1>3, <1>5, <1>6, TrigStopped
<1>7. CASE lock \notin Client
  <2>1. \A k \in DOMAIN todo' : todo'[k].op = "kill"
    <3>1. \A k \in DOMAIN todo : todo[k].op = "kill"
      BY <1>2, <1>7 DEF TrigInv, Serving
    <3>2. \A k \in DOMAIN Tail(todo) : Tail(todo)[k].op = "kill"
      BY <1>2, <3>1, TailJobs
    <3>3. QED
      BY <1>3, <3>1, <3>2
  <2>2. Sole(services') /\ \A k \in DOMAIN trig' : trig'[k] \in Triggered
    BY <1>1, <1>5, RelaxedSole DEF TrigInv
  <2>3. QED
    BY <1>1, <1>2, <1>7, <2>1, <2>2, TrigIdle
<1>8. QED
  BY <1>6, <1>7

LEMMA ShutdownTrig ==
    ASSUME TrigInv, Inv, Shutdown
    PROVE  TrigInv'
<1> USE DEF mainVars, osVars, evVars, jobVars, stopUnchanged
<1>1. /\ "main" \notin Client /\ services \in Seq(Instance) /\ todo \in Seq(Job)
      /\ Sole(services) /\ \A k \in DOMAIN trig : trig[k] \in Triggered
  BY ManagerAssumption DEF TrigInv, Inv, TypeOK
<1>2. CASE MainShutdown
  <2>1. lock = "main" /\ lock' = lock /\ pc' = "shutdown" /\ trig' = trig /\ services' = services
    BY <1>2 DEF MainShutdown, Inv, LockDiscipline
  <2>2. \A k \in DOMAIN todo' : todo'[k].op = "kill"
    BY <1>2 DEF MainShutdown
  <2>3. QED
    BY <1>1, <2>1, <2>2, TrigIdle
<1>3. CASE ShutdownStop
  <2> DEFINE i == Head(todo).i
  <2>1. /\ todo # <<>> /\ \A k \in DOMAIN todo : todo[k].i \in DOMAIN services
        /\ lock = "main" /\ pc = "shutdown" /\ UNCHANGED <<lock, pc, trig>>
        /\ BeginStop(services, i)
    BY <1>3 DEF ShutdownStop, Inv, LockDiscipline
  <2>2. i \in DOMAIN services
    BY <1>1, <2>1, TailJobs
  <2> HIDE DEF i
  <2>3. Relaxes(services, services') /\ (todo' = todo \/ todo' = Tail(todo))
    BY <1>1, <2>1, <2>2, BeginStopRelaxes
  <2>4. \A k \in DOMAIN todo' : todo'[k].op = "kill"
    <3>1. \A k \in DOMAIN todo : todo[k].op = "kill"
      BY <2>1 DEF TrigInv, Serving
    <3>2. \A k \in DOMAIN Tail(todo) : Tail(todo)[k].op = "kill"
      BY <1>1, <2>1, <3>1, TailJobs
    <3>3. QED
      BY <2>3, <3>1, <3>2
  <2>5. Sole(services')
    BY <1>1, <2>3, RelaxedSole
  <2>6. QED
    BY <1>1, <2>1, <2>4, <2>5, TrigIdle
<1>4. CASE ShutdownKillAll
  <2>1. /\ lock = "main" /\ lock' = lock /\ trig' = trig /\ services' = services
        /\ todo' = <<>> /\ DOMAIN <<>> = {}
    BY <1>4 DEF ShutdownKillAll, Inv, LockDiscipline
  <2>2. QED
    BY <1>1, <2>1, TrigIdle
<1>5. CASE (\E p \in Pid : DrainReap(p)) \/ DrainDeadline \/ PowerOff
  <2>1. /\ lock = "main" /\ lock' = lock /\ trig' = trig /\ services' = services
        /\ todo' = todo /\ pc # "shutdown"
    BY <1>5 DEF DrainReap, DrainDeadline, PowerOff, Inv, LockDiscipline
  <2>2. QED
    BY <1>1, <2>1, TrigMain
<1>6. QED
  BY <1>2, <1>3, <1>4, <1>5 DEF Shutdown

LEMMA EnvironmentTrig ==
    ASSUME TrigInv, Inv, Environment
    PROVE  TrigInv'
<1>1. UNCHANGED <<services, lock, todo, trig, pc>>
  BY DEF Environment, Exit, Daemonize, Notify, SockConnect, SockServed, Connect,
         SignalShutdown, HookExits, mainVars, jobVars
<1>2. lock \in Client => client'[lock] = client[lock]
  <2>1. ASSUME NEW c \in Client, NEW r \in Request, Connect(c, r), lock \in Client
        PROVE  client'[lock] = client[lock]
    <3>1. lock # c
      BY <2>1 DEF Connect, TrigInv, Serving
    <3>2. QED
      BY <2>1, <3>1 DEF Connect, Inv, TypeOK
  <2>2. client' = client \/ \E c \in Client, r \in Request : Connect(c, r)
    BY DEF Environment, Exit, Daemonize, Notify, SockConnect, SockServed,
           SignalShutdown, HookExits
  <2>3. QED
    BY <2>1, <2>2
<1>3. QED
  BY <1>1, <1>2, RelaxesSelf, TrigFrame

\* A restart that is not pending does not come due.
LEMMA TimeTrig ==
    ASSUME TrigInv, Inv, Time
    PROVE  TrigInv'
<1>1. UNCHANGED <<lock, todo, trig, pc, client>>
  BY DEF Time, TimerDue, WindowEnds, DeadlineDue, mainVars, jobVars
<1>2. Relaxes(services, services')
  <2>1. ASSUME NEW i \in DOMAIN services, NEW f \in TimerField \cup {"firstFailure"},
               NEW v, services' = [services EXCEPT ![i][f] = v],
               f = "nextRestart" => services[i].nextRestart = "armed"
        PROVE  Relaxes(services, services')
    <3> DEFINE s == services[i]
               r == [s EXCEPT ![f] = v]
    <3>1. s \in Instance /\ services' = [services EXCEPT ![i] = r]
      BY <2>1, Typed
    <3>2. f = "nextRestart" => s.nextRestart = "armed"
      BY <2>1
    <3> HIDE DEF s
    <3>3. /\ r.name = s.name /\ r.child = s.child /\ r.tracked = s.tracked /\ r.active = s.active
          /\ r.waitDaemon = s.waitDaemon /\ (f # "nextRestart" => r.nextRestart = s.nextRestart)
      BY <3>1 DEF Instance, TimerField
    <3> HIDE DEF r
    <3>4. Eases(s, r)
      BY <3>2, <3>3 DEF Eases, Alone, UpOrActive, Up
    <3>5. Eases(services[i], r)
      BY <3>4 DEF s
    <3>6. QED
      BY <3>1, <3>5, ReplacedRelaxes
  <2>2. ASSUME NEW i \in DOMAIN services, WindowEnds(i) PROVE Relaxes(services, services')
    <3>1. services' = [services EXCEPT ![i]["firstFailure"] = "old"]
      BY <2>2 DEF WindowEnds
    <3>2. QED
      BY <2>1, <3>1
  <2>3. ASSUME NEW i \in DOMAIN services, NEW f \in TimerField, TimerDue(i, f)
        PROVE  Relaxes(services, services')
    BY <2>1, <2>3 DEF TimerDue
  <2>4. CASE DeadlineDue
    BY <2>4, RelaxesSelf DEF DeadlineDue
  <2>5. QED
    BY <2>2, <2>3, <2>4 DEF Time
<1>3. QED
  BY <1>1, <1>2, TrigFrame

\* The jobs that only rewrite the list of jobs.
LEMMA TrigRewritten ==
    ASSUME TrigInv, Inv, NEW c \in Client, ClientStep(c), services' = services,
           NEW pre \in Seq(Job), todo' = pre \o Tail(todo),
           NEW h \in Job, h = Head(todo), NEW P, P = JobsOf(pre), Phased(pre),
           \A j \in P : j.op \in Late => h.op \in Late,
           Permitted(h) => Lawful(P)
    PROVE  TrigInv'
<1>1. lock \in Client /\ todo # <<>> /\ UNCHANGED <<lock, client, pc, trig>>
  BY DEF ClientStep, stopUnchanged, mainVars
<1>2. Sole(services')
  BY DEF TrigInv
<1>3. QED
  BY <1>1, <1>2, TrigWorked

\* One job, or two, in front of the rest.
LEMMA OneInFront ==
    ASSUME TrigInv, Inv, NEW c \in Client, ClientStep(c), services' = services,
           NEW h \in Job, h = Head(todo), NEW x \in Job, todo' = <<x>> \o Tail(todo),
           x.op \in Late => h.op \in Late, Permitted(h) => Permitted(x)
    PROVE  TrigInv'
<1>1. PICK pre : pre = <<x>>
  OBVIOUS
<1>2. pre \in Seq(Job) /\ JobsOf(pre) = {x} /\ Phased(pre)
  BY <1>1, ShortLists
<1>3. Permitted(h) => Lawful({x})
  BY DEF Lawful
<1>4. QED
  BY <1>1, <1>2, <1>3, TrigRewritten

LEMMA TwoInFront ==
    ASSUME TrigInv, Inv, NEW c \in Client, ClientStep(c), services' = services,
           NEW h \in Job, h = Head(todo), NEW x \in Job, NEW y \in Job,
           todo' = <<x, y>> \o Tail(todo),
           x.op \in Late \/ y.op \in Late => h.op \in Late, x.op \notin Late \/ y.op = "startset",
           Permitted(h) => Lawful({x, y})
    PROVE  TrigInv'
<1>1. PICK pre : pre = <<x, y>>
  OBVIOUS
<1>2. pre \in Seq(Job) /\ JobsOf(pre) = {x, y} /\ Phased(pre)
  BY <1>1, ShortLists
<1>3. QED
  BY <1>1, <1>2, TrigRewritten

LEMMA DroppedTrig ==
    ASSUME TrigInv, Inv, NEW c \in Client, ClientStep(c), services' = services, todo' = Tail(todo)
    PROVE  TrigInv'
<1>1. lock \in Client /\ todo # <<>> /\ UNCHANGED <<lock, client, pc, trig>>
  BY DEF ClientStep, stopUnchanged, mainVars
<1>2. QED
  BY <1>1, RelaxesSelf, TrigStopped

LEMMA Stop1Trig ==
    ASSUME TrigInv, Inv, NEW c \in Client, ClientStep(c), NEW u, JobStop1(u)
    PROVE  TrigInv'
<1>1. lock \in Client /\ todo # <<>> /\ UNCHANGED <<lock, client, pc, trig>>
  BY DEF ClientStep, stopUnchanged, mainVars
<1>2. CASE Find(u) = {} /\ todo' = Tail(todo) /\ UNCHANGED <<services, proc, stop>>
  BY <1>2, DroppedTrig
<1>3. ASSUME NEW i \in Find(u),
             IF UpOrActive(services[i])
             THEN BeginStop([services EXCEPT ![i].stopped = TRUE], i)
             ELSE /\ services' = [services EXCEPT ![i].stopped = TRUE]
                  /\ todo' = Tail(todo) /\ UNCHANGED <<proc, stop>>
      PROVE  TrigInv'
  <2> DEFINE s == services[i]
             y == [s EXCEPT !.stopped = TRUE]
             list == [services EXCEPT ![i] = y]
  <2>1. i \in DOMAIN services /\ s \in Instance /\ services \in Seq(Instance)
    BY Typed DEF Find, Named
  <2>2. list = [services EXCEPT ![i].stopped = TRUE]
    OBVIOUS
  <2>3. y \in Instance /\ Eases(s, y)
    <3>1. Eases(s, y)
      BY <2>1, StopEases
    <3> HIDE DEF s
    <3>2. y \in Instance
      BY <2>1 DEF Instance
    <3>3. QED
      BY <3>1, <3>2
  <2>4. \/ list = services' /\ todo' = Tail(todo)
        \/ BeginStop(list, i)
    BY <1>3, <2>2
  <2> HIDE DEF y
  <2>5. list \in Seq(Instance) /\ i \in DOMAIN list /\ Relaxes(services, list)
    BY <2>1, <2>3, SeqExcept, ReplacedRelaxes
  <2> HIDE DEF list
  <2>6. Relaxes(services, services') /\ (todo' = todo \/ todo' = Tail(todo))
    <3>1. CASE list = services' /\ todo' = Tail(todo)
      BY <2>5, <3>1
    <3>2. CASE BeginStop(list, i)
      <4>1. Relaxes(list, services') /\ (todo' = todo \/ todo' = Tail(todo))
        BY <2>5, <3>2, BeginStopRelaxes
      <4>2. QED
        BY <2>5, <4>1, EasesChain DEF Relaxes
    <3>3. QED
      BY <2>4, <3>1, <3>2
  <2>7. QED
    BY <1>1, <2>6, TrigStopped
<1>4. QED
  BY <1>2, <1>3 DEF JobStop1

LEMMA ResetTrig ==
    ASSUME TrigInv, Inv, NEW c \in Client, ClientStep(c), NEW S, JobReset(S)
    PROVE  TrigInv'
<1>1. /\ lock \in Client /\ todo # <<>> /\ UNCHANGED <<lock, client, pc, trig>>
      /\ todo' = Tail(todo) /\ DOMAIN services' = DOMAIN services
  BY DEF ClientStep, stopUnchanged, mainVars, JobReset
<1>2. ASSUME NEW i \in DOMAIN services PROVE Eases(services[i], services'[i])
  <2> DEFINE s == services[i]
             r == ForgetFailures(s)
  <2>1. services'[i] = s \/ services'[i] = r
    BY DEF JobReset
  <2>2. s \in Instance
    BY Typed
  <2> HIDE DEF s
  <2>3. /\ r.name = s.name /\ r.child = s.child /\ r.tracked = s.tracked /\ r.active = s.active
        /\ r.waitDaemon = s.waitDaemon /\ r.nextRestart = "none"
    BY <2>2 DEF ForgetFailures, Instance
  <2> HIDE DEF r
  <2>4. Eases(s, s) /\ Eases(s, r)
    BY <2>3 DEF Eases, Alone, UpOrActive, Up
  <2>5. QED
    BY <2>1, <2>4 DEF s
<1>3. QED
  BY <1>1, <1>2, TrigStopped DEF Relaxes

\* A start request on a record: the unit is not one that triggers start.
LEMMA StartExistingTrig ==
    ASSUME TrigInv, Inv, NEW c \in Client, ClientStep(c), NEW h \in Job, h = Head(todo),
           h.op = "start", JobRestartExisting(h.u)
    PROVE  TrigInv'
<1>1. /\ lock \in Client /\ todo # <<>> /\ UNCHANGED <<lock, client, pc, trig>>
      /\ todo' = Tail(todo) /\ todo \in Seq(Job)
  BY Typed DEF ClientStep, stopUnchanged, mainVars, JobRestartExisting
<1>2. h.u \notin Lone
  <2>1. h \in JobsOf(todo)
    BY <1>1, TailOf
  <2>2. QED
    BY <2>1 DEF TrigInv, Lawful, Permitted
<1>3. CASE services' = services
  BY <1>1, <1>3, DroppedTrig
<1>4. ASSUME NEW i \in Find(h.u), NEW p \in SpawnResults(proc, h.u),
             services' = [services EXCEPT ![i] =
                   Respawned([ForgetFailures(@) EXCEPT !.stopped = FALSE], p)]
      PROVE  TrigInv'
  <2> DEFINE f == ForgetFailures(services[i])
             r == [f EXCEPT !.stopped = FALSE]
             x == Respawned(r, p)
  <2>1. i \in DOMAIN services /\ services[i].name = h.u /\ services[i] \in Instance
    BY Typed DEF Find, Named
  <2>2. f \in Instance /\ f.name = h.u
    <3>1. f \in Instance /\ Less(services[i], f)
      BY <2>1, ForgottenLess, ForgetFailuresType
    <3>2. QED
      BY <2>1, <3>1 DEF Less
  <2>3. services' = [services EXCEPT ![i] = x]
    BY <1>4
  <2> HIDE DEF f
  <2>4. r \in Instance /\ r.name = h.u
    BY <2>2 DEF Instance
  <2> HIDE DEF r
  <2>5. x.name = h.u
    BY <2>4 DEF Respawned, Instance
  <2> HIDE DEF x
  <2>6. Relaxes(services, services')
    BY <1>2, <2>1, <2>3, <2>5, ReplacedRelaxes DEF Eases
  <2>7. QED
    BY <1>1, <2>6, TrigStopped
<1>5. QED
  BY <1>3, <1>4 DEF JobRestartExisting

LEMMA SpawnTrig ==
    ASSUME TrigInv, Inv, NEW c \in Client, ClientStep(c), NEW h \in Job, h = Head(todo),
           h.op = "spawn", JobSpawn(h.u)
    PROVE  TrigInv'
<1>1. /\ lock \in Client /\ todo # <<>> /\ UNCHANGED <<lock, client, pc, trig>>
      /\ todo' = Tail(todo) /\ todo \in Seq(Job) /\ Tail(todo) \in Seq(Job)
      /\ services \in Seq(Instance) /\ proc \in [Pid -> Process] /\ h.u \in Unit
      /\ Sole(services)
  BY Typed, TailJobs DEF ClientStep, stopUnchanged, mainVars, JobSpawn, Job, TrigInv
<1>2. h.u \notin Lone
  <2>1. h \in JobsOf(todo)
    BY <1>1, TailOf
  <2>2. QED
    BY <2>1 DEF TrigInv, Lawful, Permitted
<1>3. PICK p \in SpawnResults(proc, h.u) :
         services' = IF p = NoPid THEN services ELSE Append(services, Started(h.u, p))
  BY DEF JobSpawn
<1> DEFINE x == Started(h.u, p)
<1>4. x \in Instance /\ x.name = h.u
  BY <1>1, SpawnedType, StartedType, StartedFresh DEF Fresh
<1>5. services' = services \/ services' = Append(services, x)
  BY <1>3
<1> HIDE DEF x
<1>6. Sole(services')
  BY <1>1, <1>2, <1>4, <1>5, GrownSole
<1>7. <<>> \in Seq(Job) /\ JobsOf(<<>>) = {} /\ Phased(<<>>)
  BY ShortLists
<1>8. todo' = <<>> \o Tail(todo) /\ Lawful({})
  BY <1>1 DEF Lawful
<1>9. QED
  BY <1>1, <1>6, <1>7, <1>8, TrigWorked

\* The jobs that stop others.
LEMMA StopOthersTrig ==
    ASSUME TrigInv, Inv, NEW c \in Client, ClientStep(c), NEW h \in Job, h = Head(todo),
           \/ h.op = "linked" /\ JobLinked(h.u)
           \/ h.op = "stopset" /\ JobStopSet(h.u, h.set)
    PROVE  TrigInv'
<1>1. h.u \in Unit /\ h.set \in SUBSET Unit /\ \A i \in DOMAIN services : services[i].name \in Unit
  BY Typed DEF Job, Instance
<1>2. CASE JobLinked(h.u)
  <2> DEFINE S == {services[i].name : i \in
                      {k \in DOMAIN services :
                         /\ services[k].name # h.u
                         /\ h.u \in Conf[services[k].name].partOf
                         /\ UpOrActive(services[k])}}
             x == SetJob("stopset", h.u, S)
  <2>1. S \in SUBSET Unit
    BY <1>1
  <2>2. todo' = <<x>> \o Tail(todo) /\ services' = services
    BY <1>2 DEF JobLinked
  <2> HIDE DEF S
  <2>3. x \in Job /\ x.op = "stopset"
    BY <1>1, <2>1, JobType, JobFields DEF JobOp
  <2> HIDE DEF x
  <2>4. x.op \notin Late /\ Permitted(x)
    BY <2>3 DEF Late, Permitted
  <2>5. QED
    BY <2>2, <2>3, <2>4, OneInFront
<1>3. CASE JobStopSet(h.u, h.set)
  <2>1. CASE todo' = Tail(todo)
    BY <1>3, <2>1, DroppedTrig DEF JobStopSet
  <2>2. ASSUME NEW i \in DOMAIN services,
               todo' = <<MkJob("stop1", services[i].name),
                         SetJob("stopset", h.u, h.set \ {services[i].name})>> \o Tail(todo)
        PROVE  TrigInv'
    <3> DEFINE x == MkJob("stop1", services[i].name)
               y == SetJob("stopset", h.u, h.set \ {services[i].name})
    <3>1. h.set \ {services[i].name} \in SUBSET Unit /\ services[i].name \in Unit
      BY <1>1
    <3>2. x \in Job /\ x.op = "stop1" /\ y \in Job /\ y.op = "stopset"
      BY <1>1, <3>1, JobType, JobFields DEF JobOp
    <3>3. todo' = <<x, y>> \o Tail(todo) /\ services' = services
      BY <1>3, <2>2 DEF JobStopSet
    <3> HIDE DEF x, y
    <3>4. x.op \notin Late /\ y.op \notin Late /\ Lawful({x, y})
      BY <3>2 DEF Late, Lawful, Permitted
    <3>5. QED
      BY <3>2, <3>3, <3>4, TwoInFront
  <2>3. QED
    BY <1>3, <2>1, <2>2 DEF JobStopSet
<1>4. QED
  BY <1>2, <1>3

\* do_start on a unit without a record.
LEMMA StartNewTrig ==
    ASSUME TrigInv, Inv, NEW c \in Client, ClientStep(c), NEW h \in Job, h = Head(todo),
           h.op = "start", JobStartNew(h.u)
    PROVE  TrigInv'
<1>1. h.u \in Unit /\ services' = services
  BY DEF JobStartNew, Job
<1>2. CASE todo' = Tail(todo)
  BY <1>1, <1>2, DroppedTrig
<1>3. CASE todo' = <<SetJob("conflicts", h.u, Conflicting(h.u)), MkJob("spawn", h.u)>> \o Tail(todo)
  <2> DEFINE x == SetJob("conflicts", h.u, Conflicting(h.u))
             y == MkJob("spawn", h.u)
  <2>1. x \in Job /\ x.op = "conflicts" /\ y \in Job /\ y.op = "spawn" /\ y.u = h.u
    BY <1>1, ConflictsListed, JobType, JobFields DEF JobOp
  <2>2. todo' = <<x, y>> \o Tail(todo)
    BY <1>3
  <2> HIDE DEF x, y
  <2>4. x.op \notin Late /\ h.op \in Late /\ (Permitted(h) => Lawful({x, y}))
    BY <2>1 DEF Late, Lawful, Permitted
  <2>5. QED
    BY <1>1, <2>1, <2>2, <2>4, TwoInFront
<1>4. QED
  BY <1>2, <1>3 DEF JobStartNew

LEMMA ConflictsTrig ==
    ASSUME TrigInv, Inv, NEW c \in Client, ClientStep(c), NEW h \in Job, h = Head(todo),
           h.op = "conflicts", JobConflicts(h.u, h.set)
    PROVE  TrigInv'
<1>1. h.u \in Unit /\ h.set \in SUBSET Unit /\ services' = services
  BY DEF JobConflicts, Job
<1>2. todo \in Seq(Job) /\ todo # <<>>
  BY Typed DEF ClientStep
<1>3. Tail(todo) \in Seq(Job)
  BY <1>2, TailJobs
<1>4. CASE todo' = Tail(todo)
  BY <1>1, <1>4, DroppedTrig
<1>5. ASSUME NEW v \in h.set,
             todo' = (IF \E i \in Named(v) : Up(services[i])
                      THEN <<MkJob("stop1", v), MkJob("linked", v)>> ELSE <<>>)
                     \o <<SetJob("conflicts", h.u, h.set \ {v})>> \o Tail(todo)
      PROVE  TrigInv'
  <2> DEFINE x == MkJob("stop1", v)
             y == MkJob("linked", v)
             z == SetJob("conflicts", h.u, h.set \ {v})
  <2>1. /\ x \in Job /\ x.op = "stop1" /\ y \in Job /\ y.op = "linked"
        /\ z \in Job /\ z.op = "conflicts"
    <3>1. v \in Unit /\ h.set \ {v} \in SUBSET Unit
      BY <1>1
    <3>2. {"stop1", "linked", "conflicts"} \subseteq JobOp
      BY DEF JobOp
    <3>3. x \in Job /\ y \in Job
      BY <3>1, <3>2, JobType
    <3>4. z \in Job
      BY <1>1, <3>1, <3>2, JobType
    <3>5. x.op = "stop1" /\ y.op = "linked" /\ z.op = "conflicts"
      BY DEF MkJob, SetJob
    <3>6. QED
      BY <3>3, <3>4, <3>5
  <2>2. \/ todo' = (<<x, y>> \o <<z>>) \o Tail(todo)
        \/ todo' = (<<>> \o <<z>>) \o Tail(todo)
    BY <1>5
  <2> HIDE DEF x, y, z
  <2>3. PICK ab : ab \in {<<x, y>>, <<>>} /\ todo' = (ab \o <<z>>) \o Tail(todo)
    BY <2>2
  <2>4. /\ ab \in Seq(Job) /\ Phased(ab) /\ JobsOf(ab) \subseteq {x, y}
        /\ <<z>> \in Seq(Job) /\ JobsOf(<<z>>) = {z} /\ Phased(<<z>>)
    <3>1. /\ <<x, y>> \in Seq(Job) /\ JobsOf(<<x, y>>) = {x, y} /\ Phased(<<x, y>>)
          /\ <<>> \in Seq(Job) /\ JobsOf(<<>>) = {} /\ Phased(<<>>)
      BY <2>1, ShortLists DEF Late
    <3>2. <<z>> \in Seq(Job) /\ JobsOf(<<z>>) = {z} /\ Phased(<<z>>)
      BY <2>1, ShortLists
    <3>3. CASE ab = <<x, y>>
      BY <3>1, <3>2, <3>3
    <3>4. CASE ab = <<>>
      BY <3>1, <3>2, <3>4
    <3>5. QED
      BY <2>3, <3>3, <3>4
  <2>5. PICK pre : pre = ab \o <<z>>
    OBVIOUS
  <2>6. pre \in Seq(Job) /\ JobsOf(pre) = JobsOf(ab) \cup {z} /\ Phased(pre)
    <3>1. \A j \in JobsOf(ab) : j.op \notin Late
      BY <2>1, <2>4 DEF Late
    <3>2. pre \in Seq(Job)
      BY <2>4, <2>5
    <3>3. PICK w : w = <<z>>
      OBVIOUS
    <3>4. w \in Seq(Job) /\ JobsOf(w) = {z} /\ Phased(w) /\ pre = ab \o w
      BY <2>4, <2>5, <3>3
    <3>5. JobsOf(pre) = JobsOf(ab) \cup JobsOf(w)
      BY <2>4, <3>4, Prepended
    <3>6. Phased(pre)
      BY <2>4, <3>1, <3>4, Prepended
    <3>7. QED
      BY <3>2, <3>4, <3>5, <3>6
  <2>7. \A j \in JobsOf(pre) : j.op \in {"stop1", "linked", "conflicts"}
    BY <2>1, <2>4, <2>6
  <2>8. /\ \A j \in JobsOf(pre) : j.op \notin Late
        /\ Lawful(JobsOf(pre))
    BY <2>7 DEF Late, Lawful, Permitted
  <2>9. QED
    BY <1>1, <2>3, <2>5, <2>6, <2>8, TrigRewritten
<1>6. QED
  BY <1>4, <1>5 DEF JobConflicts

\* isolate starts what the target pulls in, which no trigger starts.
LEMMA IsolateTrig ==
    ASSUME TrigInv, Inv, NEW c \in Client, ClientStep(c), NEW h \in Job, h = Head(todo),
           \/ h.op = "isolate" /\ JobIsolate(h.u)
           \/ h.op = "isostart" /\ JobIsoStart(h.u)
           \/ h.op = "startset" /\ JobStartSet(h.u, h.set)
    PROVE  TrigInv'
<1>1. /\ h.u \in Unit /\ h.set \in SUBSET Unit /\ services' = services
      /\ \A i \in DOMAIN services : services[i].name \in Unit
  BY Typed DEF JobIsolate, JobIsoStart, JobStartSet, Job, Instance
<1>2. CASE todo' = Tail(todo)
  BY <1>1, <1>2, DroppedTrig
<1>3. CASE h.op = "isolate"
           /\ todo' = <<SetJob("stopset", h.u, Outside(h.u)), MkJob("isostart", h.u)>> \o Tail(todo)
  <2> DEFINE x == SetJob("stopset", h.u, Outside(h.u))
             y == MkJob("isostart", h.u)
  <2>1. Outside(h.u) \in SUBSET Unit
    BY <1>1 DEF Outside
  <2>2. x \in Job /\ x.op = "stopset" /\ y \in Job /\ y.op = "isostart" /\ y.u = h.u
    BY <1>1, <2>1, JobType, JobFields DEF JobOp
  <2>3. todo' = <<x, y>> \o Tail(todo)
    BY <1>3
  <2> HIDE DEF x, y
  <2>4. x.op \notin Late /\ h.op \in Late /\ (Permitted(h) => Lawful({x, y}))
    BY <1>3, <2>2 DEF Late, Lawful, Permitted
  <2>5. QED
    BY <1>1, <2>2, <2>3, <2>4, TwoInFront
<1>4. CASE h.op = "isostart" /\ JobIsoStart(h.u)
  <2>1. PICK S : S \subseteq Closure(h.u) /\ todo' = <<SetJob("startset", h.u, S)>> \o Tail(todo)
    BY <1>4 DEF JobIsoStart
  <2> DEFINE x == SetJob("startset", h.u, S)
  <2>2. S \in SUBSET Unit
    BY <2>1 DEF Closure
  <2>3. x \in Job /\ x.op = "startset" /\ x.set = S
    BY <1>1, <2>2, JobType, JobFields DEF JobOp
  <2>4. todo' = <<x>> \o Tail(todo)
    BY <2>1
  <2> HIDE DEF x
  <2>5. h.op \in Late /\ (Permitted(h) => Permitted(x))
    BY <1>4, <2>1, <2>3 DEF Late, Permitted
  <2>6. QED
    BY <1>1, <2>3, <2>4, <2>5, OneInFront
<1>5. ASSUME h.op = "startset", NEW n \in h.set,
             todo' = <<MkJob("start", n), SetJob("startset", h.u, h.set \ {n})>> \o Tail(todo)
      PROVE  TrigInv'
  <2> DEFINE x == MkJob("start", n)
             y == SetJob("startset", h.u, h.set \ {n})
  <2>1. n \in Unit /\ h.set \ {n} \in SUBSET Unit
    BY <1>1
  <2>2. /\ x \in Job /\ x.op = "start" /\ x.u = n
        /\ y \in Job /\ y.op = "startset" /\ y.set = h.set \ {n}
    <3>1. x \in Job
      BY <2>1, JobType DEF JobOp
    <3>2. y \in Job
      BY <1>1, <2>1, JobType DEF JobOp
    <3>3. QED
      BY <3>1, <3>2 DEF MkJob, SetJob
  <2>3. todo' = <<x, y>> \o Tail(todo)
    BY <1>5
  <2> HIDE DEF x, y
  <2>4. h.op \in Late /\ (Permitted(h) => Lawful({x, y}))
    BY <1>5, <2>2 DEF Late, Lawful, Permitted
  <2>5. QED
    BY <1>1, <2>2, <2>3, <2>4, TwoInFront
<1>6. QED
  BY <1>2, <1>3, <1>4, <1>5 DEF JobIsolate, JobStartSet

LEMMA ClientStepTrig ==
    ASSUME TrigInv, Inv, NEW c \in Client, ClientStep(c)
    PROVE  TrigInv'
<1>1. todo \in Seq(Job) /\ todo # <<>>
  BY DEF Inv, TypeOK, ClientStep
<1> DEFINE h == Head(todo)
<1>2. h \in Job
  BY <1>1, TailJobs
<1>3. \/ h.op = "stop1"     /\ JobStop1(h.u)
      \/ h.op = "linked"    /\ JobLinked(h.u)
      \/ h.op = "stopset"   /\ JobStopSet(h.u, h.set)
      \/ h.op = "start"     /\ (JobRestartExisting(h.u) \/ JobStartNew(h.u))
      \/ h.op = "conflicts" /\ JobConflicts(h.u, h.set)
      \/ h.op = "spawn"     /\ JobSpawn(h.u)
      \/ h.op = "isolate"   /\ JobIsolate(h.u)
      \/ h.op = "isostart"  /\ JobIsoStart(h.u)
      \/ h.op = "startset"  /\ JobStartSet(h.u, h.set)
      \/ h.op \in {"reset", "resetall"} /\ \E S : JobReset(S)
  BY DEF ClientStep
<1> HIDE DEF h
<1>4. h = Head(todo)
  BY DEF h
<1>5. CASE JobStop1(h.u)
  BY <1>5, Stop1Trig
<1>6. CASE \E S : JobReset(S)
  BY <1>6, ResetTrig
<1>7. CASE \/ h.op = "linked" /\ JobLinked(h.u)
           \/ h.op = "stopset" /\ JobStopSet(h.u, h.set)
  BY <1>2, <1>4, <1>7, StopOthersTrig
<1>8. CASE h.op = "start" /\ JobRestartExisting(h.u)
  BY <1>2, <1>4, <1>8, StartExistingTrig
<1>9. CASE h.op = "start" /\ JobStartNew(h.u)
  BY <1>2, <1>4, <1>9, StartNewTrig
<1>10. CASE h.op = "conflicts" /\ JobConflicts(h.u, h.set)
  BY <1>2, <1>4, <1>10, ConflictsTrig
<1>11. CASE h.op = "spawn" /\ JobSpawn(h.u)
  BY <1>2, <1>4, <1>11, SpawnTrig
<1>12. CASE \/ h.op = "isolate" /\ JobIsolate(h.u)
            \/ h.op = "isostart" /\ JobIsoStart(h.u)
            \/ h.op = "startset" /\ JobStartSet(h.u, h.set)
  BY <1>2, <1>4, <1>12, IsolateTrig
<1>13. QED
  BY <1>3, <1>5, <1>6, <1>7, <1>8, <1>9, <1>10, <1>11, <1>12

LEMMA ClientLockTrig ==
    ASSUME TrigInv, Inv, NEW c \in Client, ClientLock(c)
    PROVE  TrigInv'
<1> DEFINE req == client[c].req
<1>1. /\ req \in Request \cup {NoRequest} /\ lock = "free" /\ "free" \notin Client
      /\ client \in [Client -> [st : {"idle", "conn", "wait", "run"},
                                req : Request \cup {NoRequest}]]
  BY ManagerAssumption DEF ClientLock, Inv, TypeOK
<1>2. pc # "shutdown"
  BY <1>1 DEF Inv, LockDiscipline
<1>3. /\ lock' = c /\ client'[c].st = "run"
      /\ todo' = Jobs(req) /\ UNCHANGED <<services, pc, trig>>
  BY <1>1 DEF ClientLock, mainVars
<1> HIDE DEF req
<1>4. /\ Phased(todo')
      /\ \A j \in JobsOf(todo') : req \in Request /\ Asked(j, req)
  BY <1>1, <1>3, RequestJobs
<1>5. Serving'
  BY <1>2, <1>3 DEF Serving
<1>6. Lawful(JobsOf(todo'))
  BY <1>4 DEF Lawful, Asked, Permitted, Lone
<1>7. QED
  BY <1>3, <1>4, <1>5, <1>6 DEF TrigInv

LEMMA NextTrig ==
    ASSUME Inv, TrigInv, [Next]_vars
    PROVE  TrigInv'
<1>1. ASSUME NEW c \in Client, ClientDone(c) PROVE TrigInv'
  <2>1. /\ lock' \notin Client /\ todo' = <<>> /\ DOMAIN <<>> = {} /\ trig' = trig
        /\ services' = services
    BY <1>1, ManagerAssumption DEF ClientDone, mainVars, jobVars
  <2>2. QED
    BY <2>1, TrigIdle DEF TrigInv
<1>2. ASSUME NEW c \in Client, ClientLock(c) \/ ClientStep(c) \/ ClientDone(c) PROVE TrigInv'
  BY <1>1, <1>2, ClientLockTrig, ClientStepTrig
<1>3. CASE UNCHANGED vars
  <2>1. UNCHANGED <<services, lock, todo, trig, pc, client>>
    BY <1>3 DEF vars, mainVars, jobVars
  <2>2. QED
    BY <2>1, RelaxesSelf, TrigFrame
<1>4. QED
  BY <1>2, <1>3, MainLoopTrig, ShutdownTrig, StopStepTrig, TimeTrig, EnvironmentTrig
  DEF Next, Control

LEMMA InitTrig == Init => TrigInv
<1> SUFFICES ASSUME Init PROVE TrigInv
  OBVIOUS
<1>1. PICK f \in [DOMAIN BootUnits -> OptPid] :
         services = [i \in DOMAIN BootUnits |-> BootInstance(BootUnits[i], f[i])]
  BY DEF Init
<1>2. ASSUME NEW i \in DOMAIN services
      PROVE  services[i].name = BootUnits[i] /\ (services[i].name \in Lone => Alone(services[i]))
  <2> DEFINE u == BootUnits[i]
             p == f[i]
             x == BootInstance(u, p)
  <2>1. i \in DOMAIN BootUnits /\ services[i] = x
    BY <1>1
  <2>2. u \in Unit /\ p \in OptPid
    BY <1>1, <2>1, ManagerAssumption
  <2> HIDE DEF u, p
  <2>3. x.name = u
    BY <2>2, StartedFresh DEF Fresh, BootInstance, OptPid
  <2>4. ASSUME u \in Lone PROVE Alone(x)
    <3>1. x \in {NewInstance(u, p), NewInstance(u, NoPid), OneshotInstance(u)}
      BY <2>4 DEF Started, BootInstance, Lone
    <3>2. /\ Alone(NewInstance(u, p)) /\ Alone(NewInstance(u, NoPid))
      BY DEF NewInstance, Alone
    <3>3. Alone(OneshotInstance(u))
      BY DEF NewInstance, OneshotInstance, Alone
    <3>4. QED
      BY <3>1, <3>2, <3>3
  <2> HIDE DEF x
  <2>5. QED
    BY <2>1, <2>3, <2>4 DEF u
<1>3. Sole(services)
  BY <1>1, <1>2, ManagerAssumption DEF Sole
<1>4. todo = <<>> /\ DOMAIN <<>> = {} /\ lock \notin Client /\ pc # "shutdown" /\ trig = <<>>
  BY ManagerAssumption DEF Init
<1>5. Serving /\ Phased(todo) /\ Lawful(JobsOf(todo))
  BY <1>4 DEF Serving, Phased, Lawful, JobsOf
<1>6. QED
  BY <1>3, <1>4, <1>5 DEF TrigInv

\* In every configuration: a unit that OnFailure=, OnSuccess=, a timer or a path
\* starts, that has no restart policy, does not fork and is started by no
\* request and no socket, never has two instances that run or are active,
\* whatever fires while one is starting, running or being stopped (phases 1c
\* and 1d, start_unit).
THEOREM TriggersStartOne == Spec => []LoneRunsOnce
<1>1. Inv /\ TrigInv /\ [Next]_vars => TrigInv'
  BY NextTrig
<1>2. TrigInv => LoneRunsOnce
  BY DEF TrigInv, Sole, LoneRunsOnce, Named
<1>3. QED
  BY <1>1, <1>2, InitTrig, InvHolds, PTL DEF Spec

=============================================================================
