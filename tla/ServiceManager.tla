--------------------------- MODULE ServiceManager ---------------------------
(***************************************************************************)
(* rbox init after boot: the main loop (init/mod.rs, reap_with_shutdown),  *)
(* the control threads it spawns (init/server.rs), the stop and shutdown   *)
(* procedures (init/services.rs, init/shutdown.rs), and the kernel's       *)
(* process table beneath them.                                             *)
(*                                                                         *)
(* Whoever holds the services mutex runs alone against the instance list,  *)
(* but processes exit, signals arrive, clients connect and time passes     *)
(* between any two of its steps.  A step of the main loop is one iteration *)
(* of one of its inner loops; a stop is split wherever it waits.           *)
(***************************************************************************)
EXTENDS ServiceInstance

CONSTANTS
    NoUnit,      \* the unit of a free process-table slot
    BootUnits,   \* Seq(Unit): the services that were started at boot
    Client,      \* control connections (rservice, rbox status)
    Request,     \* the requests they may send: a set of [op, u]
    ExtTargets,  \* Seq(Unit): what each timer and path unit starts (1d)
    Socket,      \* Socket[u]: TRUE iff the socket unit for u has Accept=yes
    HwWatchdog   \* a hardware watchdog is open and is being fed

RequestOp == {"start", "stop", "restart", "reset", "resetall",
              "isolate", "status"}

ASSUME ManagerAssumption ==
    /\ NoUnit \notin Unit
    /\ BootUnits \in Seq(Unit)
    /\ \A i, j \in DOMAIN BootUnits : i # j => BootUnits[i] # BootUnits[j]
    /\ Request \subseteq [op : RequestOp, u : Unit]
    /\ ExtTargets \in Seq(Unit)
    /\ DOMAIN Socket \subseteq Unit
    /\ \A u \in DOMAIN Socket : Socket[u] \in BOOLEAN
    /\ HwWatchdog \in BOOLEAN
    /\ "free" \notin Client /\ "main" \notin Client

VARIABLES
    services,    \* Arc<Mutex<Vec<ServiceInstance>>>, its contents
    lock,        \* ... and its holder: "free", "main" or a client thread
    pc,          \* where the main loop is
    idx,         \* the scan's position in services
    trig,        \* pending_triggers (1c) or trigger_targets (1d)
    pollTo,      \* the timeout given to poll: "zero", "later" or "inf"
    ready,       \* what poll reported readable: sockets' units, "notify"
    pipe,        \* the self-pipe holds a byte
    shutdown,    \* SHUTDOWN_REQUESTED or REBOOT_REQUESTED
    deadline,    \* do_shutdown's 10 s deadline
    client,      \* the state of each control connection
    todo,        \* what the lock holder still has to stop or start
    stop,        \* progress of stop_service_instance in the lock holder
    notes,       \* datagrams waiting in /run/systemd/notify
    sockReady,   \* listening sockets with a connection waiting
    proc,        \* the kernel's process table
    pidfile      \* the pid each unit's PIDFile names

mainVars  == <<pc, idx, trig, pollTo, ready>>
osVars    == <<proc, pidfile>>
evVars    == <<notes, sockReady>>
jobVars   == <<todo, stop>>
vars == <<services, lock, mainVars, pipe, shutdown, deadline, client,
          jobVars, evVars, osVars>>

-----------------------------------------------------------------------------
(* The kernel's process table.  ppid = NoPid stands for PID 1.             *)

Process ==
    [ st : {"free", "run", "zombie"},
      unit : Unit \cup {NoUnit},
      ppid : OptPid,
      daemon : BOOLEAN,
      sig : {"none", "term", "kill"},
      code : {"zero", "listed", "bad"} ]

FreeProc == [st |-> "free", unit |-> NoUnit, ppid |-> NoPid,
             daemon |-> FALSE, sig |-> "none", code |-> "zero"]

NewProc(u, parent, isDaemon) ==
    [st |-> "run", unit |-> u, ppid |-> parent,
     daemon |-> isDaemon, sig |-> "none", code |-> "zero"]

FreePids(table) == {p \in Pid : table[p].st = "free"}

\* waitpid can collect p: it has exited and PID 1 is its parent.
Reapable(p) == proc[p].st = "zombie" /\ proc[p].ppid = NoPid

\* waitpid(p) would not fail with ECHILD.
OurChild(p) == proc[p].st # "free" /\ proc[p].ppid = NoPid

Reaped(p) == [proc EXCEPT ![p] = FreeProc]

\* kill(2) on a set of pids; a stronger signal is not undone by a weaker one.
Signalled(table, targets, s) ==
    [p \in Pid |->
        IF /\ p \in targets
           /\ table[p].st = "run"
           /\ table[p].sig # "kill"
        THEN [table[p] EXCEPT !.sig = s]
        ELSE table[p]]

\* spawn_unit_command: the pids a spawn of u may return (NoPid = it failed).
SpawnResults(table, u) ==
    FreePids(table) \cup
        (IF Conf[u].execFails \/ FreePids(table) = {} THEN {NoPid} ELSE {})

Spawned(table, u, p) ==
    IF p = NoPid THEN table
    ELSE [table EXCEPT ![p] = NewProc(u, NoPid, FALSE)]

-----------------------------------------------------------------------------
(* Work of a lock holder.  A job is one do_stop_one, do_start, ... call     *)
(* that the request handler has still to make.                              *)

JobOp == {"stop1", "linked", "stopset", "start", "conflicts", "spawn",
          "isolate", "isostart", "startset", "reset", "resetall", "kill"}

Job == [op : JobOp, u : Unit, set : SUBSET Unit, i : Nat]

MkJob(op, u) == [op |-> op, u |-> u, set |-> {}, i |-> 0]
SetJob(op, u, S) == [op |-> op, u |-> u, set |-> S, i |-> 0]

NoRequest  == [op |-> "none", u |-> NoUnit]
IdleClient == [st |-> "idle", req |-> NoRequest]

NoStop == [ph |-> "none", i |-> 0, pid |-> NoPid]
StopPhase == {"none", "child", "childWait", "tracked", "trackedWait"}

\* services.iter().find(|s| s.name == name): the indices it may return.
Named(u) == {i \in DOMAIN services : services[i].name = u}
Find(u)  == {i \in Named(u) : \A j \in Named(u) : i <= j}

\* parse_control_request + execute_control_request, as a list of jobs.
Jobs(req) ==
    CASE req.op = "start"   -> <<MkJob("start", req.u)>>
      [] req.op = "stop"    -> <<MkJob("stop1", req.u), MkJob("linked", req.u)>>
      [] req.op = "restart" ->
            <<MkJob("stop1", req.u), MkJob("linked", req.u)>>
              \o (IF Named(req.u) = {} THEN <<>> ELSE <<MkJob("start", req.u)>>)
      [] req.op \in {"reset", "resetall", "isolate"} -> <<MkJob(req.op, req.u)>>
      [] OTHER -> <<>>

-----------------------------------------------------------------------------
TypeOK ==
    /\ services \in Seq(Instance)
    /\ lock \in {"free", "main"} \cup Client
    /\ pc \in {"lock", "scan", "trig", "timers", "ext", "wdog", "reap", "flag",
               "poll", "relock", "sock", "shutdown", "drain", "killed", "off"}
    /\ idx \in Nat
    /\ trig \in Seq(Unit)
    /\ pollTo \in {"zero", "later", "inf"}
    /\ ready \in [sock : SUBSET Unit, notify : BOOLEAN]
    /\ pipe \in BOOLEAN
    /\ shutdown \in BOOLEAN
    /\ deadline \in Timer
    /\ client \in [Client -> [st : {"idle", "conn", "wait", "run"},
                              req : Request \cup {NoRequest}]]
    /\ todo \in Seq(Job)
    /\ stop \in [ph : StopPhase, i : Nat, pid : OptPid]
    /\ notes \subseteq [pid : Pid, msg : {"READY", "WATCHDOG"}]
    /\ sockReady \subseteq DOMAIN Socket
    /\ proc \in [Pid -> Process]
    /\ pidfile \in [Unit -> OptPid]

NothingReady == [sock |-> {}, notify |-> FALSE]

\* The process that boot leaves u with: none for a oneshot, and perhaps none
\* for a service whose exit detect_immediate_failures has collected.
BootPids(u) ==
    IF Conf[u].type = "oneshot" THEN {NoPid}
    ELSE IF Conf[u].type # "forking" /\ Conf[u].restart \in {"no", "on-success"}
         THEN OptPid ELSE Pid

BootInstance(u, p) ==
    IF Conf[u].type = "oneshot" THEN OneshotInstance(u)
    ELSE IF p = NoPid THEN NewInstance(u, NoPid) ELSE Started(u, p)

(***************************************************************************)
(* The state in which Init::run calls reap_with_shutdown: one instance for *)
(* each service that boot started, with a process of its own unless it is  *)
(* a oneshot or was seen to exit during the boot.                          *)
(***************************************************************************)
Init ==
    /\ \E f \in [DOMAIN BootUnits -> OptPid] :
         /\ \A i \in DOMAIN BootUnits : f[i] \in BootPids(BootUnits[i])
         /\ \A i, j \in DOMAIN BootUnits : i # j /\ f[i] # NoPid => f[i] # f[j]
         /\ services = [i \in DOMAIN BootUnits |-> BootInstance(BootUnits[i], f[i])]
         /\ proc = [p \in Pid |->
                IF \E i \in DOMAIN BootUnits : f[i] = p
                THEN NewProc(BootUnits[CHOOSE i \in DOMAIN BootUnits : f[i] = p],
                             NoPid, FALSE)
                ELSE FreeProc]
    /\ pidfile = [u \in Unit |-> NoPid]
    /\ lock = "free" /\ pc = "lock" /\ idx = 1 /\ trig = <<>>
    /\ pollTo = "inf" /\ ready = NothingReady
    /\ pipe = FALSE /\ shutdown = FALSE /\ deadline = "none"
    /\ client = [c \in Client |-> IdleClient]
    /\ todo = <<>> /\ stop = NoStop
    /\ notes = {} /\ sockReady = {}

-----------------------------------------------------------------------------
(* The environment: processes, clients, signals, time.                      *)

\* A process exits.  Its children are reparented to PID 1; if PID 1 is its
\* own parent, SIGCHLD's handler writes the self-pipe.
Exit(p, code) ==
    /\ proc[p].st = "run"
    /\ code \in CASE proc[p].sig = "none" -> Conf[proc[p].unit].codes
                  [] proc[p].sig = "term" -> Conf[proc[p].unit].codes \cup {"bad"}
                  [] proc[p].sig = "kill" -> {"bad"}
    /\ proc' = [q \in Pid |->
            IF q = p THEN [proc[p] EXCEPT !.st = "zombie", !.code = code,
                                          !.sig = "none"]
            ELSE IF proc[q].ppid = p THEN [proc[q] EXCEPT !.ppid = NoPid]
            ELSE proc[q]]
    /\ pipe' = (pipe \/ proc[p].ppid = NoPid
                     \/ \E q \in Pid : /\ proc[q].ppid = p
                                       /\ proc[q].st = "zombie")
    /\ UNCHANGED <<services, lock, mainVars, shutdown, deadline, client,
                   jobVars, evVars, pidfile>>

\* A SIGKILL takes effect; SIGTERM may be ignored, SIGKILL may not.
KilledExit(p) == proc[p].sig = "kill" /\ Exit(p, "bad")

\* The parent of a Type=forking service forks its daemon, which writes the
\* PIDFile before the parent exits.
Daemonize(p) ==
    /\ proc[p].st = "run" /\ ~proc[p].daemon
    /\ Conf[proc[p].unit].type = "forking"
    /\ \A q \in Pid : proc[q].ppid # p
    /\ \E d \in FreePids(proc) :
         /\ proc' = [proc EXCEPT ![d] = NewProc(proc[p].unit, p, TRUE)]
         /\ pidfile' = IF Conf[proc[p].unit].pidfile
                       THEN [pidfile EXCEPT ![proc[p].unit] = d]
                       ELSE pidfile
    /\ UNCHANGED <<services, lock, mainVars, pipe, shutdown, deadline, client,
                   jobVars, evVars>>

\* A process sends READY=1 or WATCHDOG=1; every service has NOTIFY_SOCKET in its
\* environment, but the first counts for Type=notify and the second for
\* WatchdogSec= only (whatever the Type=), and only those are sent here.
Notify(p, msg) ==
    /\ proc[p].st = "run"
    /\ \/ Conf[proc[p].unit].type = "notify" /\ msg = "READY"
       \/ Conf[proc[p].unit].watchdog /\ msg = "WATCHDOG"
    /\ notes' = notes \cup {[pid |-> p, msg |-> msg]}
    /\ UNCHANGED <<services, lock, mainVars, pipe, shutdown, deadline, client,
                   jobVars, sockReady, osVars>>

\* A connection arrives on a listening socket.
SockConnect(u) ==
    /\ u \in DOMAIN Socket \ sockReady
    /\ sockReady' = sockReady \cup {u}
    /\ UNCHANGED <<services, lock, mainVars, pipe, shutdown, deadline, client,
                   jobVars, notes, osVars>>

\* A service that was handed the listening socket accepts the connection.
SockServed(u) ==
    /\ u \in sockReady /\ ~Socket[u]
    /\ \E p \in Pid : proc[p].st = "run" /\ proc[p].unit = u
    /\ sockReady' = sockReady \ {u}
    /\ UNCHANGED <<services, lock, mainVars, pipe, shutdown, deadline, client,
                   jobVars, notes, osVars>>

\* Mutant of SignalShutdown: the handler only sets the flag.
SignalShutdownSilent ==
    /\ ~shutdown
    /\ shutdown' = TRUE
    /\ UNCHANGED <<services, lock, mainVars, pipe, deadline, client, jobVars,
                   evVars, osVars>>

\* SIGTERM or SIGINT reaches PID 1: signal_handler sets a flag and writes the
\* self-pipe.
SignalShutdown ==
    /\ ~shutdown
    /\ shutdown' = TRUE
    /\ pipe' = TRUE
    /\ UNCHANGED <<services, lock, mainVars, deadline, client, jobVars, evVars,
                   osVars>>

\* A hook (or oneshot) command that the main thread or a control thread waits
\* for exits; that thread collects it, but the handler writes the self-pipe.
HookExits ==
    /\ \/ stop # NoStop /\ Conf[services[stop.i].name].hooks
       \/ /\ pc \in {"trig", "ext"} /\ trig # <<>>
          /\ Conf[Head(trig)].hooks \/ Conf[Head(trig)].type = "oneshot"
    /\ pipe' = TRUE
    /\ UNCHANGED <<services, lock, mainVars, shutdown, deadline, client,
                   jobVars, evVars, osVars>>

\* A client connects to the control socket and writes its request.
Connect(c, r) ==
    /\ client[c].st = "idle"
    /\ client' = [client EXCEPT ![c] = [st |-> "conn", req |-> r]]
    /\ UNCHANGED <<services, lock, mainVars, pipe, shutdown, deadline, jobVars,
                   evVars, osVars>>

\* A deadline of an instance passes.
TimerDue(i, field) ==
    /\ i \in DOMAIN services
    /\ services[i][field] = "armed"
    /\ services' = [services EXCEPT ![i][field] = "due"]
    /\ UNCHANGED <<lock, mainVars, pipe, shutdown, deadline, client, jobVars,
                   evVars, osVars>>

TimerField == {"nextRestart", "daemonDeadline", "watchdogDeadline"}

\* StartLimitIntervalSec elapses since the first failure of an instance.
WindowEnds(i) ==
    /\ i \in DOMAIN services
    /\ services[i].firstFailure = "recent"
    /\ services' = [services EXCEPT ![i].firstFailure = "old"]
    /\ UNCHANGED <<lock, mainVars, pipe, shutdown, deadline, client, jobVars,
                   evVars, osVars>>

\* SHUTDOWN_TIMEOUT_SECS elapse.
DeadlineDue ==
    /\ deadline = "armed"
    /\ deadline' = "due"
    /\ UNCHANGED <<services, lock, mainVars, pipe, shutdown, client, jobVars,
                   evVars, osVars>>

-----------------------------------------------------------------------------
(* The main loop, reap_with_shutdown.  Steps 1 to 4 run under the lock.     *)

\* try_lock; when it fails the loop sleeps 50 ms and tries again.
MainTryLock ==
    /\ pc = "lock" /\ lock = "free"
    /\ lock' = "main" /\ pc' = "scan" /\ idx' = 1 /\ trig' = <<>>
    /\ UNCHANGED <<services, pollTo, ready, pipe, shutdown, deadline, client,
                   jobVars, evVars, osVars>>

\* 1a. A forking service whose parent has not been seen to exit yet.  Once
\* the parent is gone the daemon is tracked; past the deadline the parent is
\* killed and waited for.  (An instance without a child is left alone.)
ScanDaemonizing(s) ==
    /\ s.waitDaemon
    /\ trig' = trig
    /\ \/ /\ s.child # NoPid /\ (Reapable(s.child) \/ ~OurChild(s.child))
          /\ services' = [services EXCEPT
                ![idx] = FinishDaemonize(s, pidfile[s.name])]
          /\ proc' = IF Reapable(s.child) THEN Reaped(s.child) ELSE proc
          /\ pipe' = pipe
       \/ /\ s.child # NoPid /\ OurChild(s.child) /\ ~Reapable(s.child)
          /\ s.daemonDeadline = "due"
          /\ services' = [services EXCEPT ![idx] = DaemonTimedOut(s, shutdown)]
          /\ proc' = [q \in Pid |->
                IF q = s.child THEN FreeProc
                ELSE IF proc[q].ppid = s.child
                     THEN [proc[q] EXCEPT !.ppid = NoPid]
                ELSE proc[q]]
          /\ pipe' = TRUE
       \/ /\ s.child # NoPid => /\ OurChild(s.child) /\ ~Reapable(s.child)
                                /\ s.daemonDeadline # "due"
          /\ UNCHANGED <<services, proc, pipe>>

\* try_wait on the child: collect its exit, if there is one.  Err(_), the
\* status having been taken by someone else, counts as a successful exit.
ScanExit(s) ==
    LET exited == s.child # NoPid /\ (Reapable(s.child) \/ ~OurChild(s.child))
        failed == OurChild(s.child) /\ ~ExitIsSuccess(proc[s.child].code)
    IN  IF ~exited
        THEN [inst |-> s, table |-> proc, fired |-> <<>>]
        ELSE [inst  |-> ChildExited(s, failed, shutdown),
              table |-> IF OurChild(s.child) THEN Reaped(s.child) ELSE proc,
              fired |-> IF failed THEN Conf[s.name].onFailure
                                  ELSE Conf[s.name].onSuccess]

\* Mutants of RestartDue: a stop request does not count; None counts as due; the burst
\* is checked again, one too low.
RestartDueUnder(s) == /\ s.nextRestart = "due" /\ ~shutdown /\ ~s.stopped
                      /\ s.failCount < Conf[s.name].burst
RestartDueStopped(s) == s.nextRestart = "due" /\ ~shutdown
RestartDueOrNone(s)  == s.nextRestart # "armed" /\ ~shutdown /\ ~s.stopped

\* RestartSec has elapsed, and neither a shutdown nor a stop is in the way.
RestartDue(s) == s.nextRestart = "due" /\ ~shutdown /\ ~s.stopped

\* 1b. Collect the exit of the child, then restart the instance if it is due.
ScanRunning(s) ==
    /\ ~s.waitDaemon
    /\ pipe' = pipe
    /\ LET r == ScanExit(s)
           i == r.inst
       IN  /\ trig' = trig \o r.fired
           /\ IF RestartDue(i)
              THEN \E p \in SpawnResults(r.table, s.name) :
                     /\ services' = [services EXCEPT ![idx] =
                          Respawned([i EXCEPT !.nextRestart = "none"], p)]
                     /\ proc' = Spawned(r.table, s.name, p)
              ELSE services' = [services EXCEPT ![idx] = i] /\ proc' = r.table

MainScan ==
    /\ pc = "scan" /\ idx \in DOMAIN services
    /\ ScanDaemonizing(services[idx]) \/ ScanRunning(services[idx])
    /\ idx' = idx + 1
    /\ UNCHANGED <<lock, pc, pollTo, ready, shutdown, deadline, client,
                   jobVars, evVars, pidfile>>

MainScanEnd ==
    /\ pc = "scan" /\ idx \notin DOMAIN services
    /\ pc' = "trig"
    /\ UNCHANGED <<services, lock, idx, trig, pollTo, ready, pipe, shutdown,
                   deadline, client, jobVars, evVars, osVars>>

\* start_unit without an instance as its result: a condition is unmet, there
\* is no ExecStart, or a hook, a oneshot command or the spawn failed.  When
\* ExecStartPost fails, the new process has been stopped and waited for.
StartYieldsNothing(u) ==
    /\ \/ Conf[u].cond \/ ~Conf[u].exec \/ Conf[u].hooks
       \/ NoPid \in SpawnResults(proc, u)
       \/ Conf[u].type = "oneshot" /\ "bad" \in Conf[u].codes
    /\ UNCHANGED <<services, osVars>>

\* ExecStartPost of a forking unit fails after the parent has daemonized: the
\* stop knows the parent only, and the daemon stays.
StartPostFails(u) ==
    /\ Conf[u].exec /\ Conf[u].hooks /\ Conf[u].type = "forking"
    /\ \E d \in FreePids(proc) :
         /\ FreePids(proc) # {d}
         /\ proc' = [proc EXCEPT ![d] = NewProc(u, NoPid, TRUE)]
         /\ pidfile' = IF Conf[u].pidfile THEN [pidfile EXCEPT ![u] = d]
                                          ELSE pidfile
    /\ UNCHANGED services

\* start_unit with an instance, which the caller pushes.
StartYieldsInstance(u) ==
    /\ Conf[u].exec
    /\ IF Conf[u].type = "oneshot"
       THEN services' = Append(services, OneshotInstance(u)) /\ proc' = proc
       ELSE \E p \in FreePids(proc) : /\ services' = Append(services, Started(u, p))
                                /\ proc' = Spawned(proc, u, p)
    /\ UNCHANGED pidfile

\* 1c and 1d: start the next triggered unit unless an instance of it has a
\* child or is active.
MainTrigger ==
    /\ pc \in {"trig", "ext"} /\ trig # <<>>
    /\ LET u == Head(trig)
       IN  IF \E i \in Named(u) : ChildOrActive(services[i])
           THEN UNCHANGED <<services, osVars>>
           ELSE \/ StartYieldsNothing(u) \/ StartPostFails(u)
                \/ StartYieldsInstance(u)
    /\ trig' = Tail(trig)
    /\ UNCHANGED <<lock, pc, idx, pollTo, ready, pipe, shutdown, deadline,
                   client, jobVars, evVars>>

MainTriggerEnd ==
    /\ pc \in {"trig", "ext"} /\ trig = <<>>
    /\ pc' = IF pc = "trig" THEN "timers" ELSE "wdog"
    /\ idx' = 1
    /\ UNCHANGED <<services, lock, trig, pollTo, ready, pipe, shutdown,
                   deadline, client, jobVars, evVars, osVars>>

\* 1d. The next timer or path unit: when it is due its target is noted.
MainTimer ==
    /\ pc = "timers" /\ idx \in DOMAIN ExtTargets
    /\ trig' \in {trig, Append(trig, ExtTargets[idx])}
    /\ idx' = idx + 1
    /\ UNCHANGED <<services, lock, pc, pollTo, ready, pipe, shutdown,
                   deadline, client, jobVars, evVars, osVars>>

MainTimersEnd ==
    /\ pc = "timers" /\ idx \notin DOMAIN ExtTargets
    /\ pc' = "ext"
    /\ UNCHANGED <<services, lock, idx, trig, pollTo, ready, pipe, shutdown,
                   deadline, client, jobVars, evVars, osVars>>

\* 1e. SIGTERM to every instance whose WATCHDOG=1 is overdue.
MainWatchdog ==
    LET late == {i \in DOMAIN services : services[i].watchdogDeadline = "due"}
        target(i) == IF services[i].child # NoPid THEN services[i].child
                                                  ELSE services[i].tracked
    IN  /\ pc = "wdog"
        /\ pc' = "reap"
        /\ services' = [i \in DOMAIN services |->
              IF i \in late
              THEN [services[i] EXCEPT !.watchdogDeadline = "none"]
              ELSE services[i]]
        /\ proc' = Signalled(proc, {target(i) : i \in late}, "term")
        /\ UNCHANGED <<lock, idx, trig, pollTo, ready, pipe, shutdown,
                       deadline, client, jobVars, evVars, pidfile>>

\* The instance that reap_orphans attributes pid p to: the first one that
\* tracks p or has it as its child.
Owners(p) ==
    {i \in DOMAIN services : services[i].tracked = p \/ services[i].child = p}
Owner(p) == {i \in Owners(p) : \A j \in Owners(p) : i <= j}

\* Mutant of OrphanReaped: the handle of a collected child is kept.
OrphanReapedKept(s, p) ==
    IF s.tracked = p
    THEN ScheduleRestart([s EXCEPT !.tracked = NoPid],
                         proc[p].code # "zero", shutdown)
    ELSE IF s.waitDaemon THEN FinishDaemonize(s, pidfile[s.name]) ELSE s

\* reap_orphans' effect on that instance.
OrphanReaped(s, p) ==
    IF s.tracked = p
    THEN ScheduleRestart([s EXCEPT !.tracked = NoPid],
                         proc[p].code # "zero", shutdown)
    ELSE IF s.waitDaemon
         THEN FinishDaemonize(s, pidfile[s.name])
         ELSE [s EXCEPT !.child = NoPid]

\* 2. reap_orphans: waitpid(-1, WNOHANG) returns some exited child.
MainReap(p) ==
    /\ pc = "reap" /\ Reapable(p)
    /\ services' = [i \in DOMAIN services |->
           IF i \in Owner(p) THEN OrphanReaped(services[i], p) ELSE services[i]]
    /\ proc' = Reaped(p)
    /\ UNCHANGED <<lock, mainVars, pipe, shutdown, deadline, client, jobVars,
                   evVars, pidfile>>

\* Mutant of MainReapEnd: one waitpid call per round.
MainReapEndEarly ==
    /\ pc = "reap" /\ pc' = "flag"
    /\ UNCHANGED <<services, lock, idx, trig, pollTo, ready, pipe, shutdown,
                   deadline, client, jobVars, evVars, osVars>>

\* waitpid returns 0 or ECHILD.
MainReapEnd ==
    /\ pc = "reap" /\ ~\E p \in Pid : Reapable(p)
    /\ pc' = "flag"
    /\ UNCHANGED <<services, lock, idx, trig, pollTo, ready, pipe, shutdown,
                   deadline, client, jobVars, evVars, osVars>>

\* compute_next_timeout (the nearest restart or daemonize deadline), cut down
\* to the next timer or path check and by watchdog_poll_timeout.
Deadlines(s) == {s.nextRestart} \cup
                (IF s.waitDaemon THEN {s.daemonDeadline} ELSE {})

\* Mutant of NextTimeout: the hardware watchdog does not bound the sleep.
NextTimeoutNoHw ==
    LET all == UNION {Deadlines(services[i]) : i \in DOMAIN services}
    IN  IF "due" \in all THEN "zero"
        ELSE IF "armed" \in all \/ ExtTargets # <<>> THEN "later" ELSE "inf"

NextTimeout ==
    LET all == UNION {Deadlines(services[i]) : i \in DOMAIN services}
    IN  IF "due" \in all THEN "zero"
        ELSE IF "armed" \in all \/ ExtTargets # <<>> \/ HwWatchdog
             THEN "later" ELSE "inf"

\* Mutant of MainDropLock: the guard lives on during poll.
MainPollLocked ==
    /\ pc = "flag" /\ ~shutdown
    /\ pollTo' = NextTimeout /\ pc' = "poll"
    /\ UNCHANGED <<services, lock, idx, trig, ready, pipe, shutdown, deadline,
                   client, jobVars, evVars, osVars>>

\* 3 and 4. No shutdown: compute the timeout, drop the lock and poll.
MainDropLock ==
    /\ pc = "flag" /\ ~shutdown
    /\ pollTo' = NextTimeout
    /\ lock' = "free" /\ pc' = "poll"
    /\ UNCHANGED <<services, idx, trig, ready, pipe, shutdown, deadline,
                   client, jobVars, evVars, osVars>>

\* poll reports something readable: drain the self-pipe, accept one control
\* connection (a thread of its own serves it), then take the lock again.
MainPollEvent ==
    LET conns == {c \in Client : client[c].st = "conn"}
    IN  /\ pc = "poll"
        /\ pipe \/ conns # {} \/ notes # {} \/ sockReady # {}
        /\ pipe' = FALSE
        /\ ready' = [sock |-> sockReady, notify |-> notes # {}]
        /\ IF conns = {} THEN client' = client
           ELSE \E c \in conns : client' = [client EXCEPT ![c].st = "wait"]
        /\ pc' = "relock"
        /\ UNCHANGED <<services, lock, idx, trig, pollTo, shutdown, deadline,
                       jobVars, evVars, osVars>>

\* poll times out (as_millis truncates, so possibly just before the deadline).
MainPollTimeout ==
    /\ pc = "poll" /\ pollTo # "inf"
    /\ pc' = "lock"
    /\ UNCHANGED <<services, lock, idx, trig, pollTo, ready, pipe, shutdown,
                   deadline, client, jobVars, evVars, osVars>>

\* poll fails with EINTR because the handler ran in this thread: the byte
\* stays in the self-pipe.
MainPollInterrupted ==
    /\ pc = "poll" /\ pipe
    /\ pc' = "lock"
    /\ UNCHANGED <<services, lock, idx, trig, pollTo, ready, pipe, shutdown,
                   deadline, client, jobVars, evVars, osVars>>

\* lock().unwrap() after poll: blocks while a control thread holds the lock.
MainRelock ==
    /\ pc = "relock" /\ lock = "free"
    /\ lock' = "main" /\ pc' = "sock"
    /\ UNCHANGED <<services, idx, trig, pollTo, ready, pipe, shutdown,
                   deadline, client, jobVars, evVars, osVars>>

\* Socket activation: accept (Accept=yes) and spawn, whatever else runs.
MainSocket(u) ==
    /\ pc = "sock" /\ u \in ready.sock
    /\ ready' = [ready EXCEPT !.sock = @ \ {u}]
    /\ sockReady' = IF Socket[u] THEN sockReady \ {u} ELSE sockReady
    /\ \E p \in SpawnResults(proc, u) :
         /\ services' = IF p = NoPid THEN services
                        ELSE Append(services, NewInstance(u, p))
         /\ proc' = Spawned(proc, u, p)
    /\ UNCHANGED <<lock, pc, idx, trig, pollTo, pipe, shutdown, deadline,
                   client, jobVars, notes, pidfile>>

\* READY=1 ends waiting_ready and arms the watchdog; WATCHDOG=1 rearms it.
Notified(s) ==
    LET has(m) == \E n \in notes : /\ n.msg = m
                                   /\ n.pid \in {s.child, s.tracked}
        up     == has("READY") /\ s.waitReady
    IN  [s EXCEPT !.waitReady = @ /\ ~up,
                  !.watchdogDeadline =
                      IF Conf[s.name].watchdog /\ (up \/ has("WATCHDOG"))
                      THEN "armed" ELSE @]

\* sd_notify, then the end of the block: the lock is released.
MainNotify ==
    /\ pc = "sock" /\ ready.sock = {}
    /\ IF ready.notify
       THEN /\ services' = [i \in DOMAIN services |-> Notified(services[i])]
            /\ notes' = {}
       ELSE UNCHANGED <<services, notes>>
    /\ ready' = NothingReady
    /\ lock' = "free" /\ pc' = "lock"
    /\ UNCHANGED <<idx, trig, pollTo, pipe, shutdown, deadline, client,
                   jobVars, sockReady, osVars>>

-----------------------------------------------------------------------------
(* stop_service_instance, run by the lock holder on one instance.  Of the   *)
(* hook commands it runs only the wakeup is visible here (HookExits).       *)

KillMode(i) == Conf[services[i].name].killMode

\* svc.active = false, the stop is over.
StopDone(list, i, table) ==
    /\ services' = [list EXCEPT ![i].active = FALSE]
    /\ proc' = table
    /\ stop' = NoStop
    /\ todo' = Tail(todo)

\* Second half: signal the tracked daemon.  KillMode=none returns early.
StopTracked(list, i, table) ==
    LET t    == list[i].tracked
        gone == [list EXCEPT ![i].tracked = NoPid]
    IN  \/ t = NoPid /\ StopDone(list, i, table)
        \/ /\ t # NoPid /\ KillMode(i) = "none"
           /\ services' = gone /\ proc' = table
           /\ stop' = NoStop /\ todo' = Tail(todo)
        \/ /\ t # NoPid /\ KillMode(i) # "none"
           /\ services' = gone /\ proc' = Signalled(table, {t}, "term")
           /\ stop' = [ph |-> "tracked", i |-> i, pid |-> t]
           /\ todo' = todo

\* First half: cgroup.kill, then signal the child and wait for it.
BeginStop(list, i) ==
    LET u == list[i].name
        c == list[i].child
        t == IF Conf[u].killMode # "none" /\ Conf[u].cgroup
             THEN Signalled(proc, {p \in Pid : proc[p].unit = u}, "kill")
             ELSE proc
    IN  IF c = NoPid THEN StopTracked(list, i, t)
        ELSE /\ services' = [list EXCEPT ![i].child = NoPid]
             /\ proc' = IF Conf[u].killMode = "none" THEN t
                        ELSE Signalled(t, {c}, "term")
             /\ stop' = [ph |-> "child", i |-> i, pid |-> c]
             /\ todo' = todo

stopUnchanged == <<lock, mainVars, pipe, shutdown, deadline, client, evVars,
                   pidfile>>

\* Mutant of StopChildGone: the stop does not wait for the exit.
StopChildNoWait ==
    /\ stop.ph \in {"child", "childWait"}
    /\ StopTracked(services, stop.i, proc)
    /\ UNCHANGED stopUnchanged

\* The child has exited (or is no longer ours): go on with the daemon.
StopChildGone ==
    /\ stop.ph \in {"child", "childWait"}
    /\ Reapable(stop.pid) \/ ~OurChild(stop.pid)
    /\ StopTracked(services, stop.i,
                   IF OurChild(stop.pid) THEN Reaped(stop.pid) ELSE proc)
    /\ UNCHANGED stopUnchanged

\* The daemon has exited and waitpid(pid) collects it; after the timeout
\* waitpid also returns at once when the pid is not a child of ours.
StopDaemonGone ==
    /\ \/ stop.ph \in {"tracked", "trackedWait"} /\ Reapable(stop.pid)
       \/ stop.ph = "trackedWait" /\ ~OurChild(stop.pid)
    /\ StopDone(services, stop.i,
                IF OurChild(stop.pid) THEN Reaped(stop.pid) ELSE proc)
    /\ UNCHANGED stopUnchanged

\* Mutant of StopTimeout: it waits on without SIGKILL.
StopTimeoutNoKill ==
    /\ stop.ph \in {"child", "tracked"}
    /\ stop' = [stop EXCEPT !.ph = IF @ = "child" THEN "childWait"
                                                  ELSE "trackedWait"]
    /\ UNCHANGED <<services, proc, todo, stopUnchanged>>

\* TimeoutStopSec has passed: SIGKILL if allowed, then a blocking wait.
StopTimeout ==
    /\ stop.ph \in {"child", "tracked"}
    /\ stop' = [stop EXCEPT !.ph = IF @ = "child" THEN "childWait"
                                                  ELSE "trackedWait"]
    /\ proc' = IF /\ Conf[services[stop.i].name].sendSigkill
                  /\ KillMode(stop.i) # "none"
               THEN Signalled(proc, {stop.pid}, "kill") ELSE proc
    /\ UNCHANGED <<services, todo, stopUnchanged>>

StopStep == StopChildGone \/ StopDaemonGone \/ StopTimeout

-----------------------------------------------------------------------------
(* The control threads.                                                     *)

\* services.lock(), then the request is turned into jobs.
ClientLock(c) ==
    /\ client[c].st = "wait" /\ lock = "free"
    /\ lock' = c
    /\ client' = [client EXCEPT ![c].st = "run"]
    /\ todo' = Jobs(client[c].req)
    /\ UNCHANGED <<services, mainVars, pipe, shutdown, deadline, stop, evVars,
                   osVars>>

\* do_stop_one
JobStop1(u) ==
    \/ Find(u) = {} /\ todo' = Tail(todo) /\ UNCHANGED <<services, proc, stop>>
    \/ \E i \in Find(u) :
         LET list == [services EXCEPT ![i].stopped = TRUE]
         IN  IF UpOrActive(services[i]) THEN BeginStop(list, i)
             ELSE /\ services' = list /\ todo' = Tail(todo)
                  /\ UNCHANGED <<proc, stop>>

\* The rest of do_stop: the running instances that are PartOf= u.
JobLinked(u) ==
    /\ todo' = <<SetJob("stopset", u,
                   {services[i].name : i \in
                      {k \in DOMAIN services :
                         /\ services[k].name # u
                         /\ u \in Conf[services[k].name].partOf
                         /\ UpOrActive(services[k])}})>> \o Tail(todo)
    /\ UNCHANGED <<services, proc, stop>>

\* do_stop_one for each collected unit, in the order of the instance list.
JobStopSet(u, S) ==
    LET listed == {i \in DOMAIN services : services[i].name \in S}
    IN  /\ UNCHANGED <<services, proc, stop>>
        /\ \/ listed = {} /\ todo' = Tail(todo)
           \/ \E i \in listed :
                LET v == services[i].name
                IN  /\ \A j \in listed : i <= j
                    /\ todo' = <<MkJob("stop1", v), SetJob("stopset", u, S \ {v})>>
                                 \o Tail(todo)

RequisiteMet(u) ==
    \A r \in Conf[u].requisite : \E i \in Named(r) : UpOrActive(services[i])

\* Mutant of Conflicting: only the unit's own Conflicts= line counts.
OwnConflicts(u) == Conf[u].conflicts

\* Conflicts= excludes in both directions.
Conflicting(u) ==
    Conf[u].conflicts \cup {v \in Unit \ {u} : u \in Conf[v].conflicts}

\* do_start: an existing instance is respawned, with its history forgotten ...
JobRestartExisting(u) ==
    \E i \in Find(u) :
      /\ todo' = Tail(todo) /\ stop' = stop
      /\ IF Up(services[i]) THEN UNCHANGED <<services, proc>>
         ELSE \E p \in SpawnResults(proc, u) :
                /\ services' = [services EXCEPT ![i] =
                     Respawned([ForgetFailures(@) EXCEPT !.stopped = FALSE], p)]
                /\ proc' = Spawned(proc, u, p)

\* ... and a new one is started, after what conflicts with it is stopped.
JobStartNew(u) ==
    /\ Find(u) = {}
    /\ UNCHANGED <<services, proc, stop>>
    /\ \/ /\ Conf[u].target \/ Conf[u].cond \/ ~RequisiteMet(u) \/ ~Conf[u].exec
          /\ todo' = Tail(todo)
       \/ /\ ~Conf[u].target /\ RequisiteMet(u) /\ Conf[u].exec
          /\ todo' = <<SetJob("conflicts", u, Conflicting(u)),
                       MkJob("spawn", u)>> \o Tail(todo)

JobConflicts(u, S) ==
    /\ UNCHANGED <<services, proc, stop>>
    /\ \/ S = {} /\ todo' = Tail(todo)
       \/ \E v \in S :
            todo' = (IF \E i \in Named(v) : Up(services[i])
                     THEN <<MkJob("stop1", v), MkJob("linked", v)>> ELSE <<>>)
                    \o <<SetJob("conflicts", u, S \ {v})>> \o Tail(todo)

JobSpawn(u) ==
    \E p \in SpawnResults(proc, u) :
      /\ services' = IF p = NoPid THEN services
                     ELSE Append(services, Started(u, p))
      /\ proc' = Spawned(proc, u, p)
      /\ todo' = Tail(todo) /\ stop' = stop

\* The units isolate keeps: closed under Requires=, Wants= and being WantedBy=.
Pulls(n) == Conf[n].requires \cup Conf[n].wants
                \cup {v \in Unit : n \in Conf[v].wantedBy}
Closure(t) ==
    {u \in Unit : \A S \in SUBSET Unit :
        (t \in S /\ \A n \in S : Pulls(n) \subseteq S) => u \in S}

\* Mutant of Outside: a daemon known only by its PIDFile is overlooked.
OutsideChildren(t) ==
    {services[i].name : i \in {k \in DOMAIN services :
                                 /\ ChildOrActive(services[k])
                                 /\ services[k].name \notin Closure(t)}}

\* The units that run and are not in the closure of t.
Outside(t) ==
    {services[i].name : i \in {k \in DOMAIN services :
                                 /\ UpOrActive(services[k])
                                 /\ services[k].name \notin Closure(t)}}

\* do_isolate: stop what runs outside the closure, then start what does not
\* run inside it, in the order of a hash set.
JobIsolate(t) ==
    /\ UNCHANGED <<services, proc, stop>>
    /\ todo' = IF Conf[t].target
               THEN <<SetJob("stopset", t, Outside(t)), MkJob("isostart", t)>>
                      \o Tail(todo)
               ELSE Tail(todo)

JobIsoStart(t) ==
    LET down == {n \in Closure(t) : /\ ~Conf[n].target /\ Conf[n].exec
                                    /\ \A i \in Named(n) :
                                         ~UpOrActive(services[i])}
    IN  /\ todo' = <<SetJob("startset", t, down)>> \o Tail(todo)
        /\ UNCHANGED <<services, proc, stop>>

JobStartSet(t, S) ==
    /\ UNCHANGED <<services, proc, stop>>
    /\ \/ S = {} /\ todo' = Tail(todo)
       \/ \E n \in S : todo' = <<MkJob("start", n), SetJob("startset", t, S \ {n})>>
                               \o Tail(todo)

\* reset-failed, for one unit or for all.
JobReset(S) ==
    /\ services' = [i \in DOMAIN services |->
          IF services[i].name \in S THEN ForgetFailures(services[i])
                                    ELSE services[i]]
    /\ todo' = Tail(todo)
    /\ UNCHANGED <<proc, stop>>

ClientStep(c) ==
    /\ lock = c /\ stop = NoStop /\ todo # <<>>
    /\ LET j == Head(todo)
       IN  \/ j.op = "stop1"     /\ JobStop1(j.u)
           \/ j.op = "linked"    /\ JobLinked(j.u)
           \/ j.op = "stopset"   /\ JobStopSet(j.u, j.set)
           \/ j.op = "start"     /\ (JobRestartExisting(j.u) \/ JobStartNew(j.u))
           \/ j.op = "conflicts" /\ JobConflicts(j.u, j.set)
           \/ j.op = "spawn"     /\ JobSpawn(j.u)
           \/ j.op = "isolate"   /\ JobIsolate(j.u)
           \/ j.op = "isostart"  /\ JobIsoStart(j.u)
           \/ j.op = "startset"  /\ JobStartSet(j.u, j.set)
           \/ j.op = "reset"     /\ JobReset({j.u})
           \/ j.op = "resetall"  /\ JobReset(Unit)
    /\ UNCHANGED stopUnchanged

\* The response is written and both guards are dropped.
ClientDone(c) ==
    /\ lock = c /\ stop = NoStop /\ todo = <<>>
    /\ lock' = "free"
    /\ client' = [client EXCEPT ![c] = IdleClient]
    /\ UNCHANGED <<services, mainVars, pipe, shutdown, deadline, jobVars,
                   evVars, osVars>>

-----------------------------------------------------------------------------
(* do_shutdown, on the main thread, which keeps the lock.                   *)

\* Every instance is to be stopped, the last one first.
MainShutdown ==
    /\ pc = "flag" /\ shutdown
    /\ pc' = "shutdown" /\ deadline' = "armed"
    /\ todo' = [k \in DOMAIN services |->
          [op |-> "kill", u |-> services[Len(services) + 1 - k].name,
           set |-> {}, i |-> Len(services) + 1 - k]]
    /\ UNCHANGED <<services, lock, idx, trig, pollTo, ready, pipe, shutdown,
                   client, stop, evVars, osVars>>

ShutdownStop ==
    /\ pc = "shutdown" /\ stop = NoStop /\ todo # <<>> /\ deadline # "due"
    /\ BeginStop(services, Head(todo).i)
    /\ UNCHANGED stopUnchanged

\* All done or out of time: SIGTERM to everything.
ShutdownKillAll ==
    /\ pc = "shutdown" /\ stop = NoStop /\ (todo = <<>> \/ deadline = "due")
    /\ todo' = <<>> /\ pc' = "drain"
    /\ proc' = Signalled(proc, Pid, "term")
    /\ UNCHANGED <<services, lock, idx, trig, pollTo, ready, pipe, shutdown,
                   deadline, client, stop, evVars, pidfile>>

\* Collect exited children; at the deadline SIGKILL everything.
DrainReap(p) ==
    /\ \/ pc = "drain" /\ deadline # "due"
       \/ pc = "killed"
    /\ Reapable(p)
    /\ proc' = Reaped(p)
    /\ UNCHANGED <<services, stop, todo, stopUnchanged>>

DrainDeadline ==
    /\ pc = "drain" /\ deadline = "due"
    /\ pc' = "killed"
    /\ proc' = Signalled(proc, Pid, "kill")
    /\ UNCHANGED <<services, lock, idx, trig, pollTo, ready, pipe, shutdown,
                   deadline, client, jobVars, evVars, pidfile>>

\* ECHILD, or the last second after SIGKILL is over: sync and reboot(2).
PowerOff ==
    /\ \/ pc = "drain" /\ deadline # "due" /\ ~\E p \in Pid : OurChild(p)
       \/ pc = "killed"
    /\ pc' = "off"
    /\ UNCHANGED <<services, lock, idx, trig, pollTo, ready, pipe, shutdown,
                   deadline, client, jobVars, evVars, osVars>>

-----------------------------------------------------------------------------
MainLoop ==
    \/ MainTryLock \/ MainScan \/ MainScanEnd \/ MainTrigger \/ MainTriggerEnd
    \/ MainTimer \/ MainTimersEnd \/ MainWatchdog \/ (\E p \in Pid : MainReap(p)) \/ MainReapEnd
    \/ MainDropLock \/ MainPollEvent \/ MainPollTimeout \/ MainPollInterrupted
    \/ MainRelock
    \/ (\E u \in DOMAIN Socket : MainSocket(u)) \/ MainNotify

Shutdown ==
    \/ MainShutdown \/ ShutdownStop \/ ShutdownKillAll
    \/ (\E p \in Pid : DrainReap(p)) \/ DrainDeadline \/ PowerOff

Control == \E c \in Client : ClientLock(c) \/ ClientStep(c) \/ ClientDone(c)

Time ==
    \/ \E i \in DOMAIN services :
         (\E f \in TimerField : TimerDue(i, f)) \/ WindowEnds(i)
    \/ DeadlineDue

Environment ==
    \/ \E p \in Pid : \/ \E code \in {"zero", "listed", "bad"} : Exit(p, code)
                      \/ Daemonize(p)
                      \/ \E m \in {"READY", "WATCHDOG"} : Notify(p, m)
    \/ \E u \in DOMAIN Socket : SockConnect(u) \/ SockServed(u)
    \/ \E c \in Client, r \in Request : Connect(c, r)
    \/ SignalShutdown \/ HookExits

\* reboot(2) is the end of everything.
Next ==
    /\ pc # "off"
    /\ MainLoop \/ Shutdown \/ Control \/ StopStep \/ Time \/ Environment

Spec == Init /\ [][Next]_vars

(***************************************************************************)
(* Fairness.  The main thread and each control thread keep running.  A     *)
(* thread that waits for the mutex gets it if the mutex is released again  *)
(* and again (the main loop sleeps in poll without it).  A poll that       *)
(* begins with a byte in the self-pipe or a connection waiting reports it, *)
(* EINTR being possible only for a poll that sleeps.  A process that was   *)
(* sent SIGKILL dies, and clocks advance.  Processes need not exit, and    *)
(* nobody need connect, on their own.                                      *)
(***************************************************************************)
Fairness ==
    /\ WF_vars(MainLoop \/ Shutdown)
    /\ SF_vars(MainPollEvent)
    /\ WF_vars(StopStep)
    /\ \A c \in Client : /\ SF_vars(ClientLock(c))
                         /\ WF_vars(ClientStep(c) \/ ClientDone(c))
    /\ \A p \in Pid : WF_vars(KilledExit(p))
    /\ \A u \in Unit, f \in TimerField :
            WF_vars(\E i \in Named(u) : TimerDue(i, f))
    /\ WF_vars(DeadlineDue)

FairSpec == Spec /\ Fairness

-----------------------------------------------------------------------------
(* What must hold.                                                          *)

\* The main thread is inside a locked region only while it holds the mutex; a
\* stop in progress belongs to the lock holder, works on an instance that
\* exists and has the job that it serves at the head of the list; do_shutdown
\* only visits instances that exist.
LockDiscipline ==
    /\ pc \in {"scan", "trig", "timers", "ext", "wdog", "reap", "flag", "sock",
               "shutdown", "drain", "killed", "off"} => lock = "main"
    /\ stop # NoStop => /\ lock \in Client \/ pc = "shutdown"
                        /\ stop.i \in DOMAIN services
                        /\ todo # <<>>
    /\ pc = "shutdown" => \A k \in DOMAIN todo : todo[k].i \in DOMAIN services

\* No wakeup is lost between the signal handler and poll: while the main
\* loop sleeps with an empty self-pipe, no exited child waits to be collected
\* and no shutdown has been requested.
NoLostWakeup ==
    pc = "poll" /\ ~pipe => ~shutdown /\ \A p \in Pid : ~Reapable(p)

\* An instance that has a process (child or tracked daemon) has no restart
\* pending, and never has both kinds of process.
RunningHasNoRestartPending ==
    \A i \in DOMAIN services :
        LET s == services[i]
        IN  /\ Up(s) => s.nextRestart = "none"
            /\ s.child = NoPid \/ s.tracked = NoPid

\* A pending automatic restart is within StartLimitBurst.
RestartWithinBurst ==
    \A i \in DOMAIN services :
        services[i].nextRestart # "none" =>
            services[i].failCount <= Conf[services[i].name].burst

\* The Child handle of an instance always names an unreaped child of init
\* that runs this unit's command: the Err(_) arms of try_wait, which the code
\* keeps for a status "taken by the orphan reaping", cannot be reached.
ChildIsOurs ==
    pc \notin {"drain", "killed", "off"} => \A i \in DOMAIN services :
        LET s == services[i]
        IN  s.child # NoPid => /\ OurChild(s.child)
                               /\ proc[s.child].unit = s.name
                               /\ \A j \in DOMAIN services :
                                     j # i => services[j].child # s.child

\* Once a stop has been carried out (nobody is inside one), no process of a
\* stopped unit is left running.
StoppedUnitsAreDown ==
    lock = "free" =>
        \A i \in DOMAIN services : services[i].stopped =>
            \A p \in Pid : proc[p].unit = services[i].name
                            => proc[p].st # "run"

\* Only an operator brings a dead instance back: if an instance has no
\* process and no restart pending (it was stopped, it gave up, its policy
\* says no), the step that gives it a process is a control thread's.
OnlyStartRevives ==
    [][\A i \in DOMAIN services :
          /\ ~Up(services[i]) /\ services[i].nextRestart = "none"
          /\ Up(services'[i])
          => lock \in Client]_vars

\* A stop request is final for the main loop: it never starts a process for
\* an instance that is marked stopped.
MainLeavesStoppedAlone ==
    [][\A i \in DOMAIN services :
          /\ services[i].stopped
          /\ services'[i].child # NoPid /\ services'[i].child # services[i].child
          => lock \in Client]_vars

\* u and v exclude each other, by the Conflicts= line of either.
Exclude(u, v) == v \in Conf[u].conflicts \/ (v # u /\ u \in Conf[v].conflicts)

\* The first start of a unit by a request: when do_start pushes the new record,
\* after as many stops as it takes, no unit that conflicts with it, in either
\* direction, has a process.
FirstStartStopsConflicts ==
    [][\A i \in DOMAIN services' \ DOMAIN services :
          lock \in Client =>
            \A j \in DOMAIN services :
                Exclude(services'[i].name, services'[j].name) => ~Up(services'[j])]_vars

\* When isolate is through with a target, every process of a unit is one of
\* a unit that the target pulls in, directly or not.
IsolateLeavesOnlyTarget ==
    \A c \in Client :
        /\ lock = c /\ todo = <<>> /\ stop = NoStop
        /\ client[c].req.op = "isolate" /\ Conf[client[c].req.u].target
        => \A i \in DOMAIN services :
              Up(services[i]) => services[i].name \in Closure(client[c].req.u)

\* A shutdown request ends in reboot(2).
ShutdownCompletes == shutdown ~> pc = "off"

\* A request whose connection the main loop has accepted is answered, unless
\* the system goes down first.
RequestServed ==
    \A c \in Client : client[c].st = "wait" ~> client[c].st = "idle" \/ shutdown

\* The main loop wakes up for every restart it has scheduled: the instance is
\* respawned, or the restart is called off.
RestartHappens ==
    \A u \in Unit :
        (\E i \in Named(u) : services[i].nextRestart # "none")
            ~> (\A i \in Named(u) : services[i].nextRestart = "none"
                                     \/ services[i].stopped) \/ shutdown

\* Every child that exits is collected (no zombie stays for good).
ZombiesCollected == \A p \in Pid : Reapable(p) ~> ~Reapable(p) \/ pc = "off"

\* Where a hardware watchdog is fed, whose interval bounds the sleep, an instance
\* whose WATCHDOG=1 is overdue is dealt with.  Without one the deadline wakes
\* nobody: compute_next_timeout does not look at it.
WatchdogEnforcedIfFed ==
    HwWatchdog =>
        \A u \in Unit :
            (\E i \in Named(u) : services[i].watchdogDeadline = "due")
                ~> (\A i \in Named(u) : services[i].watchdogDeadline # "due")
                   \/ shutdown

\* Where a hardware watchdog is fed, a forking service does not stay in its start
\* phase: the parent exits or TimeoutStartSec ends it.  Without one, a deadline
\* that a control thread arms while the main loop sleeps wakes nobody.
DaemonizeResolvesIfFed ==
    HwWatchdog =>
        \A u \in Unit :
            (\E i \in Named(u) : services[i].waitDaemon)
                ~> (\A i \in Named(u) : ~services[i].waitDaemon
                                         \/ services[i].stopped) \/ shutdown

\* The units that OnFailure=, OnSuccess=, timers and paths start ...
Triggered ==
    {u \in Unit :
        \/ \E k \in DOMAIN ExtTargets : ExtTargets[k] = u
        \/ \E v \in Unit :
             \/ \E k \in DOMAIN Conf[v].onSuccess : Conf[v].onSuccess[k] = u
             \/ \E k \in DOMAIN Conf[v].onFailure : Conf[v].onFailure[k] = u}

\* ... and those of them whose records the check before such a start sees whole:
\* it looks for a child or the active flag, so that a pending restart and a
\* tracked daemon escape it, and neither a socket nor a request (which looks at
\* the first record only) starts them.
Lone ==
    {u \in Triggered \ DOMAIN Socket :
        /\ Conf[u].restart = "no" /\ Conf[u].type # "forking"
        /\ \A r \in Request : /\ r.op \in {"start", "restart"} => r.u # u
                              /\ r.op = "isolate" => u \notin Closure(r.u)}

\* Such a unit never has two instances that run or are active, however many
\* triggers name it, in one pass or while it starts, runs, exits or is stopped.
LoneRunsOnce ==
    \A u \in Lone : \A i, j \in Named(u) :
        UpOrActive(services[i]) /\ UpOrActive(services[j]) => i = j

\* Restart=always: while the main loop sleeps, an instance with that policy
\* that is down, not stopped and within StartLimitBurst has a restart pending.
AlwaysRestarts ==
    pc = "poll" /\ lock = "free" =>
        \A i \in DOMAIN services :
            LET s == services[i]
            IN  /\ Conf[s.name].restart = "always" /\ ~s.stopped
                /\ s.failCount <= Conf[s.name].burst
                => UpOrActive(s) \/ s.nextRestart # "none"

=============================================================================
