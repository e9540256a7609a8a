-------------------------- MODULE ServiceInstance --------------------------
(***************************************************************************)
(* The runtime record that rbox init keeps for a started service           *)
(* (init/services.rs, struct ServiceInstance) and the functions that       *)
(* change one record: construction, exit bookkeeping, restart scheduling,  *)
(* respawn and the end of daemonization.  They are pure operators here;    *)
(* ServiceManager applies them to its list of instances.                   *)
(*                                                                         *)
(* Time is abstract.  An Option<Instant> is a Timer: "none" (None),        *)
(* "armed" (Some, still in the future) or "due" (Some, and now >= it).     *)
(***************************************************************************)
EXTENDS Naturals, Sequences, FiniteSets

CONSTANTS
    Unit,       \* names of the loaded units (services and targets)
    Conf,       \* Conf[u]: what the unit file of u says
    Pid,        \* process ids; the kernel hands a free one out again
    NoPid       \* Option::None where the code has Option<Child>/Option<u32>

Timer     == {"none", "armed", "due"}
KillModes == {"control-group", "process", "mixed", "none"}

(***************************************************************************)
(* What the modelled code reads of a unit file.  burst is StartLimitBurst, *)
(* delay says whether RestartSec > 0, cond whether a Condition*= line may  *)
(* be unmet, execFails whether spawning ExecStart may fail (missing        *)
(* binary, fork limit), hooks whether it has ExecStartPre=, ExecStartPost=, *)
(* ExecStop= or ExecStopPost= commands, codes the exit codes its processes  *)
(* use.                                                                    *)
(***************************************************************************)
UnitConf ==
    [ target : BOOLEAN,
      exec : BOOLEAN,
      type : {"simple", "forking", "oneshot", "notify"},
      restart : {"no", "on-failure", "on-success", "always"},
      burst : Nat,
      delay : BOOLEAN,
      remain : BOOLEAN,
      pidfile : BOOLEAN,
      killMode : KillModes,
      sendSigkill : BOOLEAN,
      cgroup : BOOLEAN,
      watchdog : BOOLEAN,
      cond : BOOLEAN,
      execFails : BOOLEAN,
      hooks : BOOLEAN,
      codes : SUBSET {"zero", "listed", "bad"},
      requires : SUBSET Unit,
      wants : SUBSET Unit,
      wantedBy : SUBSET Unit,
      requisite : SUBSET Unit,
      conflicts : SUBSET Unit,
      partOf : SUBSET Unit,
      onSuccess : Seq(Unit),
      onFailure : Seq(Unit) ]

ASSUME ConfAssumption == Conf \in [Unit -> UnitConf]
ASSUME NoPidAssumption == NoPid \notin Pid

OptPid == Pid \cup {NoPid}

(***************************************************************************)
(* The fields of struct ServiceInstance that control anything.  The copies *)
(* of unit settings it also holds are read from Conf.                      *)
(***************************************************************************)
Instance ==
    [ name : Unit,
      child : OptPid,
      tracked : OptPid,
      failCount : Nat,
      firstFailure : {"none", "recent", "old"},
      nextRestart : Timer,
      waitDaemon : BOOLEAN,
      daemonDeadline : Timer,
      stopped : BOOLEAN,
      active : BOOLEAN,
      waitReady : BOOLEAN,
      watchdogDeadline : Timer ]

\* new_service_instance: a record around a freshly spawned child (or none).
NewInstance(u, pid) ==
    [ name |-> u, child |-> pid, tracked |-> NoPid,
      failCount |-> 0, firstFailure |-> "none", nextRestart |-> "none",
      waitDaemon |-> FALSE, daemonDeadline |-> "none",
      stopped |-> FALSE, active |-> FALSE,
      waitReady |-> Conf[u].type = "notify", watchdogDeadline |-> "none" ]

\* Mutant of Started: the daemonize deadline is never set.
StartedNoDeadline(u, pid) ==
    [NewInstance(u, pid) EXCEPT !.waitDaemon = Conf[u].type = "forking"]

\* start_service / start_forking_service, once the spawn has succeeded.
Started(u, pid) ==
    IF Conf[u].type = "forking"
    THEN [NewInstance(u, pid) EXCEPT !.waitDaemon = TRUE,
                                     !.daemonDeadline = "armed"]
    ELSE NewInstance(u, pid)

\* oneshot_instance: the command has already run to completion.
OneshotInstance(u) ==
    [NewInstance(u, NoPid) EXCEPT !.active = Conf[u].remain]

\* The three notions of "running" the code uses, each at its own call sites.
Up(s)            == s.child # NoPid \/ s.tracked # NoPid
HasChild(s)      == s.child # NoPid    \* mutant of ChildOrActive
ChildOrActive(s) == s.child # NoPid \/ s.active
UpOrActive(s)    == Up(s) \/ s.active

\* exit_is_success: 0, or a code of SuccessExitStatus=; a signal is a failure.
ExitIsSuccess(code) == code \in {"zero", "listed"}

\* The first half of schedule_restart: the failure window and the counter.
CountExit(s, failed) ==
    LET expired == s.firstFailure = "old"
        count   == IF expired THEN 0 ELSE s.failCount
        first   == IF expired THEN "none" ELSE s.firstFailure
    IN  IF failed
        THEN [s EXCEPT !.failCount = count + 1,
                       !.firstFailure = IF count = 0 THEN "recent" ELSE first]
        ELSE [s EXCEPT !.failCount = 0, !.firstFailure = "none"]

WantRestart(u, failed) ==
    CASE Conf[u].restart = "always"     -> TRUE
      [] Conf[u].restart = "on-failure" -> failed
      [] Conf[u].restart = "on-success" -> ~failed
      [] OTHER                          -> FALSE

\* Mutant of ScheduleRestart: one restart more than StartLimitBurst.
ScheduleRestartOneMore(s, failed, shutdown) ==
    LET c == CountExit(s, failed)
    IN  IF /\ WantRestart(c.name, failed) /\ ~c.stopped /\ ~shutdown
           /\ c.failCount <= Conf[c.name].burst + 1
        THEN [c EXCEPT !.nextRestart =
                  IF Conf[c.name].delay THEN "armed" ELSE "due"]
        ELSE c

\* schedule_restart: count the exit, then arm RestartSec unless the policy,
\* a stop request, the shutdown flag or StartLimitBurst forbids it.
ScheduleRestart(s, failed, shutdown) ==
    LET c == CountExit(s, failed)
    IN  IF /\ WantRestart(c.name, failed)
           /\ ~c.stopped
           /\ ~shutdown
           /\ c.failCount <= Conf[c.name].burst
        THEN [c EXCEPT !.nextRestart =
                  IF Conf[c.name].delay THEN "armed" ELSE "due"]
        ELSE c

\* respawn_service: pid is the new process, or NoPid when the spawn failed.
Respawned(s, pid) ==
    LET r == [s EXCEPT !.tracked = NoPid,
                       !.child = pid,
                       !.waitReady = Conf[s.name].type = "notify",
                       !.watchdogDeadline = "none"]
    IN  IF Conf[s.name].type # "forking" THEN r
        ELSE [r EXCEPT !.waitDaemon = pid # NoPid,
                       !.daemonDeadline = IF pid # NoPid THEN "armed"
                                                         ELSE "none"]

\* finish_daemonize: the forking parent is gone (whatever its exit status
\* was); track the pid that the PIDFile names at this moment, if any.
FinishDaemonize(s, filePid) ==
    [s EXCEPT !.child = NoPid,
              !.waitDaemon = FALSE,
              !.daemonDeadline = "none",
              !.tracked = IF Conf[s.name].pidfile THEN filePid ELSE NoPid]

\* The main loop's bookkeeping when try_wait reports the exit of the child.
ChildExited(s, failed, shutdown) ==
    LET e == [s EXCEPT !.child = NoPid,
                       !.waitReady = FALSE,
                       !.watchdogDeadline = "none",
                       !.active = @ \/ (~failed /\ Conf[s.name].remain)]
    IN  IF e.active THEN e ELSE ScheduleRestart(e, failed, shutdown)

\* The daemon did not come up within TimeoutStartSec: it has been killed.
DaemonTimedOut(s, shutdown) ==
    ScheduleRestart([s EXCEPT !.child = NoPid, !.waitDaemon = FALSE,
                              !.daemonDeadline = "none"], TRUE, shutdown)

\* Mutant of ForgetFailures: the pending restart stays.
ForgetCount(s) == [s EXCEPT !.failCount = 0, !.firstFailure = "none"]

\* do_start on an existing record: forget the history, then respawn.
ForgetFailures(s) ==
    [s EXCEPT !.failCount = 0, !.firstFailure = "none", !.nextRestart = "none"]

=============================================================================
