-------------------------- MODULE MCServiceManager --------------------------
(* Small instances of ServiceManager for TLC.                              *)
EXTENDS ServiceManager, TLC

CONSTANTS a, b, d, once, goal, c1, p1, p2, p3

\* A simple service with the defaults of units.rs that matter here.
Default ==
    [ target |-> FALSE, exec |-> TRUE, type |-> "simple", restart |-> "no",
      burst |-> 1, delay |-> TRUE, remain |-> FALSE, pidfile |-> FALSE,
      killMode |-> "control-group", sendSigkill |-> TRUE, cgroup |-> FALSE,
      watchdog |-> FALSE, cond |-> FALSE, execFails |-> FALSE,
      hooks |-> FALSE,
      codes |-> {"zero", "bad"},
      requires |-> {}, wants |-> {}, wantedBy |-> {}, requisite |-> {},
      conflicts |-> {}, partOf |-> {}, onSuccess |-> <<>>, onFailure |-> <<>> ]

Req(ops, units) == [op : ops, u : units]

\* Two restarting services: a notify service is tied to the other by PartOf=.
RestartUnit == {a, b}
RestartConf ==
    (a :> [Default EXCEPT !.restart = "always", !.execFails = TRUE]) @@
    (b :> [Default EXCEPT !.type = "notify", !.restart = "on-failure",
                          !.delay = FALSE, !.partOf = {a}])
RestartBoot == <<a, b>>
RestartRequest == Req({"start", "stop", "restart"}, {a})
                    \cup Req({"reset"}, {b})

\* One service that restarts, under requests to stop and to start it.
OneUnit == {a}
OneConf == a :> [Default EXCEPT !.restart = "always"]
OneBoot == <<a>>
\* A daemon with a PIDFile: its parent may fail to daemonize in time.
ForkConf == a :> [Default EXCEPT !.type = "forking", !.pidfile = TRUE,
                                 !.restart = "on-failure", !.delay = FALSE]
ForkRequest == Req({"restart", "stop"}, {a})

\* A target, goal, that wants a, a unit b that conflicts with a, a daemon d that
\* requires b to be active when it starts, and a oneshot once that boot left active.
\* None of them exits unless it is told to, but the parents of the daemons do.
GroupUnit == {a, b, d, once, goal}
Quiet == [Default EXCEPT !.codes = {}]
Daemon == [Quiet EXCEPT !.type = "forking", !.pidfile = TRUE, !.codes = {"zero"}]
GroupConf ==
    (goal :> [Quiet EXCEPT !.target = TRUE, !.exec = FALSE]) @@
    (a :> [Quiet EXCEPT !.wantedBy = {goal}]) @@
    (b :> [Quiet EXCEPT !.conflicts = {a}]) @@
    (d :> [Daemon EXCEPT !.requisite = {b}]) @@
    (once :> [Quiet EXCEPT !.type = "oneshot", !.remain = TRUE])
GroupBoot == <<b, once>>
GroupRequest == Req({"start"}, {a, d}) \cup Req({"isolate"}, {goal})

\* A daemon whose parent or daemon may feed a watchdog, and may stop doing so.
LiveConf == a :> [ForkConf[a] EXCEPT !.watchdog = TRUE, !.restart = "no",
                                     !.codes = {"zero"}]
LiveRequest == Req({"restart"}, {a})

\* Socket activation (a has one process for its socket, d one per connection)
\* and triggers: the failure of a starts the oneshot b, which stays active; two
\* timers, which may be due in one pass, start the service once, which stays active
\* after a good exit, and the daemon goal, whose ExecStartPost= may fail.
ActivationUnit == {a, b, d, once, goal}
ActivationConf ==
    (a :> [Default EXCEPT !.onFailure = <<b>>, !.codes = {"bad"}]) @@
    (b :> [Default EXCEPT !.type = "oneshot", !.remain = TRUE]) @@
    (d :> [Default EXCEPT !.restart = "on-failure", !.delay = FALSE,
                          !.codes = {"bad"}]) @@
    (once :> [Default EXCEPT !.remain = TRUE]) @@
    (goal :> [Quiet EXCEPT !.type = "forking", !.hooks = TRUE])
ActivationTimers == <<once, goal>>
ActivationRequest == Req({"stop"}, {a})
BothSockets == (a :> FALSE) @@ (d :> TRUE)

NoBoot == <<>>
NoTimers == <<>>
NoRequests == {}

\* The instance list only ever grows.
TwoInstances == Len(services) <= 2

NoSocket == [u \in {} |-> TRUE]

Symmetry == Permutations({p1, p2, p3})
Symmetry2 == Permutations({p1, p2})

=============================================================================
