-------------------------------- MODULE Boot ---------------------------------
(***************************************************************************)
(* PID 1 from its first instruction to its main loop (init/mod.rs,         *)
(* Init::run, and init/boot.rs): the handoff to the root file system, the  *)
(* loading of the unit files, the start order and its layers, the threads  *)
(* that start the units of a layer, the wait for services that fail at     *)
(* once, rescue mode and the emergency shell.                              *)
(***************************************************************************)
EXTENDS UnitFiles

CONSTANTS Root,        \* default.target, the unit the boot has to reach
          Trees,       \* the unit directories a machine may have: sequences
                       \* of sets of files, lowest priority first
          TermStops    \* a shell ends when it is sent SIGTERM

ASSUME BootAssumption == Root \in Name /\ TermStops \in BOOLEAN

VARIABLES
    phase,      \* where Init::run is
    root,       \* the root file system: "initramfs" or "disk"
    tree,       \* the unit directories
    dir,        \* the directory being read
    files,      \* the entries of it not yet loaded
    units,      \* the table of units
    stack,      \* the activations of visit: a name and the deps still to visit
    open,       \* the names marked 1 (in progress) in visited
    done,       \* the names marked 2
    order,      \* the start order
    depths,     \* the depth found so far for names of order
    di,         \* the position of compute_depths in order
    changed,    \* some depth changed in this pass
    layer,      \* the depth being started
    started,    \* started_ok: a function from the units tried to BOOLEAN
    thread,     \* where the thread of a unit of the layer is in start_unit
    child,      \* the main process of each unit
    daemon,     \* the units whose parent has forked a daemon that runs
    services,   \* the instances, in the order they were pushed
    shell,      \* the emergency shell
    shutdown    \* SHUTDOWN_REQUESTED or REBOOT_REQUESTED

loadVars  == <<tree, dir, files, units>>
orderVars == <<stack, open, done, order>>
depthVars == <<depths, di, changed>>
startVars == <<layer, started, thread, child, daemon, services>>
vars == <<phase, root, loadVars, orderVars, depthVars, startVars, shell, shutdown>>

InOrder == {order[i] : i \in DOMAIN order}

Init ==
    /\ phase = "early" /\ root \in {"initramfs", "disk"}
    /\ tree \in Trees /\ dir = 0 /\ files = {} /\ units = <<>>
    /\ stack = <<>> /\ open = {} /\ done = {} /\ order = <<>>
    /\ depths = <<>> /\ di = 1 /\ changed = FALSE
    /\ layer = 0 /\ started = <<>> /\ thread = <<>> /\ child = <<>>
    /\ daemon = {} /\ services = <<>> /\ shell = "none" /\ shutdown = FALSE

-----------------------------------------------------------------------------
(* The environment.                                                         *)

\* SIGTERM or SIGINT to PID 1.
Signal ==
    /\ ~shutdown /\ phase # "off"
    /\ shutdown' = TRUE
    /\ UNCHANGED <<phase, root, loadVars, orderVars, depthVars, startVars, shell>>

\* The main process of a service ends.
ChildExits(n, code) ==
    /\ n \in DOMAIN child /\ child[n] = "run"
    /\ child' = [child EXCEPT ![n] = code]
    /\ UNCHANGED <<phase, root, loadVars, orderVars, depthVars, layer, started,
                   thread, daemon, services, shell, shutdown>>

\* The main process of a Type=forking unit forks its daemon, of which init
\* learns only in its main loop (finish_daemonize); a daemon ends by itself.
Daemonizes(n) ==
    /\ \/ /\ child[n] = "run" /\ units[n].exec = "forking" /\ n \notin daemon
          /\ daemon' = daemon \cup {n}
       \/ n \in daemon /\ daemon' = daemon \ {n}
    /\ UNCHANGED <<phase, root, loadVars, orderVars, depthVars, layer, started,
                   thread, child, services, shell, shutdown>>

\* Someone leaves the emergency shell, or SIGTERM ends it.
ShellExits ==
    /\ \/ shell = "run"
       \/ shell = "termed" /\ TermStops
    /\ shell' = IF shell = "run" THEN "gone" ELSE "reapable"
    /\ UNCHANGED <<phase, root, loadVars, orderVars, depthVars, startVars, shutdown>>

-----------------------------------------------------------------------------
(* early_root_handoff, the boot mode and the unit files.                    *)

\* There is no root=, it cannot be resolved, the root is persistent already, or
\* a mount or chroot fails: the boot goes on.  Otherwise the new root's init is
\* executed, which forgets a pending signal, or cannot be, and then this one
\* goes on in the new root.
EarlyRoot ==
    /\ phase = "early"
    /\ \/ phase' = "mode" /\ UNCHANGED <<root, shutdown>>
       \/ /\ root = "initramfs"
          /\ root' = "disk"
          /\ \/ phase' = "early" /\ shutdown' = FALSE
             \/ phase' = "mode" /\ UNCHANGED shutdown
    /\ UNCHANGED <<loadVars, orderVars, depthVars, startVars, shell>>

\* boot_mode_from_cmdline: emergency and single go straight to the shell.
BootMode ==
    /\ phase = "mode"
    /\ phase' \in {"load", "emergency"}
    /\ UNCHANGED <<root, loadVars, orderVars, depthVars, startVars, shell, shutdown>>

\* load_all_units: the next directory.
LoadDir ==
    /\ phase = "load" /\ files = {} /\ dir < Len(tree)
    /\ dir' = dir + 1
    /\ files' = tree[dir + 1]
    /\ UNCHANGED <<phase, root, tree, units, orderVars, depthVars, startVars,
                   shell, shutdown>>

\* load_dir_into: the entries in the order that read_dir gives.
LoadEntry ==
    /\ phase = "load"
    /\ \E f \in files : /\ units' = load_file(units, f)
                        /\ files' = files \ {f}
    /\ UNCHANGED <<phase, root, tree, dir, orderVars, depthVars, startVars,
                   shell, shutdown>>

\* The templates, and the first call of visit.
LoadDone ==
    /\ phase = "load" /\ files = {} /\ dir = Len(tree)
    /\ units' = instantiate_referenced_templates(units)
    /\ phase' = "order"
    /\ IF Root \in DOMAIN units'
       THEN /\ stack' = <<[n |-> Root, deps |-> sort_deps(units', Root)]>>
            /\ open' = {Root} /\ done' = {}
       ELSE stack' = <<>> /\ open' = {} /\ done' = {Root}
    /\ order' = <<>>
    /\ UNCHANGED <<root, tree, dir, files, depthVars, startVars, shell, shutdown>>

-----------------------------------------------------------------------------
(* compute_start_order: a depth-first search, one call of visit per step.   *)

Top == stack[Len(stack)]

\* visit of a dependency: finished, missing, new, or in progress (a cycle, for
\* which init falls back to the emergency shell).
Visit ==
    /\ phase = "order" /\ stack # <<>>
    /\ \E d \in Top.deps :
         LET rest == [stack EXCEPT ![Len(stack)].deps = @ \ {d}]
         IN  \/ d \in done /\ stack' = rest /\ UNCHANGED <<phase, open, done>>
             \/ d \in open /\ phase' = "cycle" /\ UNCHANGED <<stack, open, done>>
             \/ /\ d \notin done \cup open /\ d \notin DOMAIN units
                /\ stack' = rest /\ done' = done \cup {d}
                /\ UNCHANGED <<phase, open>>
             \/ /\ d \notin done \cup open /\ d \in DOMAIN units
                /\ stack' = Append(rest, [n |-> d, deps |-> sort_deps(units, d)])
                /\ open' = open \cup {d} /\ UNCHANGED <<phase, done>>
    /\ UNCHANGED <<root, loadVars, order, depthVars, startVars, shell, shutdown>>

\* The end of visit.
Visited ==
    /\ phase = "order" /\ stack # <<>> /\ Top.deps = {}
    /\ order' = Append(order, Top.n)
    /\ done' = done \cup {Top.n} /\ open' = open \ {Top.n}
    /\ stack' = SubSeq(stack, 1, Len(stack) - 1)
    /\ UNCHANGED <<phase, root, loadVars, depthVars, startVars, shell, shutdown>>

Ordered ==
    /\ phase = "order" /\ stack = <<>>
    /\ phase' = "depth"
    /\ di' = 1 /\ changed' = FALSE /\ depths' = <<>>
    /\ UNCHANGED <<root, loadVars, orderVars, startVars, shell, shutdown>>

\* "no units": the cycle was logged.
CycleFound ==
    /\ phase = "cycle"
    /\ phase' = "emergency"
    /\ UNCHANGED <<root, loadVars, orderVars, depthVars, startVars, shell, shutdown>>

-----------------------------------------------------------------------------
(* compute_depths: passes over the order until nothing changes.             *)

\* The depth of n by the depths found so far.
NewDepth(n) ==
    LET known == {depths[d] : d \in depth_deps(units, n) \cap DOMAIN depths}
    IN  IF known = {} THEN 0
        ELSE 1 + CHOOSE m \in known : \A k \in known : k <= m

DepthStep ==
    /\ phase = "depth" /\ di <= Len(order)
    /\ LET n == order[di] IN
         /\ depths' = Put(depths, n, NewDepth(n))
         /\ changed' = (changed \/ n \notin DOMAIN depths \/ depths[n] # NewDepth(n))
    /\ di' = di + 1
    /\ UNCHANGED <<phase, root, loadVars, orderVars, startVars, shell, shutdown>>

\* Mutant of DepthPass: changed is not reset.
DepthPassStuck ==
    /\ phase = "depth" /\ di > Len(order)
    /\ IF changed
       THEN di' = 1 /\ UNCHANGED <<phase, depths, changed, layer>>
       ELSE phase' = "check" /\ layer' = 0 /\ UNCHANGED depthVars
    /\ UNCHANGED <<root, loadVars, orderVars, started, thread, child, daemon,
                   services, shell, shutdown>>

\* The end of a pass.
DepthPass ==
    /\ phase = "depth" /\ di > Len(order)
    /\ IF changed
       THEN di' = 1 /\ changed' = FALSE /\ UNCHANGED <<phase, depths, layer>>
       ELSE phase' = "check" /\ layer' = 0 /\ UNCHANGED depthVars
    /\ UNCHANGED <<root, loadVars, orderVars, started, thread, child, daemon,
                   services, shell, shutdown>>

-----------------------------------------------------------------------------
(* The layers.  A layer has no edge inside (the depths grow along edges),   *)
(* so the checks of its units do not depend on each other.                  *)

MaxDepth == LET D == {depths[n] : n \in DOMAIN depths}
            IN  IF D = {} THEN 0 ELSE CHOOSE m \in D : \A k \in D : k <= m
Layer == {n \in InOrder : depths[n] = layer}

Failed(n) == n \in DOMAIN started /\ ~started[n]
failed_required_dep(n)  == \E d \in units[n].requires : Failed(d)
failed_requisite_dep(n) ==
    \E d \in units[n].requisite : d \notin DOMAIN started \/ ~started[d]

\* Mutant of Skipped: a target is reached whatever became of its units.
SkippedService(n) ==
    units[n].type # "target" /\ (failed_required_dep(n) \/ failed_requisite_dep(n))

\* The units of the layer that are not started.
Skipped(n) ==
    \/ failed_required_dep(n)
    \/ units[n].type # "target" /\ failed_requisite_dep(n)

\* The checks of a layer, and one thread for each unit to start.
CheckLayer ==
    /\ phase = "check"
    /\ LET skipped == {n \in Layer : Skipped(n)}
           targets == {n \in Layer \ skipped : units[n].type = "target"}
       IN  /\ started' = Over([n \in skipped \cup targets |-> n \in targets], started)
           /\ thread' = [n \in Layer \ (skipped \cup targets) |-> "begin"]
    /\ phase' = "start"
    /\ UNCHANGED <<root, loadVars, orderVars, depthVars, layer, child, daemon,
                   services, shell, shutdown>>

\* A step of the thread of n, which leaves it at pc.
Step(n, pc) ==
    /\ thread' = [thread EXCEPT ![n] = pc]
    /\ UNCHANGED <<phase, root, loadVars, orderVars, depthVars, layer, started,
                   services, shell, shutdown>>

\* start_unit: the conditions and ExecStartPre=.  run_command_sync returns
\* within TimeoutStartSec.
StartPre(n) ==
    /\ phase = "start" /\ n \in DOMAIN thread /\ thread[n] = "begin"
    /\ IF ~units[n].cond \/ units[n].exec = "none"
       THEN Step(n, "ok")
       ELSE \/ Step(n, "main")
            \/ units[n].pre /\ Step(n, "failed")
    /\ UNCHANGED <<child, daemon>>

\* The oneshot command, or the fork of the main process.
StartMain(n) ==
    /\ phase = "start" /\ n \in DOMAIN thread /\ thread[n] = "main"
    /\ \/ Step(n, "post") /\ child' = Put(child, n, IF units[n].exec = "oneshot"
                                                      THEN "none" ELSE "run")
       \/ Step(n, "failed") /\ UNCHANGED child
    /\ UNCHANGED daemon

\* stop_service_instance up to the signal: cgroup.kill ends every process of the
\* unit; KillSignal= goes to the main process, which may take its time (tracked_pid
\* is not set before the main loop, so that a daemon is not signalled).
StopBegins(n) ==
    IF units[n].kill = "cgroup"
    THEN /\ child' = [child EXCEPT ![n] = IF @ = "run" THEN "bad" ELSE @]
         /\ daemon' = daemon \ {n}
    ELSE UNCHANGED <<child, daemon>>

\* TimeoutStopSec passes: SIGKILL, if the unit allows it.
StopTimeout(n) ==
    /\ child[n] = "run" /\ units[n].kill = "signal"
    /\ child' = [child EXCEPT ![n] = "bad"]
    /\ UNCHANGED daemon

\* The main process has ended and is collected.
StopEnds(n) ==
    /\ child[n] # "run"
    /\ child' = [child EXCEPT ![n] = "none"]
    /\ UNCHANGED daemon

\* Mutant of StartPost: the main process is left running.
StartPostLeaves(n) ==
    /\ phase = "start" /\ n \in DOMAIN thread /\ thread[n] = "post"
    /\ \/ Step(n, "inst")
       \/ units[n].post /\ Step(n, "failed")
    /\ UNCHANGED <<child, daemon>>

\* ExecStartPost=; when it fails, a main process is stopped.
StartPost(n) ==
    /\ phase = "start" /\ n \in DOMAIN thread /\ thread[n] = "post"
    /\ \/ Step(n, "inst") /\ UNCHANGED <<child, daemon>>
       \/ /\ units[n].post
          /\ IF units[n].exec = "oneshot" THEN Step(n, "failed") /\ UNCHANGED <<child, daemon>>
                                          ELSE Step(n, "stop") /\ StopBegins(n)

\* The stop of a main process in the thread that started it.
StartStop(n) ==
    /\ phase = "start" /\ n \in DOMAIN thread /\ thread[n] = "stop"
    /\ \/ Step(n, "stop") /\ StopTimeout(n)
       \/ Step(n, "failed") /\ StopEnds(n)

Started == {"ok", "inst"}

\* The instances of the layer, and the sequence s of them in the order of
\* `order`.
Instances == {n \in DOMAIN thread : thread[n] = "inst"}
LayerInstances(s) ==
    /\ {s[i] : i \in DOMAIN s} = Instances
    /\ \A i, j \in DOMAIN s : i < j =>
          \E k, l \in DOMAIN order : k < l /\ order[k] = s[i] /\ order[l] = s[j]

\* All threads were joined: the results in the order of `order`.
Joined ==
    /\ phase = "start" /\ \A n \in DOMAIN thread : thread[n] \in Started \cup {"failed"}
    /\ started' = Over([n \in DOMAIN thread |-> thread[n] \in Started], started)
    /\ \E s \in [1..Cardinality(Instances) -> Instances] :
          LayerInstances(s) /\ services' = services \o s
    /\ phase' = "detect"
    /\ UNCHANGED <<root, loadVars, orderVars, depthVars, layer, thread, child,
                   daemon, shell, shutdown>>

\* The services that later layers require and that are not restarted.
Watched ==
    LET needed == UNION {units[n].requires : n \in {m \in InOrder : depths[m] > layer}}
    IN  {n \in needed \cap {services[i] : i \in DOMAIN services} :
            /\ units[n].exec # "forking" /\ ~units[n].restart
            /\ child[n] # "none"}

\* One round of detect_immediate_failures; it is the last one when no watched
\* service is running, or the second is over.
Detect ==
    /\ phase = "detect"
    /\ LET gone == {n \in Watched : child[n] # "run"}
       IN  /\ child' = Over([n \in gone |-> "none"], child)
           /\ started' = Over([n \in {m \in gone : child[m] = "bad"} |-> FALSE], started)
           /\ \/ Watched # gone /\ UNCHANGED <<phase, layer>>
              \/ /\ phase' = IF layer < MaxDepth THEN "check" ELSE "complete"
                 /\ layer' = IF layer < MaxDepth THEN layer + 1 ELSE layer
    /\ UNCHANGED <<root, loadVars, orderVars, depthVars, thread, daemon, services,
                   shell, shutdown>>

\* The boot target was reached, or rescue mode stops what was started.
Complete ==
    /\ phase = "complete"
    /\ phase' = IF Root \in DOMAIN started /\ started[Root] THEN "main" ELSE "rescue"
    /\ UNCHANGED <<root, loadVars, orderVars, depthVars, startVars, shell, shutdown>>

\* The services are stopped in reverse: the next one, or the emergency shell.
RescueStop ==
    /\ phase = "rescue"
    /\ IF services = <<>>
       THEN phase' = "emergency" /\ UNCHANGED <<child, daemon>>
       ELSE phase' = "stopping" /\ StopBegins(services[Len(services)])
    /\ UNCHANGED <<root, loadVars, orderVars, depthVars, layer, started, thread,
                   services, shell, shutdown>>

\* Each stop waits for the main process, without limit after the timeout.
RescueWait ==
    /\ phase = "stopping"
    /\ \/ StopTimeout(services[Len(services)]) /\ UNCHANGED <<phase, services>>
       \/ /\ StopEnds(services[Len(services)])
          /\ services' = SubSeq(services, 1, Len(services) - 1)
          /\ phase' = "rescue"
    /\ UNCHANGED <<root, loadVars, orderVars, depthVars, layer, started, thread,
                   shell, shutdown>>

-----------------------------------------------------------------------------
(* run_emergency_shell.                                                     *)


\* The head of the loop: do_shutdown, or another shell, which may not start.
EmergencyTop ==
    /\ phase = "emergency" /\ shell = "none"
    /\ IF shutdown THEN phase' = "off" /\ shell' = shell
                   ELSE shell' \in {"none", "run"} /\ phase' = phase
    /\ UNCHANGED <<root, loadVars, orderVars, depthVars, startVars, shutdown>>

\* The poll of a shell: SIGTERM to everything when a shutdown is requested and
\* then a wait without limit.
EmergencyPoll ==
    /\ phase = "emergency"
    /\ \/ shell = "run" /\ shutdown /\ shell' = "termed"
       \/ shell = "gone" /\ shell' = "none"
       \/ shell = "reapable" /\ shell' = "none"
    /\ UNCHANGED <<phase, root, loadVars, orderVars, depthVars, startVars, shutdown>>

-----------------------------------------------------------------------------
Environment ==
    \/ Signal \/ ShellExits
    \/ \E n \in DOMAIN child : \/ \E code \in {"good", "bad"} : ChildExits(n, code)
                               \/ Daemonizes(n)

BootStep ==
    \/ EarlyRoot \/ BootMode \/ LoadDir \/ LoadEntry \/ LoadDone
    \/ Visit \/ Visited \/ Ordered \/ CycleFound
    \/ DepthStep \/ DepthPass
    \/ CheckLayer \/ Joined \/ Detect \/ Complete \/ RescueStop \/ RescueWait
    \/ EmergencyTop \/ EmergencyPoll

ThreadStep(n) == StartPre(n) \/ StartMain(n) \/ StartPost(n) \/ StartStop(n)

Next == BootStep \/ Environment \/ \E n \in DOMAIN thread : ThreadStep(n)

Spec == Init /\ [][Next]_vars

\* Init::run goes on, every thread of a layer does (each command it waits for
\* has a timeout; a stop without SIGKILL waits as long as the process likes), the
\* second of detect_immediate_failures passes, and a shell
\* that was sent SIGTERM ends if it ends on that signal at all.
FairSpec ==
    /\ Spec /\ WF_vars(BootStep) /\ WF_vars(\E n \in DOMAIN thread : ThreadStep(n))
    /\ WF_vars(Detect /\ phase' # phase) /\ WF_vars(shell = "termed" /\ ShellExits)

-----------------------------------------------------------------------------
(* Properties.                                                              *)

\* m has to be started before n.
Edge(m, n) ==
    \/ m \in units[n].requires \cup units[n].after \cup units[n].wants
    \/ n \in units[m].before
    \/ units[n].type = "target" /\ n \in units[m].wantedBy

\* The start order holds a unit once, and after every unit that has to be
\* started before it (compute_start_order).
OrderTopological ==
    /\ \A i, j \in DOMAIN order : i # j => order[i] # order[j]
    /\ \A i \in DOMAIN order, m \in DOMAIN units :
          Edge(m, order[i]) => \E j \in 1..(i - 1) : order[j] = m

\* While a unit is being started the result of each unit it comes after is
\* known, so that the checks of Requires= and Requisite= mean something.
DepsSettledAtStart ==
    phase = "start" =>
        \A n \in DOMAIN thread, m \in InOrder :
            Edge(m, n) \/ m \in units[n].requisite => m \in DOMAIN started

\* What the boot target requires, over any number of steps: the units in every
\* set that holds the target and what its members require.
RequiredByRoot ==
    {n \in DOMAIN units :
        \A S \in SUBSET DOMAIN units :
            /\ {Root} \cap DOMAIN units \subseteq S
            /\ \A m \in S : units[m].requires \cap DOMAIN units \subseteq S
            => n \in S}

\* init enters its main loop only with an instance of every service that the
\* boot target requires, directly or not, unless the service has no command or
\* its conditions do not hold.
TargetMeansRequired ==
    phase = "main" =>
        \A n \in RequiredByRoot :
            \/ units[n].type = "target" \/ units[n].exec = "none" \/ ~units[n].cond
            \/ \E i \in DOMAIN services : services[i] = n

\* What rescue mode, and a thread whose ExecStartPost= failed, do stop: every
\* main process, however long it takes, and with it the daemon of a unit whose
\* cgroup can be killed.  Other daemons stay beside the emergency shell, whatever
\* mod.rs:229 says: no instance tracks them during the boot.
RescueStopsServices ==
    phase \in {"emergency", "off"} =>
        /\ \A n \in DOMAIN child : child[n] # "run"
        /\ \A n \in daemon : units[n].kill # "cgroup"

\* Some stop waits for a process that ignores KillSignal= and may not be killed.
StopWaits ==
    \E n \in DOMAIN child :
        /\ child[n] = "run" /\ units[n].kill = "ask"
        /\ \/ phase = "start" /\ n \in DOMAIN thread /\ thread[n] = "stop"
           \/ phase = "stopping" /\ n = services[Len(services)]

\* The boot comes to an end, the main loop or the emergency shell, unless it
\* waits for ever in a stop that SendSIGKILL=no or KillMode=none left without
\* SIGKILL.  This is claimed of start orders without a cycle of Requisite=, on
\* which the passes of compute_depths do not converge (mod.rs:465).
BootEnds ==
    \/ <>(phase \in {"main", "emergency", "off"})
    \/ <>[]StopWaits

=============================================================================
