-------------------------------- MODULE Jobs --------------------------------
(***************************************************************************)
(* Job control of the interactive shell: shell/jobs.rs, the foreground and *)
(* background pipelines of shell/executor.rs, and the builtins jobs, fg,   *)
(* bg, wait and kill of shell/builtin.rs.                                  *)
(*                                                                         *)
(* Actors: the shell's main thread, the thread that watches the terminal   *)
(* for Ctrl-C and Ctrl-Z while a foreground pipeline runs, the children,   *)
(* the SIGCHLD handler and the user at the keyboard.  Every child of a     *)
(* pipeline calls setpgid(0, 0), so a process is its own group here.       *)
(*                                                                         *)
(* Children are named by pid.  PidReuse says whether the kernel hands out  *)
(* the pid of a collected child again; it does once the counter wraps.     *)
(***************************************************************************)
EXTENDS Integers, Sequences, FiniteSets, FiniteSetsExt, SequencesExt

CONSTANTS
    Pid,        \* pids of the shell's children, positive numbers
    Code,       \* exit codes of the programs
    MaxCmds,    \* longest pipeline
    MaxEvents,  \* children started, bytes typed and stops from outside
    PidReuse,   \* the pid counter wraps
    Pipefail    \* set -o pipefail

ASSUME JobsAssumption ==
    /\ Pid \subseteq Nat \ {0}
    /\ Code \subseteq 0 .. 255
    /\ MaxCmds \in Nat \ {0}
    /\ MaxEvents \in Nat
    /\ PidReuse \in BOOLEAN
    /\ Pipefail \in BOOLEAN

VARIABLES
    proc,       \* the kernel's view of every child
    table,      \* jobs.rs: the job table
    statuses,   \* jobs.rs: recorded exit codes, by pid
    SIGCHLD_PENDING,
    sh,         \* main thread: program counter and what it works on
    FOREGROUND_PGID,
    monitor,    \* Ctrl-C thread: "off", "top", "read"
    stop_flag,  \* tells the thread to end
    tty,        \* typed bytes nobody has read
    PENDING_STDIN,
    got,        \* bytes the shell has consumed as input
    cut,        \* a key or here-doc was read past bytes waiting in PENDING_STDIN
    typed,      \* number of bytes typed so far
    spent,      \* events so far; bounds the model, not the code
    ret         \* result of the last command that reports one

vars == <<proc, table, statuses, SIGCHLD_PENDING, sh, FOREGROUND_PGID, monitor,
          stop_flag, tty, PENDING_STDIN, got, cut, typed, spent, ret>>
kernel == <<proc, SIGCHLD_PENDING>>
jobVars == <<table, statuses>>
keyVars == <<monitor, stop_flag, tty, PENDING_STDIN, got, cut, typed>>
Spend == spent < MaxEvents /\ spent' = spent + 1

NoCode == -1
NoPgid == 0
SIGINT == 2
SIGKILL == 9
SIGTERM == 15
SIGTSTP == 20
Signalled(sig) == 128 + sig
AnyCode == Code \cup {0, 1, 127} \cup {Signalled(s) : s \in {SIGINT, SIGKILL, SIGTERM, SIGTSTP}}

\* Ctrl-C, Ctrl-Z and ordinary bytes, the latter numbered in typing order.
CtrlC == -3
CtrlZ == -26

-----------------------------------------------------------------------------
(***************************************************************************)
(* The kernel.  evt is the state change waitpid has not reported yet.      *)
(***************************************************************************)
NewProc == [st |-> "run", code |-> NoCode, evt |-> "none"]
NoProc == [st |-> "none", code |-> NoCode, evt |-> "none"]
Zombie(code) == [st |-> "zombie", code |-> code, evt |-> "none"]
Collected(code) == [st |-> "gone", code |-> code, evt |-> "none"]

Live(p) == proc[p].st \in {"run", "stopped"}
\* Pids go up; a wrapped counter may hand out any pid that is not in use.
FreePids ==
    LET unused == {p \in Pid : proc[p].st = "none"}
    IN  IF PidReuse THEN unused \cup {p \in Pid : proc[p].st = "gone"}
        ELSE {p \in unused : \A q \in unused : p <= q}

\* What kill(-p, sig) does to process p; a program may catch SIGINT and SIGTERM.
Outcomes(sig, p) ==
    IF ~Live(p) THEN {proc[p]}
    ELSE CASE sig = SIGTSTP -> {[proc[p] EXCEPT !.st = "stopped", !.evt = "stopped"]}
           [] sig = SIGKILL -> {Zombie(Signalled(sig))}
           [] OTHER -> {proc[p], Zombie(Signalled(sig))}

\* SIGCONT; only a stopped process changes state.
Resumed(p) ==
    IF proc[p].st = "stopped" THEN [st |-> "run", code |-> NoCode, evt |-> "continued"]
    ELSE proc[p]

-----------------------------------------------------------------------------
(***************************************************************************)
(* jobs.rs                                                                 *)
(***************************************************************************)

Job == [id : Nat \ {0}, pgid : Pid, state : {"Running", "Stopped"}]

pgid_alive(pr, p) == pr[p].st \in {"run", "stopped", "zombie"}

\* Table entries whose process still exists: every access begins with this.
retained(pr, t) ==
    LET kept == {k \in DOMAIN t : pgid_alive(pr, t[k].pgid)}
        at == CHOOSE s \in [1 .. Cardinality(kept) -> kept] :
                  \A i, k \in DOMAIN s : i < k => s[i] < s[k]
    IN  [k \in DOMAIN at |-> t[at[k]]]

\* waitpid(-1, WNOHANG | WUNTRACED | WCONTINUED) until nothing is left.
reap_children(pr) ==
    [p \in Pid |->
        IF pr[p].st = "zombie" THEN Collected(pr[p].code) ELSE [pr[p] EXCEPT !.evt = "none"]]

\* Only stops are taken over.
updated_stops(pr, t) ==
    [k \in DOMAIN t |->
        IF pr[t[k].pgid].evt = "stopped" THEN [t[k] EXCEPT !.state = "Stopped"] ELSE t[k]]

\* update_state_by_pid for every stop and continue event collected.
updated(pr, t) ==
    [k \in DOMAIN t |->
        CASE pr[t[k].pgid].evt = "stopped" -> [t[k] EXCEPT !.state = "Stopped"]
          [] pr[t[k].pgid].evt = "continued" -> [t[k] EXCEPT !.state = "Running"]
          [] OTHER -> t[k]]

\* The exit codes of everything collected.
recorded(pr, s) == [p \in Pid |-> IF pr[p].st = "zombie" THEN pr[p].code ELSE s[p]]

next_id(t) == IF t = <<>> THEN 1 ELSE Max({t[k].id : k \in DOMAIN t}) + 1

\* add_job(pgid, command, state): the table afterwards.
add_job(pr, t, p, state) ==
    LET alive == retained(pr, t)
    IN  Append(alive, [id |-> next_id(alive), pgid |-> p, state |-> state])

\* resolve_spec: the places a job specification may name.  %n goes by number,
\* %+, %% and no argument are the last entry and %- the one before it; %str
\* and %?str go by command text, which may match any entry.
resolve_spec(t) == DOMAIN t

take_status(s, p) == [s EXCEPT ![p] = NoCode]

\* all_pgids: the running jobs, as wait -n finds them.
all_pgids(t) == {t[k].pgid : k \in {i \in DOMAIN t : t[i].state = "Running"}}

Pgids(t) == {t[k].pgid : k \in DOMAIN t}

-----------------------------------------------------------------------------
(***************************************************************************)
(* The main thread between commands                                        *)
(***************************************************************************)

Idle(pc) == [pc |-> pc, kids |-> <<>>, k |-> 1, bg |-> FALSE, of |-> {}, fresh |-> {},
             code |-> 0, fail |-> NoCode]
NoRet == [cmd |-> "none", code |-> 0, true |-> {0}]

\* The command is over; ret records what it answered and what it should have.
Answer(cmd, code, true) ==
    /\ ret' = [cmd |-> cmd, code |-> code, true |-> true]
    /\ sh' = Idle("prompt")

Init ==
    /\ proc = [p \in Pid |-> NoProc]
    /\ table = <<>>
    /\ statuses = [p \in Pid |-> NoCode]
    /\ SIGCHLD_PENDING = FALSE
    /\ sh = Idle("prompt")
    /\ FOREGROUND_PGID = NoPgid
    /\ monitor = "off"
    /\ stop_flag = FALSE
    /\ tty = <<>>
    /\ PENDING_STDIN = <<>>
    /\ got = <<>>
    /\ cut = FALSE
    /\ typed = 0
    /\ spent = 0
    /\ ret = NoRet

Reap ==
    /\ proc' = reap_children(proc)
    /\ table' = updated(proc, table)
    /\ statuses' = recorded(proc, statuses)

\* The code of a collected child is kept in proc only while an answer may refer
\* to it: while it is recorded in statuses.
Forgotten(pr, s) ==
    [p \in Pid |-> IF pr[p].st = "gone" /\ s[p] = NoCode THEN Collected(NoCode) ELSE pr[p]]

\* Head of the REPL loop; the flag is never cleared once a child has exited.
Prompt ==
    /\ sh.pc = "prompt"
    /\ IF SIGCHLD_PENDING
       THEN /\ table' = updated(proc, table)
            /\ statuses' = recorded(proc, statuses)
            /\ proc' = Forgotten(reap_children(proc), statuses')
       ELSE /\ proc' = Forgotten(proc, statuses)
            /\ UNCHANGED jobVars
    /\ sh' = Idle("read")
    /\ ret' = NoRet
    /\ UNCHANGED <<SIGCHLD_PENDING, FOREGROUND_PGID, keyVars, spent>>

\* The shell consumes byte b.
Consume(b) == got' = IF b > 0 THEN Append(got, b) ELSE got

\* The REPL takes the first byte of a key, or the read builtin any byte: the
\* queue the monitor thread filled first, the terminal after it.  The key is
\* complete (head of the loop), goes on, or it was the read builtin.
NextByte ==
    /\ sh.pc = "read"
    /\ \/ /\ PENDING_STDIN # <<>>
          /\ Consume(Head(PENDING_STDIN))
          /\ PENDING_STDIN' = Tail(PENDING_STDIN) /\ UNCHANGED tty
       \/ /\ PENDING_STDIN = <<>> /\ tty # <<>>
          /\ Consume(Head(tty))
          /\ tty' = Tail(tty) /\ UNCHANGED PENDING_STDIN
    /\ sh' \in {Idle("prompt"), Idle("key"), Idle("read")}
    /\ UNCHANGED <<kernel, jobVars, FOREGROUND_PGID, monitor, stop_flag, cut, typed, ret, spent>>

\* process_heredoc starts to read the lines of a here-doc.
HereDoc ==
    /\ sh.pc = "read"
    /\ sh' = Idle("key")
    /\ UNCHANGED <<kernel, jobVars, FOREGROUND_PGID, keyVars, ret, spent>>

\* The rest of a UTF-8 character or of an escape sequence, and the lines of a
\* here-doc, are read from the terminal whatever the queue holds.
KeyByte ==
    /\ sh.pc = "key" /\ tty # <<>>
    /\ Consume(Head(tty))
    /\ tty' = Tail(tty)
    /\ cut' = (cut \/ PENDING_STDIN # <<>>)
    /\ sh' \in {Idle("prompt"), Idle("key"), Idle("read")}
    /\ UNCHANGED <<kernel, jobVars, FOREGROUND_PGID, monitor, stop_flag, PENDING_STDIN, typed,
                   ret, spent>>

-----------------------------------------------------------------------------
(***************************************************************************)
(* execute_pipeline                                                        *)
(***************************************************************************)

\* A line with external commands; SIGCHLD is blocked until the pipeline is over.
StartPipeline(bg) ==
    /\ sh.pc = "read"
    /\ sh' = [Idle("spawn") EXCEPT !.bg = bg]
    /\ UNCHANGED <<kernel, jobVars, FOREGROUND_PGID, keyVars, ret, spent>>

Spawn(p) ==
    /\ sh.pc = "spawn"
    /\ Len(sh.kids) < MaxCmds
    /\ p \in FreePids
    /\ Spend
    /\ proc' = [proc EXCEPT ![p] = NewProc]
    /\ sh' = [sh EXCEPT !.kids = Append(@, p)]
    /\ UNCHANGED <<SIGCHLD_PENDING, jobVars, FOREGROUND_PGID, keyVars, ret>>

\* spawn fails: cleanup_spawned_children kills and collects what was started.
SpawnFails ==
    /\ sh.pc = "spawn"
    /\ proc' = [p \in Pid |->
                  IF p \in ToSet(sh.kids)
                  THEN Collected(IF Live(p) THEN Signalled(SIGKILL) ELSE proc[p].code)
                  ELSE proc[p]]
    /\ Answer("failed", 127, {127})
    /\ SIGCHLD_PENDING' = TRUE
    /\ UNCHANGED <<jobVars, FOREGROUND_PGID, keyVars, spent>>

\* A redirection of a later command cannot be opened: the children already
\* started are left alone.
RedirectFails ==
    /\ sh.pc = "spawn"
    /\ Answer("failed", 1, {1})
    /\ UNCHANGED <<kernel, jobVars, FOREGROUND_PGID, keyVars, spent>>

\* Everything runs and the pipeline ends in &: only the first child is a job.
Background ==
    /\ sh.pc = "spawn" /\ sh.bg /\ sh.kids # <<>>
    /\ table' = add_job(proc, table, Head(sh.kids), "Running")
    /\ Answer("background", 0, {0})
    /\ UNCHANGED <<kernel, statuses, FOREGROUND_PGID, keyVars, spent>>

\* The Ctrl-C thread starts unless the command is a nested sh.
Foreground(watch) ==
    /\ sh.pc = "spawn" /\ ~sh.bg /\ sh.kids # <<>>
    /\ FOREGROUND_PGID' = Head(sh.kids)
    /\ monitor' = IF watch THEN "top" ELSE "off"
    /\ stop_flag' = FALSE
    /\ sh' = [sh EXCEPT !.pc = "wait"]
    /\ UNCHANGED <<kernel, jobVars, tty, PENDING_STDIN, got, cut, typed, ret, spent>>

\* wait_child_pid: waitpid(pid, WUNTRACED) returns an exit ...
WaitChild ==
    /\ sh.pc = "wait"
    /\ sh.k \in DOMAIN sh.kids
    /\ LET p == sh.kids[sh.k]
       IN  /\ ~Live(p)
           /\ LET code == IF proc[p].st = "zombie" THEN proc[p].code ELSE 1 \* ECHILD
              IN  sh' = [sh EXCEPT !.k = @ + 1, !.code = code,
                                   !.fail = IF code # 0 THEN code ELSE @]
           /\ proc' = [proc EXCEPT ![p] = Collected(@.code)]
    /\ UNCHANGED <<SIGCHLD_PENDING, jobVars, FOREGROUND_PGID, keyVars, ret, spent>>

\* ... or a stop: the process becomes a job and the others are not waited for.
ChildStopped ==
    /\ sh.pc = "wait"
    /\ sh.k \in DOMAIN sh.kids
    /\ LET p == sh.kids[sh.k]
       IN  /\ proc[p].st = "stopped" /\ proc[p].evt = "stopped"
           /\ proc' = [proc EXCEPT ![p].evt = "none"]
           /\ table' = add_job(proc', table, p, "Stopped")
    /\ sh' = [sh EXCEPT !.pc = "join", !.code = Signalled(SIGTSTP), !.fail = Signalled(SIGTSTP)]
    /\ stop_flag' = TRUE
    /\ UNCHANGED <<SIGCHLD_PENDING, statuses, FOREGROUND_PGID, monitor, tty, PENDING_STDIN,
                   got, cut, typed, ret, spent>>

AllWaited ==
    /\ sh.pc = "wait"
    /\ sh.k > Len(sh.kids)
    /\ sh' = [sh EXCEPT !.pc = "join"]
    /\ stop_flag' = TRUE
    /\ UNCHANGED <<kernel, jobVars, FOREGROUND_PGID, monitor, tty, PENDING_STDIN, got, cut, typed, ret, spent>>

\* What the pipeline should have answered, from the processes themselves.
PipelineCode ==
    IF sh.k <= Len(sh.kids) THEN Signalled(SIGTSTP)
    ELSE LET codes == [k \in DOMAIN sh.kids |-> proc[sh.kids[k]].code]
             bad == {k \in DOMAIN codes : codes[k] # 0}
         IN  IF Pipefail /\ bad # {} THEN codes[Max(bad)] ELSE Last(codes)

\* The Ctrl-C thread has ended; collect what exited meanwhile, give the
\* terminal back and pick the exit code.
Joined ==
    /\ sh.pc = "join"
    /\ monitor = "off"
    /\ Reap
    /\ FOREGROUND_PGID' = NoPgid
    /\ Answer("pipeline", IF Pipefail /\ sh.fail # NoCode THEN sh.fail ELSE sh.code,
              {PipelineCode})
    /\ UNCHANGED <<SIGCHLD_PENDING, keyVars, spent>>

-----------------------------------------------------------------------------
(***************************************************************************)
(* The Ctrl-C thread                                                       *)
(***************************************************************************)

MonitorTop ==
    /\ monitor = "top"
    /\ monitor' = IF stop_flag THEN "off" ELSE "read"
    /\ UNCHANGED <<kernel, jobVars, sh, FOREGROUND_PGID, stop_flag, tty, PENDING_STDIN, got, cut,
                   typed, ret, spent>>

\* A read(2) that blocks until a byte arrives.
MonitorIdleBlocked ==
    /\ monitor = "read" /\ tty # <<>>
    /\ monitor' = "top"
    /\ UNCHANGED <<kernel, jobVars, sh, FOREGROUND_PGID, stop_flag, tty, PENDING_STDIN, got, cut,
                   typed, ret, spent>>

\* The non-blocking read has nothing: sleep and look at the flag again.
MonitorIdle ==
    /\ monitor = "read"
    /\ monitor' = "top"
    /\ UNCHANGED <<kernel, jobVars, sh, FOREGROUND_PGID, stop_flag, tty, PENDING_STDIN, got, cut,
                   typed, ret, spent>>

\* Ctrl-C or Ctrl-Z: signal the foreground group and end.
MonitorSignal ==
    /\ monitor = "read" /\ tty # <<>> /\ Head(tty) < 0
    /\ monitor' = "off"
    /\ tty' = Tail(tty)
    /\ \/ FOREGROUND_PGID = NoPgid /\ UNCHANGED kernel
       \/ /\ FOREGROUND_PGID # NoPgid
          /\ \E o \in Outcomes(IF Head(tty) = CtrlC THEN SIGINT ELSE SIGTSTP, FOREGROUND_PGID) :
                proc' = [proc EXCEPT ![FOREGROUND_PGID] = o]
          /\ SIGCHLD_PENDING' = (SIGCHLD_PENDING \/ proc' # proc)
    /\ UNCHANGED <<jobVars, sh, FOREGROUND_PGID, stop_flag, PENDING_STDIN, got, cut, typed, ret, spent>>

\* Pushing the byte back with TIOCSTI puts it behind what was typed meanwhile.
KeptTiocsti(b) ==
    /\ tty' = Append(Tail(tty), b)
    /\ UNCHANGED PENDING_STDIN

\* Any other byte is kept for the REPL.
Kept(b) ==
    /\ PENDING_STDIN' = Append(PENDING_STDIN, b)
    /\ tty' = Tail(tty)

MonitorKeeps ==
    /\ monitor = "read" /\ tty # <<>> /\ Head(tty) > 0
    /\ Kept(Head(tty))
    /\ monitor' = "top"
    /\ UNCHANGED <<kernel, jobVars, sh, FOREGROUND_PGID, stop_flag, got, cut, typed, ret, spent>>

-----------------------------------------------------------------------------
(***************************************************************************)
(* jobs, fg, bg, wait and kill                                             *)
(***************************************************************************)

\* jobs, jobs -l and jobs -p only show the table, pruned.
ListJobs ==
    /\ sh.pc = "read"
    /\ table' = retained(proc, table)
    /\ Answer("jobs", 0, {0})
    /\ UNCHANGED <<kernel, statuses, FOREGROUND_PGID, keyVars, spent>>

\* The status a wait for p will have to return, if nobody took it before.
Fresh(pr, s, ps) == {p \in ps : pgid_alive(pr, p) \/ s[p] # NoCode}

\* No job matches.
NoJob(cmd, code) ==
    /\ sh.pc = "read"
    /\ resolve_spec(retained(proc, table)) = {}
    /\ table' = retained(proc, table)
    /\ Answer(cmd, code, {code})
    /\ UNCHANGED <<kernel, statuses, FOREGROUND_PGID, keyVars, spent>>

\* fg takes the job out of the table; kill(-pgid, SIGCONT) follows.
TakeForeground ==
    /\ sh.pc = "read"
    /\ LET t == retained(proc, table)
       IN  \E k \in resolve_spec(t) :
             /\ table' = SubSeq(t, 1, k - 1) \o SubSeq(t, k + 1, Len(t))
             /\ sh' = [Idle("fg") EXCEPT !.of = {t[k].pgid}]
    /\ UNCHANGED <<kernel, statuses, FOREGROUND_PGID, keyVars, ret, spent>>

\* bg: mark_running, then kill(-pgid, SIGCONT).
MarkRunning ==
    /\ sh.pc = "read"
    /\ LET t == retained(proc, table)
       IN  \E k \in resolve_spec(t) :
             /\ table' = [t EXCEPT ![k].state = "Running"]
             /\ sh' = [Idle("bg") EXCEPT !.of = {t[k].pgid}]
    /\ UNCHANGED <<kernel, statuses, FOREGROUND_PGID, keyVars, ret, spent>>

Resume ==
    /\ sh.pc \in {"fg", "bg"}
    /\ \E p \in sh.of : proc' = [proc EXCEPT ![p] = Resumed(p)]
    /\ SIGCHLD_PENDING' = (SIGCHLD_PENDING \/ proc' # proc)
    /\ IF sh.pc = "bg" THEN Answer("bg", 0, {0})
       ELSE sh' = [sh EXCEPT !.pc = "fg_wait", !.fresh = Fresh(proc, statuses, sh.of)] /\ UNCHANGED ret
    /\ UNCHANGED <<jobVars, FOREGROUND_PGID, keyVars, spent>>

\* wait pid, after reap_children; a job stays in the table.  (Of several arguments
\* each is waited for like this, and the last one answers.)
WaitFor(p) ==
    /\ sh.pc = "read"
    /\ proc[p].st # "none"
    /\ Reap
    /\ sh' = [Idle("wait_pid") EXCEPT !.of = {p}, !.fresh = Fresh(proc', statuses', {p})]
    /\ UNCHANGED <<SIGCHLD_PENDING, FOREGROUND_PGID, keyVars, ret, spent>>

\* True exit codes of the processes in ps that have been collected.
Codes(pr, ps) == {pr[p].code : p \in {q \in ps : pr[q].st = "gone"}}

\* wait %job, after reap_children: find prunes the table before it resolves the
\* specification, so that a job that has ended is "no such job", like one that
\* never was.
WaitJob ==
    /\ sh.pc = "read"
    /\ proc' = reap_children(proc)
    /\ statuses' = recorded(proc, statuses)
    /\ LET t == updated(proc, table)
       IN  /\ table' = retained(proc', t)
           /\ \/ \E k \in resolve_spec(t) :
                   /\ pgid_alive(proc', t[k].pgid)
                   /\ sh' = [Idle("wait_pid") EXCEPT !.of = {t[k].pgid}, !.fresh = {t[k].pgid}]
                   /\ UNCHANGED ret
              \/ \E k \in resolve_spec(t) :
                   /\ statuses'[t[k].pgid] # NoCode
                   /\ Answer("wait_job", 127, Codes(proc', {t[k].pgid}))
              \/ Answer("nojob", 127, {127})
    /\ UNCHANGED <<SIGCHLD_PENDING, FOREGROUND_PGID, keyVars, spent>>

\* fg answers 0 whatever its job did.
Waits(code, true) ==
    LET fg == sh.pc = "fg_wait"
    IN  Answer(IF fg THEN "fg" ELSE "wait", IF fg THEN 0 ELSE code, IF fg THEN {0} ELSE true)

\* The liveness test first: a process that has just been collected is gone.
WaitPidRoundAliveFirst ==
    /\ sh.pc \in {"wait_pid", "fg_wait"}
    /\ Reap
    /\ IF \E p \in sh.of : pgid_alive(proc', p) THEN UNCHANGED <<sh, ret>>
       ELSE Waits(0, IF sh.fresh = {} THEN AnyCode ELSE Codes(proc', sh.of))
    /\ UNCHANGED <<SIGCHLD_PENDING, FOREGROUND_PGID, keyVars, spent>>

\* One round of wait_pid and wait_pgid.
WaitPidRound ==
    /\ sh.pc \in {"wait_pid", "fg_wait"}
    /\ proc' = reap_children(proc)
    /\ table' = updated(proc, table)
    /\ LET p == CHOOSE q \in sh.of : TRUE
           s == recorded(proc, statuses)
       IN  IF s[p] # NoCode
           THEN /\ statuses' = take_status(s, p)
                /\ Waits(s[p], IF sh.fresh = {} THEN AnyCode ELSE Codes(proc', sh.of))
           ELSE /\ statuses' = s
                /\ IF pgid_alive(proc', p) THEN UNCHANGED <<sh, ret>>
                   ELSE Waits(0, IF sh.fresh = {} THEN AnyCode ELSE Codes(proc', sh.of))
    /\ UNCHANGED <<SIGCHLD_PENDING, FOREGROUND_PGID, keyVars, spent>>

\* wait -n: the running jobs are looked up once, before any pruning.
WaitAny ==
    /\ sh.pc = "read"
    /\ Reap
    /\ LET ps == all_pgids(table')
       IN  IF ps = {} THEN Answer("wait_any", 127, {127})
           ELSE /\ sh' = [Idle("wait_any") EXCEPT !.of = ps]
                /\ UNCHANGED ret
    /\ UNCHANGED <<SIGCHLD_PENDING, FOREGROUND_PGID, keyVars, spent>>

WaitAnyRound ==
    /\ sh.pc = "wait_any"
    /\ proc' = reap_children(proc)
    /\ table' = updated(proc, table)
    /\ LET s == recorded(proc, statuses)
           done == {p \in sh.of : s[p] # NoCode}
       IN  IF done # {}
           THEN \E p \in done :
                  /\ statuses' = take_status(s, p)
                  /\ Answer("wait", s[p], Codes(proc', sh.of))
           ELSE /\ statuses' = s
                /\ IF \E p \in sh.of : pgid_alive(proc', p) THEN UNCHANGED <<sh, ret>>
                   ELSE Answer("wait_any", 127, {127})
    /\ UNCHANGED <<SIGCHLD_PENDING, FOREGROUND_PGID, keyVars, spent>>

\* wait without arguments: wait_all.
WaitAll ==
    /\ sh.pc = "read"
    /\ Reap
    /\ sh' = [Idle("wait_all") EXCEPT
                !.of = {p \in Pgids(table') : pgid_alive(proc', p)}]
    /\ UNCHANGED <<SIGCHLD_PENDING, FOREGROUND_PGID, keyVars, ret, spent>>

\* One round: reap, prune, and only then look for the codes of what is left.
WaitAllRound ==
    /\ sh.pc = "wait_all"
    /\ proc' = reap_children(proc)
    /\ table' = retained(proc', updated(proc, table))
    /\ LET s == recorded(proc, statuses)
           known == {p \in Pgids(table') : s[p] # NoCode}
       IN  /\ statuses' = [p \in Pid |-> IF p \in known THEN NoCode ELSE s[p]]
           /\ IF table' = <<>>
              THEN Answer("wait_all", sh.code, IF sh.of = {} THEN {0} ELSE Codes(proc', sh.of))
              ELSE /\ sh' = IF known = {} THEN sh
                            ELSE [sh EXCEPT !.code = s[CHOOSE p \in known : TRUE]]
                   /\ UNCHANGED ret
    /\ UNCHANGED <<SIGCHLD_PENDING, FOREGROUND_PGID, keyVars, spent>>

\* kill -SIG %job; kill -SIG pid goes to a process of the user's choice and is
\* covered by Exits, Stops and Continues.
KillJob(sig) ==
    /\ sh.pc = "read"
    /\ LET t == retained(proc, table)
       IN  /\ table' = t
           /\ \E k \in resolve_spec(t) : \E o \in Outcomes(sig, t[k].pgid) :
                 proc' = [proc EXCEPT ![t[k].pgid] = o]
    /\ SIGCHLD_PENDING' = (SIGCHLD_PENDING \/ proc' # proc)
    /\ Answer("kill", 0, {0})
    /\ UNCHANGED <<statuses, FOREGROUND_PGID, keyVars, spent>>

-----------------------------------------------------------------------------
(***************************************************************************)
(* Children, other senders of signals, and the user                        *)
(***************************************************************************)

\* A handler that collects the children itself.
ExitsCollected(p, code) ==
    /\ proc[p].st = "run"
    /\ proc' = [proc EXCEPT ![p] = Collected(code)]
    /\ statuses' = [statuses EXCEPT ![p] = code]
    /\ SIGCHLD_PENDING' = TRUE
    /\ UNCHANGED <<table, sh, FOREGROUND_PGID, keyVars, ret, spent>>

Exits(p, code) ==
    /\ proc[p].st = "run"
    /\ proc' = [proc EXCEPT ![p] = Zombie(code)]
    /\ SIGCHLD_PENDING' = TRUE      \* sigchld_handler, now or when unblocked
    /\ UNCHANGED <<jobVars, sh, FOREGROUND_PGID, keyVars, ret, spent>>

Stops(p) ==
    /\ proc[p].st = "run"
    /\ Spend
    /\ proc' = [proc EXCEPT ![p].st = "stopped", ![p].evt = "stopped"]
    /\ SIGCHLD_PENDING' = TRUE
    /\ UNCHANGED <<jobVars, sh, FOREGROUND_PGID, keyVars, ret>>

Continues(p) ==
    /\ proc[p].st = "stopped"
    /\ proc' = [proc EXCEPT ![p] = Resumed(p)]
    /\ SIGCHLD_PENDING' = TRUE
    /\ UNCHANGED <<jobVars, sh, FOREGROUND_PGID, keyVars, ret, spent>>

\* The foreground program reads its terminal.
ChildReads ==
    /\ FOREGROUND_PGID # NoPgid /\ proc[FOREGROUND_PGID].st = "run"
    /\ tty # <<>>
    /\ tty' = Tail(tty)
    /\ UNCHANGED <<kernel, jobVars, sh, FOREGROUND_PGID, monitor, stop_flag, PENDING_STDIN,
                   got, cut, typed, ret, spent>>

Type(b) ==
    /\ Spend
    /\ typed' = typed + 1
    /\ tty' = Append(tty, b)
    /\ UNCHANGED <<kernel, jobVars, sh, FOREGROUND_PGID, monitor, stop_flag, PENDING_STDIN,
                   got, cut, ret>>

-----------------------------------------------------------------------------
Pipelines ==
    \/ \E bg \in BOOLEAN : StartPipeline(bg)
    \/ \E p \in Pid : Spawn(p)
    \/ SpawnFails \/ RedirectFails \/ Background
    \/ \E watch \in BOOLEAN : Foreground(watch)
    \/ WaitChild \/ ChildStopped \/ AllWaited \/ Joined

Builtins ==
    \/ ListJobs \/ NoJob("nojob", 1) \/ TakeForeground \/ MarkRunning \/ Resume
    \/ WaitJob \/ \E p \in Pid : WaitFor(p)
    \/ WaitPidRound \/ WaitAny \/ WaitAnyRound \/ WaitAll \/ WaitAllRound
    \/ KillJob(SIGTERM)

Monitor == MonitorTop \/ MonitorIdle \/ MonitorSignal \/ MonitorKeeps

Environment ==
    \/ \E p \in Pid : Stops(p) \/ Continues(p) \/ \E code \in Code : Exits(p, code)
    \/ ChildReads
    \/ \E b \in {CtrlC, CtrlZ, typed + 1} : Type(b)

Next == Prompt \/ NextByte \/ HereDoc \/ KeyByte \/ Pipelines \/ Builtins \/ Monitor \/ Environment

Spec == Init /\ [][Next]_vars

\* The main thread goes on while it has something to do and the Ctrl-C thread is
\* scheduled; nothing makes children exit, signals arrive or the user type.
Fairness ==
    /\ WF_vars(WaitChild \/ ChildStopped \/ AllWaited \/ Joined)
    /\ WF_vars(WaitPidRound \/ WaitAnyRound \/ WaitAllRound)
    /\ WF_vars(MonitorTop)
    /\ WF_vars(MonitorIdle \/ MonitorSignal \/ MonitorKeeps)

FairSpec == Spec /\ Fairness

-----------------------------------------------------------------------------
(***************************************************************************)
(* Properties                                                              *)
(***************************************************************************)

\* The state a job shows is that of its process, up to a change waitpid has not
\* reported yet: stops and continues that reap_children, the foreground wait and
\* bg each learn of separately never leave the table behind.
JobStateAccurate ==
    \A k \in DOMAIN table :
        LET p == proc[table[k].pgid]
        IN  Live(table[k].pgid) /\ p.evt = "none" /\ sh.pc # "bg"
            => (table[k].state = "Stopped") = (p.st = "stopped")

\* A foreground pipeline answers with its last command's own exit code (with
\* pipefail, the rightmost failure), never with the 1 that waitpid's ECHILD
\* gives: nothing else collects its children while it is waited for.
PipelineStatus == ret.cmd = "pipeline" => ret.code \in ret.true

\* wait pid, wait -n and wait %job return the exit code of a process waited for,
\* also when the REPL, a foreground pipeline or another wait collected it first;
\* for wait %job that is so once find has returned the job, which a job whose end
\* was recorded before is not (it answers 127, not the recorded status).
WaitStatus == ret.cmd = "wait" => ret.code \in ret.true

InOrder(s) == \A i, k \in DOMAIN s : i < k /\ s[i] > 0 /\ s[k] > 0 => s[i] < s[k]

\* What the queue guarantees: it is older than what is still in the terminal,
\* however the monitor threads, the foreground programs and the shell take turns
\* in reading, and until some key or here-doc was read past it the shell has
\* consumed the bytes in typing order.
QueueInOrder ==
    /\ InOrder(PENDING_STDIN \o tty)
    /\ ~cut => InOrder(got \o PENDING_STDIN \o tty)

\* What the main thread waits for is over.
NothingToWaitFor ==
    CASE sh.pc = "wait" -> \A k \in sh.k .. Len(sh.kids) : ~Live(sh.kids[k])
      [] sh.pc = "join" -> TRUE
      [] sh.pc \in {"wait_pid", "fg_wait", "wait_any"} -> \A p \in sh.of : ~Live(p)
      [] sh.pc = "wait_all" -> \A k \in DOMAIN table : ~Live(table[k].pgid)
      [] OTHER -> FALSE

\* Once what it waits for has exited the shell comes back to its prompt: no exit
\* is missed by the polling loops, and the Ctrl-C thread can be joined.
WaitEnds == NothingToWaitFor ~> sh.pc = "prompt"

=============================================================================
