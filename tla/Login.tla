------------------------------- MODULE Login -------------------------------
(***************************************************************************)
(* The login chain of one terminal: rgetty (src/applets/core/rgetty.rs),   *)
(* which prompts, forks the login program and times the session out, and   *)
(* rlogin (src/applets/core/rlogin.rs), which reads the password, checks   *)
(* it, gives up root step by step and turns into the user's shell.         *)
(*                                                                         *)
(* The two processes share a terminal (its mode and the lines typed and    *)
(* not yet read), a pipe on which rlogin says that the login succeeded,    *)
(* and the child's exit status.  What a shell starts runs in process       *)
(* groups of its own and may outlive it.  A line is a sequence of keys,    *)
(* "bs" being backspace and " " a blank; Eof is what a hang-up or Ctrl-D   *)
(* leaves to read.  Time passes in ticks.                                  *)
(***************************************************************************)
EXTENDS Naturals, Sequences, SequencesExt

CONSTANTS
    Line,             \* the lines the person at the terminal may type
    PasswdFile,       \* /etc/passwd: [ok, name, passwd, uid, gid] lines
    ShadowFile,       \* /etc/shadow: [name, passwd] lines
    IdleTimes,        \* the idle timeouts in force: -t, or the default where -t
                      \* is absent or 0; 0 is none
    PasswordTimeout,  \* login.password_timeout
    MAX_PASSWORD_LEN, MAX_USERNAME_LEN,
    MaxFds,           \* descriptors the getty may still open
    MaxTyped          \* bound: lines typed in a behaviour

VARIABLES
    pc,      \* where run_getty is
    user,    \* the name it read
    idle,    \* -t of this getty
    clock,   \* ticks since last_active, or since SIGTERM
    notify,  \* the notification pipe: is there one, and is a byte in it
    fds,     \* descriptors left
    child,   \* the login process
    term,    \* the terminal's mode
    tty,     \* lines typed and not yet read
    jobs,    \* what the shells started and runs on: "own" of the last login,
             \* "left" of earlier ones
    typed    \* how many lines were typed

getty == <<pc, user, idle, clock, fds>>
vars == <<getty, notify, child, term, tty, jobs, typed>>

Eof == <<"eof">>
Cooked == [echo |-> TRUE, icanon |-> TRUE]
Modes == {Cooked, [echo |-> FALSE, icanon |-> FALSE]}
Root == [uid |-> 0, gid |-> 0, groups |-> 0]
NoEntry == [ok |-> FALSE]

\* The child is absent, dead with a status the getty has not collected, or
\* at a step of rlogin; `saved' is the mode its EchoGuard restores.
NoChild == [st |-> "none", user |-> <<>>, password |-> <<>>, entry |-> NoEntry,
            ids |-> Root, saved |-> Cooked, clock |-> 0, code |-> 0]
Exits(c, code) == [c EXCEPT !.st = "dead", !.code = code]
Alive == child.st \notin {"none", "dead"}

(***************************************************************************)
(* rlogin: accounts and passwords                                          *)
(***************************************************************************)

\* The first line of a file that passes a test.
First(file, Test(_)) ==
    LET first(k) == Test(file[k]) /\ \A j \in 1..(k - 1) : ~Test(file[j])
    IN  IF \E k \in DOMAIN file : first(k)
        THEN file[CHOOSE k \in DOMAIN file : first(k)] ELSE NoEntry

\* parse_passwd skips what is not an account.
find_passwd_entry(name) == First(PasswdFile, LAMBDA e : e.ok /\ e.name = name)

shadow_password_of(name) == First(ShadowFile, LAMBDA e : e.name = name)

\* crypt(3) itself: the hash of one password only is the stored one.
crypt_verify(password, stored) == password = stored.secret

password_matches(stored, shadow, input) ==
    LET actual == IF stored.kind # "x" THEN stored ELSE shadow.passwd
    IN  /\ stored.kind = "x" => shadow # NoEntry
        /\ \/ actual.kind = "empty"
           \/ actual.kind = "crypt" /\ crypt_verify(input, actual)
           \/ actual.kind = "plain" /\ input = actual.secret

authenticate(name, password) ==
    LET entry == find_passwd_entry(name)
    IN  IF /\ entry # NoEntry
           /\ password_matches(entry.passwd, shadow_password_of(name), password)
        THEN entry ELSE NoEntry

\* read_password's loop over the keys of one line: backspace takes the last
\* key away, and one key too many ends the reading, the rest of the line
\* being left in the terminal.
ReadKeys(line) ==
    LET Key(s, k) ==
          CASE s.long   -> [s EXCEPT !.rest = Append(@, k)]
            [] k = "bs" -> [s EXCEPT !.kept = IF @ = <<>> THEN @ ELSE Front(@)]
            [] Len(s.kept) >= MAX_PASSWORD_LEN -> [s EXCEPT !.long = TRUE]
            [] OTHER    -> [s EXCEPT !.kept = Append(@, k)]
    IN  FoldLeft(Key, [kept |-> <<>>, long |-> FALSE, rest |-> <<>>], line)

(***************************************************************************)
(* rlogin: its steps                                                       *)
(***************************************************************************)

RloginOnly == UNCHANGED <<getty, jobs, typed>>

\* cmd.exec() of the login program fails, or read_password turns the echo
\* off and remembers the mode it found.
StartLogin ==
    /\ child.st = "forked"
    /\ \/ child' = Exits(child, 127) /\ UNCHANGED term
       \/ /\ term' = [term EXCEPT !.echo = FALSE]
          /\ child' = [child EXCEPT !.st = "password", !.saved = term]
    /\ RloginOnly /\ UNCHANGED <<notify, tty>>

\* A line, the end of the input, or too long a line; the guard is dropped
\* on every way out, and run goes on to authenticate.
ReadPassword ==
    /\ child.st = "password" /\ tty # <<>>
    /\ LET read == ReadKeys(Head(tty))
           entry == authenticate(child.user, read.kept)
       IN  IF Head(tty) = Eof
           THEN tty' = Tail(tty) /\ child' = Exits(child, 1)
           ELSE IF read.long
           THEN tty' = <<read.rest>> \o Tail(tty) /\ child' = Exits(child, 1)
           ELSE /\ tty' = Tail(tty)
                /\ child' = IF entry = NoEntry THEN Exits(child, 1)
                            ELSE [child EXCEPT !.st = "initgroups",
                                  !.password = read.kept, !.entry = entry]
    /\ term' = child.saved
    /\ RloginOnly /\ UNCHANGED notify

PasswordTimesOut ==
    /\ child.st = "password" /\ PasswordTimeout > 0
    /\ child.clock >= PasswordTimeout
    /\ term' = child.saved
    /\ child' = Exits(child, 1)
    /\ RloginOnly /\ UNCHANGED <<notify, tty>>

\* A call that changes the identity needs root and may fail all the same;
\* login_shell returns at the first one that does.
Become(st, id, value, next) ==
    /\ child.st = st
    /\ \/ child.ids.uid = 0 /\ child' = [child EXCEPT !.st = next, !.ids[id] = value]
       \/ child' = Exits(child, 1)
    /\ RloginOnly /\ UNCHANGED <<notify, term, tty>>

\* The plausible slip: the result of the call is not looked at.
BecomeUnchecked(st, id, value, next) ==
    /\ child.st = st
    /\ \/ child.ids.uid = 0 /\ child' = [child EXCEPT !.st = next, !.ids[id] = value]
       \/ child' = [child EXCEPT !.st = next]
    /\ RloginOnly /\ UNCHANGED <<notify, term, tty>>

InitGroups == Become("initgroups", "groups", child.entry.gid, "setgid")
SetGidUnchecked == BecomeUnchecked("setgid", "gid", child.entry.gid, "setuid")
SetGid == Become("setgid", "gid", child.entry.gid, "setuid")
SetUid == Become("setuid", "uid", child.entry.uid, "notify")

notify_getty_ready ==
    /\ child.st = "notify"
    /\ notify' = IF notify = "empty" THEN "byte" ELSE notify
    /\ child' = [child EXCEPT !.st = "exec"]
    /\ RloginOnly /\ UNCHANGED <<term, tty>>

ExecShell ==
    /\ child.st = "exec"
    /\ \/ child' = [child EXCEPT !.st = "shell"]
       \/ child' = Exits(child, 1)
    /\ RloginOnly /\ UNCHANGED <<notify, term, tty>>

Rlogin ==
    \/ StartLogin \/ ReadPassword \/ PasswordTimesOut
    \/ InitGroups \/ SetGid \/ SetUid \/ notify_getty_ready \/ ExecShell

\* Whatever the shell executes, in the foreground or behind, gets a process
\* group of its own (execute_pipeline).
SpawnJob ==
    /\ child.st = "shell"
    /\ jobs' = jobs \union {"own"}
    /\ UNCHANGED <<getty, notify, child, term, tty, typed>>

\* A job ends or, its input being the terminal, which no session controls,
\* reads a line or sets the mode.
Job ==
    /\ jobs # {}
    /\ \/ \E j \in jobs : jobs' = jobs \ {j} /\ UNCHANGED <<term, tty>>
       \/ tty # <<>> /\ tty' = Tail(tty) /\ UNCHANGED <<term, jobs>>
       \/ term' \in Modes /\ UNCHANGED <<tty, jobs>>
    /\ UNCHANGED <<getty, notify, child, typed>>

\* The shell reads what is typed, ends at the end of the input or when it
\* likes, and its line editor sets the terminal's mode.
Shell ==
    /\ child.st = "shell"
    /\ \/ /\ tty # <<>> /\ tty' = Tail(tty)
          /\ child' = IF Head(tty) = Eof THEN Exits(child, 0) ELSE child
          /\ UNCHANGED term
       \/ \E code \in {0, 1} : child' = Exits(child, code) /\ UNCHANGED <<term, tty>>
       \/ term' \in Modes /\ UNCHANGED <<child, tty>>
    /\ RloginOnly /\ UNCHANGED notify

(***************************************************************************)
(* rgetty                                                                  *)
(***************************************************************************)

At(st) == pc = st
Goes(st) == pc' = st

reset_terminal == term' = Cooked

Prompt ==
    /\ At("prompt") /\ Goes("read")
    /\ reset_terminal
    /\ UNCHANGED <<user, idle, clock, fds, notify, child, tty, jobs, typed>>

\* Trimming at both ends, then the length limit.
normalize_username(raw) ==
    LET solid == {i \in DOMAIN raw : raw[i] # " "}
    IN  IF solid = {} THEN <<>>
        ELSE LET first == CHOOSE i \in solid : \A j \in solid : i <= j
                 last == CHOOSE i \in solid : \A j \in solid : j <= i
                 name == SubSeq(raw, first, last)
             IN  SubSeq(name, 1, IF Len(name) < MAX_USERNAME_LEN
                                 THEN Len(name) ELSE MAX_USERNAME_LEN)

read_username ==
    /\ At("read") /\ tty # <<>>
    /\ tty' = Tail(tty)
    /\ \/ Head(tty) = Eof /\ Goes("sleep") /\ UNCHANGED user
       \/ /\ Head(tty) # Eof
          /\ user' = normalize_username(Head(tty))
          /\ Goes(IF user' = <<>> THEN "prompt" ELSE "fork")
    /\ UNCHANGED <<idle, clock, fds, notify, child, term, jobs, typed>>

\* run_login up to the wait.  The pipe takes two descriptors and fails when
\* they are not there; the getty closes the writing end only, so the reading
\* end stays open, and both do when fork fails.
run_login ==
    /\ At("fork")
    /\ LET piped == fds >= 2
           forked == [NoChild EXCEPT !.st = "forked", !.user = user]
       IN  \/ /\ Goes("sleep") /\ fds' = IF piped THEN fds - 2 ELSE fds
              /\ UNCHANGED <<notify, child>>
           \/ /\ fds' = IF piped THEN fds - 1 ELSE fds
              /\ notify' = IF piped THEN "empty" ELSE "none"
              /\ child' = forked
              /\ Goes(CASE idle = 0 -> "wait" [] piped -> "login" [] OTHER -> "idle")
    /\ clock' = 0
    /\ jobs' = IF jobs = {} THEN {} ELSE {"left"}
    /\ UNCHANGED <<user, idle, term, tty, typed>>

\* The login ended with `code'.
Ended(code) == Goes(IF code = 0 THEN "prompt" ELSE "sleep")

\* wait_child_exit finds the child dead, wherever the getty is waiting; in
\* the second after SIGTERM the code does not matter.
wait_child_exit ==
    /\ pc \in {"wait", "login", "idle", "grace"} /\ child.st = "dead"
    /\ IF At("grace") THEN Goes("prompt") ELSE Ended(child.code)
    /\ child' = NoChild
    /\ UNCHANGED <<user, idle, clock, fds, notify, term, tty, jobs, typed>>

\* Phase 1 ends when the byte arrives.  The end of the file without a byte
\* changes nothing: the next round finds the child dead.
LoginNotified ==
    /\ At("login") /\ notify = "byte"
    /\ Goes("idle") /\ clock' = 0 /\ notify' = "empty"
    /\ UNCHANGED <<user, idle, fds, child, term, tty, jobs, typed>>

\* Phase 2: unread bytes restart the idle time.
InputSeen ==
    /\ At("idle") /\ clock < idle /\ tty # <<>> /\ Head(tty) # Eof
    /\ clock' = 0
    /\ UNCHANGED <<pc, user, idle, fds, notify, child, term, tty, jobs, typed>>

\* The plausible slip: the prompt is back before the child is gone.
IdleExpiresAtOnce ==
    /\ At("idle") /\ clock >= idle
    /\ Goes("prompt") /\ clock' = 0
    /\ UNCHANGED <<user, idle, fds, notify, child, term, tty, jobs, typed>>

\* SIGTERM to the session: rlogin dies of it at any step, a shell may not.
IdleExpires ==
    /\ At("idle") /\ clock >= idle
    /\ Goes("grace") /\ clock' = 0
    /\ \/ Alive /\ child' = Exits(child, 1)
       \/ child.st \in {"shell", "dead"} /\ UNCHANGED child
    /\ UNCHANGED <<user, idle, fds, notify, term, tty, jobs, typed>>

\* The plausible slip: SIGKILL is sent and the child is not collected.
SessionKilledNotReaped ==
    /\ At("grace") /\ clock >= 1
    /\ Goes("prompt") /\ child' = Exits(child, 1)
    /\ UNCHANGED <<user, idle, clock, fds, notify, term, tty, jobs, typed>>

\* The plausible slip: the session is given SIGTERM and nothing more.
SessionKilledNever ==
    FALSE /\ UNCHANGED vars

\* One second later: SIGKILL, and waitpid without WNOHANG.
SessionKilled ==
    /\ At("grace") /\ clock >= 1
    /\ Goes("prompt") /\ child' = NoChild
    /\ UNCHANGED <<user, idle, clock, fds, notify, term, tty, jobs, typed>>

\* The one-second pauses and the delay after a failed login.
Slept ==
    /\ At("sleep") /\ Goes("prompt")
    /\ UNCHANGED <<user, idle, clock, fds, notify, child, term, tty, jobs, typed>>

Getty ==
    \/ Prompt \/ read_username \/ run_login \/ wait_child_exit
    \/ LoginNotified \/ InputSeen \/ IdleExpires \/ SessionKilled \/ Slept

(***************************************************************************)
(* The person at the terminal, and time                                    *)
(***************************************************************************)

Type ==
    /\ typed < MaxTyped
    /\ \E l \in Line \union {Eof} : tty' = Append(tty, l)
    /\ typed' = typed + 1
    /\ UNCHANGED <<getty, notify, child, term, jobs>>

Tick ==
    LET atPassword == child.st = "password" /\ child.clock < PasswordTimeout
        timed == \/ At("idle") /\ clock < idle
                 \/ At("grace") /\ clock < 1
    IN  /\ timed \/ atPassword
        /\ clock' = IF timed THEN clock + 1 ELSE clock
        /\ child' = IF atPassword THEN [child EXCEPT !.clock = @ + 1] ELSE child
        /\ UNCHANGED <<pc, user, idle, fds, notify, term, tty, jobs, typed>>

Init ==
    /\ pc = "prompt" /\ user = <<>> /\ clock = 0
    /\ idle \in IdleTimes
    /\ fds = MaxFds
    /\ notify = "none" /\ child = NoChild
    /\ term \in Modes
    /\ tty = <<>> /\ jobs = {} /\ typed = 0

Next == Getty \/ Rlogin \/ Shell \/ SpawnJob \/ Job \/ Type \/ Tick

Spec == Init /\ [][Next]_vars

\* Both programs go on as long as they can, and time passes.  Nothing is
\* assumed of the shell, which may hang, or of the person, who may leave.
FairSpec == Spec /\ WF_vars(Getty) /\ WF_vars(Rlogin) /\ WF_vars(Tick)

(***************************************************************************)
(* Properties                                                              *)
(***************************************************************************)

\* The identity of an account.
Ids(e) == [uid |-> e.uid, gid |-> e.gid, groups |-> e.gid]

\* run_getty (rgetty.rs:169) begins to ask for a name on a terminal that
\* echoes and edits lines, and while it asks there is no login process,
\* neither running beside the prompt nor left uncollected, however the login
\* before ended: refused, logged out, timed out while the password was typed
\* with the echo off, or killed with the terminal in the shell's raw mode.
\* It is the login process only that is gone: a job of its shell, which has a
\* process group of its own, may run on (also after a timeout, unlike what
\* rgetty.rs:212 says), and only such a job changes the mode under the prompt.
PromptIsClean ==
    [][At("read")' =>
         /\ child' = NoChild
         /\ term' = Cooked \/ Job \/ (At("read") /\ UNCHANGED term)]_vars

\* A shell only ever runs as the user whose password was typed, with that
\* user's ids and groups and nothing of root's (login_shell, rlogin.rs:302):
\* whichever of initgroups, setgid and setuid failed on the way.  Accounts
\* that are locked, unknown or without the shadow line they refer to have
\* no shell at all.
ShellRunsAsUser ==
    child.st = "shell" =>
      \E k \in DOMAIN PasswdFile :
        LET e == PasswdFile[k]
            shadows == {s \in ToSet(ShadowFile) : s.name = e.name}
            fields == IF e.passwd.kind = "x" THEN {s.passwd : s \in shadows}
                      ELSE {e.passwd}
        IN  /\ e.ok /\ e.name = child.user
            /\ child.ids = Ids(e)
            /\ \E f \in fields :
                 \/ f.kind = "empty"
                 \/ f.kind \in {"crypt", "plain"} /\ f.secret = child.password

\* The identities of the accounts, and what of the login process is visible
\* to who only sees sessions: a stage, and as whom the open one runs.
Accounts == {Ids(PasswdFile[k]) : k \in {j \in DOMAIN PasswdFile : PasswdFile[j].ok}}

Session ==
    [st |-> CASE child.st = "none"  -> "closed"
              [] child.st = "dead"  -> "over"
              [] child.st = "shell" -> "open"
              [] OTHER              -> "login",
     as |-> IF child.st = "shell" THEN child.ids ELSE NoEntry]

\* What the chain promises: sessions one after another, each opened as one
\* account.  The pipe, the steps of rlogin and the ways a session is ended
\* are invisible at that level.
Abstract == INSTANCE Terminal
    WITH Identity <- Accounts, NoOne <- NoEntry, asking <- At("read"), session <- Session

\* rgetty and rlogin together implement that promise: run_getty asks for a
\* name, and run_login starts a login, only when the last login process is
\* dead and collected, and what login_shell executes runs with the complete
\* identity of one account, from its start to its end.
ImplementsTerminal == Abstract!Spec

\* With -t the getty always gets back to its prompt (wait_child_with_timeout,
\* rgetty.rs:263): a login that stalls at the password is ended by rlogin's
\* own timeout, a shell that ignores SIGTERM by SIGKILL, and only input that
\* nobody ever reads, which counts as activity for ever, keeps a session.
SessionEnds ==
    (idle # 0) => ([]<>At("read") \/ <>[](tty # <<>>))

=============================================================================
