------------------------------ MODULE Redirects ------------------------------
(***************************************************************************)
(* The redirections of a built-in command (shell/executor.rs): the         *)
(* descriptors apply_redirects replaces, and the guard that puts them back.*)
(*                                                                         *)
(* A descriptor table is a function from the open descriptors to what they *)
(* are open on.  A new descriptor is the lowest free one, as in the kernel:*)
(* the copies the guard keeps take numbers the user may redirect as well.  *)
(***************************************************************************)
EXTENDS ShellExpand

CONSTANTS MaxFd,      \* descriptors are 0 .. MaxFd
          Unreadable  \* names that cannot be opened

HighFd == 10

Lowest(fds, from) == Min({fd \in from..MaxFd : fd \notin DOMAIN fds})
Opened(fds, fd, file) == [n \in DOMAIN fds \cup {fd} |-> IF n = fd THEN file ELSE fds[n]]
Closed(fds, fd) == [n \in DOMAIN fds \ {fd} |-> fds[n]]

\* dup and dup2; a descriptor of -1 is an error.
dup(fds, fd) == IF fd \in DOMAIN fds THEN Lowest(fds, 0) ELSE -1
Dup(fds, fd) == IF fd \in DOMAIN fds THEN Opened(fds, Lowest(fds, 0), fds[fd]) ELSE fds
Dup2(fds, from, to) == IF from \in DOMAIN fds THEN Opened(fds, to, fds[from]) ELSE fds

\* The files a command opens, in order: what for, the name, whether it appends.
Wanted(cmd) ==
    LET one(kind, f) == IF f = None THEN <<>> ELSE <<[kind |-> kind, fd |-> 0, name |-> f[1],
                                                     append |-> Len(f) = 2 /\ f[Len(f)] = TRUE]>>
    IN  one("in", cmd.in) \o one("out", cmd.out) \o one("err", cmd.err) \o one("rw", cmd.rw)
        \o [k \in DOMAIN cmd.fds |-> [kind |-> "fd" \o cmd.fds[k][1], fd |-> cmd.fds[k][2],
                                      name |-> cmd.fds[k][3], append |-> cmd.fds[k][4]]]

\* open_redirect for what is written, open for what is read.
can_open(w, disk, noclobber, force) ==
    /\ w.name \notin Unreadable
    /\ CASE w.kind \in {"in", "fdin"} -> w.name \in DOMAIN disk
         [] w.kind = "rw" -> TRUE
         [] OTHER -> w.append \/ force \/ ~noclobber \/ w.name \notin DOMAIN disk
\* The files once w is open: what is written is created, and emptied unless it appends.
Stored(w, disk) ==
    IF w.name \notin DOMAIN disk \/ (w.kind \in {"out", "err", "fdout"} /\ ~w.append)
    THEN Assigned(disk, w.name, <<>>) ELSE disk

\* Open them all, each on the lowest free descriptor; stop at the first failure.
OpenAll(cmd, fds, disk, noclobber) ==
    FoldLeft(LAMBDA st, w :
                IF ~st.ok \/ ~can_open(w, st.disk, noclobber, cmd.force) THEN [st EXCEPT !.ok = FALSE]
                ELSE [ok |-> TRUE, fds |-> Opened(st.fds, Lowest(st.fds, 0), w.name),
                      disk |-> Stored(w, st.disk),
                      at |-> Append(st.at, [w |-> w, slot |-> Lowest(st.fds, 0)])],
             [ok |-> TRUE, fds |-> fds, disk |-> disk, at |-> <<>>], Wanted(cmd))

NoGuard == [in |-> -1, out |-> -1, err |-> -1, dups |-> <<>>, closes |-> <<>>]
StdFd(kind) == CASE kind \in {"in", "rw"} -> 0 [] kind = "out" -> 1 [] kind = "err" -> 2
GuardField(kind) == IF kind = "rw" THEN "in" ELSE kind

\* A standard stream is replaced only when it could be saved, and the file's own
\* descriptor is closed either way.
ReplaceStd(st, o) ==
    LET fd == StdFd(o.w.kind)
        saved == dup(st.fds, fd)
    IN  IF saved < 0 THEN [st EXCEPT !.fds = Closed(@, o.slot)]
        ELSE [st EXCEPT !.fds = Closed(Dup2(Dup(@, fd), o.slot, fd), o.slot),
                        !.guard[GuardField(o.w.kind)] = saved]

\* A numbered descriptor may have been closed before: it is saved as -1.
ReplaceFd(st, o) ==
    [st EXCEPT !.fds = Dup2(Dup(@, o.w.fd), o.slot, o.w.fd),
               !.guard.dups = Append(@, <<dup(st.fds, o.w.fd), o.w.fd>>)]

CloseFd(st, fd) ==
    LET saved == dup(st.fds, fd)
    IN  IF saved < 0 THEN st
        ELSE [st EXCEPT !.fds = Closed(Dup(@, fd), fd), !.guard.closes = Append(@, <<saved, fd>>)]

\* A copy needs its target to have been open.
DupFd(st, d) ==
    LET saved == dup(st.fds, d[1])
        copy == Dup(st.fds, d[1])
    IN  IF saved < 0 THEN st
        ELSE IF d[2] \notin DOMAIN copy THEN st
        ELSE [st EXCEPT !.fds = Dup2(copy, d[2], d[1]), !.guard.dups = Append(@, <<saved, d[1]>>)]

\* Move the files of numbered descriptors out of their way.
Raised(st, at) ==
    FoldLeft(LAMBDA acc, o :
                LET high == Lowest(acc.fds, HighFd)
                IN  [fds |-> Closed(Opened(acc.fds, high, o.w.name), o.slot),
                     at |-> Append(acc.at, [o EXCEPT !.slot = high])],
             [fds |-> st.fds, at |-> <<>>], at)

\* The order of the code: streams, numbered files, closes, copies.
Replaced(cmd, std, num) ==
    FoldLeft(DupFd,
        FoldLeft(CloseFd,
            FoldLeft(ReplaceFd,
                FoldLeft(ReplaceStd, [fds |-> num.fds, guard |-> NoGuard], std),
                num.at),
            cmd.closes),
        cmd.dups)
\* Then the copies the files were moved to are closed.
Finished(st, disk, moved) ==
    [ok |-> TRUE, disk |-> disk, guard |-> st.guard,
     fds |-> FoldLeft(LAMBDA f, o : Closed(f, o.slot), st.fds, moved)]
AsOpened(cmd, open, std, num) == Finished(Replaced(cmd, std, num), open.disk, num.at)
AllOpen(cmd, open) ==
    AsOpened(cmd, open, SelectSeq(open.at, LAMBDA o : o.w.kind \in {"in", "out", "err", "rw"}),
             Raised(open, SelectSeq(open.at, LAMBDA o : o.w.kind \in {"fdin", "fdout"})))
Redirect(cmd, fds, open) ==
    IF open.ok THEN AllOpen(cmd, open)
    ELSE [ok |-> FALSE, fds |-> fds, disk |-> open.disk, guard |-> NoGuard]
apply_redirects(cmd, fds, disk, noclobber) == Redirect(cmd, fds, OpenAll(cmd, fds, disk, noclobber))

\* Put one saved descriptor back.
PutBack(fds, saved, fd) ==
    IF saved < 0 THEN Closed(fds, fd) ELSE Closed(Dup2(fds, saved, fd), saved)
PutStd(fds, saved, fd) == IF saved < 0 THEN fds ELSE PutBack(fds, saved, fd)

\* Mutant of restore: the copies are put back first to last.
restore_forward(g, fds) ==
    LET back(f, d) == PutBack(f, d[1], d[2])
    IN  PutStd(PutStd(PutStd(FoldLeft(back, FoldLeft(back, fds, g.dups), g.closes),
                             g.out, 1), g.err, 2), g.in, 0)
\* The guard's drop: the copies in reverse, the closed ones, out, err, in.
restore(g, fds) ==
    LET back(f, d) == PutBack(f, d[1], d[2])
    IN  PutStd(PutStd(PutStd(FoldLeft(back, FoldLeft(back, fds, Reverse(g.dups)), Reverse(g.closes)),
                             g.out, 1), g.err, 2), g.in, 0)
\* After exec without a command the copies are dropped instead.
forget(g, fds) ==
    LET drop(f, fd) == Closed(f, fd)
    IN  FoldLeft(drop, fds, [k \in DOMAIN g.dups |-> g.dups[k][1]] \o <<g.out, g.err, g.in>>)
=============================================================================
