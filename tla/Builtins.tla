------------------------------- MODULE Builtins ------------------------------
(***************************************************************************)
(* The built-in commands that keep state in the shell (shell/builtin.rs,   *)
(* params.rs, options.rs, alias.rs).  Each takes its words and the state   *)
(* and gives the state after it, the status included; what they print is   *)
(* left out.  The state sh is the context of ShellExpand with the aliases  *)
(* and the place getopts has reached in a cluster of options.              *)
(***************************************************************************)
EXTENDS ShellExpand

Dropped(f, name) == [n \in DOMAIN f \ {name} |-> f[n]]
SetEnv(sh, name, v) == [sh EXCEPT !.env = Assigned(@, name, v)]
UnsetEnv(sh, name) == [sh EXCEPT !.env = Dropped(@, name)]
Status(sh, rc) == [sh EXCEPT !.rc = rc]
Done(sh) == Status(sh, 0)

\* NAME=value: the name and the value, or <<word>>.
split_once(w) ==
    LET eq == Find(w, <<"=">>)
    IN  IF eq = 0 THEN <<w>> ELSE <<SubSeq(w, 1, eq - 1), From(w, eq + 1)>>

\* The words, each with a mode that some of them switch.
export(args, sh) ==
    LET step(st, w) ==
          LET kv == split_once(w)
              k == kv[1]
              s == st.sh
          IN  CASE w = Chars("-p") -> st
                [] w = Chars("-n") -> [st EXCEPT !.off = TRUE]
                [] Len(kv) = 2 /\ st.off ->
                     [st EXCEPT !.sh = [UnsetEnv(s, k) EXCEPT !.hidden = Assigned(@, k, kv[2])]]
                [] Len(kv) = 2 /\ ~st.off ->
                     [st EXCEPT !.sh = [SetEnv(s, k, kv[2]) EXCEPT !.hidden = Dropped(@, k)]]
                [] Len(kv) = 1 /\ st.off /\ k \in DOMAIN s.env ->
                     [st EXCEPT !.sh = [UnsetEnv(s, k) EXCEPT !.hidden = Assigned(@, k, s.env[k])]]
                [] Len(kv) = 1 /\ ~st.off /\ k \in DOMAIN s.hidden ->
                     [st EXCEPT !.sh = [SetEnv(s, k, s.hidden[k]) EXCEPT !.hidden = Dropped(@, k)]]
                [] OTHER -> st
    IN  Done(FoldLeft(step, [sh |-> sh, off |-> FALSE], args).sh)

\* unset of variables; a read-only one is left alone.
unset(args, sh) ==
    LET step(s, w) == IF w \in s.readonly THEN s
                      ELSE [UnsetEnv(s, w) EXCEPT !.hidden = Dropped(@, w)]
    IN  Done(FoldLeft(step, sh, args))

readonly(args, sh) ==
    LET step(s, w) ==
          LET kv == split_once(w)
              marked == [s EXCEPT !.readonly = @ \cup {kv[1]}]
          IN  CASE w = Chars("-p") -> s
                [] Len(kv) = 2 -> SetEnv(marked, kv[1], kv[2])
                [] OTHER -> marked
    IN  Done(FoldLeft(step, sh, args))

alias(args, sh) ==
    LET bad == {k \in DOMAIN args :
                  LET kv == split_once(args[k])
                  IN  IF Len(kv) = 2 THEN kv[1] = <<>> ELSE args[k] \notin DOMAIN sh.aliases}
        step(s, w) == LET kv == split_once(w)
                      IN  IF Len(kv) = 1 THEN s
                          ELSE [s EXCEPT !.aliases = set_alias(@, kv[1], kv[2])]
    IN  Status(FoldLeft(step, sh, args), IF bad = {} THEN 0 ELSE 1)
unalias_all(args, sh) ==
    Done([sh EXCEPT !.aliases = FoldLeft(LAMBDA a, w : unalias(a, w), @, args)])

-----------------------------------------------------------------------------
(* set, shift: options and positional parameters.                           *)

Flags == Range(Chars("abCefmnuvx"))
Named == [allexport |-> "a", errexit |-> "e", ignoreeof |-> "I", monitor |-> "m",
          noclobber |-> "C", noexec |-> "n", noglob |-> "f", notify |-> "b",
          nounset |-> "u", pipefail |-> "P", verbose |-> "v", xtrace |-> "x"]
Switched(sh, flag, on) == [sh EXCEPT !.opts = IF on THEN @ \cup {flag} ELSE @ \ {flag}]

\* set_named: the options that are accepted; some have no effect.
NoEffect == {Chars("emacs"), Chars("vi"), Chars("posix"), Chars("interactive")}
set_named(sh, name, on) ==
    LET hit == {n \in DOMAIN Named : Chars(n) = name}
    IN  IF hit # {} THEN Switched(sh, Named[CHOOSE n \in hit : TRUE], on)
        ELSE IF name \in NoEffect THEN sh ELSE Status(sh, 2)

set_options(args, sh) ==
    LET step(st, w) ==
          LET on == At(w, 1) = "-"
              flag(s, c) == IF c \in Flags THEN Switched(s, c, on) ELSE Status(s, 2)
          IN  CASE st.named # 0 -> [sh |-> set_named(st.sh, w, st.named = 1), named |-> 0]
                [] st.named = 0 /\ w \in {Chars("-o"), Chars("+o")} ->
                     [st EXCEPT !.named = IF on THEN 1 ELSE -1]
                [] st.named = 0 /\ w \notin {Chars("-o"), Chars("+o")}
                     /\ Len(w) > 1 /\ w[1] \in {"-", "+"} ->
                     [st EXCEPT !.sh = FoldLeft(flag, @, Tail(w))]
                [] OTHER -> [st EXCEPT !.sh = Status(@, 2)]
    IN  FoldLeft(step, [sh |-> Done(sh), named |-> 0], args).sh
set(args, sh) ==
    IF args = <<>> THEN Done(sh)
    ELSE IF args[1] = Chars("--") THEN Done([sh EXCEPT !.params = Tail(args)])
    ELSE set_options(args, sh)

shift(args, sh) ==
    LET n == IF args = <<>> THEN <<1>> ELSE parse_int(args[1])
    IN  CASE n = <<>> -> Status(sh, 2)
          [] n # <<>> /\ n[1] > Len(sh.params) -> Status(sh, 1)
          [] OTHER -> IF n[1] < 0 THEN Status(sh, 2)
                      ELSE Done([sh EXCEPT !.params = From(@, n[1] + 1)])

\* let: the status is that of the last expression.
let(args, sh) ==
    LET step(s, w) == LET r == eval_arith(w, s.env)
                      IN  [s EXCEPT !.env = r.env, !.rc = IF r.ok /\ r.v # 0 THEN 0 ELSE 1]
    IN  FoldLeft(step, Done(sh), args)

-----------------------------------------------------------------------------
(* read.                                                                    *)

\* What read takes from a stream: up to the delimiter or a line end, or n
\* characters; the text, whether it was complete, and the rest of the stream.
read_line_from_stdin(stream, delim, max) ==
    LET end == Min({Len(stream) + 1} \cup {k \in DOMAIN stream : stream[k] \in {delim, "\n"}})
        full == max > 0 /\ max < end
    IN  [text |-> SubSeq(stream, 1, IF full THEN max ELSE end - 1),
         complete |-> full \/ end <= Len(stream),
         rest |-> From(stream, IF full THEN max + 1 ELSE end + 1)]

RECURSIVE unescape_read(_)
unescape_read(s) ==
    CASE s = <<>> -> <<>>
      [] At(s, 1) = "\\" -> SubSeq(s, 2, Min({2, Len(s)})) \o unescape_read(From(s, 3))
      [] OTHER -> <<s[1]>> \o unescape_read(Tail(s))

FirstNot(t, seps) == Min({Len(t) + 1} \cup {k \in DOMAIN t : t[k] \notin seps})
FirstOf(t, seps) == Min({Len(t) + 1} \cup {k \in DOMAIN t : t[k] \in seps})
LastNot(t, seps) == Max({0} \cup {k \in DOMAIN t : t[k] \notin seps})

\* A field for each name, what is left for the last.
assign_read_vars(text, names, sh) ==
    LET seps == ifs(sh)
        step(st, k) ==
          LET rest == From(st.rest, FirstNot(st.rest, seps))
              cut == FirstOf(rest, seps)
          IN  IF k = Len(names)
              THEN [st EXCEPT !.sh = SetEnv(@, names[k], SubSeq(rest, 1, LastNot(rest, seps)))]
              ELSE [sh |-> SetEnv(st.sh, names[k], SubSeq(rest, 1, cut - 1)), rest |-> From(rest, cut)]
    IN  IF names = <<>> THEN SetEnv(sh, Chars("REPLY"), text)
        ELSE FoldLeft(step, [sh |-> sh, rest |-> text], [k \in DOMAIN names |-> k]).sh

\* The options -r, -n and -d, then the names.
read_opts(args) ==
    LET step(st, w) ==
          CASE st.want = "n" -> [st EXCEPT !.max = Number(w), !.want = ""]
            [] st.want = "d" -> [st EXCEPT !.delim = w[1], !.want = ""]
            [] st.want = "" /\ w = Chars("-r") -> [st EXCEPT !.raw = TRUE]
            [] st.want = "" /\ w \in {Chars("-n"), Chars("-d")} -> [st EXCEPT !.want = w[2]]
            [] OTHER -> [st EXCEPT !.names = Append(@, w)]
    IN  FoldLeft(step, [raw |-> FALSE, max |-> 0, delim |-> "\n", want |-> "", names |-> <<>>], args)

read(args, stream, sh) ==
    LET o == read_opts(args)
        l == read_line_from_stdin(stream, o.delim, o.max)
        text == IF o.raw THEN l.text ELSE unescape_read(l.text)
    IN  [rest |-> l.rest,
         sh |-> IF ~l.complete /\ text = <<>> THEN Status(sh, 1)
                ELSE Status(assign_read_vars(text, o.names, sh), IF l.complete THEN 0 ELSE 1)]

-----------------------------------------------------------------------------
(* getopts.                                                                 *)

OPTIND(sh) ==
    LET v == IF Chars("OPTIND") \in DOMAIN sh.env THEN parse_int(sh.env[Chars("OPTIND")]) ELSE <<>>
    IN  IF v = <<>> THEN 1 ELSE v[1]

\* The option ch was found; args[ind] is next and pos is the place in its cluster.
found_option(ch, spec, silent, name, args, cluster, ind, pos, sh) ==
    LET at == Find(spec, <<ch>>)
        takes == at > 0 /\ At(spec, at + 1) = ":"
        rest == IF pos > 0 THEN From(cluster, pos + 1) ELSE <<>>
        with(s, v) == SetEnv(s, Chars("OPTARG"), v)
        at_ind(s, n) == Done(SetEnv(s, Chars("OPTIND"), ToText(n)))
        is(s, v) == SetEnv(s, name, v)
        stay == [sh EXCEPT !.pos = pos]
    IN  CASE at = 0 -> at_ind(IF silent THEN with(is(stay, <<"?">>), <<ch>>) ELSE is(stay, <<"?">>), ind)
          [] at > 0 /\ ~takes -> at_ind(UnsetEnv(is(stay, <<ch>>), Chars("OPTARG")), ind)
          [] takes /\ rest # <<>> ->
               at_ind(with(is([sh EXCEPT !.pos = 0], <<ch>>), rest), ind)
          [] takes /\ rest = <<>> /\ ind <= Len(args) ->
               at_ind(with(is([sh EXCEPT !.pos = 0], <<ch>>), args[ind]), ind + 1)
          [] OTHER -> at_ind(IF silent THEN with(is(stay, <<":">>), <<ch>>) ELSE is(stay, <<"?">>), ind)

getopts(words, sh) ==
    LET optstring == words[1]
        args == IF Len(words) > 2 THEN From(words, 3) ELSE sh.params
        silent == At(optstring, 1) = ":"
        ind == OPTIND(sh)
        arg == IF ind <= Len(args) THEN args[ind] ELSE <<>>
        cluster == IF sh.pos = 0 THEN Tail(arg) ELSE From(arg, FirstNot(arg, {"-"}))
        last == sh.pos + 1 >= Len(cluster)
    IN  CASE Len(words) < 2 -> Status(sh, 2)
          [] Len(words) >= 2 /\ sh.pos = 0 /\ ind > Len(args) -> Status(sh, 1)
          [] Len(words) >= 2 /\ sh.pos = 0 /\ arg = Chars("--") ->
               Status(SetEnv(sh, Chars("OPTIND"), ToText(ind + 1)), 1)
          [] Len(words) >= 2 /\ sh.pos = 0 /\ ind <= Len(args) /\ arg # Chars("--")
               /\ (At(arg, 1) # "-" \/ Len(arg) = 1) -> Status(sh, 1)
          [] OTHER ->
               IF sh.pos >= Len(cluster) THEN Status([sh EXCEPT !.pos = 0], 1)
               ELSE found_option(cluster[sh.pos + 1], From(optstring, FirstNot(optstring, {":"})),
                                 silent, words[2], args, cluster,
                                 IF last THEN ind + 1 ELSE ind, IF last THEN 0 ELSE sh.pos + 1, sh)
=============================================================================
