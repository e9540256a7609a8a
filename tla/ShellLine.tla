------------------------------ MODULE ShellLine ------------------------------
(***************************************************************************)
(* What the shell does with the lines typed at its prompt: run_shell of    *)
(* shell/mod.rs from the newline on, run_interactive_line and run_segment  *)
(* of script.rs, execute_line of executor.rs.                              *)
(*                                                                         *)
(* The calls one handler still has to make are kept in work, so that every *)
(* part of a line runs with the status, the variables and the descriptors  *)
(* the parts before it left.  A process that is started, a function that   *)
(* is called and a compound block that is run are entries of trace: what   *)
(* happens inside them is the subject of Jobs and Interp.                  *)
(***************************************************************************)
EXTENDS ShellText, Redirects, Builtins

CONSTANTS Cases,    \* what may be typed: lines, the start of the shell, what is expected
          Failing   \* the commands that exit with 1

VARIABLES case,     \* the case that is run
          input,    \* the lines still to be typed
          pending,  \* pending_line, func_lines and block_lines
          work,     \* what is left to do for the line
          sh,       \* variables, parameters, options, aliases, functions, status
          fds,      \* the shell's descriptors
          disk,     \* the files
          unread,   \* what is left of a file since it was opened
          hist,     \* history
          trace     \* what was started

vars == <<case, input, pending, work, sh, fds, disk, unread, hist, trace>>

Tty == <<"tty">>
Shell == [env |-> << >>, hidden |-> << >>, readonly |-> {}, params |-> <<>>, aliases |-> << >>,
          funcs |-> << >>, opts |-> {}, rc |-> 0, unset |-> FALSE, exit |-> -1, pos |-> 0,
          clear |-> FALSE]
NoPending == [line |-> <<>>, func |-> <<>>, block |-> <<>>]
StdFds == [fd \in 0..2 |-> Tty]

Init ==
    /\ case \in Cases
    /\ input = case.lines
    /\ pending = NoPending
    /\ work = <<>>
    /\ sh = [Shell EXCEPT !.env = case.env]
    /\ fds = StdFds
    /\ disk = case.disk
    /\ unread = << >>
    /\ hist = <<>>
    /\ trace = <<>>

Ended == input = <<>> /\ work = <<>>

\* The task at the head of work is replaced by the tasks of steps.
Instead(steps) == work' = steps \o Tail(work)
Then(do, text) == <<[do |-> do, text |-> text]>>
IfAny(text, step) == IF trim(text) = <<>> THEN <<>> ELSE step
Doing(do) == work # <<>> /\ work[1].do = do

-----------------------------------------------------------------------------
(* The prompt: continuation lines, functions, blocks, here-documents.       *)

Remembered(h, line) == IF h # <<>> /\ Last(h) = line THEN h ELSE Append(h, line)
Remember(line, take) == <<[do |-> "remember", text |-> line, take |-> take]>>
Quiet == UNCHANGED <<case, sh, fds, disk, unread, trace>>

\* The line that is now complete.
FullLine == pending.line \o Head(input)
Typing == work = <<>> /\ input # <<>>

trim_end_matches(s, c) == SubSeq(s, 1, Max({0} \cup {k \in DOMAIN s : s[k] # c}))
\* A line that ends in a backslash replaces what was pending.
Continue ==
    /\ Typing /\ needs_continuation(Head(input))
    /\ pending' = [pending EXCEPT !.line = trim_end_matches(Head(input), "\\")]
    /\ input' = Tail(input)
    /\ Quiet /\ UNCHANGED <<work, hist>>

Complete == Typing /\ ~needs_continuation(Head(input))
EmptyLine ==
    /\ Complete /\ trim(FullLine) = <<>>
    /\ pending' = [pending EXCEPT !.line = <<>>]
    /\ input' = Tail(input)
    /\ Quiet /\ UNCHANGED <<work, hist>>

Text == Complete /\ trim(FullLine) # <<>>
BraceDepth(lines) == FoldLeft(LAMBDA n, l : n + brace_delta(l), 0, lines)

\* A function is collected until its braces match, and then defined.
InFunction == pending.func # <<>> \/ parse_function_header(FullLine).ok
FunctionLine ==
    /\ Text /\ InFunction
    /\ LET lines == Append(pending.func, FullLine)
           f == collect_function(lines[1], Tail(lines))
       IN  IF BraceDepth(lines) > 0
           THEN /\ pending' = [pending EXCEPT !.line = <<>>, !.func = lines]
                /\ UNCHANGED <<sh, work>>
           ELSE /\ pending' = [pending EXCEPT !.line = <<>>, !.func = <<>>]
                /\ sh' = IF f.ok THEN [sh EXCEPT !.funcs = Assigned(@, f.name, f.body)] ELSE sh
                /\ work' = (IF f.ok THEN IfAny(f.tail, Then("line", f.tail)) ELSE <<>>)
                           \o Remember(FullLine, FALSE)
    /\ input' = Tail(input)
    /\ UNCHANGED <<case, fds, disk, unread, hist, trace>>

\* is_compound_start and nesting_delta of compound.rs: a keyword after do or then
\* on the same line is not counted.
BlockStarts == {Chars("if"), Chars("for"), Chars("while"), Chars("until"), Chars("case")}
BlockEnds == {Chars("fi"), Chars("done"), Chars("esac")}
is_compound_start(line) == first_word(split_semicolons(line)[1]) \in BlockStarts
nesting_delta(line) ==
    LET parts == split_semicolons(line)
        those(words) == Cardinality({k \in DOMAIN parts : first_word(parts[k]) \in words})
    IN  those(BlockStarts) - those(BlockEnds)
BlockDepth(lines) == FoldLeft(LAMBDA n, l : n + nesting_delta(l), 0, lines)
InBlock == pending.block # <<>> \/ is_compound_start(FullLine)
BlockLine ==
    /\ Text /\ ~InFunction /\ InBlock
    /\ LET lines == Append(pending.block, FullLine)
       IN  IF BlockDepth(lines) > 0
           THEN /\ pending' = [pending EXCEPT !.line = <<>>, !.block = lines]
                /\ UNCHANGED work
           ELSE /\ pending' = [pending EXCEPT !.line = <<>>, !.block = <<>>]
                /\ work' = <<[do |-> "block", lines |-> lines]>> \o Remember(Join(lines, <<"\n">>), FALSE)
    /\ input' = Tail(input)
    /\ Quiet /\ UNCHANGED hist

\* A here-document takes the lines up to its delimiter, and becomes a file.
TempFile == Chars("/tmp/heredoc")
expand_heredoc_body(body, quoted) ==
    LET text == FoldLeft(LAMBDA t, l : Append(t \o l, "\n"), <<>>, body)
    IN  IF quoted THEN text ELSE expand_vars_clean(expand_command_subst(text), sh).out
HereLine ==
    /\ Text /\ ~InFunction /\ ~InBlock /\ find_heredoc_operator(FullLine) > 0
    /\ LET h == heredoc(FullLine, TempFile)
           b == heredoc_body(h, Tail(input))
       IN  /\ input' = IF b.ok THEN From(Tail(input), b.consumed + 1) ELSE <<>>
           /\ disk' = Assigned(disk, TempFile, expand_heredoc_body(b.body, h.quoted))
           /\ work' = Then("line", h.line) \o Remember(h.line, TRUE)
    /\ pending' = [pending EXCEPT !.line = <<>>]
    /\ UNCHANGED <<case, sh, fds, unread, hist, trace>>

CommandLine ==
    /\ Text /\ ~InFunction /\ ~InBlock /\ find_heredoc_operator(FullLine) = 0
    /\ work' = Then("line", FullLine) \o Remember(FullLine, TRUE)
    /\ pending' = [pending EXCEPT !.line = <<>>]
    /\ input' = Tail(input)
    /\ Quiet /\ UNCHANGED hist

\* The line is added to the history after it has run, and after history -c.
RememberLine ==
    /\ Doing("remember")
    /\ LET cleared == work[1].take /\ sh.clear
       IN  /\ hist' = Remembered(IF cleared THEN <<>> ELSE hist, work[1].text)
           /\ sh' = [sh EXCEPT !.clear = @ /\ ~cleared]
    /\ Instead(<<>>)
    /\ UNCHANGED <<case, input, pending, fds, disk, unread, trace>>

-----------------------------------------------------------------------------
(* run_interactive_line and run_segment.                                    *)

Inner == UNCHANGED <<case, input, pending, hist>>
Pure == Inner /\ UNCHANGED <<sh, fds, disk, unread, trace>>

\* What comes before && { or || ( is run first, and decides about the group.
RunLine ==
    /\ Doing("line")
    /\ LET line == work[1].text
           g == find_operator_group(line)
           head == SubSeq(line, 1, g.op - 1)
       IN  IF g.op = 0 THEN Instead(Then("split", line))
           ELSE Instead(IfAny(head, Then("exec", head))
                        \o <<[do |-> "gate", and |-> g.is_and, text |-> From(line, g.group)]>>)
    /\ Pure
Gate ==
    /\ Doing("gate")
    /\ Instead(IF work[1].and = (sh.rc = 0) THEN Then("split", work[1].text) ELSE <<>>)
    /\ Pure

\* The commands before a group, a negation or a compound command are run first.
StartsGroup(t) == At(t, 1) \in {"(", "{"}
Special(seg) ==
    LET t == trim_start(seg)
    IN  \/ StartsGroup(t) \/ StartsWith(t, <<"!", " ">>)
        \/ starts_compound_keyword(t) \/ parse_function_header(t).ok
SplitLine ==
    /\ Doing("split")
    /\ LET segs == split_top_level_semicolons(work[1].text)
           at == First({k \in 2..Len(segs) : Special(segs[k])})
           head == Join(SubSeq(segs, 1, at - 1), <<";">>)
       IN  Instead(IF at = 0 THEN Then("form", work[1].text)
                   ELSE IfAny(head, Then("exec", head))
                        \o Then("form", Join(From(segs, at), <<";">>)))
    /\ Pure

extract(t) == IF At(t, 1) = "(" THEN extract_subshell(t) ELSE extract_group(t)
pure_group(t) ==
    /\ StartsGroup(t)
    /\ extract(t).ok => At(trim_start(extract(t).tail), 1) \notin {"|", "&"}
ByForm ==
    /\ Doing("form")
    /\ LET line == work[1].text
           t == trim_start(line)
       IN  Instead(CASE pure_group(t) \/ StartsWith(t, <<"!", " ">>) -> Then("seg", trim(line))
                     [] ~pure_group(t) /\ starts_compound_keyword(t) ->
                          <<[do |-> "block", lines |-> <<line>>]>>
                     [] OTHER -> Then("exec", line))
    /\ Pure

\* parse_redirect_tail: only redirections, which are not expanded.
parse_redirect_tail(tail) ==
    LET r == build_command_list(tokenize(Chars("x ") \o trim(tail)))
    IN  IF trim(tail) = <<>> \/ r.error THEN [ok |-> FALSE]
        ELSE LET cmd == r.segs[1].cmds[1]
             IN  IF cmd.argv = <<<<"x">>>> THEN [ok |-> TRUE, cmd |-> [cmd EXCEPT !.argv = <<>>]]
                 ELSE [ok |-> FALSE]
NoRedirects(cmd) == Wanted(cmd) = <<>> /\ cmd.dups = <<>> /\ cmd.closes = <<>>
Applied(cmd) ==
    IF NoRedirects(cmd) THEN [ok |-> TRUE, fds |-> fds, disk |-> disk, guard |-> NoGuard]
    ELSE apply_redirects(cmd, fds, disk, "C" \in sh.opts)
\* What a file that was just opened holds.
Unread(r, cmd) ==
    LET names == {w.name : w \in {v \in Range(Wanted(cmd)) : v.kind \in {"in", "rw", "fdin"}}}
    IN  [n \in DOMAIN unread \cup (names \cap DOMAIN r.disk) |->
            IF n \in names THEN r.disk[n] ELSE unread[n]]
Put(guard) == <<[do |-> "restore", guard |-> guard, persist |-> FALSE]>>
Redirected(cmd, r, steps(_), otherwise) ==
    /\ Instead(IF r.ok THEN steps(r.guard) ELSE otherwise)
    /\ fds' = r.fds /\ disk' = r.disk
    /\ unread' = IF r.ok THEN Unread(r, cmd) ELSE unread
Exit(rc) == [do |-> "status", rc |-> rc]

\* ! in front of a command: the status is inverted before what follows it.
Negated ==
    /\ Doing("seg") /\ StartsWith(work[1].text, <<"!">>)
    /\ LET body == trim_start(Tail(work[1].text))
           cut == split_first_connector(body)
       IN  Instead(IF cut = 0 THEN Then(IF StartsGroup(body) THEN "seg" ELSE "exec", body)
                        \o Then("negate", <<>>)
                   ELSE Then("exec", trim_end(SubSeq(body, 1, cut - 1))) \o Then("negate", <<>>)
                        \o Then("exec", From(body, cut)))
    /\ Pure
Negate ==
    /\ Doing("negate")
    /\ sh' = Status(sh, Truth(sh.rc = 0))
    /\ Instead(<<>>)
    /\ Inner /\ UNCHANGED <<fds, disk, unread, trace>>

\* A process, a function call or a block: its words and what its input holds.
Entry(kind, words, in) == [kind |-> kind, words |-> words, in |-> in]
StatusOf(words) == Truth(words # <<>> /\ Last(words) # <<>> /\ Last(words)[1] \in Failing)
Started(kind, words, in) ==
    /\ trace' = Append(trace, Entry(kind, words, in))
    /\ sh' = Status(sh, StatusOf(words))

Segment == Doing("seg") /\ ~StartsWith(work[1].text, <<"!">>)
GroupTail == split_redirect_tail(extract(work[1].text).tail)
SubshellSegment ==
    /\ Segment /\ At(work[1].text, 1) = "("
    /\ LET x == extract(work[1].text)
       IN  IF x.ok
           THEN Started("subshell", <<<<trim(x.inner)>>>>, <<>>)
                /\ Instead(IF GroupTail[2] = <<>> THEN <<>> ELSE Then("exec", GroupTail[2]))
           ELSE Instead(<<>>) /\ sh' = Status(sh, 2) /\ UNCHANGED trace
    /\ Inner /\ UNCHANGED <<fds, disk, unread>>
\* A group runs in the shell, with its descriptors replaced; a redirection that
\* fails is ignored.
BodySteps(lines) == [k \in DOMAIN lines |-> [do |-> "exec", text |-> lines[k]]]
GroupSegment ==
    /\ Segment /\ At(work[1].text, 1) = "{"
    /\ LET x == extract(work[1].text)
           tail == parse_redirect_tail(GroupTail[1])
           rest == IF GroupTail[2] = <<>> THEN <<>> ELSE Then("exec", GroupTail[2])
           body == BodySteps(normalize(<<x.inner>>))
           steps(g) == body \o Put(g) \o rest
       IN  CASE ~x.ok -> Instead(<<Exit(2)>>) /\ UNCHANGED <<fds, disk, unread>>
             [] x.ok /\ tail.ok -> Redirected(tail.cmd, Applied(tail.cmd), steps, body \o rest)
             [] OTHER -> Instead(body \o rest) /\ UNCHANGED <<fds, disk, unread>>
    /\ Inner /\ UNCHANGED <<sh, trace>>
\* run_compound_lines: the redirections after the word that ends the block.
Terminator(line) ==
    CASE first_word(line) = Chars("if") -> Chars("fi")
      [] first_word(line) = Chars("case") -> Chars("esac")
      [] OTHER -> Chars("done")
CompoundLines ==
    /\ Doing("block")
    /\ LET lines == work[1].lines
           cut == split_terminator_tail(Last(lines), Terminator(lines[1]))
           tails == split_redirect_tail(cut[2])
           tail == parse_redirect_tail(tails[1])
           rest == IF tails[2] = <<>> THEN <<>> ELSE Then("exec", tails[2])
           run == <<[do |-> "execute_block", lines |-> normalize(Append(Front(lines), cut[1]))]>>
           steps(g) == run \o Put(g) \o rest
       IN  IF tail.ok THEN Redirected(tail.cmd, Applied(tail.cmd), steps, <<Exit(1)>>)
           ELSE Instead(run \o rest) /\ UNCHANGED <<fds, disk, unread>>
    /\ Inner /\ UNCHANGED <<sh, trace>>
Contents(fd) == IF fd \in DOMAIN fds /\ fds[fd] \in DOMAIN unread THEN unread[fds[fd]] ELSE <<>>
ExecuteBlock ==
    /\ Doing("execute_block")
    /\ Started("block", <<work[1].lines>>, Contents(0))
    /\ Instead(<<>>)
    /\ Inner /\ UNCHANGED <<fds, disk, unread>>
SetStatus ==
    /\ Doing("status")
    /\ sh' = Status(sh, work[1].rc)
    /\ Instead(<<>>)
    /\ Inner /\ UNCHANGED <<fds, disk, unread, trace>>
Restore ==
    /\ Doing("restore")
    /\ fds' = IF work[1].persist THEN forget(work[1].guard, fds) ELSE restore(work[1].guard, fds)
    /\ Instead(<<>>)
    /\ Inner /\ UNCHANGED <<sh, disk, unread, trace>>

-----------------------------------------------------------------------------
(* execute_line.                                                            *)

\* The expansions of the whole line, then its commands.
Parsed(list) ==
    CASE list.error -> <<Exit(2)>>
      [] ~list.error /\ list.segs # <<>> -> <<[do |-> "segs", segs |-> list.segs]>>
      [] OTHER -> <<>>
Substituted(line) == build_command_list(tokenize(expand_command_subst(expand_backticks(line))))
ExecuteLine ==
    /\ Doing("exec")
    /\ Instead(Parsed(Substituted(expand_alias(expand_history(work[1].text, hist), sh.aliases))))
    /\ Pure

InSegs == Doing("segs")
Seg == work[1].segs[1]
Rest == IF Len(work[1].segs) = 1 THEN <<>> ELSE <<[work[1] EXCEPT !.segs = Tail(@)]>>
runs(conn, rc) == (conn = "and" => rc = 0) /\ (conn = "or" => rc # 0)
\* Whether the segment is part of && or ||.
Chained == Seg.conn \in {"and", "or"} \/ (Rest # <<>> /\ work[1].segs[2].conn \in {"and", "or"})
Skip ==
    /\ InSegs /\ ~runs(Seg.conn, sh.rc)
    /\ Instead(Rest)
    /\ Pure

\* The commands of the segment with their words expanded and their assignments cut
\* off, and the state that leaves.
Divided(p, split) ==
    [cmds |-> [k \in DOMAIN p.out |-> [p.out[k] EXCEPT !.argv = split[k].argv]],
     env |-> [k \in DOMAIN p.out |-> split[k].env],
     ok |-> \A k \in DOMAIN split : split[k].ok,
     sh |-> p.ctx]
Cut(p) == Divided(p, [k \in DOMAIN p.out |-> split_assignments(p.out[k].argv, p.ctx)])
\* The segment is expanded, and then run with what that gave.
Expand ==
    /\ InSegs /\ runs(Seg.conn, sh.rc)
    /\ work' = <<[do |-> "run", seg |-> Seg, chained |-> Chained,
                  x |-> Cut(expand_pipeline(Seg.cmds, sh))]>> \o Rest \o Tail(work)
    /\ Pure
Exp == work[1].x

\* A read-only variable or an unset one: the command is not run.  The mark of an
\* unset variable stays.  Nor is it run by a shell that panicked.
Lost(s) == <<"panic">> \in DOMAIN s.env
Refused == ~Exp.ok \/ Exp.sh.unset \/ Lost(Exp.sh)
Refuse ==
    /\ Doing("run") /\ Refused
    /\ sh' = Status(Exp.sh, 1)
    /\ Instead(<<>>)
    /\ Inner /\ UNCHANGED <<fds, disk, unread, trace>>

Builtin == {Chars(w) : w \in {"exit", "export", "unset", "history", "alias", "unalias", "read",
                              "set", "shift", "exec", "let", ":", "readonly", "getopts"}}
Single == Len(Exp.cmds) = 1 /\ ~work[1].seg.bg
Name == IF Exp.cmds[1].argv = <<>> THEN <<>> ELSE Exp.cmds[1].argv[1]
WithEnv(s, env) == FoldLeft(LAMBDA t, kv : SetEnv(t, kv[1], kv[2]), s, env)
Class ==
    CASE Single /\ Name \in DOMAIN sh.funcs -> "function"
      [] Single /\ Name \notin DOMAIN sh.funcs /\ Name \in {Chars("eval"), Chars("command")} -> "again"
      [] Single /\ Name = <<>> /\ Exp.env[1] # <<>> -> "assignment"
      [] Single /\ Name \in Builtin \ DOMAIN sh.funcs -> "builtin"
      [] OTHER -> "pipeline"
Run(class) == Doing("run") /\ ~Refused /\ Class = class

FunctionCall ==
    /\ Run("function")
    /\ trace' = Append(trace, Entry("function", <<Exp.cmds[1].argv>>, <<>>))
    /\ sh' = Done(Exp.sh)
    /\ Instead(<<>>)
    /\ Inner /\ UNCHANGED <<fds, disk, unread>>

\* eval and command give their words to execute_line once more.
Again ==
    /\ Run("again")
    /\ LET text == Join(Tail(Exp.cmds[1].argv), <<" ">>)
       IN  IF trim(text) = <<>> THEN Instead(<<>>) /\ sh' = Done(Exp.sh)
           ELSE Instead(Then("exec", text)) /\ sh' = Exp.sh
    /\ Inner /\ UNCHANGED <<fds, disk, unread, trace>>

\* NAME=value alone, and before any command that runs by itself: the variable
\* keeps the value.
AssignVars ==
    /\ Run("assignment")
    /\ sh' = Done(WithEnv(Exp.sh, Exp.env[1]))
    /\ Instead(<<>>)
    /\ Inner /\ UNCHANGED <<fds, disk, unread, trace>>

\* The redirections first; the command is a step of its own, then they are undone.
BuiltinCommand ==
    /\ Run("builtin")
    /\ LET cmd == Exp.cmds[1]
           lasts == /\ cmd.argv = <<Chars("exec")>>
                    /\ Len(Wanted(cmd)) > (IF cmd.rw = None THEN 0 ELSE 1) \/ cmd.dups # <<>>
           undo(g) == IF NoRedirects(cmd) THEN <<>>
                      ELSE <<[do |-> "restore", guard |-> g, persist |-> lasts]>>
           steps(g) == <<[do |-> "builtin", argv |-> cmd.argv]>> \o undo(g)
       IN  Redirected(cmd, Applied(cmd), steps, <<Exit(1)>>)
    /\ sh' = WithEnv(Exp.sh, Exp.env[1])
    /\ Inner /\ UNCHANGED trace

\* What a built-in does to the state of the shell.
Effect(name, args) ==
    CASE name = Chars("export") -> export(args, sh)
      [] name = Chars("unset") -> unset(args, sh)
      [] name = Chars("readonly") -> readonly(args, sh)
      [] name = Chars("alias") -> alias(args, sh)
      [] name = Chars("unalias") -> unalias_all(args, sh)
      [] name = Chars("set") -> set(args, sh)
      [] name = Chars("shift") -> shift(args, sh)
      [] name = Chars("let") -> let(args, sh)
      [] name = Chars("getopts") -> getopts(args, sh)
      [] OTHER -> Done(sh)
\* The descriptor that read takes its line from, as a name of a file.
RunBuiltin ==
    /\ Doing("builtin")
    /\ LET name == work[1].argv[1]
           args == Tail(work[1].argv)
           r == read(args, Contents(0), sh)
       IN  CASE name = Chars("read") ->
                  /\ sh' = r.sh
                  /\ unread' = [n \in DOMAIN unread |-> IF n = fds[0] THEN r.rest ELSE unread[n]]
                  /\ Instead(<<>>) /\ UNCHANGED <<case, input, pending, hist>>
             [] name = Chars("exit") ->
                  /\ work' = <<>> /\ input' = <<>>
                  /\ UNCHANGED <<case, pending, sh, unread, hist>>
             [] name = Chars("history") ->
                  /\ sh' = [Done(sh) EXCEPT !.clear = @ \/ args = <<Chars("-c")>>]
                  /\ Instead(<<>>) /\ UNCHANGED <<case, input, pending, unread, hist>>
             [] OTHER ->
                  /\ sh' = Effect(name, args)
                  /\ Instead(<<>>) /\ UNCHANGED <<case, input, pending, unread, hist>>
    /\ UNCHANGED <<fds, disk, trace>>

\* execute_pipeline: the files are opened for the processes, not for the shell.
\* Under set -e a failure outside && and || ends the line.
OpenFor(cmds) ==
    FoldLeft(LAMBDA st, c : IF ~st.ok THEN st ELSE OpenAll(c, StdFds, st.disk, "C" \in sh.opts),
             [ok |-> TRUE, disk |-> disk], cmds)
EndsLine(rc) == rc # 0 /\ "e" \in sh.opts /\ ~work[1].chained
\* What is left after the segments of the same line.
AfterLine == IF Len(work) > 1 /\ work[2].do = "segs" THEN From(work, 3) ELSE Tail(work)
Execute(open, words, in, rc) ==
    /\ trace' = IF ~open.ok THEN trace
                ELSE Append(trace, Entry(IF work[1].seg.bg THEN "background" ELSE "pipeline", words,
                                         IF in = None THEN <<>> ELSE open.disk[in[1]]))
    /\ disk' = open.disk
    /\ sh' = [Status(IF Single THEN WithEnv(Exp.sh, Exp.env[1]) ELSE Exp.sh, rc)
                EXCEPT !.exit = IF EndsLine(rc) THEN rc ELSE @]
    /\ work' = IF EndsLine(rc) THEN AfterLine ELSE Tail(work)
StatusAfter(open, words) ==
    CASE ~open.ok -> 1
      [] open.ok /\ work[1].seg.bg -> 0
      [] OTHER -> StatusOf(words)
Start(open, words) == Execute(open, words, Exp.cmds[1].in, StatusAfter(open, words))
Pipeline ==
    /\ Run("pipeline")
    /\ Start(OpenFor(Exp.cmds), [k \in DOMAIN Exp.cmds |-> Exp.cmds[k].argv])
    /\ Inner /\ UNCHANGED <<fds, unread>>

Step ==
    \/ Continue \/ EmptyLine \/ FunctionLine \/ BlockLine \/ HereLine \/ CommandLine
    \/ RememberLine
    \/ RunLine \/ Gate \/ SplitLine \/ ByForm
    \/ Negated \/ Negate \/ SubshellSegment \/ GroupSegment
    \/ CompoundLines \/ ExecuteBlock \/ SetStatus \/ Restore
    \/ ExecuteLine \/ Skip \/ Expand \/ Refuse \/ FunctionCall \/ Again \/ AssignVars
    \/ BuiltinCommand \/ RunBuiltin \/ Pipeline
Next == ~Lost(sh) /\ Step

Spec == Init /\ [][Next]_vars

-----------------------------------------------------------------------------
\* What was started so far is the start of what the case says, and all of it at the end.
AsWritten == IsPrefix(trace, case.want) /\ (Ended => trace = case.want)

\* Every command of the cases gets the words its parts stand for, one by one, through quotes,
\* expansions, splitting and joining, and wherever the command is: alone, in a group, a subshell
\* or a block, before or after one (tokenize, expand_word, split_top_level_semicolons).  The
\* cases are the table of parts and their pairs; not among them, since the code does not read
\* them so, are pattern characters in a quoted variable, a substitution behind a quote in double
\* quotes, and an escaped ; in a block.
WordsAsQuoted == case.about = "words" => AsWritten

\* The commands of a line run in their order, each one exactly when the status of those before
\* it says so, and every line sees the variables, aliases, functions, options, history and
\* descriptors that the lines before it left (run_interactive_line, execute_line).  No case
\* has a command after a group that is not run, or after a block whose input is missing: the
\* code does not run it, where the ; asks for it.
LinesAsTyped == case.about = "list" => AsWritten


\* The redirections of a built-in, of a group and of a block are gone when it is over, for all
\* pairs and many triples that replace, copy and close descriptors; those of exec stay
\* (BuiltinRedirectGuard).  Not among them are the pairs that save one descriptor twice
\* (3>&- with another redirection of 3, <> with <), which the code does not undo.
RedirectsUndone == Ended => fds = case.fds

=============================================================================
