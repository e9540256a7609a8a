------------------------------- MODULE Interp -------------------------------
(***************************************************************************)
(* Control flow of the shell: run_source (shell/script.rs), execute_line   *)
(* (shell/executor.rs), the compound commands of shell/compound.rs and the *)
(* function calls of shell/functions.rs.                                   *)
(*                                                                         *)
(* The Rust functions call each other; here their activation records are   *)
(* frames of stack, and ret is the value a finished frame hands to the one *)
(* below it.  break, continue and return travel partly as special exit     *)
(* codes and partly as flags, exactly as in the code.                      *)
(*                                                                         *)
(* A program is a sequence of lines as normalize leaves them, keywords on  *)
(* lines of their own.  The text of a simple command does not matter: an   *)
(* external command is a name and ends with any code.                      *)
(***************************************************************************)
EXTENDS Integers, Sequences, FiniteSets, SequencesExt

CONSTANTS
    Programs,   \* the scripts, sequences of lines
    Functions,  \* defined functions: name -> sequence of lines
    Texts,      \* sequences of lines: the scripts and functions, and every part
                \* of them that is run by itself
    Lists,      \* the lists of commands on their lines
    Code,       \* exit codes of external commands
    MaxCmds,    \* external commands run; bounds the model
    MaxSignals  \* SIGTERMs delivered; bounds the model

ASSUME InterpAssumption ==
    /\ Code \subseteq 0 .. 255
    /\ MaxCmds \in Nat
    /\ MaxSignals \in Nat

VARIABLES
    program,    \* the script being run
    stack,      \* frames, innermost last
    ret,        \* value returned to the innermost frame
    sh,         \* the globals of the running shell process
    trace,      \* external commands run so far, with their codes
    sigs        \* signals delivered so far

vars == <<program, stack, ret, sh, trace, sigs>>

NoRet == -1
RC_BREAK == 200
RC_CONTINUE == 201
RC_RETURN == 202
SIGTERM == 15
None == -1

\* The atomics of options.rs, compound.rs and trap.rs, the environment
\* variable the scripts use, and the last_rc of the innermost run_source.
Shell == [rc : 0 .. 255, LOOP_LEVEL : Nat \ {0},
          RETURN_REQUESTED : -1 .. 255, EXIT_REQUESTED : -1 .. 255,
          NOUNSET_VIOLATION : BOOLEAN, ERREXIT : BOOLEAN,
          PENDING : {None, SIGTERM}, TRAPS : SUBSET {"TERM", "EXIT"},
          env : Nat, locals : Seq(Nat), params : Nat]

-----------------------------------------------------------------------------
(***************************************************************************)
(* Program text                                                            *)
(***************************************************************************)

Ext(id) == [c |-> "ext", id |-> id]
Start(cmd) == [op |-> "start", cmd |-> cmd]
TrapLine == <<Start(Ext("trap"))>>

is_compound_start(l) == l.k \in {"if", "for", "while", "until", "case"}
Terminator(l) == CASE l.k = "if" -> "fi" [] l.k = "case" -> "esac" [] OTHER -> "done"
nesting_delta(l) ==
    IF is_compound_start(l) THEN 1 ELSE IF l.k \in {"fi", "done", "esac"} THEN -1 ELSE 0

\* Nesting depth after lines i .. j.
DepthAfter(lines, i, j) ==
    FoldLeft(LAMBDA d, l : d + nesting_delta(l), 0, SubSeq(lines, i, j))

\* run_source collects lines until the nesting is back at 0; 0 is "unexpected EOF".
BlockEnd(lines, i) ==
    LET ends == {j \in i .. Len(lines) : DepthAfter(lines, i, j) <= 0}
    IN  IF ends = {} THEN 0 ELSE CHOOSE j \in ends : \A k \in ends : j <= k

\* find_block_end without nesting.
find_block_end_first(lines, i) ==
    LET ends == {j \in i .. Len(lines) : lines[j].k = Terminator(lines[i])}
    IN  IF ends = {} THEN 0 ELSE CHOOSE j \in ends : \A k \in ends : j <= k

\* The stack of expected terminators decides; a terminator that is not the
\* expected one is skipped over.
Expecting(open, l) ==
    IF open = <<>> THEN open
    ELSE IF is_compound_start(l) THEN Append(open, Terminator(l))
    ELSE IF l.k = Last(open) THEN Front(open) ELSE open
find_block_end(lines, i) ==
    LET ends == {j \in i + 1 .. Len(lines) :
                    /\ lines[j].k = Terminator(lines[i])
                    /\ FoldLeft(Expecting, <<Terminator(lines[i])>>, SubSeq(lines, i + 1, j)) = <<>>}
    IN  IF ends = {} THEN 0 ELSE CHOOSE j \in ends : \A k \in ends : j <= k

\* exec_if: the branches of an if block, split at depth 0.
Branches(slice) ==
    LET Cut(st, l) ==
            LET add == [st EXCEPT !.body = Append(@, l), !.depth =
                            IF is_compound_start(l) THEN @ + 1
                            ELSE IF @ > 0 /\ l.k \in {"fi", "done", "esac"} THEN @ - 1 ELSE @]
                close == Append(st.br, [c |-> st.cond, b |-> st.body])
            IN  CASE st.depth = 0 /\ l.k \in {"then", "fi"} -> st
                  [] st.depth = 0 /\ l.k = "elif" ->
                        [st EXCEPT !.br = close, !.cond = l.c, !.body = <<>>]
                  [] st.depth = 0 /\ l.k = "else" ->
                        [st EXCEPT !.br = close, !.body = <<>>, !.in_else = TRUE]
                  [] OTHER -> add
        st == FoldLeft(Cut, [br |-> <<>>, cond |-> slice[1].c, body |-> <<>>,
                             in_else |-> FALSE, depth |-> 0], Tail(slice))
    IN  IF st.in_else THEN [br |-> st.br, els |-> st.body]
        ELSE [br |-> Append(st.br, [c |-> st.cond, b |-> st.body]), els |-> <<>>]

\* for, while and until: what is between do and the last line.
LoopBody(slice) ==
    LET do == CHOOSE j \in 1 .. Len(slice) :
                  slice[j].k = "do" /\ \A k \in 1 .. j - 1 : slice[k].k # "do"
    IN  SubSeq(slice, do + 1, Len(slice) - 1)

\* exec_case reads the slice flat, up to the first esac, and runs the first
\* branch whose pattern matches.
CaseBody(slice) ==
    LET Cut(st, l) ==
            CASE st.over -> st
              [] ~st.over /\ l.k = "esac" -> [st EXCEPT !.over = TRUE]
              [] ~st.over /\ l.k = ";;" ->
                    [st EXCEPT !.all = Append(@, [p |-> st.pat, b |-> st.body]),
                               !.pat = "none", !.body = <<>>]
              [] ~st.over /\ l.k = "pat" -> [st EXCEPT !.pat = l.p]
              [] OTHER -> [st EXCEPT !.body = Append(@, l)]
        st == FoldLeft(Cut, [all |-> <<>>, pat |-> "none", body |-> <<>>, over |-> FALSE],
                       Tail(slice))
        all == Append(st.all, [p |-> st.pat, b |-> st.body])
        hit == {j \in DOMAIN all : all[j].p \in {slice[1].w, "*"}}
    IN  IF hit = {} THEN <<>> ELSE all[CHOOSE j \in hit : \A k \in hit : j <= k].b

\* A keyword out of place is run as a command of that name.
Commands(l) == IF l.k = "line" THEN l.c ELSE <<Start(Ext(l.k))>>

\* The parts of a script are scripts.  A command called trap would be taken for
\* one of a trap, so there is none; what follows `cmd;` on a line is there.
ASSUME TextAssumption ==
    /\ Programs \subseteq Texts
    /\ \A f \in DOMAIN Functions : Functions[f] \in Texts
    /\ \A t \in Texts : t \in Seq(Range(t)) /\ \A i \in DOMAIN t :
        LET l == t[i]
        IN  /\ l.k = "line" /\ l.neg => <<Head(l.c)>> \in Lists /\ Tail(l.c) \in Lists
            /\ l.k \in {"line", "semi", "opgroup", "while", "until"} => l.c \in Lists
            /\ l.k \in {"sub", "group", "opgroup"} => l.body \in Texts
            /\ l.k = "semi" => i < Len(t)
            /\ ~is_compound_start(l) => Commands(l) \in Lists
            /\ is_compound_start(l) /\ BlockEnd(t, i) # 0 => SubSeq(t, i, BlockEnd(t, i)) \in Texts
            /\ is_compound_start(l) /\ find_block_end(t, i) # 0 =>
                 LET slice == SubSeq(t, i, find_block_end(t, i))
                 IN  /\ l.k \in {"for", "while", "until"} => LoopBody(slice) \in Texts
                     /\ l.k = "case" => CaseBody(slice) \in Texts
                     /\ l.k = "if" =>
                          Branches(slice) \in [br : Seq([c : Lists, b : Texts]), els : Texts]
    /\ \A c \in Lists : c \in Seq(Range(c)) /\ \A j \in DOMAIN c :
        LET cmd == c[j].cmd
        IN  /\ cmd.c = "ext" => cmd.id # "trap"
            /\ cmd.c = "eval" => cmd.segs \in Lists
            /\ cmd.c \in {"call", "dot"} => cmd.id \in DOMAIN Functions

\* has_conditional: && or || on the line, that of a one-line group included.
\* Of a negated line the ! and all but the first pipeline were cut off before.
Listed(l) ==
    /\ l.k \in {"line", "if", "while", "until"} /\ ~(l.k = "line" /\ l.neg)
    /\ \E j \in DOMAIN l.c : l.c[j].op \in {"and", "or"}
has_conditional(l) ==
    Listed(l) \/ (l.k \in {"group", "sub", "opgroup"} /\ \E j \in DOMAIN l.body : Listed(l.body[j]))

-----------------------------------------------------------------------------
(***************************************************************************)
(* Frames                                                                  *)
(***************************************************************************)

Top == Last(stack)
In(f, ph) == stack # <<>> /\ Top.f = f /\ Top.ph = ph
Running(f, ph) == In(f, ph) /\ ret = NoRet
Answered(f, ph) == In(f, ph) /\ ret # NoRet

SourceFrame(lines) == [f |-> "source", ph |-> "top", lines |-> lines, i |-> 1,
                       neg |-> FALSE, tail |-> <<>>, cond |-> FALSE, rc |-> sh.rc]
LineFrame(segs) == [f |-> "line", ph |-> "seg", segs |-> segs, i |-> 1, params |-> 0, mark |-> 0]
LinesFrame(lines) == [f |-> "lines", ph |-> "next", lines |-> lines, i |-> 1]
BlockFrame == [f |-> "block", ph |-> "run"]
ForkFrame(shell) == [f |-> "fork", ph |-> "wait", shell |-> shell, rc |-> 0]
MainFrame == [f |-> "main", ph |-> "run", rc |-> 0]

\* exec_lines enters a compound command.
CompoundFrame(slice) ==
    LET l == slice[1]
    IN  CASE l.k = "if" -> [f |-> "if", ph |-> "cond", i |-> 1, all |-> Branches(slice)]
          [] l.k = "for" -> [f |-> "for", ph |-> IF l.n = 0 THEN "none" ELSE "next", left |-> l.n, body |-> LoopBody(slice)]
          [] l.k \in {"while", "until"} ->
                [f |-> "while", ph |-> "sig", until |-> l.k = "until", cond |-> l.c,
                 body |-> LoopBody(slice), rc |-> 0]
          [] OTHER -> [f |-> "case", ph |-> "run", body |-> CaseBody(slice)]

Goto(ph) == stack' = Append(Front(stack), [Top EXCEPT !.ph = ph])
Call(fr, ph) == stack' = Front(stack) \o <<[Top EXCEPT !.ph = ph], fr>>
Return(v) == stack' = Front(stack) /\ ret' = v
Set(s) == sh' = s

Init ==
    /\ program \in Programs
    /\ \E e \in BOOLEAN, t \in SUBSET {"TERM", "EXIT"} :
          sh = [rc |-> 0, LOOP_LEVEL |-> 1, RETURN_REQUESTED |-> None,
                EXIT_REQUESTED |-> None, NOUNSET_VIOLATION |-> FALSE, ERREXIT |-> e,
                PENDING |-> None, TRAPS |-> t, env |-> 0,
                locals |-> <<>>, params |-> 2]
    /\ stack = <<MainFrame, SourceFrame(program)>>
    /\ ret = NoRet
    /\ trace = <<>>
    /\ sigs = 0

-----------------------------------------------------------------------------
(***************************************************************************)
(* trap.rs                                                                 *)
(***************************************************************************)

\* The handler records the signal; there is one slot.  It is the outermost
\* shell process that is sent one.
Signal ==
    /\ stack # <<>>
    /\ sigs < MaxSignals
    /\ sigs' = sigs + 1
    /\ LET forks == {j \in DOMAIN stack : stack[j].f = "fork"}
       IN  IF forks = {} THEN sh' = [sh EXCEPT !.PENDING = SIGTERM] /\ UNCHANGED stack
           ELSE LET j == CHOOSE j \in forks : \A k \in forks : j <= k
                IN  /\ stack' = [stack EXCEPT ![j].shell.PENDING = SIGTERM]
                    /\ UNCHANGED sh
    /\ UNCHANGED <<program, ret, trace>>

\* Traps kept in a subshell.
reset_for_subshell_pending(s) == [s EXCEPT !.PENDING = None]

reset_for_subshell(s) == [s EXCEPT !.TRAPS = {}, !.PENDING = None]

Quiet == UNCHANGED <<program, trace, sigs>>
Taken == [sh EXCEPT !.PENDING = None]

-----------------------------------------------------------------------------
(***************************************************************************)
(* run_source                                                              *)
(***************************************************************************)

\* The frame's own last_rc ends with it; the caller's is back in place.
LeaveSource(s, v) ==
    /\ Return(v)
    /\ sh' = [s EXCEPT !.rc = Top.rc]
    /\ Quiet

\* Before and after every line: a pending signal runs its trap or, without
\* one, ends the script.
SourceSignal(from, next) ==
    /\ Running("source", from)
    /\ \/ /\ sh.PENDING = None
          /\ Goto(next)
          /\ UNCHANGED <<sh, ret>> /\ Quiet
       \/ /\ sh.PENDING # None /\ "TERM" \in sh.TRAPS
          /\ Call(LineFrame(TrapLine), next)
          /\ Set(Taken) /\ UNCHANGED ret /\ Quiet
       \/ /\ sh.PENDING # None /\ "TERM" \notin sh.TRAPS
          /\ LeaveSource(Taken, 128 + SIGTERM)

SourceTop ==
    \/ /\ Running("source", "top") /\ Top.i > Len(Top.lines)
       /\ LeaveSource(sh, sh.rc)
    \/ /\ stack # <<>> /\ Top.f = "source" /\ Top.i <= Len(Top.lines)
       /\ SourceSignal("top", "line")

\* The value of a trap command becomes last_rc.
SourceTrapped ==
    /\ \E ph \in {"line", "fin"} : Answered("source", ph)
    /\ ret' = NoRet
    /\ Set([sh EXCEPT !.rc = ret])
    /\ UNCHANGED stack /\ Quiet

\* Start executing the next line or block.
SourceLine ==
    /\ Running("source", "line")
    /\ LET l == Top.lines[Top.i]
           end == BlockEnd(Top.lines, Top.i)
           here(n) == [Top EXCEPT !.ph = "cmd", !.i = n, !.cond = has_conditional(l),
                                  !.neg = l.k = "line" /\ l.neg,
                                  !.tail = IF l.k = "line" /\ l.neg THEN Tail(l.c) ELSE <<>>]
       IN  \/ /\ l.k = "line"
              /\ stack' = Front(stack) \o
                    <<here(Top.i + 1), LineFrame(IF l.neg THEN <<Head(l.c)>> ELSE l.c)>>
              /\ UNCHANGED <<sh, ret>> /\ Quiet
           \/ /\ l.k = "sub"
              /\ Set([reset_for_subshell(sh) EXCEPT !.rc = 0])
              /\ stack' = Front(stack) \o <<here(Top.i + 1), ForkFrame(sh), SourceFrame(l.body)>>
              /\ UNCHANGED ret /\ Quiet
           \/ /\ l.k \in {"semi", "opgroup"}
              /\ stack' = Front(stack) \o <<[Top EXCEPT !.ph = l.k], LineFrame(l.c)>>
              /\ UNCHANGED <<sh, ret>> /\ Quiet
           \/ /\ l.k = "group"
              /\ stack' = Front(stack) \o <<here(Top.i + 1), BlockFrame, LinesFrame(l.body)>>
              /\ UNCHANGED <<sh, ret>> /\ Quiet
           \/ /\ is_compound_start(l) /\ end # 0
              /\ stack' = Front(stack) \o
                    <<here(end + 1), BlockFrame, LinesFrame(SubSeq(Top.lines, Top.i, end))>>
              /\ UNCHANGED <<sh, ret>> /\ Quiet
           \/ /\ is_compound_start(l) /\ end = 0
              /\ LeaveSource(sh, 2)

\* `cmd; for ...` and `cmd && { ...; }` on one line: the part before has run,
\* the rest of the line follows without looking at signals or requests.
SourceHead ==
    /\ \/ /\ Answered("source", "semi")
          /\ stack' = Append(Front(stack), [Top EXCEPT !.ph = "line", !.i = @ + 1])
          /\ ret' = NoRet
       \/ /\ Answered("source", "opgroup")
          /\ LET l == Top.lines[Top.i]
                 run == (ret = 0) = (l.op = "and")
                 next == [Top EXCEPT !.ph = "cmd", !.i = @ + 1, !.cond = run /\ has_conditional(l)]
             IN  /\ stack' = Append(Front(stack), next) \o
                        (IF run THEN <<BlockFrame, LinesFrame(l.body)>> ELSE <<>>)
                 /\ ret' = IF run THEN NoRet ELSE ret
    /\ Set([sh EXCEPT !.rc = ret])
    /\ Quiet

\* build_command_list: a list cannot begin with && or ||.
Rejected(segs) == segs # <<>> /\ Head(segs).op \in {"and", "or"}

\* The line is done; ! negates the first pipeline.  What follows is executed as
\* a line of its own, with the connector in front.
SourceRet ==
    /\ Answered("source", "cmd")
    /\ ret' = NoRet
    /\ LET negated == IF ~Top.neg THEN ret ELSE IF ret = 0 THEN 1 ELSE 0
           done == [Top EXCEPT !.ph = "sig", !.neg = FALSE, !.tail = <<>>]
       IN  /\ Set([sh EXCEPT !.rc = IF Rejected(Top.tail) THEN 2 ELSE negated])
           /\ stack' = IF Top.tail = <<>> \/ Rejected(Top.tail) THEN Append(Front(stack), done)
                       ELSE Front(stack) \o <<[done EXCEPT !.ph = "cmd"], LineFrame(Top.tail)>>
    /\ Quiet

\* Requests left by the line, in the order they are looked at.
SourceFin ==
    /\ Running("source", "fin")
    /\ \/ /\ sh.RETURN_REQUESTED # None
          /\ LeaveSource([sh EXCEPT !.RETURN_REQUESTED = None], sh.RETURN_REQUESTED)
       \/ /\ sh.RETURN_REQUESTED = None /\ sh.NOUNSET_VIOLATION
          /\ LeaveSource([sh EXCEPT !.NOUNSET_VIOLATION = FALSE], 1)
       \/ /\ sh.RETURN_REQUESTED = None /\ ~sh.NOUNSET_VIOLATION /\ sh.EXIT_REQUESTED # None
          /\ LeaveSource([sh EXCEPT !.EXIT_REQUESTED = None], sh.EXIT_REQUESTED)
       \/ /\ sh.RETURN_REQUESTED = None /\ ~sh.NOUNSET_VIOLATION /\ sh.EXIT_REQUESTED = None
          /\ \/ /\ sh.ERREXIT /\ sh.rc # 0 /\ ~Top.cond
                /\ LeaveSource(sh, sh.rc)
             \/ /\ ~(sh.ERREXIT /\ sh.rc # 0 /\ ~Top.cond)
                /\ Goto("top") /\ UNCHANGED <<sh, ret>> /\ Quiet

Source == SourceTop \/ SourceTrapped \/ SourceLine \/ SourceHead \/ SourceRet
          \/ SourceSignal("sig", "fin") \/ SourceFin

-----------------------------------------------------------------------------
(***************************************************************************)
(* execute_line: segments joined by ;, && and ||                           *)
(***************************************************************************)

Seg == Top.segs[Top.i]
Step(fr) == [fr EXCEPT !.ph = "seg", !.i = @ + 1]
Advance(s) == stack' = Append(Front(stack), Step(Top)) /\ sh' = s /\ UNCHANGED ret

Skipped == (Seg.op = "and" /\ sh.rc # 0) \/ (Seg.op = "or" /\ sh.rc = 0)
\* Expansion fails: everything that is still to run is passed over.
Unbound == sh.NOUNSET_VIOLATION \/ Seg.cmd.c = "unbound"
\* The segment at the front is command c and is to be executed.
At(c) == /\ Running("line", "seg") /\ Top.i <= Len(Top.segs)
         /\ ~Skipped /\ ~Unbound /\ Seg.cmd.c = c

LineStep ==
    /\ Running("line", "seg")
    /\ \/ Top.i > Len(Top.segs) /\ Return(sh.rc) /\ UNCHANGED sh
       \/ Top.i <= Len(Top.segs) /\ Skipped /\ Advance(sh)
       \/ /\ Top.i <= Len(Top.segs) /\ ~Skipped /\ Unbound
          /\ Advance([sh EXCEPT !.NOUNSET_VIOLATION = TRUE, !.rc = 1])
    /\ Quiet

\* A failing segment with && or || on either side does not count for -e.
GuardedSeg ==
    \/ Seg.op \in {"and", "or"}
    \/ Top.i < Len(Top.segs) /\ Top.segs[Top.i + 1].op \in {"and", "or"}

\* An external command, run by execute_pipeline.
External ==
    /\ At("ext")
    /\ Len(trace) < MaxCmds
    /\ \E code \in Code :
        LET s == [sh EXCEPT !.rc = code]
        IN  /\ trace' = Append(trace, [id |-> Seg.cmd.id, code |-> code])
            /\ \/ /\ sh.RETURN_REQUESTED # None
                  /\ Return(code) /\ Set(s)
               \/ /\ sh.RETURN_REQUESTED = None /\ sh.ERREXIT /\ code # 0 /\ ~GuardedSeg
                  /\ Return(code) /\ Set([s EXCEPT !.EXIT_REQUESTED = code])
               \/ /\ sh.RETURN_REQUESTED = None /\ ~(sh.ERREXIT /\ code # 0 /\ ~GuardedSeg)
                  /\ Advance(s)
    /\ UNCHANGED <<program, sigs>>

\* A function body runs with its own positional parameters.
CallFunction ==
    /\ At("call")
    /\ stack' = Front(stack) \o
          <<[Top EXCEPT !.ph = "call", !.params = sh.params, !.mark = Len(sh.locals)],
            SourceFrame(Functions[Seg.cmd.id])>>
    /\ Set([sh EXCEPT !.rc = 0, !.params = Seg.cmd.n])
    /\ UNCHANGED ret /\ Quiet

\* Restores from the wrong end.
PopLocalsLast(s, mark) ==
    [s EXCEPT !.locals = SubSeq(@, 1, mark),
              !.env = IF Len(s.locals) > mark THEN Last(s.locals) ELSE @]

\* pop_locals_to(mark): the value the variable had before the first local is back.
PopLocals(s, mark) ==
    [s EXCEPT !.locals = SubSeq(@, 1, mark),
              !.env = IF Len(s.locals) > mark THEN s.locals[mark + 1] ELSE @]

CallReturns ==
    /\ Answered("line", "call")
    /\ Set([PopLocals(sh, Top.mark) EXCEPT !.params = Top.params, !.rc = ret,
                                           !.RETURN_REQUESTED = None])
    /\ stack' = Append(Front(stack), Step(Top)) /\ ret' = NoRet
    /\ Quiet

\* source FILE; with arguments it gets positional parameters of its own.
Dot ==
    /\ At("dot")
    /\ stack' = Front(stack) \o
          <<[Top EXCEPT !.ph = "dot", !.params = sh.params], SourceFrame(Functions[Seg.cmd.id])>>
    /\ Set([sh EXCEPT !.rc = 0, !.params = IF Seg.cmd.n > 0 THEN Seg.cmd.n ELSE @])
    /\ UNCHANGED ret /\ Quiet

DotReturns ==
    /\ Answered("line", "dot")
    /\ stack' = Append(Front(stack), Step(Top))
    /\ Set([sh EXCEPT !.rc = ret, !.params = IF Seg.cmd.n > 0 THEN Top.params ELSE @])
    /\ ret' = NoRet /\ Quiet

\* eval and command run their arguments as another line.
Eval ==
    /\ At("eval")
    /\ Call(LineFrame(Seg.cmd.segs), "eval")
    /\ UNCHANGED <<sh, ret>> /\ Quiet

EvalReturns ==
    /\ Answered("line", "eval")
    /\ Set([sh EXCEPT !.rc = ret])
    /\ \/ sh.RETURN_REQUESTED # None /\ Return(ret)
       \/ /\ sh.RETURN_REQUESTED = None
          /\ stack' = Append(Front(stack), Step(Top)) /\ ret' = NoRet
    /\ Quiet

Requested(s, code) == [s EXCEPT !.rc = code, !.RETURN_REQUESTED = code]

\* Builtins that touch the interpreter's state.
BuiltinState ==
    \/ At("assign") /\ Advance([sh EXCEPT !.env = Seg.cmd.n, !.rc = 0]) /\ Quiet
    \/ /\ At("local")
       /\ Advance([sh EXCEPT !.locals = Append(@, sh.env), !.env = Seg.cmd.n, !.rc = 0]) /\ Quiet
    \/ /\ At("shift")
       /\ Advance(IF sh.params = 0 THEN [sh EXCEPT !.rc = 1]
                  ELSE [sh EXCEPT !.params = @ - 1, !.rc = 0]) /\ Quiet
    \/ At("set_e") /\ Advance([sh EXCEPT !.ERREXIT = TRUE, !.rc = 0]) /\ Quiet
    \/ At("return") /\ Advance(Requested(sh, Seg.cmd.n)) /\ Quiet

\* break and continue as builtins: the flag is taken at once and turned into
\* the special code.
BuiltinFlow ==
    /\ \E c \in {"break", "continue"} :
        /\ At(c)
        /\ Set([sh EXCEPT !.LOOP_LEVEL = IF Seg.cmd.n > 1 THEN Seg.cmd.n ELSE 1, !.rc = 0])
        /\ Return(IF c = "break" THEN RC_BREAK ELSE RC_CONTINUE)
    /\ Quiet

\* exit ends the process: the subshell it runs in, or the shell.
Exit ==
    /\ At("exit")
    /\ LET j == CHOOSE j \in DOMAIN stack :
                    /\ stack[j].f \in {"fork", "main"}
                    /\ \A k \in j + 1 .. Len(stack) : stack[k].f \notin {"fork", "main"}
           fr == [stack[j] EXCEPT !.ph = IF stack[j].f = "fork" THEN "exit" ELSE "run"]
       IN  stack' = Append(SubSeq(stack, 1, j - 1), fr)
    /\ Set([sh EXCEPT !.rc = Seg.cmd.n])
    /\ ret' = Seg.cmd.n
    /\ Quiet

\* The child is gone and the parent goes on with its own state.  script_exit_fn
\* would run an EXIT trap in the child, if the child had one.
ForkReturns ==
    /\ \E ph \in {"wait", "exit", "bye"} : Answered("fork", ph)
    /\ LET trapped == Top.ph = "exit" /\ "EXIT" \in sh.TRAPS
       IN  /\ stack' = IF ~trapped THEN Front(stack)
                       ELSE Front(stack) \o
                            <<[Top EXCEPT !.ph = "bye", !.rc = ret], LineFrame(TrapLine)>>
           /\ ret' = IF trapped THEN NoRet ELSE IF Top.ph = "bye" THEN Top.rc ELSE ret
           /\ sh' = IF trapped THEN [sh EXCEPT !.TRAPS = @ \ {"EXIT"}] ELSE Top.shell
    /\ Quiet

Line == \/ LineStep \/ External \/ CallFunction \/ CallReturns \/ Dot \/ DotReturns
        \/ Eval \/ EvalReturns \/ BuiltinState \/ BuiltinFlow \/ Exit \/ ForkReturns

-----------------------------------------------------------------------------
(***************************************************************************)
(* compound.rs                                                             *)
(***************************************************************************)

\* execute_block: a break or continue that no loop took is a no-op.
Block ==
    /\ Answered("block", "run")
    /\ LET rc == IF ret \in {RC_BREAK, RC_CONTINUE} THEN 0 ELSE sh.rc
       IN  Set([sh EXCEPT !.rc = rc]) /\ Return(rc)
    /\ Quiet

LinesNext ==
    /\ Running("lines", "next")
    /\ \/ Top.i > Len(Top.lines) /\ Return(sh.rc) /\ UNCHANGED sh /\ Quiet
       \/ /\ Top.i <= Len(Top.lines)
          /\ LET l == Top.lines[Top.i]
                 end == find_block_end(Top.lines, Top.i)
             IN  \/ /\ l.k = "return"
                    /\ Set(Requested(sh, l.n)) /\ Return(RC_RETURN) /\ Quiet
                 \/ /\ l.k \in {"break", "continue"}
                    /\ Set([sh EXCEPT !.LOOP_LEVEL = IF l.n > 1 THEN l.n ELSE 1, !.rc = 0])
                    /\ Return(IF l.k = "break" THEN RC_BREAK ELSE RC_CONTINUE) /\ Quiet
                 \/ /\ is_compound_start(l) /\ end = 0
                    /\ Set([sh EXCEPT !.rc = 2]) /\ Return(2) /\ Quiet
                 \/ /\ is_compound_start(l) /\ end # 0
                    /\ stack' = Front(stack) \o
                          <<[Top EXCEPT !.ph = "blk", !.i = end + 1],
                            CompoundFrame(SubSeq(Top.lines, Top.i, end))>>
                    /\ UNCHANGED <<sh, ret>> /\ Quiet
                 \/ /\ ~is_compound_start(l) /\ l.k \notin {"return", "break", "continue"}
                    /\ stack' = Front(stack) \o
                          <<[Top EXCEPT !.ph = "cmd", !.i = @ + 1], LineFrame(Commands(l))>>
                    /\ UNCHANGED <<sh, ret>> /\ Quiet

\* Which results end the block: any loop code, and 130 from a simple command.
LinesRet ==
    /\ \E ph \in {"blk", "cmd"} :
        /\ Answered("lines", ph)
        /\ LET loop == ret \in {RC_BREAK, RC_CONTINUE}
           IN  /\ Set(IF loop /\ ph = "blk" THEN sh ELSE [sh EXCEPT !.rc = ret])
               /\ IF loop \/ (ph = "cmd" /\ ret = 130) THEN Return(ret)
                  ELSE Goto("next") /\ ret' = NoRet
    /\ Quiet

ExecIf ==
    /\ \/ /\ Running("if", "cond") /\ Top.i <= Len(Top.all.br)
          /\ Call(LineFrame(Top.all.br[Top.i].c), "got")
          /\ UNCHANGED <<sh, ret>>
       \/ /\ Running("if", "cond") /\ Top.i > Len(Top.all.br)
          /\ IF Top.all.els # <<>>
             THEN Call(LinesFrame(Top.all.els), "body") /\ UNCHANGED <<sh, ret>>
             ELSE Set([sh EXCEPT !.rc = 0]) /\ Return(0)
       \/ /\ Answered("if", "got")
          /\ Set([sh EXCEPT !.rc = ret])
          /\ ret' = NoRet
          /\ IF ret = 0 THEN Call(LinesFrame(Top.all.br[Top.i].b), "body")
             ELSE stack' = Append(Front(stack), [Top EXCEPT !.ph = "cond", !.i = @ + 1])
       \/ /\ Answered("if", "body")
          /\ Return(IF ret \in {RC_BREAK, RC_CONTINUE} THEN ret ELSE sh.rc)
          /\ UNCHANGED sh
    /\ Quiet

\* consume_loop_level, and what a loop does with the result of its body:
\* leave with a value, or go round again.
Consumed(s) == [s EXCEPT !.LOOP_LEVEL = IF @ > 1 THEN @ - 1 ELSE 1]

LoopRet(again) ==
    \/ /\ ret = RC_BREAK
       /\ Set(Consumed(sh))
       /\ Return(IF sh.LOOP_LEVEL > 1 THEN RC_BREAK ELSE sh.rc)
    \/ /\ ret \in {RC_RETURN, 130}
       /\ Return(ret) /\ UNCHANGED sh
    \/ /\ ret \notin {RC_BREAK, RC_RETURN, 130}
       /\ Goto(again) /\ ret' = NoRet /\ UNCHANGED sh

ExecFor ==
    /\ \/ /\ Running("for", "next") /\ Top.left > 0
          /\ stack' = Front(stack) \o
                <<[Top EXCEPT !.ph = "body", !.left = @ - 1], LinesFrame(Top.body)>>
          /\ UNCHANGED <<sh, ret>>
       \/ /\ Running("for", "none")
          /\ Return(0) /\ Set([sh EXCEPT !.rc = 0])
       \/ /\ Running("for", "next") /\ Top.left = 0
          /\ Return(sh.rc) /\ UNCHANGED sh
       \/ Answered("for", "body") /\ LoopRet("next")
    /\ Quiet

\* check_pending_trap at the head of every round, then the condition.  The
\* trap command works on a copy of last_rc.
ExecWhile ==
    /\ \/ /\ Running("while", "sig") /\ sh.PENDING = None
          /\ Call(LineFrame(Top.cond), "cond") /\ UNCHANGED <<sh, ret>>
       \/ /\ Running("while", "sig") /\ sh.PENDING # None /\ "TERM" \in sh.TRAPS
          /\ stack' = Front(stack) \o
                <<[Top EXCEPT !.ph = "trap", !.rc = sh.rc], LineFrame(TrapLine)>>
          /\ Set(Taken) /\ UNCHANGED ret
       \/ /\ Running("while", "sig") /\ sh.PENDING # None /\ "TERM" \notin sh.TRAPS
          /\ Return(128 + SIGTERM) /\ Set(Taken)
       \/ /\ Answered("while", "trap")
          /\ Call(LineFrame(Top.cond), "cond")
          /\ Set([sh EXCEPT !.rc = Top.rc]) /\ ret' = NoRet
       \/ /\ Answered("while", "cond")
          /\ IF (ret = 0) # Top.until
             THEN /\ Call(LinesFrame(Top.body), "body")
                  /\ ret' = NoRet /\ Set([sh EXCEPT !.rc = ret])
             ELSE Return(0) /\ Set([sh EXCEPT !.rc = 0])
       \/ Answered("while", "body") /\ LoopRet("sig")
    /\ Quiet

\* The result of the branch is dropped, except for return and Ctrl-C.
ExecCase ==
    /\ \/ /\ Running("case", "run")
          /\ IF Top.body = <<>> THEN Set([sh EXCEPT !.rc = 0]) /\ Return(0)
             ELSE Call(LinesFrame(Top.body), "got") /\ UNCHANGED <<sh, ret>>
       \/ /\ Answered("case", "got")
          /\ IF ret \in {RC_RETURN, 130} THEN Return(ret) /\ UNCHANGED sh
             ELSE Set([sh EXCEPT !.rc = 0]) /\ Return(0)
    /\ Quiet

Compound == Block \/ LinesNext \/ LinesRet \/ ExecIf \/ ExecFor \/ ExecWhile \/ ExecCase

-----------------------------------------------------------------------------
(***************************************************************************)
(* run_script_file: the EXIT trap runs once, whatever ended the script.    *)
(***************************************************************************)

Main ==
    /\ \/ /\ Answered("main", "run") /\ "EXIT" \in sh.TRAPS
          /\ stack' = <<[Top EXCEPT !.ph = "bye", !.rc = ret], LineFrame(TrapLine)>>
          /\ Set([sh EXCEPT !.TRAPS = @ \ {"EXIT"}, !.rc = ret]) /\ ret' = NoRet
       \/ /\ Answered("main", "run") /\ "EXIT" \notin sh.TRAPS
          /\ Return(ret) /\ UNCHANGED sh
       \/ /\ Answered("main", "bye")
          /\ Return(Top.rc) /\ UNCHANGED sh
    /\ Quiet

Next == Source \/ Line \/ Compound \/ Main \/ Signal

Spec == Init /\ [][Next]_vars

Ended == stack = <<>>

-----------------------------------------------------------------------------
(***************************************************************************)
(* Properties                                                              *)
(***************************************************************************)

\* Function locals and positional parameters (functions::call, `source` with
\* arguments) never outlive their function, however it is left: by its last
\* line, by return, by -e, by a signal or by an unset variable.
LocalsScoped ==
    (/\ Len(stack) > 1
     /\ stack[2].f = "source"
     /\ \A j \in DOMAIN stack : stack[j].ph \notin {"call", "dot"})
    => sh.locals = <<>> /\ sh.env = 0 /\ sh.params = 2

\* The EXIT trap (script.rs run_exit_trap) runs at most once and nothing runs
\* after it, whether the script ends, exits from a function or a subshell
\* exits before.
ExitTrapOnce ==
    LET traps == {j \in DOMAIN trace : trace[j].id = "trap"}
    IN  sigs = 0 => \A j \in traps : j = Len(trace)
=============================================================================
