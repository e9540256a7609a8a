------------------------------ MODULE MCInterp ------------------------------
(***************************************************************************)
(* The interpreter on small scripts.  Scripts are generated as trees; the  *)
(* reference below evaluates a tree directly, the model is given its       *)
(* lines.                                                                  *)
(***************************************************************************)
EXTENDS Interp

\* Constructors of trees.
Cmds(c) == [t |-> "line", neg |-> FALSE, c |-> c]
Not(c) == [t |-> "line", neg |-> TRUE, c |-> c]
Run(id) == Cmds(<<Start(Ext(id))>>)
Then(op, cmd) == [op |-> op, cmd |-> cmd]
Jump(k, n) == [t |-> "jump", k |-> k, n |-> n]
Builtin(c, n) == [c |-> c, n |-> n]
Invoke(f, n) == [c |-> "call", id |-> f, n |-> n]
If(id, b, e) == [t |-> "if", c |-> <<Start(Ext(id))>>, b |-> b, e |-> e]
For(n, b) == [t |-> "for", n |-> n, b |-> b]
While(k, id, b) == [t |-> k, c |-> <<Start(Ext(id))>>, b |-> b]
CaseOf(w, b) == [t |-> "case", w |-> w, b |-> b]
Semi(id) == [t |-> "semi", c |-> <<Start(Ext(id))>>]
OpGroup(id, op, b) == [t |-> "opgroup", op |-> op, c |-> <<Start(Ext(id))>>, b |-> b]
Sub(b) == [t |-> "sub", b |-> b]
Group(b) == [t |-> "group", b |-> b]

Kw(k) == <<[k |-> k]>>
RECURSIVE Flat(_, _)
Flat(ts, nested) ==
    IF ts = <<>> THEN <<>>
    ELSE LET x == Head(ts)
             one ==
               CASE x.t = "line" -> <<[k |-> "line", neg |-> x.neg, c |-> x.c]>>
                 [] x.t = "jump" -> IF nested THEN <<[k |-> x.k, n |-> x.n]>>
                                    ELSE <<[k |-> "line", neg |-> FALSE,
                                            c |-> <<Start(Builtin(x.k, x.n))>>]>>
                 [] x.t = "if" -> <<[k |-> "if", c |-> x.c]>> \o Kw("then") \o Flat(x.b, TRUE)
                                  \o (IF x.e = <<>> THEN <<>> ELSE Kw("else") \o Flat(x.e, TRUE))
                                  \o Kw("fi")
                 [] x.t = "for" -> <<[k |-> "for", n |-> x.n]>> \o Kw("do")
                                   \o Flat(x.b, TRUE) \o Kw("done")
                 [] x.t \in {"while", "until"} -> <<[k |-> x.t, c |-> x.c]>> \o Kw("do")
                                   \o Flat(x.b, TRUE) \o Kw("done")
                 [] x.t = "case" -> <<[k |-> "case", w |-> x.w]>>
                                   \o <<[k |-> "pat", p |-> "x"]>> \o Flat(x.b, TRUE) \o Kw(";;")
                                   \o <<[k |-> "pat", p |-> "y"]>> \o Flat(<<Run("z")>>, TRUE)
                                   \o Kw(";;") \o Kw("esac")
                 [] x.t = "semi" -> <<[k |-> "semi", c |-> x.c]>>
                 [] x.t = "opgroup" -> <<[k |-> "opgroup", op |-> x.op, c |-> x.c,
                                         body |-> Flat(x.b, TRUE)]>>
                 [] x.t = "sub" -> <<[k |-> "sub", body |-> Flat(x.b, FALSE)]>>
                 [] OTHER -> <<[k |-> "group", body |-> Flat(x.b, TRUE)]>>
         IN  one \o Flat(Tail(ts), nested)

-----------------------------------------------------------------------------
(* The scripts. *)

Jumps == {Jump("break", 1), Jump("break", 2), Jump("continue", 1)}
Small == {Run("a"), Cmds(<<Start(Ext("a")), Then("and", Builtin("break", 1))>>)} \cup Jumps
Inner == Small \cup {If("c", <<j>>, e) : j \in Jumps, e \in {<<>>, <<Run("b")>>}}
               \cup {For(2, <<x>>) : x \in {Run("a")} \cup Jumps}
               \cup {While("until", "c", <<Run("b"), x>>) : x \in Jumps}
               \cup {CaseOf(w, <<Run("a")>>) : w \in {"x", "y", "v"}}
LoopTrees == {<<For(2, <<x, Run("d")>>), Run("e")>> : x \in Inner}
        \cup {<<While("while", "w", <<x, Run("d")>>), Run("e")>> : x \in Inner}
ListTrees ==
    {<<Cmds(<<Start(Ext("a")), Then(o1, Ext("b")), Then(o2, Ext("d"))>>), Run("e")>> :
        o1, o2 \in {"and", "or", "seq"}}
    \cup {<<Cmds(<<Start(Builtin("set_e", 0))>>), Run("a"), Run("e")>>,
          <<Cmds(<<Start([c |-> "eval", segs |-> <<Start(Ext("a")), Then("and", Ext("b"))>>]),
                   Then("and", Ext("d"))>>), Run("e")>>}
OtherTrees ==
         {<<Not(<<Start(Ext("a"))>>), Run("e")>>,
          <<Not(<<Start(Ext("a")), Then("seq", Ext("b"))>>), Run("e")>>,
          <<Cmds(<<Start([c |-> "unbound"]), Then("or", Ext("a"))>>), Run("e")>>,
          <<Group(<<Run("a"), Jump("break", 1), Run("b")>>), Run("e")>>,
          <<For(0, <<Run("a")>>), Run("e")>>,
          <<Semi("a"), If("c", <<Run("b")>>, <<>>), Run("e")>>,
          <<OpGroup("a", "and", <<Run("b")>>), Run("e")>>,
          <<OpGroup("a", "or", <<Run("b")>>), Run("e")>>,
          <<Sub(<<Run("a"), Cmds(<<Start(Builtin("exit", 3)), Then("seq", Ext("b"))>>)>>), Run("e")>>}
CallTrees ==
    {<<Cmds(<<Start(Invoke(f, 1)), Then("and", Ext("d"))>>), Run("e")>> : f \in {"f", "g", "h", "w", "c", "v", "quit"}}
    \cup {<<Cmds(<<Start([c |-> "dot", id |-> f, n |-> n]), Then("and", Ext("d"))>>), Run("e")>> :
            f \in {"h", "s"}, n \in {3}}
    \cup {<<Cmds(<<Start([c |-> "dot", id |-> "h", n |-> 0]), Then("and", Ext("d"))>>), Run("e")>>}
Trees == LoopTrees \cup ListTrees \cup OtherTrees \cup CallTrees

\* A pipeline that is negated in a list, jumps that meet more than one construct
\* on their way, and an unset variable in a function.
NegatedTrees == {<<Not(<<Start(Ext("a")), Then(o, Ext("b"))>>), Run("e")>> : o \in {"and", "or"}}
JumpTrees ==
    {<<For(2, <<CaseOf("x", <<Jump(k, 1)>>), Run("d")>>), Run("e")>> : k \in {"break", "continue"}}
    \cup {<<For(2, <<For(2, <<Cmds(<<Start(Ext("a")), Then("and", Builtin("break", 1))>>)>>), Run("d")>>),
            Run("e")>>}
UnsetTrees == {<<Cmds(<<Start(Invoke("u", 1)), Then("and", Ext("d"))>>), Run("e")>>}

\* Scripts that stop short of their last line.
Cut == Front(Flat(<<For(2, <<If("c", <<Run("a")>>, <<>>)>>)>>, FALSE))
Truncated == {Cut, <<[k |-> "group", body |-> Cut]>>}

MCPrograms == {Flat(x, FALSE) : x \in Trees \cup NegatedTrees \cup JumpTrees \cup UnsetTrees} \cup Truncated

FunctionTrees ==
    [f |-> <<Cmds(<<Start(Builtin("local", 7))>>), Cmds(<<Start(Builtin("assign", 9)), Then("and", Ext("a"))>>),
             Cmds(<<Start(Ext("b")), Then("and", Builtin("return", 3))>>), Run("c")>>,
     g |-> <<Cmds(<<Start(Builtin("local", 5)), Then("seq", Builtin("local", 4)), Then("seq", Builtin("shift", 0)),
                    Then("seq", Builtin("shift", 0))>>),
             Cmds(<<Start(Invoke("f", 2)), Then("or", Ext("b"))>>)>>,
     h |-> <<For(2, <<Run("a"), Jump("return", 0)>>), Run("b")>>,
     s |-> <<Cmds(<<Start(Builtin("shift", 0)), Then("and", Ext("a"))>>), Jump("return", 1), Run("b")>>,
     w |-> <<While("while", "a", <<Run("b"), Jump("return", 0)>>), Run("c")>>,
     c |-> <<CaseOf("x", <<Run("a"), Jump("return", 2)>>), Run("b")>>,
     v |-> <<Cmds(<<Start([c |-> "eval", segs |-> <<Start(Ext("a")), Then("and", Builtin("return", 5))>>]),
                    Then("seq", Ext("b"))>>), Run("c")>>,
     u |-> <<Cmds(<<Start(Builtin("local", 8)), Then("seq", [c |-> "unbound"])>>), Run("c")>>,
     quit |-> <<Cmds(<<Start(Builtin("local", 6))>>), Cmds(<<Start(Builtin("exit", 4))>>), Run("b")>>]
MCFunctions == [f \in DOMAIN FunctionTrees |-> Flat(FunctionTrees[f], FALSE)]

\* The parts of the texts of T that are run by themselves, and theirs.
Inside(t, i) ==
    LET l == t[i]
        slice == SubSeq(t, i, find_block_end(t, i))
        inner == IF l.k = "if" THEN {Branches(slice).els} \cup {x.b : x \in Range(Branches(slice).br)}
                 ELSE {IF l.k = "case" THEN CaseBody(slice) ELSE LoopBody(slice)}
    IN  (IF l.k \in {"sub", "group", "opgroup"} THEN {l.body} ELSE {})
        \cup (IF is_compound_start(l) /\ BlockEnd(t, i) # 0
              THEN {SubSeq(t, i, BlockEnd(t, i))} ELSE {})
        \cup (IF is_compound_start(l) /\ find_block_end(t, i) # 0 THEN inner ELSE {})
RECURSIVE PartsOf(_, _)
PartsOf(T, all) ==
    LET more == (UNION {UNION {Inside(t, i) : i \in DOMAIN t} : t \in T}) \ all
    IN  IF more = {} THEN all ELSE PartsOf(more, all \cup more)
Whole == MCPrograms \cup Range(MCFunctions)
MCTexts == PartsOf(Whole, Whole)
OnLine(l) ==
    (IF l.k \in {"line", "semi", "opgroup", "if", "while", "until"} THEN {l.c} ELSE {Commands(l)})
    \cup (IF l.k = "line" /\ l.neg THEN {<<Head(l.c)>>, Tail(l.c)} ELSE {})
    \cup (IF l.k \in {"semi", "opgroup"} THEN {Commands(l)} ELSE {})
Typed == UNION {UNION {OnLine(t[i]) : i \in DOMAIN t} : t \in MCTexts}
MCLists == Typed \cup {seg.cmd.segs : seg \in {s \in UNION {Range(c) : c \in Typed} : s.cmd.c = "eval"}}

-----------------------------------------------------------------------------
(***************************************************************************)
(* Reference: what the tree means, given the codes the commands return.    *)
(* s.esc says how the evaluation is leaving a construct, s.n how many      *)
(* loops it still leaves, s.d how many it is in.                           *)
(***************************************************************************)
Say(s, id) ==
    IF s.codes = <<>> THEN [s EXCEPT !.esc = "cut"]
    ELSE [s EXCEPT !.ids = Append(@, id), !.rc = Head(s.codes), !.codes = Tail(s.codes)]
Leave(s, how, n, rc) == [s EXCEPT !.esc = how, !.n = n, !.rc = rc]
Settled(s, how) == IF s.esc = how THEN [s EXCEPT !.esc = "no"] ELSE s

RECURSIVE RunTree(_, _), RunSegs(_, _, _)
RunSegs(segs, j, s) ==
    IF s.esc # "no" \/ j > Len(segs) THEN s
    ELSE LET cmd == segs[j].cmd
             skip == (segs[j].op = "and" /\ s.rc # 0) \/ (segs[j].op = "or" /\ s.rc = 0)
             inner(x) == [Settled(RunTree(x, [s EXCEPT !.rc = 0, !.d = 0]), "return") EXCEPT !.d = s.d]
             alone == /\ segs[j].op \in {"start", "seq"}
                      /\ (j = Len(segs) \/ segs[j + 1].op \in {"start", "seq"})
             done == CASE cmd.c = "ext" -> Say(s, cmd.id)
                       [] cmd.c \in {"call", "dot"} -> inner(FunctionTrees[cmd.id])
                       [] cmd.c = "eval" -> RunSegs(cmd.segs, 1, s)
                       [] cmd.c \in {"break", "continue"} -> Leave(s, cmd.c, cmd.n, 0)
                       [] cmd.c \in {"return", "exit"} -> Leave(s, cmd.c, 0, cmd.n)
                       [] cmd.c = "unbound" -> Leave(s, "exit", 0, 1)
                       [] cmd.c = "set_e" -> [s EXCEPT !.e = TRUE, !.rc = 0]
                       [] OTHER -> [s EXCEPT !.rc = 0]
             checked == IF done.esc = "no" /\ done.e /\ alone /\ done.rc # 0
                        THEN [done EXCEPT !.esc = "exit"] ELSE done
         IN  RunSegs(segs, j + 1, IF skip THEN s ELSE checked)

RECURSIVE Rounds(_, _, _)
\* x.n rounds of a for, or as long as the condition of a while says so.
Rounds(x, k, s) ==
    LET test == IF x.t = "for" THEN s ELSE RunSegs(x.c, 1, s)
        more == IF x.t = "for" THEN k <= x.n
                ELSE (test.rc = 0) = (x.t = "while")
        body == [RunTree(x.b, [test EXCEPT !.d = @ + 1]) EXCEPT !.d = s.d]
        left == IF body.n > 1 /\ s.d > 0 THEN [body EXCEPT !.n = @ - 1]
                ELSE [body EXCEPT !.esc = "no"]
    IN  CASE test.esc # "no" -> test
          [] test.esc = "no" /\ ~more -> IF x.t = "for" THEN s ELSE [test EXCEPT !.rc = 0]
          [] body.esc = "break" /\ test.esc = "no" /\ more -> left
          [] body.esc \in {"return", "exit", "cut"} /\ test.esc = "no" /\ more -> body
          [] OTHER -> Rounds(x, k + 1, Settled(body, "continue"))

RunTree(ts, s) ==
    IF ts = <<>> \/ s.esc # "no" THEN s
    ELSE LET x == Head(ts)
             cond == RunSegs(x.c, 1, s)
             done ==
               CASE x.t = "semi" \/ (x.t = "line" /\ ~x.neg) -> RunSegs(x.c, 1, s)
                 [] x.t = "opgroup" ->
                      IF cond.esc = "no" /\ (cond.rc = 0) = (x.op = "and") THEN RunTree(x.b, cond) ELSE cond
                 [] x.t = "line" /\ x.neg ->
                      LET first == RunSegs(<<Head(x.c)>>, 1, [s EXCEPT !.e = FALSE])
                      IN  RunSegs(Tail(x.c), 1,
                                  [first EXCEPT !.rc = IF @ = 0 THEN 1 ELSE 0, !.e = s.e])
                 [] x.t = "jump" -> Leave(s, x.k, x.n, IF x.k = "return" THEN x.n ELSE 0)
                 [] x.t = "if" ->
                      IF cond.esc # "no" THEN cond
                      ELSE IF cond.rc = 0 THEN RunTree(x.b, cond)
                      ELSE IF x.e # <<>> THEN RunTree(x.e, cond) ELSE [cond EXCEPT !.rc = 0]
                 [] x.t \in {"for", "while", "until"} ->
                      IF x.t = "for" /\ x.n = 0 THEN [s EXCEPT !.rc = 0] ELSE Rounds(x, 1, s)
                 [] x.t = "case" ->
                      LET b == RunTree(CASE x.w = "x" -> x.b [] x.w = "y" -> <<Run("z")>> [] OTHER -> <<>>, s)
                      IN  IF b.esc = "no" THEN [b EXCEPT !.rc = 0] ELSE b
                 [] x.t = "sub" -> Settled(RunTree(x.b, [s EXCEPT !.rc = 0]), "exit")
                 [] OTHER -> LET b == RunTree(x.b, s)
                             IN  IF b.esc \in {"break", "continue"} THEN [b EXCEPT !.esc = "no", !.rc = 0]
                                 ELSE b
         IN  RunTree(Tail(ts), done)

Ran == SelectSeq(trace, LAMBDA x : x.id # "trap")
Codes == [j \in DOMAIN Ran |-> Ran[j].code]
Reference(tree) ==
    RunTree(tree, [codes |-> Codes, ids |-> <<>>, rc |-> 0, esc |-> "no", n |-> 0, d |-> 0,
                   e |-> sh.ERREXIT])
Conforms(tree) ==
    LET r == Reference(tree)
    IN  /\ r.ids = [j \in DOMAIN Ran |-> Ran[j].id]
        /\ sigs = 0 => r.rc = ret

\* Control flow is that of the tree: whether each command succeeds or fails,
\* exactly the commands the reference gives run, in its order, and the script's
\* status is the reference's (run_source, exec_lines, the loops).  Trapped
\* signals make no difference to the commands run, except that the trap's status
\* replaces that of a function it interrupts.  Under -e this is claimed of && and
\* || lists only.  It is not claimed, since the code does otherwise, of commands that
\* return one of the codes kept for jumps and Ctrl-C, of a negated pipeline that
\* && or || follows, and of jumps out of a case or out of the second of two loops
\* in an && list (NegatedTrees, JumpTrees).
MatchesReference ==
    (Ended /\ (sigs = 0 \/ "TERM" \in sh.TRAPS)) =>
        \A tree \in Trees :
            (/\ Flat(tree, FALSE) = program
             /\ sh.ERREXIT => tree \in ListTrees
             /\ sigs > 0 => tree \notin CallTrees) => Conforms(tree)

=============================================================================
