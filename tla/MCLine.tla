------------------------------- MODULE MCLine --------------------------------
(***************************************************************************)
(* Lines with what they should do.  A line is put together from parts whose*)
(* meaning is known, and what has to be started follows from the parts.    *)
(***************************************************************************)
EXTENDS ShellLine

OutputOf(text) == From(trim(text), 6)   \* the command is always echo
FileNames == (<<".">> :> <<Chars(".h"), Chars("ab"), Chars("ac"), Chars("b")>>)
HomeDir == Chars("/r")
UnreadableNames == {Chars("u")}
FailingNames == {Chars("n")}
StartEnv == (Chars("x") :> Chars("one")) @@ (Chars("y") :> Chars("a b"))
StartDisk == (Chars("i") :> Chars("l m n\no\n"))

A(argv) == Entry("pipeline", <<argv>>, <<>>)
Plain(lines, want) == [lines |-> lines, env |-> StartEnv, disk |-> StartDisk,
                       want |-> want, fds |-> StdFds, about |-> "list"]
About(kind, cases) == {[c EXCEPT !.about = kind] : c \in cases}

-----------------------------------------------------------------------------
(* Words: how each part is written, and the fields it stands for.           *)

Part(written, fields) == [text |-> Chars(written), fields |-> [k \in DOMAIN fields |-> Chars(fields[k])]]
Ticked(t) == <<BQ>> \o Chars(t) \o <<BQ>>
Parts == {Part("ab", <<"ab">>), Part("'a b'", <<"a b">>), Part("\"a;b\"", <<"a;b">>),
          Part("'$x|*'", <<"$x|*">>), Part("\"it's\"", <<"it's">>), Part("\\;", <<";">>),
          Part("\"\\\"\\$\"", <<"\"$">>), Part("$y", <<"a", "b">>), Part("\"$y\"", <<"a b">>),
          Part("${x}", <<"one">>), Part("\"$x.\"", <<"one.">>), Part("$((2*3-1))", <<"5">>),
          Part("$(echo hi)", <<"hi">>), Part("${x#o}", <<"ne">>), Part("$#", <<"0">>)}
\* Parts that a quote may follow.
Closed1 == {p \in Parts : p.text[1] # "$"}
\* Two parts next to each other are one word, the last field of the one and the
\* first of the other joined.
Glued(p, q) == [text |-> p.text \o q.text,
                fields |-> Front(p.fields) \o <<Last(p.fields) \o q.fields[1]>> \o Tail(q.fields)]
Whole == {Part("{p,q}r", <<"pr", "qr">>), Part("a*", <<"ab", "ac">>), Part("'a*'", <<"a*">>),
          Part("[!a]", <<"b">>), Part("~", <<"/r">>), Part("a#b", <<"a#b">>),
          Part("{1..3}", <<"1", "2", "3">>)}
\* A ' in double quotes hides a command substitution after it (subst_from).
Hidden(p, q) == "'" \in Range(p.text) /\ p.text[1] = "\"" /\ StartsWith(q.text, Chars("$(e"))
Words == Parts \cup Whole \cup {Glued(pq[1], pq[2]) : pq \in {r \in Closed1 \X Parts : ~Hidden(r[1], r[2])}}
C(name, w) == <<Chars(name)>> \o w.fields
WordLine(w) == Chars("c ") \o w.text
WordCases == {Plain(<<WordLine(w)>>, <<A(C("c", w))>>) : w \in Words}

-----------------------------------------------------------------------------
(* Lists: a, which succeeds, and n, which fails, joined by ; && and ||.       *)

Conns == {";", " && ", " || "}
RECURSIVE ListText(_), ListRun(_, _, _)
ListText(l) == FoldLeft(LAMBDA t, e : t \o Chars(e.conn) \o e.text, <<>>, l)
\* What runs, from the left, with the status so far.
ListRun(l, rc, done) ==
    IF l = <<>> THEN done
    ELSE LET e == Head(l)
             skip == (e.conn = " && " /\ rc # 0) \/ (e.conn = " || " /\ rc = 0)
         IN  IF skip THEN ListRun(Tail(l), rc, done)
             ELSE ListRun(Tail(l), e.rc, done \o e.trace)
Item(conn, text, trace_, rc) == [conn |-> conn, text |-> Chars(text), trace |-> trace_, rc |-> rc]
CmdItems(conn) == {Item(conn, "a 'k;'", <<A(<<Chars("a"), Chars("k;")>>)>>, 0),
                   Item(conn, "n", <<A(<<Chars("n")>>)>>, 1),
                   Item(conn, "z=\"$x;\"", <<>>, 0)}
GroupItems(conn) ==
    {Item(conn, "{ a; n 2; }", <<A(<<Chars("a")>>), A(<<Chars("n"), Chars("2")>>)>>, 1),
     Item(conn, "(a; b)", <<Entry("subshell", <<<<Chars("a; b")>>>>, <<>>)>>, 0),
     Item(conn, "{ a ';'; } >o", <<A(<<Chars("a"), Chars(";")>>)>>, 0)}
Starts == CmdItems("") \cup GroupItems("")
Joined == UNION {CmdItems(c) : c \in Conns}
After == UNION {CmdItems(c) \cup GroupItems(c) : c \in Conns}
Lists ==
    {<<e>> : e \in Starts}
      \cup (CmdItems("") \X After)
      \cup (CmdItems("") \X Joined \X Joined)
      \cup (CmdItems("") \X Joined \X GroupItems(";"))
      \cup (GroupItems("") \X CmdItems(";"))
Negation(e) == <<[e EXCEPT !.text = Chars("! ") \o @, !.rc = 1 - @], Item(";", "c $?", <<A(<<Chars("c"), ToText(1 - e.rc)>>)>>, 0)>>
ListCases == {Plain(<<ListText(l)>>, ListRun(l, 0, <<>>)) :
                 l \in Lists \cup {Negation(e) : e \in CmdItems("")}}

-----------------------------------------------------------------------------
(* Arithmetic: two operators, applied in the order of their precedence.     *)

Prec == ("||" :> 1) @@ ("&&" :> 2) @@ ("|" :> 3) @@ ("^" :> 4) @@ ("&" :> 5) @@ ("<" :> 7)
        @@ ("-" :> 9) @@ ("+" :> 9) @@ ("*" :> 10) @@ ("/" :> 10) @@ ("%" :> 10) @@ ("**" :> 11)
ArithText(a, op1, b, op2, c) ==
    Chars("c $((") \o ToText(a) \o Chars(op1) \o ToText(b) \o Chars(op2) \o ToText(c) \o Chars("))")
\* The value of an operator in C, of operands that are values or <<>>: && and ||
\* need the second one only if the first does not decide.
Decides(op, u) == u # <<>> /\ ((op = "&&" /\ u[1] = 0) \/ (op = "||" /\ u[1] # 0))
Meaning(op, u, v) ==
    LET a == u[1]
        b == v[1]
        fits(n) == IF n \in (-Width - 1)..Width THEN <<n>> ELSE <<>>
    IN  IF Decides(op, u) THEN <<IF op = "||" THEN 1 ELSE 0>>
        ELSE IF u = <<>> \/ v = <<>> THEN <<>>
        ELSE CASE op \in {"/", "%"} /\ b = 0 -> <<>>
               [] op = "/" /\ b # 0 -> <<(IF a < 0 THEN -1 ELSE 1) * (Abs(a) \div b)>>
               [] op = "%" /\ b # 0 -> <<(IF a < 0 THEN -1 ELSE 1) * (Abs(a) % b)>>
               [] op = "+" -> fits(a + b) [] op = "-" -> fits(a - b) [] op = "*" -> fits(a * b)
               [] op = "<" -> <<IF a < b THEN 1 ELSE 0>>
               [] op \in {"&&", "||"} -> <<IF b # 0 THEN 1 ELSE 0>>
               [] op = "**" -> fits(a ^ b)
               [] op \in {"|", "^", "&"} -> <<Wrap(FoldLeft(LAMBDA n, k :
                    LET x == (Bits(a) \div 2^k) % 2
                        y == (Bits(b) \div 2^k) % 2
                        bit == CASE op = "|" -> Max({x, y}) [] op = "&" -> x * y [] OTHER -> (x + y) % 2
                    IN  n + bit * 2^k, 0, <<0, 1, 2, 3, 4>>))>>
\* From the left, except for the power.
LeftFirst(op1, op2) == Prec[op1] >= Prec[op2] /\ op2 # "**"
ArithValue(x) ==
    LET v == IF LeftFirst(x.op1, x.op2)
             THEN Meaning(x.op2, Meaning(x.op1, <<x.a>>, <<x.b>>), <<x.c>>)
             ELSE Meaning(x.op1, <<x.a>>, Meaning(x.op2, <<x.b>>, <<x.c>>))
    IN  IF v = <<>> THEN 0 ELSE v[1]
\* The side that is not evaluated in C has no value.
SkipsNoValue(x) ==
    ~LeftFirst(x.op1, x.op2) /\ Decides(x.op1, <<x.a>>) /\ Meaning(x.op2, <<x.b>>, <<x.c>>) = <<>>
Sums == {x \in [a : {-3, 2}, op1 : DOMAIN Prec, b : {1, 2}, op2 : DOMAIN Prec, c : {0, 3}] :
            ~SkipsNoValue(x) /\ ~(x.a < 0 /\ x.op1 = "**")}
ArithCases == {Plain(<<ArithText(x.a, x.op1, x.b, x.op2, x.c)>>,
                     <<A(<<Chars("c"), ToText(ArithValue(x))>>)>>) : x \in Sums}

-----------------------------------------------------------------------------
(* Redirections of a built-in, with descriptor 3 open and closed.           *)

RedirSet == {">a", "2>u", "3>a", "3<i", "<i", "2>&1", "1>&2", "3>&1", ">&-", "3>&-", "2>>b"}
RedirLine(rs) == FoldLeft(LAMBDA t, r : t \o Chars(" ") \o Chars(r), Chars(":"), rs)
Redirs == {rs \in UNION {[1..n -> RedirSet] : n \in 1..2} :
              ~({"3>&-"} \subseteq Range(rs) /\ Range(rs) \cap {"3>a", "3<i"} # {})}
          \cup {<<r, q, t>> : r \in {">a", "3>a", "<i"}, q \in {"2>&1", "3>&1", "1>&2"}, t \in {"2>&1", "3>&1", ">&-"}}
Open3 == Opened(StdFds, 3, Chars("c"))
RedirCases == {Plain(<<RedirLine(rs)>>, <<>>) : rs \in Redirs}
    \cup {[Plain(<<Chars("exec 3>c"), RedirLine(rs)>>, <<>>) EXCEPT !.fds = Open3] : rs \in Redirs}

-----------------------------------------------------------------------------
(* The same words in a group, a subshell or a block, and before one.        *)

In(pre, w, post) == Chars(pre) \o w.text \o Chars(post)
D == A(<<Chars("d"), Chars("1")>>)
Cmd(w) == A(C("c", w))
Sub(t) == Entry("subshell", <<<<t>>>>, <<>>)
Block(lines) == Entry("block", <<lines>>, <<>>)
If(t) == <<Chars("if a"), Chars("then"), t, Chars("fi")>>
\* A block is cut at an escaped ; too (split_semicolons).
Scanned == {w \in Words : Find(w.text, Chars("\\;")) = 0}
ScanCases == UNION {
    {Plain(<<In("c ", w, "; { d 1; }")>>, <<Cmd(w), D>>),
     Plain(<<In("c ", w, " && { d 1; }")>>, <<Cmd(w), D>>),
     Plain(<<In("(c ", w, "); d 1")>>, <<Sub(WordLine(w)), D>>),
     Plain(<<In("! c ", w, "; d 1")>>, <<Cmd(w), D>>),
     Plain(<<In("{ c ", w, "; } >o; d 1")>>, <<Cmd(w), D>>),
     Plain(<<In("if a; then c ", w, "; fi; d 1")>>, <<Block(Append(If(WordLine(w)), Chars("d 1")))>>),
     Plain(<<Chars("if a; then"), WordLine(w), Chars("fi")>>, <<Block(If(WordLine(w)))>>)} :
    w \in Scanned}

-----------------------------------------------------------------------------
(* Sessions: the commands that change how later lines are read.             *)

Fields(t) == SelectSeq(Pieces(t, 1, {k \in DOMAIN t : t[k] = " "}), LAMBDA f : f # <<>>)
Lines(ls) == [k \in DOMAIN ls |-> Chars(ls[k])]
Session(lines, want) == Plain(Lines(lines), [k \in DOMAIN want |-> A(Fields(Chars(want[k])))])
Sessions ==
    {Session(<<"alias ll='l -a' l='ls'", "ll b", "unalias ll", "ll b">>, <<"ls -a b", "ll b">>),
     Session(<<"alias a='a 1'", "a; b">>, <<"a 1", "b">>),
     Session(<<"alias -x", "c $?">>, <<"c 1">>),
     Session(<<"c 1", "d 2 3", "!!; e !$ '!!'", "!1", "!-3">>,
             <<"c 1", "d 2 3", "d 2 3", "e 3 !!", "c 1", "d 2 3">>),
     Session(<<"c 1", "history -c", "!1">>, <<"c 1">>),
     Session(<<"c a\\", "b">>, <<"c ab">>),
     Session(<<"", "c">>, <<"c">>),
     Session(<<"read p q <i", "c $q $p">>, <<"c m n l">>),
     Session(<<"{ read p; read q; } <i", "c $p $q">>, <<"c l m n o">>),
     Session(<<"read -n 3 p <i; c $p; read -r q <i; c $q">>, <<"c l m", "c l m n">>),
     Session(<<"set -- v w", "c $1 $#; shift; c $1; shift 2; c $?">>, <<"c v 2", "c w", "c 1">>),
     Session(<<"set -- -ab v w", "getopts ab: o; c $o $OPTIND", "getopts ab: o; c $o $OPTARG",
               "getopts ab: o || c $OPTIND">>, <<"c a 1", "c b v", "c 3">>),
     Session(<<"set -f; getopts :a: o -a; c $o $OPTARG; OPTIND=1; getopts q o -z; c $o">>, <<"c : a", "c ?">>),
     Session(<<"readonly r=1; r=2; c $r $?; unset r; c $r">>, <<"c 1 1", "c 1">>),
     Session(<<"export e=1; unset e; c ${e:-none}; c ${e:=k}; c $e">>, <<"c none", "c k", "c k">>),
     Session(<<"let z=2+3; c $z; let z-5 || c $?; c $((z+=4)) $z">>, <<"c 5", "c 1", "c 9 9">>),
     Session(<<"set -C; :>i; c $?; :>|i; c $?; set +C; :>i; c $?">>, <<"c 1", "c 0", "c 0">>),
     Session(<<"set -o noglob; c a*; set +o noglob; c b*; set -o bad; c $?">>, <<"c a*", "c b", "c 2">>),
     Session(<<"f() { d; }; c 1">>, <<"c 1">>),
     Session(<<"eval 'z=3; c $z'; command c 4; eval ''; c $?">>, <<"c 3", "c 4", "c 0">>),
     Session(<<"IFS=,; z=a,b; c $z">>, <<"c a b">>),
     Session(<<"c ${x/o/0} ${x//n/} ${#x} ${x%e}">>, <<"c 0ne oe 3 on">>),
     Session(<<"c 1; exit 3; c 2", "c 3">>, <<"c 1">>),
     Session(<<"c >u; c <o; c 2>&1 $?", "&& c", "c $?">>, <<"c 1", "c 2">>),
     Session(<<"{ c 1; } >u", "{ c 2", "(c", "c $?">>, <<"c 1", "c 2">>)}
Call(w) == Entry("function", <<Fields(Chars(w))>>, <<>>)
Special1 ==
    {Plain(Lines(<<"f() { d; }", "f 2; f">>), <<Call("f 2"), Call("f")>>),
     Plain(Lines(<<"g() {", "d", "}", "g 1">>), <<Call("g 1")>>),
     Plain(Lines(<<"cat <<E", "$x", "E", "c">>),
           <<Entry("pipeline", <<<<Chars("cat")>>>>, Chars("one\n")), A(<<Chars("c")>>)>>),
     Plain(Lines(<<"cat <<-'E'", "\t$x", "E">>),
           <<Entry("pipeline", <<<<Chars("cat")>>>>, Chars("$x\n"))>>),
     Plain(Lines(<<"while read z; do", "c $z", "done <i; d 1">>),
           <<Entry("block", <<Lines(<<"while read z", "do", "c $z", "done">>)>>, StartDisk[Chars("i")]), D>>),
     Plain(Lines(<<"a | b 'c|d' &">>),
           <<Entry("background", <<Fields(Chars("a")), Fields(Chars("b c|d"))>>, <<>>)>>),
     Plain(Lines(<<"set -e; n; c">>), <<A(<<Chars("n")>>)>>),
     Plain(<<Chars("c ") \o Ticked("echo t")>>, <<A(<<Chars("c"), Chars("t")>>)>>),
     Plain(Lines(<<"set -u; c $nope; c 1">>), <<>>),
     [Plain(Lines(<<"exec >o 3<i; exec 3>&-; c">>), <<A(<<Chars("c")>>)>>)
        EXCEPT !.fds = Opened(Opened(StdFds, 1, Chars("o")), 3, Chars("i"))]}
AllCases == About("words", WordCases \cup ScanCases) \cup About("arith", ArithCases)
            \cup ListCases \cup RedirCases \cup Sessions \cup Special1
=============================================================================
