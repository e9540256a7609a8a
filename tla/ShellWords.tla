----------------------------- MODULE ShellWords ------------------------------
(***************************************************************************)
(* From a line to its commands (shell/tokenizer.rs and parser.rs).          *)
(*                                                                         *)
(* A text is a sequence of characters.  A word of a token also holds the   *)
(* marks by which the tokenizer tells the expander what was quoted.        *)
(***************************************************************************)
EXTENDS Integers, Sequences, FiniteSets, SequencesExt

GE == "GLOB_ESCAPE"
NS == "NO_SPLIT_ESCAPE"
SP == "SPLIT_ESCAPE"
BQ == "backquote"

Chars(s) == [k \in 1..Len(s) |-> SubSeq(s, k, k)]
Digits   == Chars("0123456789")
Letters  == Chars("abcdefghijklmnopqrstuvwxyz")
Digit    == Range(Digits)
NameChar == Range(Letters) \cup Range(Chars("ABCDEFGHIJKLMNOPQRSTUVWXYZ_")) \cup Digit
Blank    == {" ", "\t"}
DigitVal(c) == (CHOOSE k \in 1..10 : Digits[k] = c) - 1

\* The letters from c to d.
InRange(c, d) == {Letters[k] : k \in {m \in DOMAIN Letters :
                    /\ \E i \in 1..m : Letters[i] = c
                    /\ \E j \in m..Len(Letters) : Letters[j] = d}}

At(s, i) == IF i \in DOMAIN s THEN s[i] ELSE ""
From(s, i) == SubSeq(s, i, Len(s))

-----------------------------------------------------------------------------
(* The tokenizer.                                                           *)

push_literal(st, c) ==
    [st EXCEPT !.cur = @ \o (IF ~st.ad /\ c \in {"*", "?", "[", "{", "}"} THEN <<GE, c>>
                             ELSE <<c>>),
               !.ad = (c = "$")]

push_escaped(st, c) ==
    IF c = "$" THEN [st EXCEPT !.cur = @ \o <<GE, "$">>, !.ad = FALSE]
    ELSE push_literal(st, c)

\* The position after a group opened before i, with its nesting and quotes; the
\* end of the line when the group is not closed.
RECURSIVE captured(_, _, _, _, _, _)
captured(s, i, depth, q, open, close) ==
    LET c == At(s, i)
        go(d, r) == captured(s, i + 1, d, r, open, close)
    IN  IF c = "" THEN i
        ELSE CASE q = "'" -> go(depth, IF c = "'" THEN "" ELSE q)
               [] c = "\\" -> IF At(s, i + 1) = "" THEN i + 1
                              ELSE captured(s, i + 2, depth, q, open, close)
               [] q = "\"" -> go(depth, IF c = "\"" THEN "" ELSE q)
               [] q = "" /\ c \in {"'", "\""} -> go(depth, c)
               [] q = "" /\ c = open -> go(depth + 1, q)
               [] q = "" /\ c = close -> IF depth = 1 THEN i + 1 ELSE go(depth - 1, q)
               [] OTHER -> go(depth, q)

\* The position after a backquoted text that starts before i.
RECURSIVE backquoted(_, _)
backquoted(s, i) ==
    CASE At(s, i) = ""   -> i
      [] At(s, i) = BQ  -> i + 1
      [] At(s, i) = "\\" /\ At(s, i + 1) # "" -> backquoted(s, i + 2)
      [] OTHER -> backquoted(s, i + 1)

flush_word(st) ==
    IF st.in THEN [st EXCEPT !.toks = Append(@, <<"word", st.cur>>), !.cur = <<>>,
                             !.in = FALSE]
    ELSE st

Emit(st, t) == LET f == flush_word(st) IN [f EXCEPT !.toks = Append(@, t)]

\* read_fd: the position after the digits, and the number if there is one.
RECURSIVE DigitsEnd(_, _)
DigitsEnd(s, i) == IF At(s, i) \in Digit THEN DigitsEnd(s, i + 1) ELSE i
read_fd(s, i) ==
    [next |-> DigitsEnd(s, i),
     fd |-> IF DigitsEnd(s, i) = i + 1 THEN DigitVal(s[i]) ELSE -1]

\* What follows N>& or N<&: a close, a duplicate, or the token that is left when
\* there is no number.
after_ampersand(s, i, fd, otherwise) ==
    IF At(s, i) = "-" THEN [tok |-> <<"close", fd>>, next |-> i + 1]
    ELSE [tok |-> IF read_fd(s, i).fd >= 0 THEN <<"dup", fd, read_fd(s, i).fd>>
                  ELSE otherwise,
          next |-> read_fd(s, i).next]

\* The operator at i, and the position after it.  A digit is a descriptor when
\* < or > follows it.
operator(s, i) ==
    LET c == s[i]
        n == At(s, i + 1)
        one(t) == [tok |-> t, next |-> i + 1]
        two(t) == [tok |-> t, next |-> i + 2]
        three(t) == [tok |-> t, next |-> i + 3]
    IN  CASE c \in Digit /\ At(s, i + 2) = "&" ->
               after_ampersand(s, i + 3, DigitVal(c),
                    IF n = "<" THEN <<"fdin", DigitVal(c)>>
                    ELSE <<"fdout", DigitVal(c), FALSE>>)
          [] c \in Digit /\ n = ">" /\ At(s, i + 2) = ">" ->
               three(CASE c = "1" -> <<"append">> [] c = "2" -> <<"errappend">>
                       [] OTHER -> <<"fdout", DigitVal(c), TRUE>>)
          [] c \in Digit /\ n = "<" /\ At(s, i + 2) # "&" ->
               two(IF c = "0" THEN <<"in">> ELSE <<"fdin", DigitVal(c)>>)
          [] c \in Digit /\ n = ">" /\ At(s, i + 2) \notin {"&", ">"} ->
               two(CASE c = "1" -> <<"out">> [] c = "2" -> <<"err">>
                     [] OTHER -> <<"fdout", DigitVal(c), FALSE>>)
          [] c = ">" -> (CASE n = "&" -> after_ampersand(s, i + 2, 1, <<"out">>)
                          [] n = ">" -> two(<<"append">>)
                          [] n = "|" -> two(<<"force">>)
                          [] OTHER   -> one(<<"out">>))
          [] c = "<" -> (CASE n = "<" /\ At(s, i + 2) = "<" -> three(<<"herestring">>)
                          [] n = "<" /\ At(s, i + 2) # "<" -> two(<<"heredoc">>)
                          [] n = ">" -> two(<<"inout">>)
                          [] n = "&" -> after_ampersand(s, i + 2, 0, <<"in">>)
                          [] OTHER   -> one(<<"in">>))
          [] c = "|" -> (CASE n = "|" -> two(<<"or">>) [] n = "&" -> two(<<"pipeboth">>)
                          [] OTHER -> one(<<"pipe">>))
          [] c = "&" -> (CASE n = "&" -> two(<<"and">>)
                          [] n = ">" /\ At(s, i + 2) = ">" -> three(<<"bothappend">>)
                          [] n = ">" /\ At(s, i + 2) # ">" -> two(<<"both">>)
                          [] OTHER -> one(<<"bg">>))
          [] c = ";" -> one(<<"semi">>)

is_operator(s, i) ==
    \/ s[i] \in {">", "<", "|", "&", ";"}
    \/ s[i] \in Digit /\ At(s, i + 1) \in {"<", ">"}

\* The end of a double-quoted part: a name at its end is kept apart from what
\* follows.
close_dquote(st) ==
    LET marks == {"$", NS, SP, GE}
        last == {k \in DOMAIN st.cur : st.cur[k] \in marks}
        tail == IF last = {} THEN st.cur
                ELSE From(st.cur, 1 + CHOOSE k \in last : \A m \in last : m <= k)
        mark == tail # <<>> /\ Range(tail) \subseteq NameChar /\ "$" \in Range(st.cur)
    IN  [st EXCEPT !.q = "", !.in = TRUE, !.cur = @ \o (IF mark THEN <<NS>> ELSE <<>>)]

RECURSIVE ansi_quoted(_, _, _)
\* $'...': up to the quote, with the escapes decoded (the ones that stand for a
\* single character of the model's alphabet).
ansi_quoted(s, i, st) ==
    CASE At(s, i) = "" -> [st |-> st, next |-> i]
      [] At(s, i) = "'" -> [st |-> st, next |-> i + 1]
      [] At(s, i) = "\\" -> IF At(s, i + 1) = "" THEN [st |-> st, next |-> i + 1]
                            ELSE ansi_quoted(s, i + 2, push_escaped(st, IF s[i + 1] = "n"
                                                               THEN "\n" ELSE s[i + 1]))
      [] OTHER -> ansi_quoted(s, i + 1, push_escaped(st, s[i]))

RECURSIVE tok(_, _, _)
tok(s, i, st) ==
    LET c == At(s, i)
        n == At(s, i + 1)
        copy(e) == tok(s, e, [st EXCEPT !.cur = @ \o SubSeq(s, i, e - 1), !.in = TRUE])
    IN  IF c = "" THEN flush_word(st).toks
        ELSE CASE st.q = "'" ->
               tok(s, i + 1, IF c = "'" THEN [st EXCEPT !.q = "", !.in = TRUE]
                             ELSE [push_escaped(st, c) EXCEPT !.in = TRUE])
          [] st.q = "\"" ->
              (CASE c = "\"" -> tok(s, i + 1, close_dquote(st))
                 [] c = "$" -> tok(s, i + 1, [st EXCEPT !.cur = @ \o <<NS, "$">>, !.ad = TRUE])
                 [] c = "\\" /\ n \in {"$", BQ, "\"", "\\"} -> tok(s, i + 2, push_escaped(st, n))
                 [] c = "\\" /\ n = "\n" -> tok(s, i + 2, st)
                 [] c = "\\" /\ n \notin {"$", BQ, "\"", "\\", "\n"} ->
                      tok(s, i + 1, [st EXCEPT !.cur = Append(@, "\\")])
                 [] OTHER -> tok(s, i + 1, push_literal(st, c)))
          [] st.q = "" ->
               CASE c = "#" /\ ~st.in -> flush_word(st).toks
                 [] c = "{" /\ ~st.in -> copy(captured(s, i + 1, 1, "", "{", "}"))
                 [] c = "(" /\ ~st.in -> copy(captured(s, i + 1, 1, "", "(", ")"))
                 [] c = "$" /\ n = "(" -> copy(captured(s, i + 2, 1, "", "(", ")"))
                 [] c = BQ -> copy(backquoted(s, i + 1))
                 [] c = "$" /\ n = "'" ->
                      LET q == ansi_quoted(s, i + 2, st)
                      IN  tok(s, q.next, [q.st EXCEPT !.in = TRUE])
                 [] c = "$" /\ n \notin {"(", "'"} ->
                      tok(s, i + 1, [st EXCEPT !.cur = @ \o <<SP, "$">>, !.ad = TRUE, !.in = TRUE])
                 [] c = "\\" -> IF n \in {"", "\n"} THEN tok(s, i + 2, st)
                                ELSE tok(s, i + 2, [push_escaped(st, n) EXCEPT !.in = TRUE])
                 [] c \in {"'", "\""} -> tok(s, i + 1, [st EXCEPT !.q = c, !.in = TRUE])
                 [] is_operator(s, i) -> tok(s, operator(s, i).next, Emit(st, operator(s, i).tok))
                 [] c \in Blank -> tok(s, i + 1, flush_word(st))
                 [] OTHER -> tok(s, i + 1, [st EXCEPT !.cur = Append(@, c), !.in = TRUE])

tokenize(s) == tok(s, 1, [cur |-> <<>>, q |-> "", in |-> FALSE, ad |-> FALSE, toks |-> <<>>])

-----------------------------------------------------------------------------
(* The parser.                                                              *)

None == <<"none">>
SimpleCmd == [argv |-> <<>>, in |-> None, here |-> None, out |-> None, err |-> None,
              rw |-> None, force |-> FALSE, dups |-> <<>>, closes |-> <<>>, fds |-> <<>>]

\* flush_pipeline: a command without words is dropped, and its redirections stay
\* with whatever comes next.
flush_pipeline(st) ==
    LET cmds == IF st.cur.argv = <<>> THEN st.cmds ELSE Append(st.cmds, st.cur)
        cur  == IF st.cur.argv = <<>> THEN st.cur ELSE SimpleCmd
    IN  IF cmds = <<>> /\ ~st.bg THEN [st EXCEPT !.cur = cur]
        ELSE [st EXCEPT !.segs = Append(@, [cmds |-> cmds, bg |-> st.bg, conn |-> st.conn]),
                        !.cmds = <<>>, !.cur = cur, !.bg = FALSE, !.conn = "seq"]

\* The redirection t with the file f.
redirected(cmd, t, f) ==
    CASE t[1] = "out"     -> [cmd EXCEPT !.out = <<f, FALSE>>]
      [] t[1] = "append"  -> [cmd EXCEPT !.out = <<f, TRUE>>]
      [] t[1] = "force"   -> [cmd EXCEPT !.out = <<f, FALSE>>, !.force = TRUE]
      [] t[1] = "in"      -> [cmd EXCEPT !.in = <<f>>]
      [] t[1] = "heredoc" -> [cmd EXCEPT !.here = <<f>>]
      [] t[1] = "err"     -> [cmd EXCEPT !.err = <<f, FALSE>>]
      [] t[1] = "errappend" -> [cmd EXCEPT !.err = <<f, TRUE>>]
      [] t[1] \in {"both", "bothappend"} ->
            [cmd EXCEPT !.out = <<f, t[1] = "bothappend">>, !.err = <<f, t[1] = "bothappend">>]
      [] t[1] = "inout"   -> [cmd EXCEPT !.rw = <<f>>]
      [] t[1] = "fdout"   -> [cmd EXCEPT !.fds = Append(@, <<"out", t[2], f, t[3]>>)]
      [] t[1] = "fdin"    -> [cmd EXCEPT !.fds = Append(@, <<"in", t[2], f, FALSE>>)]

FileTokens == {"out", "append", "force", "in", "heredoc", "err", "errappend", "both",
               "bothappend", "inout", "fdout", "fdin"}

\* Mutant of connect: the connector is set before the pipeline is flushed.
connect_first(st, conn) == flush_pipeline([st EXCEPT !.conn = conn])
connect(st, conn) == [flush_pipeline(st) EXCEPT !.conn = conn]

SyntaxError == [error |-> TRUE, segs |-> <<>>]

RECURSIVE parse(_, _, _)
parse(toks, i, st) ==
    IF i > Len(toks) THEN [error |-> FALSE, segs |-> flush_pipeline(st).segs]
    ELSE
    LET t == toks[i]
        nothing == st.cur.argv = <<>> /\ st.cmds = <<>>
    IN  CASE t[1] = "word" -> parse(toks, i + 1, [st EXCEPT !.cur.argv = Append(@, t[2])])
          [] t[1] \in FileTokens ->
               IF i < Len(toks) /\ toks[i + 1][1] = "word"
               THEN parse(toks, i + 2, [st EXCEPT !.cur = redirected(@, t, toks[i + 1][2])])
               ELSE SyntaxError
          [] t[1] = "dup" -> parse(toks, i + 1, [st EXCEPT !.cur.dups = Append(@, <<t[2], t[3]>>)])
          [] t[1] = "close" -> parse(toks, i + 1, [st EXCEPT !.cur.closes = Append(@, t[2])])
          [] t[1] \in {"herestring", "pipeboth"} -> SyntaxError
          [] t[1] = "pipe" -> IF st.cur.argv = <<>> THEN SyntaxError
                              ELSE parse(toks, i + 1, [st EXCEPT !.cmds = Append(@, st.cur),
                                                                 !.cur = SimpleCmd])
          [] t[1] = "semi" -> parse(toks, i + 1, connect(st, "seq"))
          [] t[1] \in {"and", "or"} -> IF nothing THEN SyntaxError
                                       ELSE parse(toks, i + 1, connect(st, t[1]))
          [] t[1] = "bg" -> IF nothing THEN SyntaxError
                            ELSE parse(toks, i + 1, connect([st EXCEPT !.bg = TRUE], "seq"))

build_command_list(toks) ==
    parse(toks, 1, [segs |-> <<>>, cmds |-> <<>>, cur |-> SimpleCmd, bg |-> FALSE,
                    conn |-> "start"])
=============================================================================
