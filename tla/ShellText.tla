------------------------------ MODULE ShellText ------------------------------
(***************************************************************************)
(* What the shell decides about a line before it tokenizes it: the scans   *)
(* of shell/script.rs, shell/mod.rs and shell/compound.rs for separators,  *)
(* groups, keywords, here-documents and continuations.                     *)
(*                                                                         *)
(* Each scan has its own idea of what quotes a character: whether          *)
(* backquotes count, and whether a backslash outside quotes does.          *)
(***************************************************************************)
EXTENDS ShellWords

RECURSIVE Bare(_, _, _, _, _), SkipBlanks(_, _), Pieces(_, _, _)

\* The positions of s, from i on, that a scan looks at outside quotes.
Bare(s, i, q, bt, esc) ==
    LET c == At(s, i)
        go(r) == Bare(s, i + 1, r, bt, esc)
    IN  CASE c = "" -> {}
          [] q = "'" -> go(IF c = "'" THEN "" ELSE q)
          [] q \in {"\"", BQ} -> IF c = "\\" THEN Bare(s, i + 2, q, bt, esc)
                                 ELSE go(IF c = q THEN "" ELSE q)
          [] q = "" /\ (c \in {"'", "\""} \/ (bt /\ c = BQ)) -> go(c)
          [] q = "" /\ c = "\\" /\ esc -> Bare(s, i + 2, q, bt, esc)
          [] OTHER -> {i} \cup go(q)

Unquoted(s)     == Bare(s, 1, "", FALSE, TRUE)   \* quotes and backslashes
UnquotedBare(s) == Bare(s, 1, "", FALSE, FALSE)  \* quotes
UnquotedTick(s) == Bare(s, 1, "", TRUE, FALSE)   \* quotes and backquotes
UnquotedAll(s)  == Bare(s, 1, "", TRUE, TRUE)    \* all three

\* How deep position i is in the brackets that open and close at positions of b.
Count(s, b, chars) == Cardinality({k \in b : s[k] \in chars})
Depth(s, b, i, open, close) ==
    LET before == {k \in b : k < i} IN Count(s, before, open) - Count(s, before, close)
Brackets(s, b, i) == Depth(s, b, i, {"(", "{"}, {")", "}"})
First(set) == IF set = {} THEN 0 ELSE Min(set)

SkipBlanks(s, i) == IF At(s, i) \in Blank \cup {"\n"} THEN SkipBlanks(s, i + 1) ELSE i
trim_start(s) == From(s, SkipBlanks(s, 1))
trim_end(s) == SubSeq(s, 1, Max({0} \cup {k \in DOMAIN s : s[k] \notin Blank \cup {"\n"}}))
trim(s) == trim_end(trim_start(s))
StartsWith(s, t) == Len(t) <= Len(s) /\ SubSeq(s, 1, Len(t)) = t
first_word(s) ==
    LET t == trim_start(s)
        end == First({k \in DOMAIN t : t[k] \in Blank \cup {"\n"}})
    IN  IF end = 0 THEN t ELSE SubSeq(t, 1, end - 1)

\* s cut at the positions of cuts, which are left out.
Pieces(s, from, cuts) ==
    LET next == First({k \in cuts : k >= from})
    IN  IF next = 0 THEN <<From(s, from)>>
        ELSE <<SubSeq(s, from, next - 1)>> \o Pieces(s, next + 1, cuts)

-----------------------------------------------------------------------------
(* script.rs.                                                               *)

split_top_level_semicolons(s) ==
    LET b == UnquotedTick(s)
    IN  Pieces(s, 1, {k \in b : s[k] = ";" /\ Brackets(s, b, k) = 0})

\* && or || before a group: its place, that of the group, and which it is.
find_operator_group(s) ==
    LET b == UnquotedTick(s)
        group(k) == SkipBlanks(s, k + 2)
        op == First({k \in b : /\ s[k] \in {"&", "|"}
                               /\ At(s, k + 1) = s[k]
                               /\ At(s, k - 1) # s[k]
                               /\ Brackets(s, b, k) = 0
                               /\ At(s, group(k)) \in {"(", "{"}})
    IN  IF op = 0 THEN [op |-> 0] ELSE [op |-> op, group |-> group(op), is_and |-> s[op] = "&"]

split_first_connector(s) ==
    LET b == UnquotedAll(s)
    IN  First({k \in b : s[k] \in {";", "&", "|"} /\ Brackets(s, b, k) = 0})

\* A text before its first connector, and from it on.
split_redirect_tail(s) ==
    LET i == split_first_connector(s)
    IN  IF i = 0 THEN <<s, <<>>>> ELSE <<SubSeq(s, 1, i - 1), From(s, i)>>

starts_compound_keyword(s) ==
    first_word(s) \in {Chars("for"), Chars("while"), Chars("until"), Chars("if"),
                       Chars("case"), Chars("select")}

\* { and } that are words of their own.
brace_delta(s) ==
    LET ends(k) == At(s, k) \in Blank \cup {"", "\n", ";"}
        own(c) == Cardinality({k \in DOMAIN s : s[k] = c /\ ends(k - 1) /\ ends(k + 1)})
    IN  own("{") - own("}")

\* The text of a group that opens at the start of s, and what follows it; the
\* braces are counted inside quotes as well.
extracted(s, b, open, close) ==
    LET end == First({k \in b : s[k] = close /\ Depth(s, b, k, {open}, {close}) = 1})
    IN  IF end = 0 THEN [ok |-> FALSE]
        ELSE [ok |-> TRUE, inner |-> SubSeq(s, 2, end - 1), tail |-> From(s, end + 1)]
extract_subshell(s) == extracted(s, Unquoted(s), "(", ")")
extract_group(s) == extracted(s, DOMAIN s, "{", "}")

\* The line up to the word that ends a block, and what follows it.
split_terminator_tail(s, term) ==
    LET ends(k) == At(s, k) \in Blank \cup {"", "\n"}
        at == First({k \in 1..(Len(s) - Len(term) + 1) :
                        /\ SubSeq(s, k, k + Len(term) - 1) = term
                        /\ ends(k - 1) \/ At(s, k - 1) = ";"
                        /\ ends(k + Len(term))})
    IN  IF at = 0 THEN <<s, <<>>>>
        ELSE <<SubSeq(s, 1, at + Len(term) - 1), trim_start(From(s, at + Len(term)))>>

\* name() { or function name {: the name and the text after the brace.
parse_function_header(s) ==
    LET t == trim_start(s)
        kw == StartsWith(t, Chars("function "))
        r == trim_start(From(t, 10))
        stop == First({k \in DOMAIN r : r[k] \in Blank \cup {"{"}})
        paren == First({k \in DOMAIN t : t[k] = "("})
        name == IF kw THEN (IF stop = 0 THEN r ELSE SubSeq(r, 1, stop - 1))
                ELSE trim(SubSeq(t, 1, paren - 1))
        rest == IF kw THEN (IF stop = 0 THEN <<>> ELSE trim_start(From(r, stop)))
                ELSE trim_start(From(t, paren + 2))
        named == kw \/ (/\ paren > 0
                        /\ name # <<>> /\ Range(name) \subseteq NameChar
                        /\ At(t, paren + 1) = ")")
    IN  IF named /\ At(rest, 1) = "{" THEN [ok |-> TRUE, name |-> name, rest |-> Tail(rest)]
        ELSE [ok |-> FALSE]

\* The body of a function written on one line, and the commands after it.
RECURSIVE InlineEnd(_, _, _, _)
InlineEnd(s, i, depth, q) ==
    LET c == At(s, i)
    IN  CASE c = "" -> 0
          [] q # "" -> InlineEnd(s, i + 1, depth, IF c = q THEN "" ELSE q)
          [] q = "" /\ c \in {"'", "\""} -> InlineEnd(s, i + 1, depth, c)
          [] q = "" /\ c = "}" /\ depth = 0 -> i
          [] OTHER -> InlineEnd(s, i + 1, depth + (CASE c = "{" -> 1 [] c = "}" -> -1 [] OTHER -> 0), q)
split_inline_brace(s) ==
    LET end == InlineEnd(s, 1, 0, "")
        rest == trim(From(s, end + 1))
        after == First({k \in DOMAIN rest : rest[k] # ";"})
    IN  IF end = 0 THEN [ok |-> FALSE]
        ELSE [ok |-> TRUE, body |-> trim(SubSeq(s, 1, end - 1)),
              tail |-> IF after = 0 THEN <<>> ELSE trim(From(rest, after))]

\* collect_function: the body on the line, or up to a line that ends in }.
collect_function(line, rest) ==
    LET h == parse_function_header(line)
        after == trim(h.rest)
        inline == split_inline_brace(after)
        end == First({k \in DOMAIN rest : trim(rest[k]) # <<>> /\ Last(trim(rest[k])) = "}"})
        body == (IF after = <<>> THEN <<>> ELSE <<after>>) \o SubSeq(rest, 1, end - 1)
                \o (LET l == trim(rest[end]) IN IF l = <<"}">> THEN <<>> ELSE <<Front(l)>>)
    IN  CASE ~h.ok -> [ok |-> FALSE]
          [] h.ok /\ inline.ok -> [ok |-> TRUE, name |-> h.name, body |-> <<inline.body>>,
                                   consumed |-> 0, tail |-> inline.tail]
          [] OTHER -> IF end = 0 THEN [ok |-> FALSE]
                      ELSE [ok |-> TRUE, name |-> h.name, body |-> body, consumed |-> end,
                            tail |-> <<>>]

-----------------------------------------------------------------------------
(* mod.rs.                                                                  *)

\* The << of a here-document (not the <<< of a here-string).
find_heredoc_operator(s) ==
    First({k \in Unquoted(s) : /\ s[k] = "<" /\ At(s, k + 1) = "<"
                               /\ At(s, k - 1) # "<" /\ At(s, k + 2) \notin {"<", ""}})

\* A backslash that ends the line and is not itself escaped or in single quotes.
RECURSIVE continues(_, _, _)
continues(s, i, q) ==
    LET c == At(s, i)
    IN  CASE c = "" -> FALSE
          [] q = "'" -> continues(s, i + 1, IF c = "'" THEN "" ELSE q)
          [] q # "'" /\ c = "\\" -> i = Len(s) \/ continues(s, i + 2, q)
          [] q = "\"" /\ c # "\\" -> continues(s, i + 1, IF c = "\"" THEN "" ELSE q)
          [] OTHER -> continues(s, i + 1, IF c \in {"'", "\""} THEN c ELSE q)
needs_continuation(s) == continues(s, 1, "")

\* collect_heredoc: the delimiter, whether the body is expanded, whether leading
\* tabs go, and the line with a file in place of what follows the operator.
heredoc(line, file) ==
    LET at == find_heredoc_operator(line)
        after == trim_start(From(line, at + 2))
        tabs == At(after, 1) = "-"
        delim == first_word(IF tabs THEN Tail(after) ELSE after)
        bare == SelectSeq(delim, LAMBDA c : c \notin {"'", "\""})
    IN  [delim |-> bare, tabs |-> tabs,
         quoted |-> delim # <<>> /\ Head(delim) \in {"'", "\""} /\ Last(delim) = Head(delim),
         line |-> trim_end(SubSeq(line, 1, at - 1)) \o Chars(" < ") \o file]
\* The lines of the body, and how many lines it takes with its delimiter.
heredoc_body(h, rest) ==
    LET cand(l) == IF h.tabs THEN From(l, First({k \in 1..(Len(l) + 1) : At(l, k) # "\t"})) ELSE l
        end == First({k \in DOMAIN rest : cand(rest[k]) = h.delim})
    IN  [ok |-> end > 0, consumed |-> end, body |-> [k \in 1..(end - 1) |-> cand(rest[k])]]

-----------------------------------------------------------------------------
(* compound.rs.                                                             *)

\* The parts of a line at its unquoted ;, a ;; being a part of its own.
split_semicolons(s) ==
    LET b == UnquotedBare(s)
        semi == {k \in b : s[k] = ";"}
        odd(k) == (k - Max({j \in 0..(k - 1) : j \notin semi})) % 2 = 1
        double == {k \in semi : k + 1 \in semi /\ odd(k)}
        cuts == semi \ {k + 1 : k \in double}
        part(k) == IF k \in double THEN <<<<";", ";">>>> ELSE <<>>
        ends == SetToSortSeq(cuts, <)
        from(n) == IF n = 1 THEN 1 ELSE ends[n - 1] + (IF ends[n - 1] \in double THEN 2 ELSE 1)
    IN  FlattenSeq([n \in 1..Len(ends) |-> <<SubSeq(s, from(n), ends[n] - 1)>> \o part(ends[n])])
        \o <<From(s, from(Len(ends) + 1))>>

\* A keyword as a word of its own, and what follows it.
strip_keyword(s, kw) ==
    LET t == trim(s)
    IN  CASE t = kw -> [ok |-> TRUE, rest |-> <<>>]
          [] t # kw /\ StartsWith(t, kw) /\ At(t, Len(kw) + 1) \in Blank ->
               [ok |-> TRUE, rest |-> trim_start(From(t, Len(kw) + 1))]
          [] OTHER -> [ok |-> FALSE]

\* case WORD in PAT) ...: the head up to in, and the rest.
split_case_in(t) ==
    LET at == First({k \in 5..(Len(t) - 1) : /\ t[k] = "i" /\ t[k + 1] = "n"
                                             /\ t[k - 1] \in Blank
                                             /\ At(t, k + 2) \in Blank \cup {""}})
        tail == trim_start(From(t, at + 2))
    IN  IF StartsWith(t, Chars("case")) /\ at > 0 /\ tail # <<>>
        THEN <<SubSeq(t, 1, at + 1), tail>> ELSE <<t>>

\* The lines of a block, one command or keyword on each.
normalize(lines) ==
    LET keywords == <<"then", "do", "else", "fi", "done">>
        of(t) ==
          LET kw == First({k \in DOMAIN keywords : strip_keyword(t, Chars(keywords[k])).ok})
              rest == strip_keyword(t, Chars(keywords[kw])).rest
          IN  CASE t = <<>> -> <<>>
                [] t # <<>> /\ kw > 0 -> <<Chars(keywords[kw])>> \o
                                         (IF rest = <<>> THEN <<>> ELSE <<rest>>)
                [] OTHER -> split_case_in(t)
        line(l) == LET parts == split_semicolons(l)
                   IN  FlattenSeq([j \in DOMAIN parts |-> of(trim(parts[j]))])
    IN  FlattenSeq([k \in DOMAIN lines |-> line(lines[k])])
=============================================================================
