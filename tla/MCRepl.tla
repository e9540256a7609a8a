------------------------------- MODULE MCRepl --------------------------------
(* Keys on a short line, with characters of one, two and three bytes; and lines pasted as *)
(* one key, which belong to a function, a block or a here-document.                       *)
EXTENDS Repl, TLC

Text == INSTANCE ShellText
Continuation(s) == Text!needs_continuation(s)
Header(s) == Text!parse_function_header(s).ok
Braces(s) == Text!brace_delta(s)
Starts == {<<"i", "f">>, <<"f", "o", "r">>}
StartsBlock(s) == Text!first_word(Text!split_semicolons(s)[1]) \in Starts
Blocks(s) ==
    LET parts == Text!split_semicolons(s)
        count(words) == Cardinality({k \in DOMAIN parts : Text!first_word(parts[k]) \in words})
    IN  count(Starts) - count({<<"f", "i">>, <<"d", "o", "n", "e">>})
Delimiter(s) == Text!heredoc(s, <<>>).delim
HereDocIn(s, k) == k = Text!find_heredoc_operator(s) /\ Delimiter(s) # <<>>
ClosesIt(s, b) == b = Delimiter(s)

AnyByte == STRING
E2 == <<Lead2, "10xxxxx0">>
E2b == <<Lead2, "10xxxxx1">>
Csi(c) == <<"esc", "[", c>>
ClearBlock == <<"i", "f", NL, "a", NL, "f", "i">>
LineKeys == {l \o <<NL>> : l \in {<<"i", "f">>, <<"f", "i">>, ClearBlock, <<"}">>,
                                <<"f", "(", ")", " ", "{">>, <<"<", "<", "b">>}}
AllKeys == LineKeys
           \cup {<<"a">>, <<"b">>, <<" ">>, <<"\\">>, <<"'">>, E2, REPLACEMENT, <<"10xxxxx0">>,
                 <<Lead2>>}
           \cup {<<c>> : c \in Control \ {"esc"}}
           \cup {Csi(c) : c \in {"A", "B", "C", "D", "H", "F", "Z"}}
           \cup {Csi(c) \o <<"~">> : c \in {"1", "3", "4"}}
           \cup {<<"esc", "a">>}
CommandNames == {<<"a", "d">>, <<"a", "d">> \o E2, E2 \o E2, E2 \o E2b, REPLACEMENT \o <<"f">>}
DirEntries == (<<>> :> {<<"a", "/">>, E2 \o <<"x">>, E2 \o <<"y">>})
              @@ (<<"a", "/">> :> {<<"c">>})
FirstLines == E2 \o <<NL, "b", " ", "b", NL, "c", NL>>
FileName == <<"t">>
ClearCommands == {<<"a">>, ClearBlock}
=============================================================================
