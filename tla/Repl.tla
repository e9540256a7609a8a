-------------------------------- MODULE Repl ---------------------------------
(***************************************************************************)
(* The line editor of the interactive shell: run_shell of shell/mod.rs,    *)
(* with the functions, blocks and here-documents it collects, the history  *)
(* it keeps, and tab completion (completion.rs).  What a complete line     *)
(* does is the subject of ShellLine.                                       *)
(*                                                                         *)
(* A line is a sequence of bytes and cursor an offset into it.  Of a       *)
(* character of several bytes only the class of each byte is kept.  In     *)
(* Rust an offset inside a character ends the program when the line is cut *)
(* there, so the offsets are what has to be right.                         *)
(***************************************************************************)
EXTENDS Integers, Sequences, FiniteSets, SequencesExt, FiniteSetsExt

CONSTANTS
    Bytes,      \* a byte below 128 by its name, the others by their class
    Keys,       \* what may be typed: keys, as the bytes they send
    Commands,   \* applets, built-ins and programs of PATH
    Entries,    \* the names in every directory; a directory's ends in /
    Clears,     \* lines and blocks that run history -c
    NeedsContinuation(_), \* whether a line goes on: needs_continuation of ShellText
    FunctionHeader(_),    \* whether it begins a function: parse_function_header
    BraceDelta(_),        \* the braces it leaves open: brace_delta
    CompoundStart(_),     \* whether it begins an if, for, while, until or case
    NestingDelta(_),      \* the blocks it leaves open: nesting_delta
    OpensHereDoc(_, _),   \* whether a here-document with a delimiter begins at a place of it
    Closes(_, _),         \* whether a line of the body is the delimiter of a command's
    TmpFile,    \* the name of a here-document's file, up to its number
    Stored,     \* the text of the history file at the start
    HistSize,   \* HISTSIZE
    IgnoreEof,  \* set -o ignoreeof
    MaxKeys,    \* keys typed
    MaxAhead    \* bytes that wait to be read

VARIABLES
    line, cursor, pending_line,
    history, hist_idx, saved_line,
    file,          \* the text of the history file
    func_depth,      \* braces open in the function being typed
    block,           \* the lines of the block being typed, joined
    block_depth,     \* blocks open in it
    clear_requested, \* HISTORY_CLEAR
    command, body,   \* the line whose here-document is being read, and what is read of a line
    heredocs,        \* HEREDOC_SEQ, going on in the next shell as the name holds the pid
    tty,           \* bytes typed that nobody has read
    pending_stdin, \* bytes the Ctrl-C thread read while a command ran
    state,         \* "edit", "ended" or "panicked"
    typed          \* number of keys so far; bounds the model, not the code

functionVars == func_depth
blockVars == <<block, block_depth>>
hereVars == <<command, body, heredocs>>
partVars == <<functionVars, blockVars, hereVars, clear_requested>>
histVars == <<history, hist_idx, saved_line, file>>
vars == <<line, cursor, pending_line, histVars, partVars, tty, pending_stdin, state, typed>>

NoIdx == -1
Lead2 == "110xxxxx"
Lead3 == "1110xxxx"
Cont  == {"10xxxxx0", "10xxxxx1"}
REPLACEMENT == <<Lead3, "10xxxxx1", "10xxxxx1">>
NL == "\n"
From(s, i) == SubSeq(s, i, Len(s))
Upto(s, n) == SubSeq(s, 1, n)
LastN(s, n) == From(s, Max({1, Len(s) - n + 1}))

\* An offset between two characters.
is_char_boundary(s, k) == k \in 0..Len(s) /\ (k \in {0, Len(s)} \/ s[k + 1] \notin Cont)
Boundaries(s) == {k \in 0..Len(s) : is_char_boundary(s, k)}

\* How many bytes follow the first one of a character.
extra(b) == CASE b = Lead2 -> 1 [] b = Lead3 -> 2 [] OTHER -> 0
\* Bytes that are valid UTF-8, which is what a String holds.
WellFormed(s) ==
    \A k \in DOMAIN s :
        /\ \A j \in 1..extra(s[k]) : k + j <= Len(s) /\ s[k + j] \in Cont
        /\ s[k] \in Cont => \E j \in 1..2 : /\ k > j /\ extra(s[k - j]) >= j
                                          /\ \A i \in 1..j : s[k - j + i] \in Cont
String == {s \in Seq(Bytes) : WellFormed(s)}

\* Names of programs and files and the text of the file were made strings when they were
\* read, and append_history ends a line; keys are any bytes.
ASSUME ReplAssumption ==
    /\ Cont \cup {Lead2, Lead3, " ", "'", "\"", "<", "0", NL} \subseteq Bytes
    /\ Keys \subseteq Seq(Bytes)
    /\ Commands \subseteq String /\ IsFiniteSet(Commands)
    /\ \A dir \in DOMAIN Entries : Entries[dir] \subseteq String /\ IsFiniteSet(Entries[dir])
    /\ Stored \in String /\ (Stored # <<>> => Last(Stored) = NL)
    /\ TmpFile \in String
    /\ HistSize \in Nat

\* The lines of a text, without the ends that each has.
lines(text) ==
    LET ends == {0} \cup {k \in DOMAIN text : text[k] = NL}
        nth(j) == CHOOSE c \in ends : Cardinality({d \in ends : d < c}) = j
    IN  [j \in 1..(Cardinality(ends) - 1) |-> SubSeq(text, nth(j - 1) + 1, nth(j) - 1)]
load_history(text) == LastN(lines(text), HistSize)

Init ==
    /\ line = <<>> /\ cursor = 0 /\ pending_line = <<>>
    /\ hist_idx = NoIdx /\ saved_line = <<>>
    /\ func_depth = 0 /\ block = <<>> /\ block_depth = 0 /\ clear_requested = FALSE
    /\ command = <<>> /\ body = <<>> /\ heredocs = 0
    /\ file = Stored
    /\ history = load_history(Stored)
    /\ tty = <<>> /\ pending_stdin = <<>>
    /\ state = "edit" /\ typed = 0

-----------------------------------------------------------------------------
(* The keyboard.  Reads block: signal() restarts them.                      *)

Type ==
    /\ typed < MaxKeys /\ Len(tty) < MaxAhead
    /\ \E k \in Keys : tty' = tty \o k
    /\ typed' = typed + 1
    /\ UNCHANGED <<line, cursor, pending_line, histVars, partVars, pending_stdin, state>>

\* The first byte of a key comes from the queue when there is one, the others always
\* from the terminal.
first == IF pending_stdin # <<>> THEN Head(pending_stdin) ELSE Head(tty)
left == IF pending_stdin # <<>> THEN tty ELSE Tail(tty)
queued == IF pending_stdin # <<>> THEN Tail(pending_stdin) ELSE <<>>
Ready == state = "edit" /\ command = <<>> /\ pending_stdin \o tty # <<>>
Take(n) ==
    /\ Len(left) >= n
    /\ tty' = From(left, n + 1)
    /\ pending_stdin' = queued
    /\ UNCHANGED <<state, typed>>
Key(b) == Ready /\ first = b /\ Take(0)
\* An escape sequence; the keys with a number send one byte more.
Escape(c) ==
    /\ Ready /\ first = "esc" /\ Len(left) >= 2 /\ Upto(left, 2) = <<"[", c>>
    /\ Take(IF c \in {"1", "3", "4", "7", "8"} THEN 3 ELSE 2)

Set(l, k) == line' = l /\ cursor' = k
Edit(l, k) == Set(l, k) /\ UNCHANGED <<pending_line, histVars, partVars>>

-----------------------------------------------------------------------------
(* Characters.                                                              *)

\* String::from_utf8_lossy of the bytes of one key, at most three: each character, or each
\* run of bytes that begins one and does not end it, becomes a character.
tail(s) == Max({k \in 0..extra(s[1]) : k < Len(s) /\ \A j \in 1..k : s[j + 1] \in Cont})
decode(s) ==
    IF s = <<>> THEN <<>>
    ELSE IF tail(s) = extra(s[1]) /\ s[1] \notin Cont THEN Upto(s, tail(s) + 1)
    ELSE REPLACEMENT
undecoded(s) == IF s = <<>> THEN <<>> ELSE From(s, tail(s) + 2)
lossy(s) == decode(s) \o decode(undecoded(s)) \o decode(undecoded(undecoded(s)))
Control == {NL, "\t", "bs", "^D", "^C", "^Z", "^L", "^A", "^E", "^U", "^K", "^W", "esc"}
Insert ==
    /\ Ready /\ first \notin Control
    /\ Take(extra(first))
    /\ LET ch == lossy(<<first>> \o Upto(left, extra(first)))
       IN  Edit(Upto(line, cursor) \o ch \o From(line, cursor + 1), cursor + Len(ch))

-----------------------------------------------------------------------------
(* Moving and deleting.                                                     *)

prev_boundary(s, k) == Max({j \in Boundaries(s) : j < k})
next_boundary(s, k) == Min({j \in Boundaries(s) : j > k})
Without(s, from, to) == Upto(s, from) \o From(s, to + 1)

Backspace ==
    /\ Key("bs")
    /\ IF cursor = 0 THEN Edit(line, cursor)
       ELSE Edit(Without(line, prev_boundary(line, cursor), cursor), prev_boundary(line, cursor))
Delete ==
    /\ Escape("3")
    /\ IF cursor = Len(line) THEN Edit(line, cursor)
       ELSE Edit(Without(line, cursor, next_boundary(line, cursor)), cursor)
Right ==
    /\ Escape("C")
    /\ Edit(line, IF cursor < Len(line) THEN next_boundary(line, cursor) ELSE cursor)
Left ==
    /\ Escape("D")
    /\ Edit(line, IF cursor > 0 THEN prev_boundary(line, cursor) ELSE cursor)
ToStart == (Key("^A") \/ \E c \in {"H", "1", "7"} : Escape(c)) /\ Edit(line, 0)
ToEnd == (Key("^E") \/ \E c \in {"F", "4", "8"} : Escape(c)) /\ Edit(line, Len(line))
KillBefore == Key("^U") /\ Edit(From(line, cursor + 1), 0)
KillAfter == Key("^K") /\ Edit(Upto(line, cursor), cursor)
\* Back over blanks, then to the blank before.
word_before(s, k) ==
    LET end == Max({0} \cup {j \in 1..k : s[j] # " "})
    IN  Max({0} \cup {j \in 1..end : s[j] = " "})
KillWord == Key("^W") /\ Edit(Without(line, word_before(line, cursor), cursor),
                              word_before(line, cursor))
Redraw == (Key("^L") \/ Key("^Z")) /\ Edit(line, cursor)
\* A sequence of no known key is read and dropped; so is the byte after a bare ESC.
UnknownEscape ==
    /\ Ready /\ first = "esc" /\ left # <<>>
    /\ \/ Head(left) # "[" /\ Take(1)
       \/ /\ Head(left) = "[" /\ Len(left) > 1
          /\ left[2] \notin {"A", "B", "C", "D", "H", "F", "1", "3", "4", "7", "8"}
          /\ Take(2)
    /\ Edit(line, cursor)

-----------------------------------------------------------------------------
(* History.                                                                 *)

\* Up keeps the line that was being typed; Down from the newest one brings it back.
Up ==
    /\ Escape("A")
    /\ LET idx == IF hist_idx = NoIdx THEN Len(history) ELSE hist_idx
       IN  IF history = <<>> THEN UNCHANGED <<line, cursor, hist_idx, saved_line>>
           ELSE /\ saved_line' = IF hist_idx = NoIdx THEN line ELSE saved_line
                /\ hist_idx' = Max({idx - 1, 0})
                /\ IF idx > 0 THEN Set(history[idx], Len(history[idx]))
                   ELSE UNCHANGED <<line, cursor>>
    /\ UNCHANGED <<pending_line, history, file, partVars>>
Down ==
    /\ Escape("B")
    /\ IF hist_idx = NoIdx THEN UNCHANGED <<line, cursor, hist_idx>>
       ELSE IF hist_idx + 1 < Len(history)
       THEN hist_idx' = hist_idx + 1 /\ Set(history[hist_idx + 2], Len(history[hist_idx + 2]))
       ELSE hist_idx' = NoIdx /\ Set(saved_line, Len(saved_line))
    /\ UNCHANGED <<pending_line, history, saved_line, file, partVars>>

-----------------------------------------------------------------------------
(* The end of a line.                                                       *)

\* While a command runs, the thread that waits for Ctrl-C takes what is typed.
Running(queue, rest) ==
    \E n \in 0..Len(rest) :
        /\ \A k \in 1..n : rest[k] \notin {"^C", "^Z"}
        /\ pending_stdin' = queue \o Upto(rest, n)
        /\ tty' = From(rest, n + 1)

Newline == Ready /\ first = NL
continues == NeedsContinuation(line)
Blank(s) == Range(s) \subseteq {" ", "\t", NL}
\* hist_idx is left as it is.
Continue ==
    /\ Key(NL) /\ continues
    /\ pending_line' = Upto(line, Max({0} \cup {k \in DOMAIN line : line[k] # "\\"}))
    /\ Set(<<>>, 0)
    /\ UNCHANGED <<histVars, partVars>>
full_line == pending_line \o line
\* Mutant of idx_after: the position is kept.
idx_kept == hist_idx
idx_after == NoIdx
Taken == Set(<<>>, 0) /\ pending_line' = <<>> /\ hist_idx' = idx_after
EmptyLine ==
    /\ Key(NL) /\ ~continues /\ Blank(full_line)
    /\ Taken
    /\ UNCHANGED <<history, saved_line, file, partVars>>
Entered == Newline /\ ~continues /\ ~Blank(full_line) /\ Taken

\* An entry unlike the last one is added to the history and written to the file.
Remember(e, h, f) ==
    LET new == h = <<>> \/ Last(h) # e
    IN  /\ history' = IF new THEN Append(h, e) ELSE h
        /\ file' = IF new THEN f \o e \o <<NL>> ELSE f
        /\ UNCHANGED saved_line
clearing(text) == clear_requested \/ text \in Clears

\* A line of a function, also of one inside a block.  The last line of all is remembered, and
\* a history -c after the brace is left for the next command.
InFunction == func_depth > 0 \/ FunctionHeader(full_line)
FunctionLine ==
    /\ Entered /\ InFunction
    /\ LET depth == func_depth + BraceDelta(full_line)
       IN  \/ /\ depth > 0 /\ Take(0)
              /\ func_depth' = depth
              /\ UNCHANGED <<history, saved_line, file, clear_requested>>
           \/ /\ depth <= 0 /\ Running(queued, left)
              /\ func_depth' = 0 /\ clear_requested' = clearing(full_line)
              /\ Remember(full_line, history, file)
    /\ UNCHANGED <<blockVars, hereVars, state, typed>>

\* A line of a block, which is run and remembered as one entry; so is its history -c.
InBlock == block_depth > 0 \/ CompoundStart(full_line)
joined == IF block = <<>> THEN full_line ELSE block \o <<NL>> \o full_line
BlockLine ==
    /\ Entered /\ ~InFunction /\ InBlock
    /\ LET depth == block_depth + NestingDelta(full_line)
       IN  \/ /\ depth > 0 /\ Take(0)
              /\ block_depth' = depth /\ block' = joined
              /\ UNCHANGED <<history, saved_line, file, clear_requested>>
           \/ /\ depth <= 0 /\ Running(queued, left)
              /\ block_depth' = 0 /\ block' = <<>> /\ clear_requested' = clearing(joined)
              /\ Remember(joined, history, file)
    /\ UNCHANGED <<functionVars, hereVars, state, typed>>

\* Mutant of cleared_file: history -c leaves the file.
cleared_file_not(c) == file
\* After a command that ran history -c, or a function or block before it that did, both the
\* history and the file are empty but for the command.
cleared_file(c) == IF c THEN <<>> ELSE file
Executed(l) ==
    /\ Remember(l, IF clearing(l) THEN <<>> ELSE history, cleared_file(clearing(l)))
    /\ clear_requested' = FALSE
Command == Entered /\ ~InFunction /\ ~InBlock
here_docs(s) == {k \in DOMAIN s : s[k] = "<" /\ OpensHereDoc(s, k)}
Enter ==
    /\ Command /\ here_docs(full_line) = {}
    /\ Running(queued, left)
    /\ Executed(full_line)
    /\ UNCHANGED <<functionVars, blockVars, hereVars, state, typed>>
\* A command that ends the shell, be it in a block or behind a function, is not remembered.
Complete ==
    /\ InFunction => func_depth + BraceDelta(full_line) <= 0
    /\ InBlock /\ ~InFunction => block_depth + NestingDelta(full_line) <= 0
    /\ Command => here_docs(full_line) = {}
ExitCommand ==
    /\ Entered /\ Complete
    /\ tty' = left /\ pending_stdin' = queued
    /\ state' = "ended"
    /\ UNCHANGED <<history, saved_line, file, partVars, typed>>

\* process_heredoc reads the body from the terminal, past the queue.
HereDoc ==
    /\ Command /\ here_docs(full_line) # {}
    /\ tty' = left /\ pending_stdin' = queued
    /\ command' = full_line
    /\ UNCHANGED <<history, saved_line, file, functionVars, blockVars, clear_requested, body,
                   heredocs, state, typed>>
Trimmed(s) == Upto(s, Max({0} \cup {k \in DOMAIN s : s[k] \notin {" ", "\t"}}))
\* The line that is run and remembered reads a file; its number is written in ones.
redirected(s) ==
    Trimmed(Upto(s, Min(here_docs(s)) - 1)) \o <<" ", "<", " ">> \o TmpFile
    \o [k \in 1..heredocs |-> "0"]
ReadBody == command # <<>> /\ tty # <<>>
Closed == Head(tty) = NL /\ Closes(command, body)
HereDocByte ==
    /\ ReadBody /\ ~Closed
    /\ tty' = Tail(tty)
    /\ body' = IF Head(tty) = NL THEN <<>> ELSE Append(body, Head(tty))
    /\ UNCHANGED <<line, cursor, pending_line, histVars, functionVars, blockVars,
                   clear_requested, command, heredocs, pending_stdin, state, typed>>
\* The line is run as it is when the file cannot be written.
HereDocEnd ==
    /\ ReadBody /\ Closed
    /\ Running(pending_stdin, Tail(tty))
    /\ \E l \in {command, redirected(command)} : Executed(l)
    /\ command' = <<>> /\ body' = <<>> /\ heredocs' = heredocs + 1
    /\ UNCHANGED <<line, cursor, pending_line, hist_idx, functionVars, blockVars, state, typed>>

HereDocExit ==
    /\ ReadBody /\ Closed
    /\ tty' = Tail(tty) /\ state' = "ended"
    /\ command' = <<>> /\ body' = <<>> /\ heredocs' = heredocs + 1
    /\ UNCHANGED <<line, cursor, pending_line, histVars, functionVars, blockVars,
                   clear_requested, pending_stdin, typed>>

\* A function or block that has begun goes on.
abort_line ==
    /\ Key("^C")
    /\ Set(<<>>, 0) /\ pending_line' = <<>> /\ hist_idx' = NoIdx
    /\ UNCHANGED <<history, saved_line, file, partVars>>
\* Ctrl-D ends the shell at an empty line only.
CtrlD ==
    /\ Ready /\ first = "^D"
    /\ tty' = left /\ pending_stdin' = queued
    /\ state' = IF line = <<>> /\ ~IgnoreEof THEN "ended" ELSE state
    /\ UNCHANGED <<line, cursor, pending_line, histVars, partVars, typed>>
\* The next shell reads the history from the file.
Restart ==
    /\ state \in {"ended", "panicked"}
    /\ Taken /\ saved_line' = <<>>
    /\ func_depth' = 0 /\ block' = <<>> /\ block_depth' = 0 /\ clear_requested' = FALSE
    /\ command' = <<>> /\ body' = <<>>
    /\ history' = load_history(file)
    /\ pending_stdin' = <<>>
    /\ state' = "edit"
    /\ UNCHANGED <<heredocs, file, tty, typed>>

-----------------------------------------------------------------------------
(* Tab completion.                                                          *)

Separators == {" ", "\t", "|", ";", "&", ">", "<"}
Quotes == {"'", "\""}
find_last_word_start(s) == Max({0} \cup {k \in DOMAIN s : s[k] \in Separators})
EndsWith(s, e) == Len(s) >= Len(e) /\ LastN(s, Len(e)) = e
after_operator(s) == \E op \in {<<"|">>, <<";">>, <<"&", "&">>} : EndsWith(Trimmed(s), op)
complete_command(p) == {m \in Commands : IsPrefix(p, m)}
\* The directory is the part up to the last /.
complete_file(p) ==
    LET cut == Max({0} \cup {k \in DOMAIN p : p[k] = "/"})
        dir == Upto(p, cut)
    IN  IF dir \notin DOMAIN Entries THEN {}
        ELSE {dir \o m : m \in {e \in Entries[dir] : IsPrefix(From(p, cut + 1), e)}}
\* The bytes that all have in common; they may end inside a character.
common_prefix(ms) ==
    LET m == CHOOSE x \in ms : TRUE
    IN  Upto(m, Max({n \in 0..Len(m) : \A x \in ms : IsPrefix(Upto(m, n), x)}))

\* The line with its last word completed; a prefix cut inside a character panics.
tab_complete(s) ==
    LET start == find_last_word_start(s)
        prefix == From(s, start + 1)
        quote == IF prefix # <<>> /\ prefix[1] \in Quotes THEN <<prefix[1]>> ELSE <<>>
        inner == From(prefix, Len(quote) + 1)
        before == Upto(s, start)
        at_command == (Blank(before) \/ after_operator(before)) /\ "/" \notin Range(inner)
        ms == IF at_command THEN complete_command(inner) ELSE complete_file(inner)
        common == common_prefix(ms)
        is(l) == [line |-> l, ok |-> TRUE]
    IN  CASE inner = <<>> \/ ms = {} -> is(s)
          [] inner # <<>> /\ Cardinality(ms) = 1 ->
               is(before \o quote \o common \o (IF Last(common) = "/" THEN <<>> ELSE <<" ">> \o quote))
          [] OTHER ->
               [line |-> IF Len(common) > Len(inner) THEN before \o quote \o common ELSE s,
                ok |-> \A m \in ms : is_char_boundary(m, Len(common))]
Tab ==
    /\ Key("\t") /\ tab_complete(line).ok
    /\ Edit(tab_complete(line).line, Len(tab_complete(line).line))
TabPanics ==
    /\ Ready /\ first = "\t" /\ ~tab_complete(line).ok
    /\ tty' = left /\ pending_stdin' = <<>>
    /\ state' = "panicked"
    /\ UNCHANGED <<line, cursor, pending_line, histVars, partVars, typed>>

Next ==
    \/ Type \/ Insert
    \/ Backspace \/ Delete \/ Right \/ Left \/ ToStart \/ ToEnd
    \/ KillBefore \/ KillAfter \/ KillWord \/ Redraw \/ UnknownEscape
    \/ Up \/ Down \/ Continue \/ EmptyLine \/ abort_line \/ CtrlD \/ Restart
    \/ FunctionLine \/ BlockLine \/ Enter \/ ExitCommand
    \/ HereDoc \/ HereDocByte \/ HereDocEnd \/ HereDocExit
    \/ Tab \/ TabPanics

Spec == Init /\ [][Next]_vars

-----------------------------------------------------------------------------
\* However characters of several bytes are typed, cut, moved over, completed and recalled, the
\* line stays text and the cursor stays between two characters, where the line may be cut
\* (run_shell: the offsets given to replace_range, drain, truncate and insert_str); and the
\* position that Up and Down leave is one of the history they will index, across history -c,
\* Ctrl-C, continued and repeated lines (hist_idx).  Otherwise the shell panics.
EditorInBounds ==
    /\ WellFormed(line) /\ is_char_boundary(line, cursor)
    /\ hist_idx # NoIdx => hist_idx < Len(history) /\ WellFormed(saved_line)

\* Where each entry of h begins in a file that ends with them.
Places(h, f) ==
    LET at[i \in 1..(Len(h) + 1)] ==
            IF i = Len(h) + 1 THEN Len(f) + 1 ELSE at[i + 1] - Len(h[i]) - 1
    IN  at
\* What the history holds ends the file, entry by entry and line by line, and there is more in
\* the file only when HISTSIZE is reached: functions, blocks of several lines, rewritten
\* here-documents, repeated lines, history -c wherever it runs, exits and restarts write to
\* both or to neither (append_history, take_history_clear).
HistoryOnFile ==
    LET at == Places(history, file)
    IN  /\ \A i \in 1..Len(history) :
              /\ at[i] \in 1..Len(file)
              /\ SubSeq(file, at[i], at[i + 1] - 1) = Append(history[i], NL)
        /\ at[1] = 1 \/ Len(history) >= HistSize

=============================================================================
