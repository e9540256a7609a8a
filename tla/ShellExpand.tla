----------------------------- MODULE ShellExpand -----------------------------
(***************************************************************************)
(* The expansions of a line and of its words (shell/expander.rs, alias.rs, *)
(* expand_command_subst of executor.rs and applets/glob.rs).               *)
(***************************************************************************)
EXTENDS ShellWords, Bitwise

CONSTANTS Files,      \* the names in each readable directory, in order
          Home,       \* the value of HOME
          Width,      \* the largest integer of the arithmetic
          Output(_)   \* what the command of $(...) prints, without the last newlines

ASSUME WidthAssumption == Width \in Nat

-----------------------------------------------------------------------------
(* applets/glob.rs.                                                         *)

\* The bracket expression of p from position k: where it ends, and whether it
\* holds c.
RECURSIVE bracket(_, _, _, _)
bracket(p, k, c, found) ==
    CASE k > Len(p) -> [found |-> found, next |-> k]
      [] k <= Len(p) /\ p[k] = "]" -> [found |-> found, next |-> k + 1]
      [] k <= Len(p) /\ p[k] # "]" /\ k + 2 <= Len(p) /\ p[k + 1] = "-" /\ p[k + 2] # "]" ->
            bracket(p, k + 3, c, found \/ c \in InRange(p[k], p[k + 2]))
      [] OTHER -> bracket(p, k + 1, c, found \/ c = p[k])

RECURSIVE glob_match(_, _)
glob_match(p, t) ==
    IF p = <<>> THEN t = <<>>
    ELSE CASE p[1] = GE -> Len(p) > 1 /\ t # <<>> /\ p[2] = t[1]
                           /\ glob_match(From(p, 3), Tail(t))
           [] p[1] = "*" -> \E i \in 1..(Len(t) + 1) : glob_match(Tail(p), From(t, i))
           [] p[1] = "?" -> t # <<>> /\ glob_match(Tail(p), Tail(t))
           [] p[1] = "[" ->
                /\ t # <<>>
                /\ LET negate == At(p, 2) = "!"
                       b == bracket(p, IF negate THEN 3 ELSE 2, t[1], FALSE)
                   IN  b.found # negate /\ glob_match(From(p, b.next), Tail(t))
           [] OTHER -> t # <<>> /\ p[1] = t[1] /\ glob_match(Tail(p), Tail(t))

-----------------------------------------------------------------------------
(* Arithmetic (ArithParser).  A result is [ok, v, i, env]: whether there is a  *)
(* value, the value, the position after it and the variables.               *)

ToText(n) == Chars(ToString(n))
AllDigits(t) == t # <<>> /\ Range(t) \subseteq Digit
Number(t) == FoldLeft(LAMBDA acc, c : 10 * acc + DigitVal(c), 0, t)
\* str::parse::<i64>: <<>> or the number.
parse_int(t) == IF AllDigits(t) THEN <<Number(t)>>
                ELSE IF Len(t) > 1 /\ t[1] = "-" /\ AllDigits(Tail(t))
                THEN <<-Number(Tail(t))>> ELSE <<>>

InWidth(n) == n \in (-Width - 1)..Width
Wrap(n) == ((n + Width + 1) % (2 * Width + 2)) - Width - 1
Abs(n) == IF n < 0 THEN -n ELSE n
Quot(a, b) == IF (a < 0) = (b < 0) THEN Abs(a) \div Abs(b) ELSE -(Abs(a) \div Abs(b))
Rem(a, b) == a - b * Quot(a, b)
Bits(n) == n % (2 * Width + 2)
Truth(b) == IF b THEN 1 ELSE 0


\* The checked operations: <<>> on overflow or division by zero.
apply(op, a, b) ==
    LET checked(n) == IF InWidth(n) THEN <<n>> ELSE <<>>
    IN  CASE op = "||" -> <<Truth(a # 0 \/ b # 0)>>
          [] op = "&&" -> <<Truth(a # 0 /\ b # 0)>>
          [] op = "|"  -> <<Wrap(Bits(a) | Bits(b))>>
          [] op = "^"  -> <<Wrap(Bits(a) ^^ Bits(b))>>
          [] op = "&"  -> <<Wrap(Bits(a) & Bits(b))>>
          [] op = "==" -> <<Truth(a = b)>>  [] op = "!=" -> <<Truth(a # b)>>
          [] op = "<=" -> <<Truth(a <= b)>> [] op = ">=" -> <<Truth(a >= b)>>
          [] op = "<"  -> <<Truth(a < b)>>  [] op = ">"  -> <<Truth(a > b)>>
          [] op = "+"  -> checked(a + b)    [] op = "-"  -> checked(a - b)
          [] op = "*"  -> checked(a * b)
          [] op = "/"  -> IF b = 0 THEN <<>> ELSE checked(Quot(a, b))
          [] op = "%"  -> IF b = 0 \/ (a = -Width - 1 /\ b = -1) THEN <<>> ELSE <<Rem(a, b)>>

\* The binary operators by level, the loosest first: logical_or, logical_and,
\* bit_or, bit_xor, bit_and, cmp, add, term.
OpsAt == << {"||"}, {"&&"}, {"|"}, {"^"}, {"&"}, {"==", "!=", "<=", ">=", "<", ">"},
            {"+", "-"}, {"*", "/", "%"} >>

RECURSIVE ws(_, _)
ws(s, i) == IF At(s, i) \in Blank \cup {GE} THEN ws(s, i + 1) ELSE i

\* The operator of a level at i, or "".
op_at(level, s, i) ==
    LET c == At(s, i)
        two == At(s, i) \o At(s, i + 1)
    IN  CASE two \in OpsAt[level] -> two
          [] two \notin OpsAt[level] /\ c \in OpsAt[level]
               /\ ~(level \in {3, 5, 8} /\ c \in {"|", "&", "*"} /\ At(s, i + 1) = c) -> c
          [] OTHER -> ""

Fail(env) == [ok |-> FALSE, v |-> 0, i |-> 0, env |-> env]
Val(v, i, env) == [ok |-> TRUE, v |-> v, i |-> i, env |-> env]
RECURSIVE NameEnd(_, _)
NameEnd(s, i) == IF At(s, i) \in NameChar THEN NameEnd(s, i + 1) ELSE i
var_i64(env, name) ==
    IF name \in DOMAIN env /\ parse_int(env[name]) # <<>> THEN parse_int(env[name])[1] ELSE 0
Assigned(env, name, v) == [n \in DOMAIN env \cup {name} |-> IF n = name THEN v ELSE env[n]]

\* arith(level, s, i, env) is the method of a level; the levels are these, with the
\* binary operators 1 .. 8 between ternary and power.
Expr == -2
Assignment == -1
Ternary == 0
Power == 9
Factor == 10
RECURSIVE arith(_, _, _, _), expr_loop(_, _), binary_loop(_, _, _)

expr_loop(s, r) ==
    IF ~r.ok \/ At(s, ws(s, r.i)) # "," THEN r
    ELSE expr_loop(s, arith(Assignment, s, ws(s, r.i) + 1, r.env))
expr(s, i, env) == expr_loop(s, arith(Assignment, s, i, env))

\* The operator of an assignment at i: "=", or the operator before the =.
assign_op(s, i) ==
    CASE At(s, i) = "=" /\ At(s, i + 1) # "=" -> "="
      [] At(s, i) \in {"+", "-", "*", "/", "%"} /\ At(s, i + 1) = "=" -> At(s, i)
      [] OTHER -> ""

assigned(name, r, v) ==
    IF ~r.ok \/ v = <<>> THEN Fail(r.env)
    ELSE Val(v[1], r.i, Assigned(r.env, name, ToText(v[1])))
\* The division of an assignment is not a checked one: the least integer divided
\* by -1 panics, and of the shell's variables only this mark is left.
Panicked == (<<"panic">> :> <<>>)
unchecked(op, a, b) == op \in {"/", "%"} /\ a = -Width - 1 /\ b = -1
assign(name, op, r) ==
    IF r.ok /\ unchecked(op, var_i64(r.env, name), r.v) THEN Fail(Panicked)
    ELSE assigned(name, r, IF op = "=" THEN <<r.v>> ELSE apply(op, var_i64(r.env, name), r.v))
assignment(s, i, env) ==
    LET start == ws(s, i)
        end == NameEnd(s, start)
        at == ws(s, end)
        op == assign_op(s, at)
    IN  IF end = start \/ op = "" THEN arith(Ternary, s, i, env)
        ELSE assign(SubSeq(s, start, end - 1), op,
                    arith(Assignment, s, at + (IF op = "=" THEN 1 ELSE 2), env))

choice(c, a, b) == IF b.ok THEN Val(IF c.v # 0 THEN a.v ELSE b.v, b.i, b.env) ELSE b
else_branch(s, c, a, at) ==
    IF ~a.ok \/ At(s, at) # ":" THEN Fail(a.env)
    ELSE choice(c, a, arith(Ternary, s, at + 1, a.env))
branches(s, c, a) == else_branch(s, c, a, ws(s, a.i))
question(s, c, at) ==
    IF ~c.ok \/ At(s, at) # "?" THEN c ELSE branches(s, c, arith(Ternary, s, at + 1, c.env))
conditional(s, c) == question(s, c, ws(s, c.i))
ternary(s, i, env) == conditional(s, arith(1, s, i, env))

operand(level, s, i, env) == arith(level + 1, s, i, env)

value_of(b, v) == IF ~b.ok \/ v = <<>> THEN Fail(b.env) ELSE Val(v[1], b.i, b.env)
combine(op, r, b) == value_of(b, apply(op, r.v, b.v))

binary_loop(level, s, r) ==
    LET at == ws(s, r.i)
        op == op_at(level, s, at)
    IN  IF ~r.ok \/ op = "" THEN r
        ELSE binary_loop(level, s, combine(op, r, operand(level, s, at + Len(op), r.env)))
binary(level, s, i, env) == binary_loop(level, s, operand(level, s, i, env))

RECURSIVE Pow(_, _)
Pow(a, n) == IF n = 0 THEN 1 ELSE a * Pow(a, n - 1)
\* ** is to the right, and has no value when the result overflows.
raised(b, e) ==
    IF ~e.ok \/ e.v < 0 THEN Fail(e.env)
    ELSE IF ~InWidth(Pow(b.v, e.v)) THEN Fail(e.env) ELSE Val(Pow(b.v, e.v), e.i, e.env)
power_loop(s, b, at) ==
    IF ~b.ok \/ At(s, at) # "*" \/ At(s, at + 1) # "*" THEN b
    ELSE raised(b, arith(Power, s, at + 2, b.env))
power_of(s, b) == power_loop(s, b, ws(s, b.i))
power(s, i, env) == power_of(s, arith(Factor, s, i, env))

\* ++ and -- before a name.
bumped(s, i, env, by) ==
    LET start == ws(s, i)
        name == SubSeq(s, start, NameEnd(s, start) - 1)
        v == Wrap(var_i64(env, name) + by)
    IN  IF name = <<>> THEN Fail(env)
        ELSE Val(v, NameEnd(s, start), Assigned(env, name, ToText(v)))

closed(s, r, at) ==
    IF r.ok /\ At(s, at) = ")" THEN Val(r.v, at + 1, r.env) ELSE Fail(r.env)
group(s, r) == closed(s, r, ws(s, r.i))
\* A number, or a variable with ++ or -- after it.
name_or_number(s, t, end, env) ==
    LET bump(by) == Val(var_i64(env, t), end + 2,
                        Assigned(env, t, ToText(Wrap(var_i64(env, t) + by))))
        twice(c) == At(s, end) = c /\ At(s, end + 1) = c
    IN  CASE t = <<>> -> Fail(env)
          [] AllDigits(t) -> Val(Number(t), end, env)
          [] ~AllDigits(t) /\ t # <<>> /\ (twice("+") \/ twice("-")) ->
               bump(IF twice("+") THEN 1 ELSE -1)
          [] OTHER -> Val(var_i64(env, t), end, env)
word_at(s, start, end, env) == name_or_number(s, SubSeq(s, start, end - 1), end, env)
named_at(s, start, env) == word_at(s, start, NameEnd(s, start), env)
primary(s, at, env) ==
    IF At(s, at) = "(" THEN group(s, arith(Expr, s, at + 1, env))
    ELSE named_at(s, IF At(s, at) = "$" THEN at + 1 ELSE at, env)

\* The prefix operator c before the value r.
prefixed(c, r) ==
    CASE ~r.ok -> r
      [] r.ok /\ c = "-" -> Val(Wrap(-r.v), r.i, r.env)
      [] r.ok /\ c = "!" -> Val(Truth(r.v = 0), r.i, r.env)
      [] r.ok /\ c = "~" -> Val(-r.v - 1, r.i, r.env)
      [] r.ok /\ c = "+" -> r
factor_at(s, at, env) ==
    LET c == At(s, at)
        n == At(s, at + 1)
    IN  CASE c \in {"+", "-"} /\ n = c -> bumped(s, at + 2, env, IF c = "+" THEN 1 ELSE -1)
          [] c = "~" \/ (c \in {"-", "+"} /\ n # c) \/ (c = "!" /\ n # "=") ->
               prefixed(c, arith(Power, s, at + 1, env))
          [] OTHER -> primary(s, at, env)
factor(s, i, env) == factor_at(s, ws(s, i), env)

arith(level, s, i, env) ==
    CASE level = Expr -> expr(s, i, env)
      [] level = Assignment -> assignment(s, i, env)
      [] level = Ternary -> ternary(s, i, env)
      [] level = Power -> power(s, i, env)
      [] level = Factor -> factor(s, i, env)
      [] OTHER -> binary(level, s, i, env)

\* No value, and 0 in its place, for what does not parse to the end.
to_the_end(s, r) == IF r.ok /\ ws(s, r.i) = Len(s) + 1 THEN r ELSE Fail(r.env)
eval_arith(s, env) == to_the_end(s, arith(Expr, s, 1, env))

-----------------------------------------------------------------------------
(* Variables.  A context is the state of the shell that expansion reads: the  *)
(* environment, the variables that are not exported, the positional          *)
(* parameters, the options, the status, and whether an unset variable was    *)
(* met under set -u.                                                        *)

Join(words, sep) == IF words = <<>> THEN <<>>
                    ELSE FoldLeft(LAMBDA acc, w : acc \o sep \o w, words[1], Tail(words))
NotSet(ctx) == [out |-> <<>>, ctx |-> [ctx EXCEPT !.unset = @ \/ "u" \in ctx.opts]]

lookup_var(name, ctx) ==
    LET is(v) == [out |-> v, ctx |-> ctx]
    IN  CASE name = <<"?">> -> is(ToText(ctx.rc))
          [] name = <<"#">> -> is(ToText(Len(ctx.params)))
          [] name = <<"0">> -> is(Chars("sh"))
          [] name \in {<<"@">>, <<"*">>} -> is(Join(ctx.params, <<" ">>))
          [] name \in DOMAIN ctx.hidden -> is(ctx.hidden[name])
          [] AllDigits(name) /\ Number(name) \in DOMAIN ctx.params ->
               is(ctx.params[Number(name)])
          [] name \notin DOMAIN ctx.hidden /\ ~AllDigits(name) /\ name \in DOMAIN ctx.env ->
               is(ctx.env[name])
          [] OTHER -> NotSet(ctx)

remove_prefix(val, pat, longest) ==
    LET cut == {i \in 0..Len(val) : glob_match(pat, SubSeq(val, 1, i))}
    IN  IF cut = {} THEN val
        ELSE From(val, 1 + (IF longest THEN Max(cut) ELSE Min(cut)))
remove_suffix(val, pat, longest) ==
    LET cut == {i \in 0..Len(val) : glob_match(pat, From(val, i + 1))}
    IN  IF cut = {} THEN val
        ELSE SubSeq(val, 1, IF longest THEN Min(cut) ELSE Max(cut))

\* str::replace and replacen: the occurrences of a text that is not empty.
RECURSIVE replace(_, _, _, _)
replace(val, pat, rep, all) ==
    IF Len(val) < Len(pat) THEN val
    ELSE IF SubSeq(val, 1, Len(pat)) = pat
         THEN LET rest == From(val, Len(pat) + 1)
              IN  rep \o (IF all THEN replace(rest, pat, rep, all) ELSE rest)
         ELSE <<val[1]>> \o replace(Tail(val), pat, rep, all)

\* The first place of a text in s, or 0.
Find(s, t) == LET at == {i \in 1..(Len(s) - Len(t) + 1) : SubSeq(s, i, i + Len(t) - 1) = t}
              IN  IF at = {} THEN 0 ELSE Min(at)

BracedOps == << <<":", "-">>, <<":", "=">>, <<":", "?">>, <<":", "+">>, <<"#", "#">>,
                <<"#">>, <<"%", "%">>, <<"%">>, <<"/">> >>
valid_name(n) == n # <<>> /\ Range(n) \subseteq NameChar \cup {"@", "*", "?", "$", "!", "#"}
Without(s, marks) == SelectSeq(s, LAMBDA c : c \notin marks)
strip_split(s) == Without(s, {NS, SP})

\* ${name:offset:length}.
substring(val, off, len) ==
    LET n == Len(val)
        start == IF off < 0 THEN Max({n + off, 0}) ELSE Min({off, n})
        end == CASE len = <<>> -> n
                 [] len # <<>> /\ len[1] >= 0 -> Min({start + len[1], n})
                 [] OTHER -> Max({n + len[1], start})
    IN  SubSeq(val, start + 1, end)

Trim(t) == Without(t, Blank)

RECURSIVE expand_from(_, _, _, _, _), expand_braced(_, _)

\* expand_vars without the marks of the tokenizer: the argument of an operator.
Argument(arg, ctx) == expand_from(strip_split(arg), 1, FALSE, <<>>, ctx)

defaulted(name, a) == [a EXCEPT !.ctx.env = Assigned(@, name, a.out)]
replaced(val, pat, all, rep) == [rep EXCEPT !.out = replace(val, pat, rep.out, all)]
\* The operator op with the value v of name.
braced_op(op, name, arg, v) ==
    LET is(t) == [out |-> t, ctx |-> v.ctx]
    IN  CASE op = <<":", "-">> -> IF v.out = <<>> THEN Argument(arg, v.ctx) ELSE v
          [] op = <<":", "=">> ->
               IF v.out # <<>> THEN v
               ELSE defaulted(name, Argument(arg, v.ctx))
          [] op = <<":", "?">> -> [v EXCEPT !.ctx.unset = @ \/ v.out = <<>>]
          [] op = <<":", "+">> -> IF v.out = <<>> THEN v ELSE Argument(arg, v.ctx)
          [] op = <<"#", "#">> -> is(remove_prefix(v.out, arg, TRUE))
          [] op = <<"#">>      -> is(remove_prefix(v.out, arg, FALSE))
          [] op = <<"%", "%">> -> is(remove_suffix(v.out, arg, TRUE))
          [] op = <<"%">>      -> is(remove_suffix(v.out, arg, FALSE))
          [] op = <<"/">> ->
               LET all == At(arg, 1) = "/"
                   rest == IF all THEN Tail(arg) ELSE arg
                   cut == Find(rest, <<"/">>)
                   pat == IF cut = 0 THEN rest ELSE SubSeq(rest, 1, cut - 1)
               IN  replaced(v.out, pat, all,
                            Argument(IF cut = 0 THEN <<>> ELSE From(rest, cut + 1), v.ctx))

expand_braced(marked, ctx) ==
    LET spec == Without(marked, {GE})
        colon == Find(spec, <<":">>)
        name == SubSeq(spec, 1, colon - 1)
        rest == From(spec, colon + 1)
        cut == Find(rest, <<":">>)
        off == parse_int(Trim(IF cut = 0 THEN rest ELSE SubSeq(rest, 1, cut - 1)))
        len == IF cut = 0 THEN <<>> ELSE parse_int(Trim(From(rest, cut + 1)))
        usable == {k \in DOMAIN BracedOps :
                     LET at == Find(spec, BracedOps[k])
                     IN  at > 0 /\ valid_name(SubSeq(spec, 1, at - 1))}
    IN  CASE At(spec, 1) = "!" -> [out |-> <<>>, ctx |-> ctx]
          [] At(spec, 1) = "#" ->
               LET v == lookup_var(Tail(spec), ctx) IN [v EXCEPT !.out = ToText(Len(v.out))]
          [] At(spec, 1) \notin {"!", "#"} /\ colon > 1 /\ valid_name(name) /\ off # <<>>
               /\ At(spec, colon + 1) \notin {"-", "=", "?", "+"} ->
               LET v == lookup_var(name, ctx) IN [v EXCEPT !.out = substring(v.out, off[1], len)]
          [] OTHER ->
               IF usable = {} THEN lookup_var(spec, ctx)
               ELSE LET op == BracedOps[Min(usable)]
                        at == Find(spec, op)
                        n == SubSeq(spec, 1, at - 1)
                    IN  braced_op(op, n, From(spec, at + Len(op)), lookup_var(n, ctx))

RECURSIVE SkipMarks(_, _), ArithEnd(_, _, _), To(_, _, _)
SkipMarks(s, i) == IF At(s, i) \in {NS, SP} THEN SkipMarks(s, i + 1) ELSE i
\* The closing parenthesis of $((, and the first c from i on (or past the end).
ArithEnd(s, i, depth) ==
    CASE At(s, i) = "" \/ (At(s, i) = ")" /\ depth = 1) -> i
      [] At(s, i) = "(" -> ArithEnd(s, i + 1, depth + 1)
      [] At(s, i) = ")" /\ depth > 1 -> ArithEnd(s, i + 1, depth - 1)
      [] OTHER -> ArithEnd(s, i + 1, depth)
To(s, i, c) == IF At(s, i) \in {"", c} THEN i ELSE To(s, i + 1, c)

computed(r, ctx, next) ==
    [out |-> ToText(IF r.ok THEN r.v ELSE 0), ctx |-> [ctx EXCEPT !.env = r.env], next |-> next]

\* The expansion at i, after a $: its value and the position after it.
dollar(s, i, ctx) ==
    LET c == At(s, i)
        special == <<c>>
        at(r, next) == [out |-> r.out, ctx |-> r.ctx, next |-> next]
    IN  CASE c = "{" -> at(expand_braced(SubSeq(s, i + 1, To(s, i + 1, "}") - 1), ctx),
                           To(s, i + 1, "}") + 1)
          [] c \in {"?", "#", "@", "*"} \cup Digit -> at(lookup_var(special, ctx), i + 1)
          [] c = "(" /\ At(s, i + 1) = "(" ->
               LET end == ArithEnd(s, i + 2, 1)
               IN  computed(eval_arith(SubSeq(s, i + 2, end - 1), ctx.env), ctx,
                            IF At(s, end + 1) = ")" THEN end + 2 ELSE end + 1)
          [] c \in NameChar \ Digit ->
               at(lookup_var(SubSeq(s, i, NameEnd(s, i) - 1), ctx), NameEnd(s, i))
          [] OTHER -> [out |-> <<"$">>, ctx |-> ctx, next |-> i]

\* What d gave is put between marks when it may be split.
continued(s, split, out, d) ==
    expand_from(s, d.next, FALSE,
                out \o (IF split /\ d.out # <<>> THEN <<SP>> \o d.out \o <<SP>> ELSE d.out), d.ctx)
expand_from(s, i, split, out, ctx) ==
    LET c == At(s, i)
    IN  CASE c = "" -> [out |-> out, ctx |-> ctx]
          [] c = NS -> expand_from(s, i + 1, FALSE, out, ctx)
          [] c = SP -> expand_from(s, i + 1, TRUE, out, ctx)
          [] c = GE -> IF At(s, i + 1) = "$" THEN expand_from(s, i + 2, split, Append(out, "$"), ctx)
                       ELSE expand_from(s, i + 1, split, Append(out, GE), ctx)
          [] c = "$" -> continued(s, split, out, dollar(s, SkipMarks(s, i + 1), ctx))
          [] OTHER -> expand_from(s, i + 1, split, Append(out, c), ctx)

expand_vars(s, ctx) == expand_from(s, 1, FALSE, <<>>, ctx)

-----------------------------------------------------------------------------
(* Words.                                                                   *)

RECURSIVE BraceParts(_, _, _, _, _), expand_braces_from(_, _), unescape_glob(_),
          has_active_glob(_), split_fields(_, _, _, _, _)

\* The parts of a brace group from j on, and where it closes (0: nowhere).
BraceParts(w, j, depth, parts, cur) ==
    LET c == At(w, j)
        go(d) == BraceParts(w, j + 1, d, parts, Append(cur, c))
    IN  CASE c = "" -> [end |-> 0, parts |-> parts]
          [] c = GE -> BraceParts(w, j + 2, depth, parts, cur \o SubSeq(w, j, Min({j + 1, Len(w)})))
          [] c = "{" -> go(depth + 1)
          [] c = "}" -> IF depth = 1 THEN [end |-> j, parts |-> Append(parts, cur)] ELSE go(depth - 1)
          [] c = "," /\ depth = 1 -> BraceParts(w, j + 1, depth, Append(parts, cur), <<>>)
          [] c \notin {"", GE, "{", "}"} /\ ~(c = "," /\ depth = 1) -> go(depth)

\* The integers, or the letters, from one end of a range to the other.
Span(x, y) == [k \in 1..(Abs(y - x) + 1) |-> IF x <= y THEN x + k - 1 ELSE x - k + 1]
expand_range(spec) ==
    LET dots == Find(spec, <<".", ".">>)
        a == SubSeq(spec, 1, dots - 1)
        b == From(spec, dots + 2)
        letter(t) == {k \in DOMAIN Letters : t = <<Letters[k]>>}
    IN  CASE dots = 0 -> <<>>
          [] dots > 0 /\ parse_int(a) # <<>> /\ parse_int(b) # <<>> ->
               LET ns == Span(parse_int(a)[1], parse_int(b)[1])
               IN  [k \in DOMAIN ns |-> ToText(ns[k])]
          [] dots > 0 /\ letter(a) # {} /\ letter(b) # {} ->
               LET ns == Span(Max(letter(a)), Max(letter(b)))
               IN  [k \in DOMAIN ns |-> <<Letters[ns[k]]>>]
          [] OTHER -> <<>>

\* The first group that expands is replaced, and what results is read again.
expand_braces_from(w, i) ==
    LET g == BraceParts(w, i + 1, 1, <<>>, <<>>)
        all == IF Len(g.parts) > 1 THEN g.parts ELSE expand_range(g.parts[1])
    IN  CASE i > Len(w) -> <<w>>
          [] At(w, i) = GE -> expand_braces_from(w, i + 2)
          [] At(w, i) = "{" /\ g.end > 0 /\ all # <<>> ->
               FlattenSeq([k \in DOMAIN all |->
                    expand_braces_from(SubSeq(w, 1, i - 1) \o all[k] \o From(w, g.end + 1), 1)])
          [] OTHER -> expand_braces_from(w, i + 1)
expand_braces(w) == expand_braces_from(w, 1)

expand_tilde(s) ==
    IF At(s, 1) = "~" /\ At(s, 2) \in {"", "/"} THEN Home \o Tail(s) ELSE s

has_active_glob(s) ==
    /\ s # <<>>
    /\ IF s[1] = GE THEN has_active_glob(From(s, 3))
       ELSE s[1] \in {"*", "?", "["} \/ has_active_glob(Tail(s))

unescape_glob(s) ==
    CASE s = <<>> -> <<>>
      [] At(s, 1) \in {NS, SP} -> unescape_glob(Tail(s))
      [] At(s, 1) = GE -> SubSeq(s, 2, Min({2, Len(s)})) \o unescape_glob(From(s, 3))
      [] OTHER -> <<s[1]>> \o unescape_glob(Tail(s))

expand_vars_clean(s, ctx) ==
    LET v == expand_vars(s, ctx) IN [v EXCEPT !.out = unescape_glob(@)]

\* The names that match, with the directory of the pattern; none when the pattern
\* has no active character or its directory cannot be read.
expand_glob(marked) ==
    LET s == strip_split(marked)
        cut == Max({0} \cup {k \in DOMAIN s : s[k] = "/"})
        dir == IF cut = 0 THEN <<".">> ELSE SubSeq(s, 1, cut - 1)
        pat == From(s, cut + 1)
        hits == SelectSeq(Files[dir], LAMBDA n :
                    (n[1] = "." => At(pat, 1) = ".") /\ glob_match(pat, n))
    IN  IF ~has_active_glob(s) \/ dir \notin DOMAIN Files THEN <<>>
        ELSE [k \in DOMAIN hits |-> SubSeq(s, 1, cut) \o hits[k]]

split_fields(s, ifs, splittable, fields, cur) ==
    LET c == At(s, 1)
        go(b, t) == split_fields(Tail(s), ifs, b, fields, t)
    IN  CASE c = "" -> SelectSeq(Append(fields, cur), LAMBDA f : f # <<>>)
          [] c = SP -> go(~splittable, cur)
          [] c = NS -> go(splittable, cur)
          [] c = GE -> split_fields(From(s, 3), ifs, splittable, fields,
                                    cur \o SubSeq(s, 2, Min({2, Len(s)})))
          [] c \in ifs /\ splittable ->
               split_fields(Tail(s), ifs, splittable, Append(fields, cur), <<>>)
          [] c \notin {"", SP, NS, GE} /\ ~(c \in ifs /\ splittable) ->
               go(splittable, Append(cur, c))
\* Mutant of split_marked: every blank separates.
split_marked_all(s, ifs) == split_fields(Without(s, {SP}), ifs, TRUE, <<>>, <<>>)
split_marked(s, ifs) == split_fields(s, ifs, FALSE, <<>>, <<>>)

ifs(ctx) ==
    IF Chars("IFS") \in DOMAIN ctx.env THEN Range(ctx.env[Chars("IFS")]) ELSE Blank \cup {"\n"}

\* The words a word stands for, v being its expansion by expand_vars.
words_of(arg, v, expanded, fields, globs) ==
    CASE globs # <<>> -> [v EXCEPT !.out = globs]
      [] globs = <<>> /\ SP \in Range(arg) /\ Len(fields) > 1 -> [v EXCEPT !.out = fields]
      [] OTHER -> [v EXCEPT !.out = <<unescape_glob(expanded)>>]
globbed(arg, v, expanded, ctx) ==
    words_of(arg, v, expanded, split_marked(expanded, ifs(ctx)),
             IF "f" \in ctx.opts THEN <<>> ELSE expand_glob(expanded))
tilded(arg, v, ctx) == globbed(arg, v, expand_tilde(v.out), ctx)
expand_word_single(arg, ctx) ==
    IF arg = <<NS, "$", "@">> THEN [out |-> ctx.params, ctx |-> ctx]
    ELSE tilded(arg, expand_vars(arg, ctx), ctx)

\* f over the words, each with the context the one before leaves.
InTurn(f(_, _), words, ctx) ==
    FoldLeft(LAMBDA acc, w : LET r == f(w, acc.ctx) IN [out |-> acc.out \o r.out, ctx |-> r.ctx],
             [out |-> <<>>, ctx |-> ctx], words)

expand_word(arg, ctx) ==
    InTurn(expand_word_single, expand_braces(arg), ctx)

\* A subshell or group in a pipeline runs as a process that gets its text.
is_group(argv) ==
    /\ Len(argv) = 1
    /\ Len(argv[1]) > 2
    /\ <<Head(argv[1]), Last(argv[1])>> \in {<<"(", ")">>, <<"{", "}">>}
Subshell == <<"--subshell">>

\* A file name: the first word it expands to.
expand_path(p, ctx) ==
    LET r == expand_word(p, ctx) IN [r EXCEPT !.out = IF @ = <<>> THEN p ELSE @[1]]

expand_argv(argv, ctx) ==
    IF is_group(argv) THEN [out |-> <<Subshell, SubSeq(argv[1], 2, Len(argv[1]) - 1)>>, ctx |-> ctx]
    ELSE InTurn(expand_word, argv, ctx)
\* The command with the words args and its file names expanded.
expanded_cmd(cmd, args) ==
    LET path(p) == IF p = None THEN p ELSE <<expand_path(p[1], args.ctx).out>> \o Tail(p)
        std == [f \in {"in", "out", "err", "rw"} |-> path(cmd[f])]
        fds == [k \in DOMAIN cmd.fds |-> path(<<cmd.fds[k][3]>>)[1]]
    IN  [out |-> <<[f \in DOMAIN cmd |->
                      CASE f = "argv" -> args.out
                        [] f \in {"in", "out", "err", "rw"} -> std[f]
                        [] f = "fds" -> [k \in DOMAIN cmd.fds |-> [cmd.fds[k] EXCEPT ![3] = fds[k]]]
                        [] OTHER -> cmd[f]]>>,
         ctx |-> args.ctx]
expand_cmd(cmd, ctx) == expanded_cmd(cmd, expand_argv(cmd.argv, ctx))
expand_pipeline(cmds, ctx) == InTurn(expand_cmd, cmds, ctx)

-----------------------------------------------------------------------------
(* The line before it is tokenized: history, aliases, backquotes, $(...).   *)

RECURSIVE expand_history_from(_, _, _, _, _), replace_alias_from(_, _, _, _, _),
          alias_rounds(_, _, _, _), find_subst_end(_, _, _, _), subst_from(_, _, _, _),
          backticks_from(_, _, _), backtick_end(_, _), WordEnd(_, _, _)

LastWord(t) ==
    LET blanks == {k \in DOMAIN t : t[k] \in Blank}
        end == Max({0} \cup (DOMAIN t \ blanks))
        start == Max({0} \cup {k \in blanks : k < end})
    IN  SubSeq(t, start + 1, end)

\* The place of the command that a reference at i names (0: none), and its end.
history_ref(s, i, n) ==
    LET minus == At(s, i + 1) = "-"
        start == IF minus THEN i + 2 ELSE i + 1
        end == DigitsEnd(s, start)
        k == IF end = start THEN 0 ELSE Number(SubSeq(s, start, end - 1))
    IN  [at |-> IF k \in 1..n THEN (IF minus THEN n + 1 - k ELSE k) ELSE 0, next |-> end]

expand_history_from(s, i, squote, out, hist) ==
    LET c == At(s, i)
        active == ~squote /\ c = "!"
        ref == history_ref(s, i, Len(hist))
        put(t, next) == expand_history_from(s, next, squote, out \o t, hist)
    IN  CASE c = "" -> out
          [] c = "'" -> expand_history_from(s, i + 1, ~squote, Append(out, c), hist)
          [] active /\ At(s, i + 1) = "!" -> put(Last(hist), i + 2)
          [] active /\ At(s, i + 1) = "$" -> put(LastWord(Last(hist)), i + 2)
          [] active /\ At(s, i + 1) \in Digit \cup {"-"} /\ ref.at > 0 -> put(hist[ref.at], ref.next)
          [] OTHER -> put(<<c>>, i + 1)
expand_history(s, hist) == IF hist = <<>> THEN s ELSE expand_history_from(s, 1, FALSE, <<>>, hist)

\* set_alias and unalias; a name is a text without =.
set_alias(aliases, name, value) ==
    IF name = <<>> \/ "=" \in Range(name) THEN aliases ELSE Assigned(aliases, name, value)
unalias(aliases, name) ==
    IF name = <<"-", "a">> THEN << >> ELSE [n \in DOMAIN aliases \ {name} |-> aliases[n]]

WordEnd(s, i, stops) == IF At(s, i) \in stops \cup {""} THEN i ELSE WordEnd(s, i + 1, stops)

\* The line with the first alias in command position replaced, and its name.
replace_alias_from(s, i, q, start, aliases) ==
    LET c == At(s, i)
        go(r, b) == replace_alias_from(s, i + 1, r, b, aliases)
        end == WordEnd(s, i, Blank \cup {";", "|", "&", "<", ">", "(", ")"})
        word == SubSeq(s, i, end - 1)
    IN  CASE c = "" -> [hit |-> FALSE]
          [] q = "'" -> go(IF c = "'" THEN "" ELSE q, start)
          [] q = "\"" /\ c = "\\" -> replace_alias_from(s, i + 2, q, start, aliases)
          [] q = "\"" /\ c # "\\" /\ c # "" -> go(IF c = "\"" THEN "" ELSE q, start)
          [] q = "" /\ c \in {"'", "\""} -> go(c, FALSE)
          [] q = "" /\ c = "\\" -> replace_alias_from(s, i + 2, q, FALSE, aliases)
          [] q = "" /\ c \in Blank -> go(q, start)
          [] q = "" /\ c \in {";", "|", "&", "("} -> go(q, TRUE)
          [] OTHER -> IF ~start THEN go(q, FALSE)
                      ELSE IF word \in DOMAIN aliases
                      THEN [hit |-> TRUE, name |-> word,
                            line |-> SubSeq(s, 1, i - 1) \o aliases[word] \o From(s, end)]
                      ELSE replace_alias_from(s, Max({end, i}), q, FALSE, aliases)
replace_first_alias(s, aliases) == replace_alias_from(s, 1, "", TRUE, aliases)

MaxRounds == 16
alias_rounds(s, used, n, aliases) ==
    LET r == replace_first_alias(s, aliases)
    IN  IF n = 0 \/ ~r.hit THEN s
        ELSE IF r.name \in used THEN s
        ELSE alias_rounds(r.line, used \cup {r.name}, n - 1, aliases)
expand_alias(s, aliases) == alias_rounds(s, {}, MaxRounds, aliases)

\* The ) that closes $(, or 0.
find_subst_end(s, i, depth, q) ==
    LET c == At(s, i)
        go(d, r) == find_subst_end(s, i + 1, d, r)
    IN  CASE c = "" -> 0
          [] q = "'" -> go(depth, IF c = "'" THEN "" ELSE q)
          [] q # "'" /\ c = "\\" -> find_subst_end(s, i + 2, depth, q)
          [] q = "\"" /\ c # "\\" -> go(depth, IF c = "\"" THEN "" ELSE q)
          [] q = "" /\ c \in {"'", "\""} -> go(depth, c)
          [] q = "" /\ c = "(" -> go(depth + 1, q)
          [] q = "" /\ c = ")" -> IF depth = 1 THEN i ELSE go(depth - 1, q)
          [] OTHER -> go(depth, q)

\* q is the set of quotes the code believes to be in: a ' counts inside " too.
subst_from(s, i, q, out) ==
    LET c == At(s, i)
        close == find_subst_end(s, i + 2, 1, "")
        copy(n, r) == subst_from(s, i + n, r, out \o SubSeq(s, i, Min({i + n - 1, Len(s)})))
    IN  CASE c = "" -> out
          [] "'" \in q -> copy(1, IF c = "'" THEN q \ {"'"} ELSE q)
          [] "'" \notin q /\ c = "\\" /\ "\"" \in q -> copy(2, q)
          [] "'" \notin q /\ c = "'" -> copy(1, q \cup {"'"})
          [] "'" \notin q /\ c = "\"" -> copy(1, IF c \in q THEN q \ {c} ELSE q \cup {c})
          [] "'" \notin q /\ c = "$" /\ At(s, i + 1) = "(" /\ At(s, i + 2) # "(" /\ close > 0 ->
               subst_from(s, close + 1, q,
                          out \o Output(subst_from(SubSeq(s, i + 2, close - 1), 1, {}, <<>>)))
          [] OTHER -> copy(1, q)
expand_command_subst(s) == subst_from(s, 1, {}, <<>>)

\* The backquote that closes the one before i, or 0.
backtick_end(s, i) ==
    CASE At(s, i) = "" -> 0
      [] At(s, i) = BQ -> i
      [] At(s, i) = "\\" -> backtick_end(s, i + 2)
      [] OTHER -> backtick_end(s, i + 1)
backticks_from(s, i, squote) ==
    LET c == At(s, i)
        close == backtick_end(s, i + 1)
        inner == SubSeq(s, i + 1, close - 1)
    IN  CASE c = "" -> <<>>
          [] c = "'" -> <<c>> \o backticks_from(s, i + 1, ~squote)
          [] ~squote /\ c = "\\" -> SubSeq(s, i, Min({i + 1, Len(s)})) \o backticks_from(s, i + 2, squote)
          [] ~squote /\ c = BQ /\ close > 0 ->
               Output(backticks_from(replace(replace(replace(inner, <<"\\", BQ>>, <<BQ>>, TRUE),
                                                     <<"\\", "\\">>, <<"\\">>, TRUE),
                                             <<"\\", "$">>, <<"$">>, TRUE), 1, FALSE))
                 \o backticks_from(s, close + 1, squote)
          [] OTHER -> <<c>> \o backticks_from(s, i + 1, squote)
expand_backticks(s) == backticks_from(s, 1, FALSE)

\* split_assignments: the leading NAME=value words of a command, the values
\* expanded once more; a read-only name fails the command.
split_assignments(argv, ctx) ==
    LET eq(w) == Find(w, <<"=">>)
        name(w) == SubSeq(w, 1, eq(w) - 1)
        assigns(w) == /\ eq(w) > 1
                      /\ Range(name(w)) \subseteq NameChar
                      /\ w[1] \notin Digit
        n == Max({k \in 0..Len(argv) : \A j \in 1..k :
                        assigns(argv[j]) /\ name(argv[j]) \notin ctx.readonly})
    IN  [ok |-> ~(n < Len(argv) /\ assigns(argv[n + 1])),
         env |-> [k \in 1..n |-> <<name(argv[k]),
                    expand_vars_clean(From(argv[k], eq(argv[k]) + 1), ctx).out>>],
         argv |-> From(argv, n + 1)]
=============================================================================
