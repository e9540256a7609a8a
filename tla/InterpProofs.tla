---------------------------- MODULE InterpProofs -----------------------------
(***************************************************************************)
(* ExitTrapOnce holds in every behaviour of the interpreter, for all       *)
(* scripts and functions: until the main process says goodbye no frame of  *)
(* the stack can run a trap, because no signal is pending anywhere, every  *)
(* command on the stack is one of the script's, and a subshell has no      *)
(* traps; and after that only the trap's own line is left to run.          *)
(***************************************************************************)
EXTENDS Interp, TLAPS, WellFoundedInduction, SequenceTheorems

-----------------------------------------------------------------------------
(* Stacks.                                                                  *)

LEMMA FrontFacts ==
    ASSUME NEW S, NEW s \in Seq(S), s # <<>>
    PROVE  /\ Len(s) \in Nat \ {0}
           /\ Front(s) \in Seq(S) /\ Len(Front(s)) = Len(s) - 1
           /\ \A i \in 1 .. (Len(s) - 1) : Front(s)[i] = s[i]
           /\ Last(s) = s[Len(s)] /\ Last(s) \in S
<1>1. Len(s) \in Nat \ {0}
  OBVIOUS
<1>2. \A i \in 1 .. (Len(s) - 1) : s[i] \in S
  BY <1>1
<1>3. Front(s) = SubSeq(s, 1, Len(s) - 1) /\ Last(s) = s[Len(s)]
  BY DEF Front, Last
<1>4. PICK n : n = Len(s) - 1
  OBVIOUS
<1>5. n \in Nat /\ \A i \in 1 .. n : s[i] \in S
  BY <1>1, <1>2, <1>4
<1>6. /\ SubSeq(s, 1, n) \in Seq(S) /\ Len(SubSeq(s, 1, n)) = n
      /\ \A i \in 1 .. n : SubSeq(s, 1, n)[i] = s[i]
  BY <1>5, SubSeqProperties
<1>7. s[Len(s)] \in S
  BY <1>1
<1>8. QED
  BY <1>1, <1>3, <1>4, <1>6, <1>7

LEMMA OneFrame ==
    ASSUME NEW a
    PROVE  <<a>> \in Seq({a}) /\ Len(<<a>>) = 1 /\ <<a>>[1] = a
OBVIOUS

LEMMA TwoFrames ==
    ASSUME NEW a, NEW b
    PROVE  /\ <<a, b>> \in Seq({a, b}) /\ Len(<<a, b>>) = 2
           /\ <<a, b>>[1] = a /\ <<a, b>>[2] = b
OBVIOUS

LEMMA AppendFrame == ASSUME NEW a, NEW b PROVE Append(<<a>>, b) = <<a, b>>
<1>1. ASSUME NEW S, NEW s \in Seq(S), NEW c \in S, Len(s) = 1
      PROVE  Append(s, c) = <<s[1], c>>
  <2>1. /\ Append(s, c) \in Seq(S) /\ Len(Append(s, c)) = Len(s) + 1
        /\ \A i \in 1 .. Len(s) : Append(s, c)[i] = s[i]
        /\ Append(s, c)[Len(s) + 1] = c
    BY AppendProperties
  <2>2. PICK t : t = Append(s, c)
    OBVIOUS
  <2>3. t \in Seq(S) /\ Len(t) = 2 /\ t[1] = s[1] /\ t[2] = c
    BY <2>1, <2>2, <1>1
  <2>4. t = <<s[1], c>>
    BY <2>3
  <2>5. QED
    BY <2>2, <2>4
<1>2. <<a>> \in Seq({a, b}) /\ b \in {a, b} /\ Len(<<a>>) = 1 /\ <<a>>[1] = a
  OBVIOUS
<1>3. PICK s : s = <<a>>
  OBVIOUS
<1>4. Append(s, b) = <<s[1], b>> /\ s[1] = a
  BY <1>1, <1>2, <1>3
<1>5. QED
  BY <1>3, <1>4

LEMMA ThreeFrames ==
    ASSUME NEW a, NEW b, NEW c
    PROVE  /\ <<a, b, c>> \in Seq({a, b, c}) /\ Len(<<a, b, c>>) = 3
           /\ <<a, b, c>>[1] = a /\ <<a, b, c>>[2] = b /\ <<a, b, c>>[3] = c
OBVIOUS

-----------------------------------------------------------------------------
(* Frames that run nothing but commands of the script.                      *)

\* A process in which no signal is pending.
Calm(s) == {"TRAPS", "PENDING"} \subseteq DOMAIN s /\ s.PENDING = None

CleanSource(fr) ==
    /\ {"f", "ph", "lines", "i", "neg", "tail", "cond", "rc"} \subseteq DOMAIN fr
    /\ fr.lines \in Texts /\ fr.i \in Nat \ {0}
    /\ fr.tail = <<>> \/ fr.tail \in Lists
    /\ fr.ph = "line" => fr.i \in DOMAIN fr.lines
    /\ fr.ph \in {"semi", "opgroup"} => fr.i \in DOMAIN fr.lines /\ fr.lines[fr.i].k = fr.ph
CleanLine(fr) ==
    /\ {"f", "ph", "segs", "i", "params", "mark"} \subseteq DOMAIN fr
    /\ fr.segs \in Lists /\ fr.i \in Nat \ {0}
CleanLines(fr) ==
    /\ {"f", "ph", "lines", "i"} \subseteq DOMAIN fr
    /\ fr.lines \in Texts /\ fr.i \in Nat \ {0}
CleanIf(fr) ==
    /\ {"f", "ph", "i", "all"} \subseteq DOMAIN fr
    /\ fr.i \in Nat \ {0}
    /\ fr.all.br \in Seq([c : Lists, b : Texts]) /\ fr.all.els \in Texts
    /\ fr.ph = "got" => fr.i \in 1 .. Len(fr.all.br)
CleanFor(fr) == {"f", "ph", "left", "body"} \subseteq DOMAIN fr /\ fr.body \in Texts
CleanWhile(fr) ==
    /\ {"f", "ph", "until", "cond", "body", "rc"} \subseteq DOMAIN fr
    /\ fr.cond \in Lists /\ fr.body \in Texts
CleanCase(fr) == {"f", "ph", "body"} \subseteq DOMAIN fr /\ fr.body \in Texts

\* An activation that is not a process of its own.
Plain(fr) ==
    \/ fr.f = "source" /\ CleanSource(fr)
    \/ fr.f = "line" /\ CleanLine(fr)
    \/ fr.f = "lines" /\ CleanLines(fr)
    \/ fr.f = "block" /\ {"f", "ph"} \subseteq DOMAIN fr
    \/ fr.f = "if" /\ CleanIf(fr)
    \/ fr.f = "for" /\ CleanFor(fr)
    \/ fr.f = "while" /\ CleanWhile(fr)
    \/ fr.f = "case" /\ CleanCase(fr)
Fork(fr) == fr.f = "fork" /\ {"f", "ph", "shell", "rc"} \subseteq DOMAIN fr /\ Calm(fr.shell)
Live(fr) == fr.f = "main" /\ {"f", "ph", "rc"} \subseteq DOMAIN fr /\ fr.ph = "run"
Clean(fr) == Plain(fr) \/ Fork(fr) \/ Live(fr)

LEMMA PlainIsNot == ASSUME NEW fr, Plain(fr) PROVE fr.f \notin {"main", "fork"} /\ ~Fork(fr) /\ ~Live(fr)
BY DEF Plain, Fork, Live

\* What the interpreter's texts give a frame.
LEMMA TextFacts ==
    ASSUME NEW t \in Texts
    PROVE  /\ Len(t) \in Nat /\ DOMAIN t = 1 .. Len(t)
           /\ \A i \in 1 .. Len(t) :
                /\ t[i].k = "line" /\ t[i].neg => <<Head(t[i].c)>> \in Lists /\ Tail(t[i].c) \in Lists
                /\ t[i].k \in {"line", "semi", "opgroup", "while", "until"} => t[i].c \in Lists
                /\ t[i].k \in {"sub", "group", "opgroup"} => t[i].body \in Texts
                /\ t[i].k = "semi" => i < Len(t)
                /\ ~is_compound_start(t[i]) => Commands(t[i]) \in Lists
                /\ is_compound_start(t[i]) /\ BlockEnd(t, i) # 0 => SubSeq(t, i, BlockEnd(t, i)) \in Texts
<1>1. t \in Seq(Range(t))
  BY TextAssumption
<1>2. Len(t) \in Nat /\ DOMAIN t = 1 .. Len(t)
  BY <1>1, LenProperties
<1>3. QED
  BY <1>2, TextAssumption

LEMMA SliceFacts ==
    ASSUME NEW t \in Texts, NEW i \in 1 .. Len(t), is_compound_start(t[i]), find_block_end(t, i) # 0
    PROVE  LET slice == SubSeq(t, i, find_block_end(t, i))
           IN  /\ t[i].k \in {"for", "while", "until"} => LoopBody(slice) \in Texts
               /\ t[i].k = "case" => CaseBody(slice) \in Texts
               /\ t[i].k = "if" =>
                    Branches(slice) \in [br : Seq([c : Lists, b : Texts]), els : Texts]
<1>1. i \in DOMAIN t
  BY TextFacts
<1>2. QED
  BY <1>1, TextAssumption

LEMMA ListFacts ==
    ASSUME NEW c \in Lists
    PROVE  /\ Len(c) \in Nat /\ DOMAIN c = 1 .. Len(c)
           /\ \A j \in 1 .. Len(c) :
                /\ c[j].cmd.c = "ext" => c[j].cmd.id # "trap"
                /\ c[j].cmd.c = "eval" => c[j].cmd.segs \in Lists
                /\ c[j].cmd.c \in {"call", "dot"} => Functions[c[j].cmd.id] \in Texts
<1>1. c \in Seq(Range(c))
  BY TextAssumption
<1>2. Len(c) \in Nat /\ DOMAIN c = 1 .. Len(c)
  BY <1>1, LenProperties
<1>3. QED
  BY <1>2, TextAssumption

LEMMA Least ==
    ASSUME NEW T \in SUBSET Nat, T # {}
    PROVE  \E x \in T : \A y \in T : x <= y
<1>1. IsWellFoundedOn(OpToRel(<, Nat), Nat)
  BY NatLessThanWellFounded
<1>2. PICK x \in T : \A y \in T : ~(<<y, x>> \in OpToRel(<, Nat))
  BY <1>1, WFMin
<1>3. \A y \in T : ~(y < x)
  BY <1>2 DEF OpToRel
<1>4. QED
  BY <1>3

\* Both searches for the end of a block stay within the text.
LEMMA EndsInText ==
    ASSUME NEW t \in Texts, NEW i \in 1 .. Len(t)
    PROVE  /\ BlockEnd(t, i) = 0 \/ BlockEnd(t, i) \in i .. Len(t)
           /\ find_block_end(t, i) = 0 \/ find_block_end(t, i) \in i .. Len(t)
<1>1. Len(t) \in Nat /\ i \in Nat
  BY TextFacts
<1>2. ASSUME NEW T \in SUBSET (i .. Len(t)), T # {}
      PROVE  (CHOOSE j \in T : \A k \in T : j <= k) \in T
  <2>1. T \in SUBSET Nat
    BY <1>1
  <2>2. QED
    BY <2>1, <1>2, Least
<1>3. BlockEnd(t, i) = 0 \/ BlockEnd(t, i) \in i .. Len(t)
  <2> DEFINE T == {j \in i .. Len(t) : DepthAfter(t, i, j) <= 0}
  <2>1. T \in SUBSET (i .. Len(t))
    OBVIOUS
  <2>2. BlockEnd(t, i) = IF T = {} THEN 0 ELSE CHOOSE j \in T : \A k \in T : j <= k
    BY DEF BlockEnd
  <2> HIDE DEF T
  <2>3. QED
    BY <2>1, <2>2, <1>2
<1>4. find_block_end(t, i) = 0 \/ find_block_end(t, i) \in i .. Len(t)
  <2> DEFINE T == {j \in i + 1 .. Len(t) :
                     /\ t[j].k = Terminator(t[i])
                     /\ FoldLeft(Expecting, <<Terminator(t[i])>>, SubSeq(t, i + 1, j)) = <<>>}
  <2>1. T \in SUBSET (i .. Len(t))
    BY <1>1
  <2>2. find_block_end(t, i) = IF T = {} THEN 0 ELSE CHOOSE j \in T : \A k \in T : j <= k
    BY DEF find_block_end
  <2> HIDE DEF T
  <2>3. QED
    BY <2>1, <2>2, <1>2
<1>5. QED
  BY <1>3, <1>4

-----------------------------------------------------------------------------
(* The frames that are pushed.                                              *)

LEMMA NewSource == ASSUME NEW t \in Texts PROVE Plain(SourceFrame(t))
BY DEF SourceFrame, Plain, CleanSource
LEMMA NewLine == ASSUME NEW c \in Lists PROVE Plain(LineFrame(c))
BY DEF LineFrame, Plain, CleanLine
LEMMA NewLines == ASSUME NEW t \in Texts PROVE Plain(LinesFrame(t))
BY DEF LinesFrame, Plain, CleanLines
LEMMA NewBlock == Plain(BlockFrame)
BY DEF BlockFrame, Plain

LEMMA NewCompound ==
    ASSUME NEW t \in Texts, NEW i \in 1 .. Len(t), is_compound_start(t[i]), find_block_end(t, i) # 0
    PROVE  Plain(CompoundFrame(SubSeq(t, i, find_block_end(t, i))))
<1> DEFINE slice == SubSeq(t, i, find_block_end(t, i))
<1>1. slice[1] = t[i]
  <2>1. find_block_end(t, i) \in i .. Len(t) /\ t \in Seq(Range(t)) /\ Len(t) \in Nat
    BY EndsInText, TextAssumption, TextFacts
  <2>2. PICK e \in i .. Len(t) : e = find_block_end(t, i)
    BY <2>1
  <2>3. \A j \in i .. e : t[j] \in Range(t)
    BY <2>1, <2>2
  <2>4. SubSeq(t, i, e)[1] = t[i]
    BY <2>1, <2>2, <2>3, SubSeqProperties
  <2>5. QED
    BY <2>2, <2>4
<1>2. /\ t[i].k \in {"for", "while", "until"} => LoopBody(slice) \in Texts
      /\ t[i].k = "case" => CaseBody(slice) \in Texts
      /\ t[i].k = "if" => Branches(slice) \in [br : Seq([c : Lists, b : Texts]), els : Texts]
  BY SliceFacts
<1>3. t[i].k \in {"while", "until"} => t[i].c \in Lists
  BY TextFacts
<1> HIDE DEF slice
<1>4. CASE t[i].k = "if"
  <2>1. CompoundFrame(slice) = [f |-> "if", ph |-> "cond", i |-> 1, all |-> Branches(slice)]
    BY <1>1, <1>4 DEF CompoundFrame
  <2>2. QED
    BY <1>2, <1>4, <2>1 DEF Plain, CleanIf, slice
<1>5. CASE t[i].k = "for"
  <2>1. CompoundFrame(slice) = [f |-> "for", ph |-> IF t[i].n = 0 THEN "none" ELSE "next",
                                left |-> t[i].n, body |-> LoopBody(slice)]
    BY <1>1, <1>5 DEF CompoundFrame
  <2>2. QED
    BY <1>2, <1>5, <2>1 DEF Plain, CleanFor, slice
<1>6. CASE t[i].k \in {"while", "until"}
  <2>1. CompoundFrame(slice) = [f |-> "while", ph |-> "sig", until |-> t[i].k = "until",
                                cond |-> t[i].c, body |-> LoopBody(slice), rc |-> 0]
    BY <1>1, <1>6 DEF CompoundFrame
  <2>2. QED
    BY <1>2, <1>3, <1>6, <2>1 DEF Plain, CleanWhile, slice
<1>7. CASE t[i].k = "case"
  <2>1. CompoundFrame(slice) = [f |-> "case", ph |-> "run", body |-> CaseBody(slice)]
    BY <1>1, <1>7 DEF CompoundFrame
  <2>2. QED
    BY <1>2, <1>7, <2>1 DEF Plain, CleanCase, slice
<1>8. QED
  BY <1>4, <1>5, <1>6, <1>7 DEF is_compound_start

-----------------------------------------------------------------------------
(* Before the EXIT trap.                                                    *)

\* The stack of a process and its subshells; the outermost process is the first frame.
Good(st) ==
    /\ \E S : st \in Seq(S)
    /\ \A j \in 1 .. Len(st) : Clean(st[j]) /\ (st[j].f = "main" <=> j = 1)

\* Within a subshell there are no traps, and the state it has put aside has none if it is
\* itself within one.
Forked(st, traps) ==
    /\ \A j, k \in 1 .. Len(st) :
          st[j].f = "fork" /\ st[k].f = "fork" /\ j < k => st[k].shell.TRAPS = {}
    /\ (\E j \in 1 .. Len(st) : st[j].f = "fork") => traps = {}

NoTrap == (\E S : trace \in Seq(S)) /\ \A j \in 1 .. Len(trace) : trace[j].id # "trap"

Before == Good(stack) /\ Forked(stack, sh.TRAPS) /\ Calm(sh) /\ NoTrap

\* What a step does to the process that runs, and to the commands run.
Kept == Calm(sh') /\ sh'.TRAPS = sh.TRAPS
Silent == Quiet /\ Kept

LEMMA SameTrace == ASSUME NoTrap, trace' = trace PROVE NoTrap'
BY DEF NoTrap

LEMMA TopFacts ==
    ASSUME Before, stack # <<>>
    PROVE  /\ Len(stack) \in Nat \ {0} /\ Top = stack[Len(stack)] /\ Clean(Top)
           /\ Top.f = "main" <=> Len(stack) = 1
<1>1. PICK S : stack \in Seq(S)
  BY DEF Before, Good
<1>2. Len(stack) \in Nat \ {0} /\ Top = stack[Len(stack)]
  BY <1>1, FrontFacts DEF Top
<1>3. Len(stack) \in 1 .. Len(stack)
  BY <1>2
<1>4. Clean(stack[Len(stack)]) /\ (stack[Len(stack)].f = "main" <=> Len(stack) = 1)
  BY <1>3 DEF Before, Good
<1>5. QED
  BY <1>2, <1>4

\* The top frame is replaced by the frames of new.
LEMMA Rebuilt ==
    ASSUME Before, stack # <<>>, Plain(Top), NEW N, NEW new \in Seq(N),
           stack' = Front(stack) \o new
    PROVE  \E n \in Nat \ {0} :
              /\ Len(stack) = n + 1 /\ (\E S : stack' \in Seq(S))
              /\ Len(stack') = n + Len(new) /\ Len(new) \in Nat
              /\ \A i \in 1 .. n : stack'[i] = stack[i]
              /\ \A i \in 1 .. Len(stack') :
                    i > n => i - n \in 1 .. Len(new) /\ stack'[i] = new[i - n]
<1>1. PICK S : stack \in Seq(S)
  BY DEF Before, Good
<1> DEFINE n == Len(stack) - 1
<1>2. n \in Nat /\ Len(stack) = n + 1
  BY TopFacts
<1>3. n # 0
  BY <1>2, TopFacts, PlainIsNot
<1> HIDE DEF n
<1>4. PICK t : t = stack'
  OBVIOUS
<1>5. PICK w : w = Front(stack)
  OBVIOUS
<1>6. t = w \o new
  BY <1>4, <1>5
<1>7. /\ w \in Seq(S) /\ Len(w) = Len(stack) - 1
      /\ \A i \in 1 .. (Len(stack) - 1) : w[i] = stack[i]
  BY <1>1, <1>5, FrontFacts
<1>8. Len(w) = n /\ \A i \in 1 .. n : w[i] = stack[i]
  BY <1>7, <1>2
<1>9. w \in Seq(S \cup N) /\ new \in Seq(S \cup N) /\ Len(new) \in Nat
  BY <1>7, SeqMonotonic
<1>10. /\ t \in Seq(S \cup N) /\ Len(t) = Len(w) + Len(new)
       /\ \A i \in 1 .. Len(w) : t[i] = w[i]
       /\ \A i \in 1 .. Len(new) : t[Len(w) + i] = new[i]
  BY <1>6, <1>9
<1>11. ASSUME NEW i \in 1 .. Len(t), i > n
      PROVE  i - n \in 1 .. Len(new) /\ t[i] = new[i - n]
  <2>1. i - n \in 1 .. Len(new) /\ n + (i - n) = i
    BY <1>8, <1>9, <1>10, <1>11, <1>2
  <2>2. QED
    BY <2>1, <1>8, <1>10
<1>12. t \in Seq(S \cup N) /\ Len(t) = n + Len(new) /\ \A i \in 1 .. n : t[i] = stack[i]
  BY <1>8, <1>10
<1>13. QED
  BY <1>2, <1>3, <1>4, <1>9, <1>11, <1>12

\* A plain frame gives way to plain frames.
LEMMA Ordinary ==
    ASSUME Before, stack # <<>>, Plain(Top), NEW N, NEW new \in Seq(N),
           stack' = Front(stack) \o new, \A j \in 1 .. Len(new) : Plain(new[j]),
           Kept, NoTrap'
    PROVE  Before'
<1>1. PICK n \in Nat \ {0} :
        /\ Len(stack) = n + 1 /\ (\E S : stack' \in Seq(S))
        /\ Len(stack') = n + Len(new) /\ Len(new) \in Nat
        /\ \A i \in 1 .. n : stack'[i] = stack[i]
        /\ \A i \in 1 .. Len(stack') :
              i > n => i - n \in 1 .. Len(new) /\ stack'[i] = new[i - n]
  BY Rebuilt
<1>2. ASSUME NEW i \in 1 .. Len(stack'), i > n PROVE Plain(stack'[i]) /\ stack'[i].f \notin {"main", "fork"}
  BY <1>1, <1>2, PlainIsNot
<1>3. ASSUME NEW i \in 1 .. Len(stack'), ~(i > n)
      PROVE  i \in 1 .. n /\ i \in 1 .. Len(stack) /\ stack'[i] = stack[i]
  BY <1>1, <1>3
<1>4. Good(stack')
  <2>1. ASSUME NEW i \in 1 .. Len(stack')
        PROVE  Clean(stack'[i]) /\ (stack'[i].f = "main" <=> i = 1)
    <3>1. CASE i > n
      BY <3>1, <1>1, <1>2 DEF Clean
    <3>2. CASE ~(i > n)
      BY <3>2, <1>3 DEF Before, Good
    <3>3. QED
      BY <3>1, <3>2
  <2>2. QED
    BY <2>1, <1>1 DEF Good
<1>5. ASSUME NEW i \in 1 .. Len(stack'), stack'[i].f = "fork"
      PROVE  i \in 1 .. Len(stack) /\ stack'[i] = stack[i]
  BY <1>2, <1>3, <1>5
<1>6. Forked(stack', sh'.TRAPS)
  <2>1. Forked(stack, sh.TRAPS)
    BY DEF Before
  <2>2. \A j, k \in 1 .. Len(stack') :
            stack'[j].f = "fork" /\ stack'[k].f = "fork" /\ j < k => stack'[k].shell.TRAPS = {}
    BY <2>1, <1>5 DEF Forked
  <2>3. (\E j \in 1 .. Len(stack') : stack'[j].f = "fork") => sh'.TRAPS = {}
    BY <2>1, <1>5 DEF Forked, Kept
  <2>4. QED
    BY <2>2, <2>3 DEF Forked
<1>7. QED
  BY <1>4, <1>6 DEF Before, Kept

LEMMA Stays ==
    ASSUME Before, stack' = stack, Kept, NoTrap'
    PROVE  Before'
BY DEF Before, Good, Forked, Kept

LEMMA Pops ==
    ASSUME Before, stack # <<>>, Plain(Top), stack' = Front(stack), Kept, NoTrap'
    PROVE  Before'
<1>1. PICK S : stack \in Seq(S)
  BY DEF Before, Good
<1>2. Front(stack) \in Seq(S)
  BY <1>1, FrontFacts
<1>3. PICK w : w = Front(stack)
  OBVIOUS
<1>4. stack' = w \o <<>>
  BY <1>2, <1>3
<1>5. PICK new : new = <<>>
  OBVIOUS
<1>6. new \in Seq(S) /\ Len(new) = 0
  BY <1>5
<1>7. \A j \in 1 .. Len(new) : Plain(new[j])
  BY <1>6
<1>8. stack' = Front(stack) \o new
  BY <1>3, <1>4, <1>5
<1>9. QED
  BY <1>6, <1>7, <1>8, Ordinary

LEMMA Swaps ==
    ASSUME Before, stack # <<>>, Plain(Top), NEW a, Plain(a),
           stack' = Append(Front(stack), a), Kept, NoTrap'
    PROVE  Before'
<1>1. PICK S : stack \in Seq(S)
  BY DEF Before, Good
<1>2. Front(stack) \in Seq(S \cup {a})
  BY <1>1, FrontFacts, SeqMonotonic
<1>3. stack' = Front(stack) \o <<a>>
  BY <1>2, AppendIsConcat
<1>4. <<a>> \in Seq({a}) /\ \A j \in 1 .. Len(<<a>>) : Plain(<<a>>[j])
  BY OneFrame
<1>5. QED
  BY <1>3, <1>4, Ordinary

LEMMA Calls ==
    ASSUME Before, stack # <<>>, Plain(Top), NEW a, Plain(a), NEW b, Plain(b),
           stack' = Front(stack) \o <<a, b>>, Kept, NoTrap'
    PROVE  Before'
<1> DEFINE new == <<a, b>>
<1>1. new \in Seq({a, b}) /\ Len(new) = 2 /\ new[1] = a /\ new[2] = b
  BY TwoFrames
<1>2. stack' = Front(stack) \o new
  OBVIOUS
<1> HIDE DEF new
<1>3. \A j \in 1 .. Len(new) : Plain(new[j])
  <2>1. \A j \in 1 .. Len(new) : j = 1 \/ j = 2
    BY <1>1
  <2>2. QED
    BY <2>1, <1>1
<1>4. QED
  BY <1>1, <1>2, <1>3, Ordinary

LEMMA CallsTwo ==
    ASSUME Before, stack # <<>>, Plain(Top), NEW a, Plain(a), NEW b, Plain(b), NEW c, Plain(c),
           stack' = Front(stack) \o <<a, b, c>>, Kept, NoTrap'
    PROVE  Before'
<1> DEFINE new == <<a, b, c>>
<1>1. new \in Seq({a, b, c}) /\ Len(new) = 3 /\ new[1] = a /\ new[2] = b /\ new[3] = c
  BY ThreeFrames
<1>2. stack' = Front(stack) \o new
  OBVIOUS
<1> HIDE DEF new
<1>3. \A j \in 1 .. Len(new) : Plain(new[j])
  <2>1. \A j \in 1 .. Len(new) : j = 1 \/ j = 2 \/ j = 3
    BY <1>1
  <2>2. QED
    BY <2>1, <1>1
<1>4. QED
  BY <1>1, <1>2, <1>3, Ordinary

-----------------------------------------------------------------------------
(* One lemma per action: a step before the goodbye keeps Before.            *)

LEMMA Turned ==
    ASSUME NEW fr, Plain(fr), NEW ph, ph \notin {"line", "semi", "opgroup"}, fr.f = "if" => ph # "got"
    PROVE  Plain([fr EXCEPT !.ph = ph])
<1> DEFINE g == [fr EXCEPT !.ph = ph]
<1>1. DOMAIN g = DOMAIN fr /\ \A x \in DOMAIN fr : x # "ph" => g[x] = fr[x]
  OBVIOUS
<1>2. "ph" \in DOMAIN fr => g.ph = ph
  OBVIOUS
<1> HIDE DEF g
<1>3. CASE fr.f = "source"
  BY <1>1, <1>2, <1>3 DEF Plain, CleanSource
<1>4. CASE fr.f = "line"
  BY <1>1, <1>2, <1>4 DEF Plain, CleanLine
<1>5. CASE fr.f = "lines"
  BY <1>1, <1>2, <1>5 DEF Plain, CleanLines
<1>6. CASE fr.f = "block"
  BY <1>1, <1>2, <1>6 DEF Plain
<1>7. CASE fr.f = "if"
  BY <1>1, <1>2, <1>7 DEF Plain, CleanIf
<1>8. CASE fr.f = "for"
  BY <1>1, <1>2, <1>8 DEF Plain, CleanFor
<1>9. CASE fr.f = "while"
  BY <1>1, <1>2, <1>9 DEF Plain, CleanWhile
<1>10. CASE fr.f = "case"
  BY <1>1, <1>2, <1>10 DEF Plain, CleanCase
<1>11. QED
  BY <1>3, <1>4, <1>5, <1>6, <1>7, <1>8, <1>9, <1>10 DEF Plain, g

\* What the frame on top is.
LEMMA TopKind ==
    ASSUME Before, NEW f, NEW ph, In(f, ph), f \notin {"main", "fork"}
    PROVE  /\ stack # <<>> /\ Top.f = f /\ Top.ph = ph /\ Plain(Top)
           /\ f = "source" => CleanSource(Top)
           /\ f = "line" => CleanLine(Top)
           /\ f = "lines" => CleanLines(Top)
           /\ f = "if" => CleanIf(Top)
           /\ f = "for" => CleanFor(Top)
           /\ f = "while" => CleanWhile(Top)
           /\ f = "case" => CleanCase(Top)
<1>1. stack # <<>> /\ Top.f = f /\ Top.ph = ph
  BY DEF In
<1>2. Plain(Top)
  BY <1>1, TopFacts DEF Clean, Fork, Live
<1>3. QED
  BY <1>1, <1>2 DEF Plain

LEMMA StillQuiet == ASSUME Before, Quiet PROVE NoTrap'
BY SameTrace DEF Before, Quiet

LEMMA ShellKept ==
    ASSUME Before, {"TRAPS", "PENDING"} \subseteq DOMAIN sh', sh'.TRAPS = sh.TRAPS,
           sh'.PENDING = sh.PENDING
    PROVE  Kept
BY DEF Before, Calm, Kept

LEMMA RcKept == ASSUME Before, NEW v, sh' = [sh EXCEPT !.rc = v] PROVE Kept
BY DEF Before, Calm, Kept
LEMMA SameKept == ASSUME Before, sh' = sh PROVE Kept
BY DEF Before, Kept

LEMMA LeavesSource ==
    ASSUME Before, NEW ph, In("source", ph), NEW s, Calm(s), s.TRAPS = sh.TRAPS, NEW v, LeaveSource(s, v)
    PROVE  Before'
<1>1. stack # <<>> /\ Plain(Top)
  BY TopKind
<1>2. stack' = Front(stack) /\ sh' = [s EXCEPT !.rc = Top.rc] /\ NoTrap'
  BY StillQuiet DEF LeaveSource, Return
<1>3. Kept
  BY <1>2 DEF Calm, Kept
<1>4. QED
  BY <1>1, <1>2, <1>3, Pops

LEMMA SourceSignalStep ==
    ASSUME Before, NEW from, NEW next, SourceSignal(from, next),
           next = "line" => Top.i \in DOMAIN Top.lines, next \notin {"semi", "opgroup"}
    PROVE  Before'
<1>1. In("source", from) /\ sh.PENDING = None
  BY DEF SourceSignal, Running, Before, Calm
<1>2. stack # <<>> /\ Plain(Top) /\ CleanSource(Top) /\ Top.f = "source"
  BY <1>1, TopKind
<1>3. stack' = Append(Front(stack), [Top EXCEPT !.ph = next]) /\ sh' = sh /\ NoTrap'
  BY <1>1, StillQuiet DEF SourceSignal, Goto
<1>4. Plain([Top EXCEPT !.ph = next])
  <2> DEFINE g == [Top EXCEPT !.ph = next]
  <2>1. DOMAIN g = DOMAIN Top /\ \A x \in DOMAIN Top : x # "ph" => g[x] = Top[x]
    OBVIOUS
  <2>2. g.ph = next
    BY <1>2 DEF CleanSource
  <2> HIDE DEF g
  <2>3. CleanSource(g) /\ g.f = "source"
    BY <2>1, <2>2, <1>2 DEF CleanSource
  <2>4. QED
    BY <2>3 DEF Plain, g
<1>5. QED
  BY <1>2, <1>3, <1>4, Swaps, SameKept

LEMMA SourceTopStep == ASSUME Before, SourceTop PROVE Before'
<1>1. CASE Running("source", "top") /\ LeaveSource(sh, sh.rc)
  BY <1>1, LeavesSource DEF Running, Before
<1>2. CASE stack # <<>> /\ Top.f = "source" /\ Top.i <= Len(Top.lines) /\ SourceSignal("top", "line")
  <2>1. CleanSource(Top)
    BY <1>2, TopKind DEF SourceSignal, Running
  <2>2. Len(Top.lines) \in Nat /\ DOMAIN Top.lines = 1 .. Len(Top.lines)
    BY <2>1, TextFacts DEF CleanSource
  <2>3. Top.i \in DOMAIN Top.lines
    BY <2>1, <2>2, <1>2 DEF CleanSource
  <2>4. QED
    BY <2>3, <1>2, SourceSignalStep
<1>3. QED
  BY <1>1, <1>2 DEF SourceTop

LEMMA SourceTrappedStep == ASSUME Before, SourceTrapped PROVE Before'
BY RcKept, StillQuiet, Stays DEF SourceTrapped, Set

\* ( ... ) starts a process without traps on top of the caller's.
LEMMA SubShell ==
    ASSUME Before, stack # <<>>, Plain(Top), NEW a, Plain(a), NEW c, Plain(c),
           stack' = Front(stack) \o <<a, ForkFrame(sh), c>>,
           Calm(sh'), sh'.TRAPS = {}, NoTrap'
    PROVE  Before'
<1> DEFINE b == ForkFrame(sh)
           new == <<a, b, c>>
<1>1. new \in Seq({a, b, c}) /\ Len(new) = 3 /\ new[1] = a /\ new[2] = b /\ new[3] = c
  BY ThreeFrames
<1>2. stack' = Front(stack) \o new
  OBVIOUS
<1>3. Fork(b) /\ b.shell = sh
  BY DEF ForkFrame, Fork, Before
<1> HIDE DEF new, b
<1>4. PICK n \in Nat \ {0} :
        /\ Len(stack) = n + 1 /\ (\E S : stack' \in Seq(S))
        /\ Len(stack') = n + Len(new) /\ Len(new) \in Nat
        /\ \A i \in 1 .. n : stack'[i] = stack[i]
        /\ \A i \in 1 .. Len(stack') :
              i > n => i - n \in 1 .. Len(new) /\ stack'[i] = new[i - n]
  BY <1>1, <1>2, Rebuilt
<1>5. \A i \in 1 .. Len(stack') :
        \/ i \in 1 .. n /\ i \in 1 .. Len(stack) /\ stack'[i] = stack[i]
        \/ i = n + 1 /\ stack'[i] = a
        \/ i = n + 2 /\ stack'[i] = b
        \/ i = n + 3 /\ stack'[i] = c
  <2> TAKE i \in 1 .. Len(stack')
  <2>1. CASE i > n
    <3>1. PICK k : k = i - n
      OBVIOUS
    <3>2. k \in 1 .. 3 /\ i = n + k /\ stack'[i] = new[k]
      BY <3>1, <2>1, <1>1, <1>4
    <3>3. k = 1 \/ k = 2 \/ k = 3
      BY <3>2
    <3>4. QED
      BY <3>2, <3>3, <1>1
  <2>2. CASE ~(i > n)
    BY <2>2, <1>4
  <2>3. QED
    BY <2>1, <2>2
<1>6. a.f \notin {"main", "fork"} /\ c.f \notin {"main", "fork"} /\ b.f = "fork"
  BY <1>3, PlainIsNot DEF Fork
<1>7. Good(stack')
  <2>1. ASSUME NEW i \in 1 .. Len(stack')
        PROVE  Clean(stack'[i]) /\ (stack'[i].f = "main" <=> i = 1)
    <3>1. CASE i \in 1 .. n /\ i \in 1 .. Len(stack) /\ stack'[i] = stack[i]
      BY <3>1 DEF Before, Good
    <3>2. CASE i = n + 1 /\ stack'[i] = a
      BY <3>2, <1>6 DEF Clean
    <3>3. CASE i = n + 2 /\ stack'[i] = b
      BY <3>3, <1>3, <1>6 DEF Clean
    <3>4. CASE i = n + 3 /\ stack'[i] = c
      BY <3>4, <1>6 DEF Clean
    <3>5. QED
      BY <1>5, <3>1, <3>2, <3>3, <3>4
  <2>2. QED
    BY <2>1, <1>4 DEF Good
<1>8. Forked(stack', sh'.TRAPS)
  <2>1. Forked(stack, sh.TRAPS)
    BY DEF Before
  <2>2. ASSUME NEW j \in 1 .. Len(stack'), NEW k \in 1 .. Len(stack'),
               stack'[j].f = "fork", stack'[k].f = "fork", j < k
        PROVE  stack'[k].shell.TRAPS = {}
    <3>1. j \in 1 .. n /\ j \in 1 .. Len(stack) /\ stack'[j] = stack[j]
      BY <1>5, <1>6, <2>2
    <3>2. CASE k \in 1 .. n /\ k \in 1 .. Len(stack) /\ stack'[k] = stack[k]
      BY <2>1, <2>2, <3>1, <3>2 DEF Forked
    <3>3. CASE k = n + 2 /\ stack'[k] = b
      <4>1. sh.TRAPS = {}
        BY <2>1, <2>2, <3>1 DEF Forked
      <4>2. QED
        BY <4>1, <3>3, <1>3
    <3>4. QED
      BY <1>5, <1>6, <2>2, <3>2, <3>3
  <2>3. QED
    BY <2>2 DEF Forked
<1>9. QED
  BY <1>7, <1>8 DEF Before

\* A source frame that goes on with another line.
LEMMA SourceMoves ==
    ASSUME NEW fr, CleanSource(fr), fr.f = "source", NEW g, DOMAIN g = DOMAIN fr,
           g.f = fr.f, g.lines = fr.lines, g.i \in Nat \ {0}, g.tail = <<>> \/ g.tail \in Lists,
           g.ph \notin {"line", "semi", "opgroup"}
    PROVE  Plain(g)
BY DEF CleanSource, Plain

LEMMA SourceLineStep == ASSUME Before, SourceLine PROVE Before'
<1> DEFINE l == Top.lines[Top.i]
           end == BlockEnd(Top.lines, Top.i)
           here(m) == [Top EXCEPT !.ph = "cmd", !.i = m, !.cond = has_conditional(l),
                                  !.neg = l.k = "line" /\ l.neg,
                                  !.tail = IF l.k = "line" /\ l.neg THEN Tail(l.c) ELSE <<>>]
<1>1. /\ stack # <<>> /\ Plain(Top) /\ CleanSource(Top) /\ Top.f = "source" /\ Top.ph = "line"
      /\ In("source", "line")
  <2>1. In("source", "line")
    BY DEF SourceLine, Running
  <2>2. QED
    BY <2>1, TopKind
<1>2. /\ Top.lines \in Texts /\ Top.i \in DOMAIN Top.lines
      /\ DOMAIN Top.lines = 1 .. Len(Top.lines) /\ Len(Top.lines) \in Nat
  BY <1>1, TextFacts DEF CleanSource
<1>3. Top.i \in 1 .. Len(Top.lines) /\ Top.i \in Nat \ {0} /\ Top.i + 1 \in Nat \ {0}
  BY <1>2
<1>4. /\ l.k = "line" /\ l.neg => <<Head(l.c)>> \in Lists /\ Tail(l.c) \in Lists
      /\ l.k \in {"line", "semi", "opgroup"} => l.c \in Lists
      /\ l.k \in {"sub", "group"} => l.body \in Texts
      /\ is_compound_start(l) /\ end # 0 => SubSeq(Top.lines, Top.i, end) \in Texts
  BY <1>2, <1>3, TextFacts
<1>5. ASSUME NEW m \in Nat \ {0} PROVE Plain(here(m))
  <2> DEFINE g == here(m)
  <2>1. /\ DOMAIN g = DOMAIN Top /\ g.f = Top.f /\ g.lines = Top.lines /\ g.ph = "cmd" /\ g.i = m
        /\ g.tail = IF l.k = "line" /\ l.neg THEN Tail(l.c) ELSE <<>>
    BY <1>1 DEF CleanSource
  <2>2. g.tail = <<>> \/ g.tail \in Lists
    BY <2>1, <1>4
  <2>3. QED
    BY ONLY <2>1, <2>2, <1>1, <1>5, SourceMoves
<1>6. \/ /\ l.k = "line"
         /\ stack' = Front(stack) \o
               <<here(Top.i + 1), LineFrame(IF l.neg THEN <<Head(l.c)>> ELSE l.c)>>
         /\ UNCHANGED <<sh, ret>> /\ Quiet
      \/ /\ l.k = "sub"
         /\ Set([reset_for_subshell(sh) EXCEPT !.rc = 0])
         /\ stack' = Front(stack) \o <<here(Top.i + 1), ForkFrame(sh), SourceFrame(l.body)>>
         /\ UNCHANGED ret /\ Quiet
      \/ /\ l.k \in {"semi", "opgroup"}
         /\ stack' = Front(stack) \o <<[Top EXCEPT !.ph = l.k], LineFrame(l.c)>>
         /\ UNCHANGED <<sh, ret>> /\ Quiet
      \/ /\ l.k = "group"
         /\ stack' = Front(stack) \o <<here(Top.i + 1), BlockFrame, LinesFrame(l.body)>>
         /\ UNCHANGED <<sh, ret>> /\ Quiet
      \/ /\ is_compound_start(l) /\ end # 0
         /\ stack' = Front(stack) \o
               <<here(end + 1), BlockFrame, LinesFrame(SubSeq(Top.lines, Top.i, end))>>
         /\ UNCHANGED <<sh, ret>> /\ Quiet
      \/ is_compound_start(l) /\ end = 0 /\ LeaveSource(sh, 2)
  BY DEF SourceLine
<1> DEFINE first == IF l.neg THEN <<Head(l.c)>> ELSE l.c
<1>7. Plain(here(Top.i + 1))
  BY <1>3, <1>5
<1> HIDE DEF here
<1>8. CASE l.k = "line" /\ stack' = Front(stack) \o <<here(Top.i + 1), LineFrame(first)>> /\ sh' = sh /\ Quiet
  <2>1. first \in Lists
    BY <1>4, <1>8
  <2> HIDE DEF first
  <2>2. Plain(LineFrame(first))
    BY <2>1, NewLine
  <2>3. QED
    BY <1>1, <1>7, <1>8, <2>2, Calls, SameKept, StillQuiet
<1>9. CASE /\ l.k = "sub" /\ sh' = [reset_for_subshell(sh) EXCEPT !.rc = 0]
           /\ stack' = Front(stack) \o <<here(Top.i + 1), ForkFrame(sh), SourceFrame(l.body)>> /\ Quiet
  <2>1. Plain(SourceFrame(l.body))
    BY <1>4, <1>9, NewSource
  <2>2. Calm(sh') /\ sh'.TRAPS = {}
    BY <1>9 DEF Before, Calm, reset_for_subshell
  <2>3. QED
    BY <1>1, <1>7, <1>9, <2>1, <2>2, SubShell, StillQuiet
<1>10. CASE /\ l.k \in {"semi", "opgroup"} /\ sh' = sh /\ Quiet
            /\ stack' = Front(stack) \o <<[Top EXCEPT !.ph = l.k], LineFrame(l.c)>>
  <2>1. Plain(LineFrame(l.c))
    BY <1>4, <1>10, NewLine
  <2> DEFINE g == [Top EXCEPT !.ph = l.k]
  <2>2. /\ DOMAIN g = DOMAIN Top /\ g.f = Top.f /\ g.lines = Top.lines /\ g.ph = l.k /\ g.i = Top.i
        /\ g.tail = Top.tail
    BY <1>1 DEF CleanSource
  <2>3. Plain(g)
    <3> HIDE DEF g
    <3>1. CleanSource(g)
      BY <2>2, <1>1, <1>2, <1>10 DEF CleanSource
    <3>2. QED
      BY <3>1, <2>2, <1>1 DEF Plain
  <2>4. QED
    BY <1>1, <1>10, <2>1, <2>3, Calls, SameKept, StillQuiet
<1>11. CASE /\ l.k = "group" /\ sh' = sh /\ Quiet
            /\ stack' = Front(stack) \o <<here(Top.i + 1), BlockFrame, LinesFrame(l.body)>>
  <2>1. Plain(LinesFrame(l.body))
    BY <1>4, <1>11, NewLines
  <2>2. QED
    BY <1>1, <1>7, <1>11, <2>1, NewBlock, CallsTwo, SameKept, StillQuiet
<1>12. CASE /\ is_compound_start(l) /\ end # 0 /\ sh' = sh /\ Quiet
            /\ stack' = Front(stack) \o
                 <<here(end + 1), BlockFrame, LinesFrame(SubSeq(Top.lines, Top.i, end))>>
  <2>1. Plain(LinesFrame(SubSeq(Top.lines, Top.i, end)))
    BY <1>4, <1>12, NewLines
  <2>2. end \in Top.i .. Len(Top.lines)
    BY <1>2, <1>3, <1>12, EndsInText
  <2>3. end + 1 \in Nat \ {0}
    BY <2>2, <1>2, <1>3
  <2> HIDE DEF end
  <2>4. Plain(here(end + 1))
    BY <2>3, <1>5 DEF here
  <2>5. QED
    BY <1>1, <1>12, <2>1, <2>4, NewBlock, CallsTwo, SameKept, StillQuiet
<1>13. CASE LeaveSource(sh, 2)
  BY <1>1, <1>13, LeavesSource DEF Before
<1>14. QED
  BY <1>6, <1>8, <1>9, <1>10, <1>11, <1>12, <1>13 DEF Set

LEMMA SourceHeadStep == ASSUME Before, SourceHead PROVE Before'
<1>1. PICK ph \in {"semi", "opgroup"} : In("source", ph)
  BY DEF SourceHead, Answered
<1>2. stack # <<>> /\ Plain(Top) /\ CleanSource(Top) /\ Top.f = "source" /\ Top.ph = ph
  BY <1>1, TopKind
<1>3. /\ Top.lines \in Texts /\ Top.i \in DOMAIN Top.lines /\ Top.lines[Top.i].k = ph
      /\ DOMAIN Top.lines = 1 .. Len(Top.lines) /\ Len(Top.lines) \in Nat
  BY <1>1, <1>2, TextFacts DEF CleanSource
<1>4. Top.i \in 1 .. Len(Top.lines) /\ Top.i + 1 \in Nat \ {0}
  BY <1>3
<1>5. /\ ph = "semi" => Top.i < Len(Top.lines)
      /\ ph = "opgroup" => Top.lines[Top.i].body \in Texts
  BY <1>3, <1>4, TextFacts
<1>6. Kept /\ NoTrap'
  BY RcKept, StillQuiet DEF SourceHead, Set
<1>7. CASE ph = "semi"
  <2> DEFINE g == [Top EXCEPT !.ph = "line", !.i = @ + 1]
  <2>1. stack' = Append(Front(stack), g)
    BY <1>2, <1>7 DEF SourceHead, Answered, In
  <2>2. /\ DOMAIN g = DOMAIN Top /\ g.f = Top.f /\ g.lines = Top.lines /\ g.ph = "line"
        /\ g.i = Top.i + 1 /\ g.tail = Top.tail
    BY <1>2 DEF CleanSource
  <2>3. Top.i + 1 \in DOMAIN Top.lines
    BY <1>3, <1>4, <1>5, <1>7
  <2> HIDE DEF g
  <2>4. CleanSource(g)
    BY <2>2, <2>3, <1>2, <1>4 DEF CleanSource
  <2>5. Plain(g)
    BY <2>2, <2>4, <1>2 DEF Plain
  <2>6. QED
    BY <2>1, <2>5, <1>2, <1>6, Swaps
<1>8. CASE ph = "opgroup"
  <2> DEFINE l == Top.lines[Top.i]
             run == (ret = 0) = (l.op = "and")
             g == [Top EXCEPT !.ph = "cmd", !.i = @ + 1, !.cond = run /\ has_conditional(l)]
             rest == LinesFrame(l.body)
  <2>1. stack' = Append(Front(stack), g) \o (IF run THEN <<BlockFrame, rest>> ELSE <<>>)
    BY <1>2, <1>8 DEF SourceHead, Answered, In
  <2>2. /\ DOMAIN g = DOMAIN Top /\ g.f = Top.f /\ g.lines = Top.lines /\ g.ph = "cmd"
        /\ g.i = Top.i + 1 /\ g.tail = Top.tail
    BY <1>2 DEF CleanSource
  <2>3. g.tail = <<>> \/ g.tail \in Lists
    BY <2>2, <1>2 DEF CleanSource
  <2>4. Plain(rest)
    BY <1>5, <1>8, NewLines
  <2> HIDE DEF g, rest
  <2>5. Plain(g)
    BY <2>2, <2>3, <1>2, <1>4, SourceMoves
  <2>6. PICK S : stack \in Seq(S)
    BY DEF Before, Good
  <2>7. PICK w : w = Front(stack)
    OBVIOUS
  <2>8. PICK b : b = BlockFrame
    OBVIOUS
  <2>9. /\ w \in Seq(S \cup {g, b, rest}) /\ g \in S \cup {g, b, rest}
        /\ b \in S \cup {g, b, rest} /\ rest \in S \cup {g, b, rest}
    BY <2>6, <2>7, <1>2, FrontFacts, SeqMonotonic
  <2>10. CASE run
    <3>1. stack' = Append(w, g) \o <<b, rest>>
      BY <2>1, <2>7, <2>8, <2>10
    <3>2. Append(w, g) \o <<b, rest>> = w \o <<g, b, rest>>
      BY ONLY <2>9
    <3>3. QED
      BY <3>1, <3>2, <2>4, <2>5, <2>7, <2>8, <1>2, <1>6, NewBlock, CallsTwo
  <2>11. CASE ~run
    <3>1. stack' = Append(w, g) \o <<>>
      BY <2>1, <2>7, <2>11
    <3>2. Append(w, g) \o <<>> = Append(w, g)
      BY ONLY <2>9
    <3>3. QED
      BY <3>1, <3>2, <2>5, <2>7, <1>2, <1>6, Swaps
  <2>12. QED
    BY <2>10, <2>11
<1>9. QED
  BY <1>1, <1>7, <1>8

LEMMA SourceRetStep == ASSUME Before, SourceRet PROVE Before'
<1>1. In("source", "cmd")
  BY DEF SourceRet, Answered
<1>2. stack # <<>> /\ Plain(Top) /\ CleanSource(Top) /\ Top.f = "source"
  BY <1>1, TopKind
<1>3. Kept /\ NoTrap'
  BY RcKept, StillQuiet DEF SourceRet, Set
<1> DEFINE done == [Top EXCEPT !.ph = "sig", !.neg = FALSE, !.tail = <<>>]
           again == [done EXCEPT !.ph = "cmd"]
<1>4. stack' = IF Top.tail = <<>> \/ Rejected(Top.tail) THEN Append(Front(stack), done)
               ELSE Front(stack) \o <<again, LineFrame(Top.tail)>>
  BY DEF SourceRet
<1>5. /\ DOMAIN done = DOMAIN Top /\ done.f = Top.f /\ done.lines = Top.lines /\ done.ph = "sig"
      /\ done.i = Top.i /\ done.tail = <<>>
  BY <1>2 DEF CleanSource
<1>6. /\ DOMAIN again = DOMAIN Top /\ again.f = Top.f /\ again.lines = Top.lines /\ again.ph = "cmd"
      /\ again.i = Top.i /\ again.tail = <<>>
  BY <1>2 DEF CleanSource
<1>7. Top.i \in Nat \ {0} /\ (Top.tail # <<>> => Top.tail \in Lists)
  BY <1>2 DEF CleanSource
<1> HIDE DEF done, again
<1>8. Plain(done) /\ Plain(again)
  BY <1>2, <1>5, <1>6, <1>7, SourceMoves
<1>9. CASE Top.tail = <<>> \/ Rejected(Top.tail)
  BY <1>2, <1>3, <1>4, <1>8, <1>9, Swaps
<1>10. CASE Top.tail # <<>> /\ ~Rejected(Top.tail)
  <2>1. Plain(LineFrame(Top.tail))
    BY <1>7, <1>10, NewLine
  <2>2. QED
    BY <2>1, <1>2, <1>3, <1>4, <1>8, <1>10, Calls
<1>11. QED
  BY <1>9, <1>10

LEMMA SourceFinStep == ASSUME Before, SourceFin PROVE Before'
<1>1. In("source", "fin")
  BY DEF SourceFin, Running
<1>2. stack # <<>> /\ Plain(Top) /\ Top.f = "source"
  BY <1>1, TopKind
<1>3. CASE \E v : LeaveSource([sh EXCEPT !.RETURN_REQUESTED = None], v)
  <2>1. Calm([sh EXCEPT !.RETURN_REQUESTED = None])
    BY DEF Before, Calm
  <2>2. [sh EXCEPT !.RETURN_REQUESTED = None].TRAPS = sh.TRAPS
    BY DEF Before, Calm
  <2>3. QED
    BY <1>1, <1>3, <2>1, <2>2, LeavesSource
<1>4. CASE \E v : LeaveSource([sh EXCEPT !.NOUNSET_VIOLATION = FALSE], v)
  <2>1. Calm([sh EXCEPT !.NOUNSET_VIOLATION = FALSE])
    BY DEF Before, Calm
  <2>2. [sh EXCEPT !.NOUNSET_VIOLATION = FALSE].TRAPS = sh.TRAPS
    BY DEF Before, Calm
  <2>3. QED
    BY <1>1, <1>4, <2>1, <2>2, LeavesSource
<1>5. CASE \E v : LeaveSource([sh EXCEPT !.EXIT_REQUESTED = None], v)
  <2>1. Calm([sh EXCEPT !.EXIT_REQUESTED = None])
    BY DEF Before, Calm
  <2>2. [sh EXCEPT !.EXIT_REQUESTED = None].TRAPS = sh.TRAPS
    BY DEF Before, Calm
  <2>3. QED
    BY <1>1, <1>5, <2>1, <2>2, LeavesSource
<1>6. CASE LeaveSource(sh, sh.rc)
  BY <1>1, <1>6, LeavesSource DEF Before
<1>7. CASE Goto("top") /\ sh' = sh /\ Quiet
  <2>1. stack' = Append(Front(stack), [Top EXCEPT !.ph = "top"])
    BY <1>7 DEF Goto
  <2>2. Plain([Top EXCEPT !.ph = "top"])
    BY <1>2, Turned
  <2>3. QED
    BY <1>2, <1>7, <2>1, <2>2, Swaps, SameKept, StillQuiet
<1>8. QED
  BY <1>3, <1>4, <1>5, <1>6, <1>7 DEF SourceFin

LEMMA SourceStep == ASSUME Before, Source PROVE Before'
<1>1. CASE SourceSignal("sig", "fin")
  BY <1>1, SourceSignalStep
<1>2. QED
  BY <1>1, SourceTopStep, SourceTrappedStep, SourceLineStep, SourceHeadStep, SourceRetStep,
     SourceFinStep DEF Source

LEMMA Stepped == ASSUME NEW fr, CleanLine(fr), fr.f = "line" PROVE Plain(Step(fr))
<1> DEFINE g == Step(fr)
<1>1. /\ DOMAIN g = DOMAIN fr /\ g.f = fr.f /\ g.segs = fr.segs /\ g.i = fr.i + 1
  BY DEF Step, CleanLine
<1> HIDE DEF g
<1>2. CleanLine(g)
  BY <1>1 DEF CleanLine
<1>3. QED
  BY <1>1, <1>2 DEF Plain, g

LEMMA Advances ==
    ASSUME Before, NEW ph, In("line", ph), stack' = Append(Front(stack), Step(Top)), Kept, NoTrap'
    PROVE  Before'
<1>1. stack # <<>> /\ Plain(Top) /\ CleanLine(Top) /\ Top.f = "line"
  BY TopKind
<1>2. Plain(Step(Top))
  BY <1>1, Stepped
<1>3. QED
  BY <1>1, <1>2, Swaps

LEMMA Returns ==
    ASSUME Before, NEW f, NEW ph, In(f, ph), f \notin {"main", "fork"}, NEW v, Return(v), Kept, NoTrap'
    PROVE  Before'
BY TopKind, Pops DEF Return

\* The segment to be executed is one of the script's.
LEMMA SegFacts ==
    ASSUME Before, NEW c, At(c)
    PROVE  /\ In("line", "seg") /\ stack # <<>> /\ Plain(Top) /\ CleanLine(Top) /\ Top.f = "line"
           /\ c = "ext" => Seg.cmd.id # "trap"
           /\ c = "eval" => Seg.cmd.segs \in Lists
           /\ c \in {"call", "dot"} => Functions[Seg.cmd.id] \in Texts
<1>1. In("line", "seg") /\ Top.i <= Len(Top.segs) /\ Seg.cmd.c = c
  BY DEF At, Running
<1>2. stack # <<>> /\ Plain(Top) /\ CleanLine(Top) /\ Top.f = "line"
  BY <1>1, TopKind
<1>3. Top.segs \in Lists /\ Len(Top.segs) \in Nat /\ Top.i \in 1 .. Len(Top.segs)
  BY <1>1, <1>2, ListFacts DEF CleanLine
<1>4. QED
  BY <1>1, <1>2, <1>3, ListFacts DEF Seg

LEMMA LineStepStep == ASSUME Before, LineStep PROVE Before'
<1>1. In("line", "seg") /\ NoTrap'
  BY StillQuiet DEF LineStep, Running
<1>2. CASE Return(sh.rc) /\ UNCHANGED sh
  BY <1>1, <1>2, Returns, SameKept
<1>3. CASE Advance(sh)
  BY <1>1, <1>3, Advances, SameKept DEF Advance
<1>4. CASE Advance([sh EXCEPT !.NOUNSET_VIOLATION = TRUE, !.rc = 1])
  <2>1. Kept
    BY <1>4 DEF Advance, Before, Calm, Kept
  <2>2. QED
    BY <2>1, <1>1, <1>4, Advances DEF Advance
<1>5. QED
  BY <1>2, <1>3, <1>4 DEF LineStep

LEMMA ExternalStep == ASSUME Before, External PROVE Before'
<1>1. In("line", "seg") /\ Seg.cmd.id # "trap"
  BY SegFacts DEF External
<1>2. PICK code \in Code :
        /\ trace' = Append(trace, [id |-> Seg.cmd.id, code |-> code])
        /\ \/ Return(code) /\ sh' = [sh EXCEPT !.rc = code]
           \/ Return(code) /\ sh' = [[sh EXCEPT !.rc = code] EXCEPT !.EXIT_REQUESTED = code]
           \/ Advance([sh EXCEPT !.rc = code])
  BY DEF External, Set
<1>3. NoTrap'
  <2> DEFINE c == [id |-> Seg.cmd.id, code |-> code]
  <2>1. c.id # "trap" /\ trace' = Append(trace, c)
    BY <1>1, <1>2
  <2> HIDE DEF c
  <2>2. PICK S : trace \in Seq(S)
    BY DEF Before, NoTrap
  <2>3. PICK t : t = trace'
    OBVIOUS
  <2>4. /\ t \in Seq(S \cup {c}) /\ Len(t) = Len(trace) + 1 /\ Len(trace) \in Nat
        /\ \A i \in 1 .. Len(trace) : t[i] = trace[i]
        /\ t[Len(trace) + 1] = c
    BY <2>1, <2>2, <2>3, AppendProperties, SeqMonotonic
  <2>5. \A j \in 1 .. Len(t) : t[j].id # "trap"
    <3> TAKE j \in 1 .. Len(t)
    <3>1. CASE j = Len(trace) + 1
      BY <3>1, <2>1, <2>4
    <3>2. CASE j # Len(trace) + 1
      <4>1. j \in 1 .. Len(trace)
        BY <3>2, <2>4
      <4>2. QED
        BY <4>1, <2>4 DEF Before, NoTrap
    <3>3. QED
      BY <3>1, <3>2
  <2>6. QED
    BY <2>3, <2>4, <2>5 DEF NoTrap
<1>4. CASE Return(code) /\ sh' = [sh EXCEPT !.rc = code]
  BY <1>1, <1>3, <1>4, Returns, RcKept
<1>5. CASE Return(code) /\ sh' = [[sh EXCEPT !.rc = code] EXCEPT !.EXIT_REQUESTED = code]
  <2>1. Kept
    BY <1>5 DEF Before, Calm, Kept
  <2>2. QED
    BY <2>1, <1>1, <1>3, <1>5, Returns
<1>6. CASE Advance([sh EXCEPT !.rc = code])
  BY <1>1, <1>3, <1>6, Advances, RcKept DEF Advance
<1>7. QED
  BY <1>2, <1>4, <1>5, <1>6

\* A line frame that waits for what it has called.
LEMMA LineWaits ==
    ASSUME NEW fr, CleanLine(fr), fr.f = "line", NEW g, DOMAIN g = DOMAIN fr, g.f = fr.f,
           g.segs = fr.segs, g.i = fr.i
    PROVE  Plain(g)
BY DEF CleanLine, Plain

LEMMA CallFunctionStep == ASSUME Before, CallFunction PROVE Before'
<1>1. /\ stack # <<>> /\ Plain(Top) /\ CleanLine(Top) /\ Top.f = "line"
      /\ Functions[Seg.cmd.id] \in Texts
  BY SegFacts DEF CallFunction
<1> DEFINE g == [Top EXCEPT !.ph = "call", !.params = sh.params, !.mark = Len(sh.locals)]
<1>2. DOMAIN g = DOMAIN Top /\ g.f = Top.f /\ g.segs = Top.segs /\ g.i = Top.i
  BY <1>1 DEF CleanLine
<1>3. stack' = Front(stack) \o <<g, SourceFrame(Functions[Seg.cmd.id])>>
  BY DEF CallFunction
<1>4. Kept /\ NoTrap'
  <2>1. Kept
    BY DEF CallFunction, Set, Before, Calm, Kept
  <2>2. QED
    BY <2>1, StillQuiet DEF CallFunction
<1> HIDE DEF g
<1>5. Plain(g) /\ Plain(SourceFrame(Functions[Seg.cmd.id]))
  BY <1>1, <1>2, LineWaits, NewSource
<1>6. QED
  BY <1>1, <1>3, <1>4, <1>5, Calls

LEMMA CallReturnsStep == ASSUME Before, CallReturns PROVE Before'
<1>1. Kept
  BY DEF CallReturns, PopLocals, Set, Before, Calm, Kept
<1>2. QED
  BY <1>1, Advances, StillQuiet DEF CallReturns, Answered

LEMMA DotStep == ASSUME Before, Dot PROVE Before'
<1>1. /\ stack # <<>> /\ Plain(Top) /\ CleanLine(Top) /\ Top.f = "line"
      /\ Functions[Seg.cmd.id] \in Texts
  BY SegFacts DEF Dot
<1> DEFINE g == [Top EXCEPT !.ph = "dot", !.params = sh.params]
<1>2. DOMAIN g = DOMAIN Top /\ g.f = Top.f /\ g.segs = Top.segs /\ g.i = Top.i
  BY <1>1 DEF CleanLine
<1>3. stack' = Front(stack) \o <<g, SourceFrame(Functions[Seg.cmd.id])>>
  BY DEF Dot
<1>4. Kept /\ NoTrap'
  <2>1. Kept
    BY DEF Dot, Set, Before, Calm, Kept
  <2>2. QED
    BY <2>1, StillQuiet DEF Dot
<1> HIDE DEF g
<1>5. Plain(g) /\ Plain(SourceFrame(Functions[Seg.cmd.id]))
  BY <1>1, <1>2, LineWaits, NewSource
<1>6. QED
  BY <1>1, <1>3, <1>4, <1>5, Calls

LEMMA DotReturnsStep == ASSUME Before, DotReturns PROVE Before'
<1>1. Kept
  BY DEF DotReturns, Set, Before, Calm, Kept
<1>2. QED
  BY <1>1, Advances, StillQuiet DEF DotReturns, Answered

LEMMA EvalStep == ASSUME Before, Eval PROVE Before'
<1>1. /\ stack # <<>> /\ Plain(Top) /\ Top.f = "line" /\ Seg.cmd.segs \in Lists
  BY SegFacts DEF Eval
<1>2. stack' = Front(stack) \o <<[Top EXCEPT !.ph = "eval"], LineFrame(Seg.cmd.segs)>>
  BY DEF Eval, Call
<1>3. Kept /\ NoTrap'
  BY SameKept, StillQuiet DEF Eval
<1>4. Plain([Top EXCEPT !.ph = "eval"]) /\ Plain(LineFrame(Seg.cmd.segs))
  BY <1>1, Turned, NewLine
<1>5. QED
  BY <1>1, <1>2, <1>3, <1>4, Calls

LEMMA EvalReturnsStep == ASSUME Before, EvalReturns PROVE Before'
<1>1. In("line", "eval") /\ Kept /\ NoTrap'
  BY RcKept, StillQuiet DEF EvalReturns, Answered, Set
<1>2. CASE Return(ret)
  BY <1>1, <1>2, Returns
<1>3. CASE stack' = Append(Front(stack), Step(Top))
  BY <1>1, <1>3, Advances
<1>4. QED
  BY <1>2, <1>3 DEF EvalReturns

LEMMA BuiltinStateStep == ASSUME Before, BuiltinState PROVE Before'
<1>1. ASSUME NEW c, At(c), NEW s, Advance(s), Calm(s), s.TRAPS = sh.TRAPS, Quiet
      PROVE  Before'
  <2>1. Kept /\ NoTrap'
    BY <1>1, StillQuiet DEF Advance, Kept
  <2>2. QED
    BY <1>1, <2>1, Advances, SegFacts DEF Advance
<1>2. Calm(sh)
  BY DEF Before
<1>3. CASE At("assign") /\ Advance([sh EXCEPT !.env = Seg.cmd.n, !.rc = 0]) /\ Quiet
  <2> DEFINE s == [sh EXCEPT !.env = Seg.cmd.n, !.rc = 0]
  <2>1. Calm(s) /\ s.TRAPS = sh.TRAPS
    BY <1>2 DEF Calm
  <2> HIDE DEF s
  <2>2. QED
    BY <1>1, <1>3, <2>1 DEF s
<1>4. CASE At("local") /\ Quiet
           /\ Advance([sh EXCEPT !.locals = Append(@, sh.env), !.env = Seg.cmd.n, !.rc = 0])
  <2> DEFINE s == [sh EXCEPT !.locals = Append(@, sh.env), !.env = Seg.cmd.n, !.rc = 0]
  <2>1. Calm(s) /\ s.TRAPS = sh.TRAPS
    BY <1>2 DEF Calm
  <2> HIDE DEF s
  <2>2. QED
    BY <1>1, <1>4, <2>1 DEF s
<1>5. CASE At("shift") /\ Quiet /\ Advance(IF sh.params = 0 THEN [sh EXCEPT !.rc = 1]
                                           ELSE [sh EXCEPT !.params = @ - 1, !.rc = 0])
  <2> DEFINE s == IF sh.params = 0 THEN [sh EXCEPT !.rc = 1] ELSE [sh EXCEPT !.params = @ - 1, !.rc = 0]
  <2>1. Calm(s) /\ s.TRAPS = sh.TRAPS
    BY <1>2 DEF Calm
  <2> HIDE DEF s
  <2>2. QED
    BY <1>1, <1>5, <2>1 DEF s
<1>6. CASE At("set_e") /\ Quiet /\ Advance([sh EXCEPT !.ERREXIT = TRUE, !.rc = 0])
  <2> DEFINE s == [sh EXCEPT !.ERREXIT = TRUE, !.rc = 0]
  <2>1. Calm(s) /\ s.TRAPS = sh.TRAPS
    BY <1>2 DEF Calm
  <2> HIDE DEF s
  <2>2. QED
    BY <1>1, <1>6, <2>1 DEF s
<1>7. CASE At("return") /\ Quiet /\ Advance(Requested(sh, Seg.cmd.n))
  <2> DEFINE s == Requested(sh, Seg.cmd.n)
  <2>1. Calm(s) /\ s.TRAPS = sh.TRAPS
    BY <1>2 DEF Calm, Requested
  <2> HIDE DEF s
  <2>2. QED
    BY <1>1, <1>7, <2>1 DEF s
<1>8. QED
  BY <1>3, <1>4, <1>5, <1>6, <1>7 DEF BuiltinState

LEMMA BuiltinFlowStep == ASSUME Before, BuiltinFlow PROVE Before'
<1>1. PICK c \in {"break", "continue"} :
        /\ At(c)
        /\ Set([sh EXCEPT !.LOOP_LEVEL = IF Seg.cmd.n > 1 THEN Seg.cmd.n ELSE 1, !.rc = 0])
        /\ Return(IF c = "break" THEN RC_BREAK ELSE RC_CONTINUE)
  BY DEF BuiltinFlow
<1>2. In("line", "seg") /\ NoTrap'
  BY <1>1, SegFacts, StillQuiet DEF BuiltinFlow
<1>3. Kept
  BY <1>1 DEF Set, Before, Calm, Kept
<1>4. QED
  BY <1>1, <1>2, <1>3, Returns

LEMMA Greatest ==
    ASSUME NEW n \in Nat, NEW P \in SUBSET (1 .. n), P # {}
    PROVE  \E x \in P : \A y \in P : y <= x
<1> DEFINE T == {n - k : k \in P}
<1>1. T \in SUBSET Nat /\ T # {}
  <2>1. \A k \in P : n - k \in Nat
    OBVIOUS
  <2>2. T \in SUBSET Nat
    BY <2>1
  <2>3. T # {}
    OBVIOUS
  <2>4. QED
    BY <2>2, <2>3
<1>2. PICK d \in T : \A e \in T : d <= e
  BY <1>1, Least
<1>3. PICK x \in P : d = n - x
  BY <1>2
<1>4. ASSUME NEW y \in P PROVE y <= x
  <2>1. n - y \in T
    OBVIOUS
  <2>2. d <= n - y
    BY <1>2, <2>1
  <2>3. x \in Int /\ y \in Int
    OBVIOUS
  <2>4. QED
    BY <1>3, <2>2, <2>3
<1>5. QED
  BY <1>4

\* exit unwinds to the innermost process, which goes on as it was.
LEMMA ExitStep == ASSUME Before, Exit PROVE Before'
<1> DEFINE Process(k) == /\ stack[k].f \in {"fork", "main"}
                         /\ \A m \in k + 1 .. Len(stack) : stack[m].f \notin {"fork", "main"}
           j == CHOOSE k \in DOMAIN stack : Process(k)
           fr == [stack[j] EXCEPT !.ph = IF stack[j].f = "fork" THEN "exit" ELSE "run"]
<1>1. stack # <<>> /\ stack' = Append(SubSeq(stack, 1, j - 1), fr)
  <2>1. stack # <<>>
    BY SegFacts DEF Exit
  <2>2. QED
    BY <2>1 DEF Exit
<1>2. Kept /\ NoTrap'
  BY RcKept, StillQuiet DEF Exit, Set
<1>3. PICK S : stack \in Seq(S)
  BY DEF Before, Good
<1>4. Len(stack) \in Nat \ {0} /\ DOMAIN stack = 1 .. Len(stack)
  BY <1>1, <1>3, LenProperties, EmptySeq
<1>5. \E k \in DOMAIN stack : Process(k)
  <2> DEFINE P == {k \in 1 .. Len(stack) : stack[k].f \in {"fork", "main"}}
  <2>1. 1 \in P
    BY <1>4 DEF Before, Good
  <2>2. P \in SUBSET (1 .. Len(stack)) /\ P # {}
    BY <2>1
  <2>3. PICK x \in P : \A y \in P : y <= x
    BY <2>2, <1>4, Greatest
  <2>4. ASSUME NEW m \in x + 1 .. Len(stack) PROVE stack[m].f \notin {"fork", "main"}
    <3>1. m \in 1 .. Len(stack) /\ ~(m <= x)
      BY <1>4
    <3>2. QED
      BY <3>1, <2>3
  <2>5. QED
    BY <2>3, <2>4, <1>4
<1>6. j \in 1 .. Len(stack) /\ stack[j].f \in {"fork", "main"}
  BY <1>4, <1>5
<1> HIDE DEF j
<1>7. Clean(stack[j]) /\ (stack[j].f = "main" <=> j = 1)
  BY <1>6 DEF Before, Good
<1>8. Fork(stack[j]) \/ Live(stack[j])
  BY <1>6, <1>7, PlainIsNot DEF Clean
<1>9. /\ fr.f = stack[j].f /\ Clean(fr)
      /\ fr.f = "fork" => fr.shell = stack[j].shell
  <2>1. CASE Fork(stack[j])
    BY <2>1 DEF Fork, Clean
  <2>2. CASE Live(stack[j])
    BY <2>2 DEF Live, Clean
  <2>3. QED
    BY <1>8, <2>1, <2>2
<1> HIDE DEF fr
<1>10. PICK n \in Nat : j = n + 1 /\ n \in 0 .. Len(stack)
  <2>1. j - 1 \in Nat /\ j = (j - 1) + 1 /\ j - 1 \in 0 .. Len(stack)
    BY <1>4, <1>6
  <2>2. QED
    BY <2>1
<1>11. PICK t : t = stack'
  OBVIOUS
<1>12. /\ \E U : t \in Seq(U)
       /\ Len(t) = n + 1 /\ t[n + 1] = fr
       /\ \A i \in 1 .. n : t[i] = stack[i]
  <2>1. PICK w : w = SubSeq(stack, 1, n)
    OBVIOUS
  <2>2. \A i \in 1 .. n : stack[i] \in S
    BY <1>3, <1>4, <1>10
  <2>3. w \in Seq(S) /\ Len(w) = n /\ \A i \in 1 .. n : w[i] = stack[i]
    BY <1>10, <2>1, <2>2, SubSeqProperties
  <2>4. j - 1 = n
    BY <1>10
  <2>5. t = Append(w, fr)
    BY <1>1, <1>11, <2>1, <2>4
  <2>6. w \in Seq(S \cup {fr}) /\ fr \in S \cup {fr}
    BY <2>3, SeqMonotonic
  <2>7. /\ t \in Seq(S \cup {fr}) /\ Len(t) = Len(w) + 1
        /\ \A i \in 1 .. Len(w) : t[i] = w[i]
        /\ t[Len(w) + 1] = fr
    BY <2>5, <2>6, AppendProperties
  <2>8. QED
    BY <2>3, <2>7
<1>13. \A i \in 1 .. Len(t) : \/ i \in 1 .. n /\ i \in 1 .. Len(stack) /\ i # j /\ t[i] = stack[i]
                              \/ i = j /\ t[i] = fr
  BY <1>4, <1>10, <1>12
<1>14. Good(t)
  <2>1. ASSUME NEW i \in 1 .. Len(t) PROVE Clean(t[i]) /\ (t[i].f = "main" <=> i = 1)
    <3>1. CASE i \in 1 .. Len(stack) /\ t[i] = stack[i]
      BY <3>1 DEF Before, Good
    <3>2. CASE i = j /\ t[i] = fr
      BY <3>2, <1>7, <1>9
    <3>3. QED
      BY <3>1, <3>2, <1>13
  <2>2. QED
    BY <2>1, <1>12 DEF Good
<1>15. Forked(t, sh'.TRAPS)
  <2>1. Forked(stack, sh.TRAPS)
    BY DEF Before
  <2>2. \A i \in 1 .. Len(t) : t[i].f = "fork" =>
          i \in 1 .. Len(stack) /\ stack[i].f = "fork" /\ t[i].shell = stack[i].shell
    BY <1>6, <1>9, <1>13
  <2>3. \A i, k \in 1 .. Len(t) :
            t[i].f = "fork" /\ t[k].f = "fork" /\ i < k => t[k].shell.TRAPS = {}
    BY <2>1, <2>2 DEF Forked
  <2>4. (\E i \in 1 .. Len(t) : t[i].f = "fork") => sh'.TRAPS = {}
    BY <2>1, <2>2, <1>2 DEF Forked, Kept
  <2>5. QED
    BY <2>3, <2>4 DEF Forked
<1>16. QED
  BY <1>2, <1>11, <1>14, <1>15 DEF Before, Kept

LEMMA ForkReturnsStep == ASSUME Before, ForkReturns PROVE Before'
<1>1. stack # <<>> /\ Top.f = "fork"
  BY DEF ForkReturns, Answered, In
<1>2. Len(stack) \in Nat \ {0} /\ Top = stack[Len(stack)] /\ Clean(Top)
  BY <1>1, TopFacts
<1>3. Fork(Top)
  BY <1>1, <1>2, PlainIsNot DEF Clean, Live
<1>4. Len(stack) \in 1 .. Len(stack)
  BY <1>2
<1>5. sh.TRAPS = {}
  BY <1>1, <1>2, <1>4 DEF Before, Forked
<1>6. stack' = Front(stack) /\ sh' = Top.shell
  BY <1>5 DEF ForkReturns
<1>7. PICK S : stack \in Seq(S)
  BY DEF Before, Good
<1>8. PICK t : t = stack'
  OBVIOUS
<1>9. t \in Seq(S) /\ Len(t) = Len(stack) - 1 /\ \A i \in 1 .. (Len(stack) - 1) : t[i] = stack[i]
  BY <1>1, <1>6, <1>7, <1>8, FrontFacts
<1>10. \A i \in 1 .. Len(t) : i \in 1 .. Len(stack) /\ i < Len(stack) /\ t[i] = stack[i]
  BY <1>2, <1>9
<1>11. Good(t)
  <2>1. \A i \in 1 .. Len(t) : Clean(t[i]) /\ (t[i].f = "main" <=> i = 1)
    BY <1>10 DEF Before, Good
  <2>2. QED
    BY <2>1, <1>9 DEF Good
<1>12. Forked(t, sh'.TRAPS)
  <2>1. Forked(stack, sh.TRAPS)
    BY DEF Before
  <2>2. \A j, k \in 1 .. Len(t) :
            t[j].f = "fork" /\ t[k].f = "fork" /\ j < k => t[k].shell.TRAPS = {}
    BY <2>1, <1>10 DEF Forked
  <2>3. ASSUME NEW j \in 1 .. Len(t), t[j].f = "fork" PROVE sh'.TRAPS = {}
    <3>1. stack[j].f = "fork" /\ j \in 1 .. Len(stack) /\ j < Len(stack)
      BY <2>3, <1>10
    <3>2. QED
      BY <3>1, <2>1, <1>1, <1>2, <1>4, <1>6 DEF Forked
  <2>4. QED
    BY <2>2, <2>3 DEF Forked
<1>13. Calm(sh')
  BY <1>3, <1>6 DEF Fork
<1>14. NoTrap'
  BY StillQuiet DEF ForkReturns
<1>15. QED
  BY <1>8, <1>11, <1>12, <1>13, <1>14 DEF Before

LEMMA LineActionStep == ASSUME Before, Line PROVE Before'
BY LineStepStep, ExternalStep, CallFunctionStep, CallReturnsStep, DotStep, DotReturnsStep, EvalStep,
   EvalReturnsStep, BuiltinStateStep, BuiltinFlowStep, ExitStep, ForkReturnsStep DEF Line

LEMMA BlockStep == ASSUME Before, Block PROVE Before'
<1>1. In("block", "run") /\ Kept /\ NoTrap'
  BY RcKept, StillQuiet DEF Block, Answered, Set
<1>2. QED
  BY <1>1, Returns DEF Block

LEMMA LinesMoves ==
    ASSUME NEW fr, CleanLines(fr), fr.f = "lines", NEW g, DOMAIN g = DOMAIN fr, g.f = fr.f,
           g.lines = fr.lines, g.i \in Nat \ {0}
    PROVE  Plain(g)
BY DEF CleanLines, Plain

LEMMA LinesNextStep == ASSUME Before, LinesNext PROVE Before'
<1>1. In("lines", "next") /\ NoTrap'
  BY StillQuiet DEF LinesNext, Running
<1>2. stack # <<>> /\ Plain(Top) /\ CleanLines(Top) /\ Top.f = "lines"
  BY <1>1, TopKind
<1> DEFINE l == Top.lines[Top.i]
           end == find_block_end(Top.lines, Top.i)
           after(m) == [Top EXCEPT !.ph = "blk", !.i = m]
           next == [Top EXCEPT !.ph = "cmd", !.i = @ + 1]
<1>3. CASE \E v : Return(v) /\ UNCHANGED sh
  BY <1>1, <1>3, Returns, SameKept
<1>4. CASE \E v, n : Set(Requested(sh, n)) /\ Return(v)
  <2>1. Kept
    BY <1>4 DEF Set, Requested, Before, Calm, Kept
  <2>2. QED
    BY <2>1, <1>1, <1>4, Returns
<1>5. CASE \E v, n : Set([sh EXCEPT !.LOOP_LEVEL = n, !.rc = 0]) /\ Return(v)
  <2>1. Kept
    BY <1>5 DEF Set, Before, Calm, Kept
  <2>2. QED
    BY <2>1, <1>1, <1>5, Returns
<1>6. CASE Set([sh EXCEPT !.rc = 2]) /\ Return(2)
  BY <1>1, <1>6, Returns, RcKept DEF Set
<1>7. /\ Top.lines \in Texts /\ Len(Top.lines) \in Nat /\ Top.i \in Nat \ {0}
      /\ Top.i <= Len(Top.lines) => Top.i \in 1 .. Len(Top.lines)
  BY <1>2, TextFacts DEF CleanLines
<1>8. CASE /\ Top.i <= Len(Top.lines) /\ is_compound_start(l) /\ end # 0 /\ sh' = sh
           /\ stack' = Front(stack) \o <<after(end + 1), CompoundFrame(SubSeq(Top.lines, Top.i, end))>>
  <2>1. Plain(CompoundFrame(SubSeq(Top.lines, Top.i, end)))
    BY <1>7, <1>8, NewCompound
  <2>2. end \in Top.i .. Len(Top.lines)
    BY <1>7, <1>8, EndsInText
  <2>3. end + 1 \in Nat \ {0}
    BY <1>7, <2>2
  <2> DEFINE g == after(end + 1)
  <2>4. DOMAIN g = DOMAIN Top /\ g.f = Top.f /\ g.lines = Top.lines /\ g.i = end + 1
    BY <1>2 DEF CleanLines
  <2> HIDE DEF g, end
  <2>5. Plain(g)
    BY <1>2, <2>3, <2>4, LinesMoves
  <2>6. QED
    BY <1>1, <1>2, <1>8, <2>1, <2>5, Calls, SameKept DEF g
<1>9. CASE /\ Top.i <= Len(Top.lines) /\ ~is_compound_start(l) /\ sh' = sh
           /\ stack' = Front(stack) \o <<next, LineFrame(Commands(l))>>
  <2>1. Commands(l) \in Lists
    BY <1>7, <1>9, TextFacts
  <2>2. DOMAIN next = DOMAIN Top /\ next.f = Top.f /\ next.lines = Top.lines /\ next.i = Top.i + 1
    BY <1>2 DEF CleanLines
  <2>3. Top.i + 1 \in Nat \ {0}
    BY <1>7
  <2> HIDE DEF next
  <2>4. Plain(next) /\ Plain(LineFrame(Commands(l)))
    BY <1>2, <2>1, <2>2, <2>3, LinesMoves, NewLine
  <2>5. QED
    BY <1>1, <1>2, <1>9, <2>4, Calls, SameKept
<1>10. CASE Top.i > Len(Top.lines) /\ Return(sh.rc) /\ UNCHANGED sh
  BY <1>3, <1>10
<1>11. CASE Top.i <= Len(Top.lines)
  <2>1. CASE l.k = "return" /\ Set(Requested(sh, l.n)) /\ Return(RC_RETURN)
    BY <2>1, <1>4
  <2>2. CASE /\ Set([sh EXCEPT !.LOOP_LEVEL = IF l.n > 1 THEN l.n ELSE 1, !.rc = 0])
             /\ Return(IF l.k = "break" THEN RC_BREAK ELSE RC_CONTINUE)
    BY <2>2, <1>5
  <2>3. \/ l.k = "return" /\ Set(Requested(sh, l.n)) /\ Return(RC_RETURN)
        \/ /\ Set([sh EXCEPT !.LOOP_LEVEL = IF l.n > 1 THEN l.n ELSE 1, !.rc = 0])
           /\ Return(IF l.k = "break" THEN RC_BREAK ELSE RC_CONTINUE)
        \/ Set([sh EXCEPT !.rc = 2]) /\ Return(2)
        \/ /\ is_compound_start(l) /\ end # 0 /\ sh' = sh
           /\ stack' = Front(stack) \o
                 <<after(end + 1), CompoundFrame(SubSeq(Top.lines, Top.i, end))>>
        \/ /\ ~is_compound_start(l) /\ sh' = sh
           /\ stack' = Front(stack) \o <<next, LineFrame(Commands(l))>>
    BY <1>7, <1>11 DEF LinesNext
  <2>4. QED
    BY <2>1, <2>2, <2>3, <1>6, <1>8, <1>9, <1>11
<1>12. QED
  BY <1>10, <1>11 DEF LinesNext

LEMMA LinesRetStep == ASSUME Before, LinesRet PROVE Before'
<1>1. PICK ph \in {"blk", "cmd"} :
        /\ In("lines", ph)
        /\ sh' = sh \/ sh' = [sh EXCEPT !.rc = ret]
        /\ Return(ret) \/ Goto("next")
  BY DEF LinesRet, Answered, Set
<1>2. NoTrap' /\ Kept
  BY <1>1, RcKept, SameKept, StillQuiet DEF LinesRet
<1>3. stack # <<>> /\ Plain(Top) /\ Top.f = "lines"
  BY <1>1, TopKind
<1>4. CASE Return(ret)
  BY <1>1, <1>2, <1>4, Returns
<1>5. CASE Goto("next")
  <2>1. Plain([Top EXCEPT !.ph = "next"])
    BY <1>3, Turned
  <2>2. QED
    BY <2>1, <1>2, <1>3, <1>5, Swaps DEF Goto
<1>6. QED
  BY <1>1, <1>4, <1>5

LEMMA ExecIfStep == ASSUME Before, ExecIf PROVE Before'
<1>1. NoTrap'
  BY StillQuiet DEF ExecIf
<1>2. PICK ph : In("if", ph)
  BY DEF ExecIf, Running, Answered
<1>3. stack # <<>> /\ Plain(Top) /\ CleanIf(Top) /\ Top.f = "if" /\ Top.ph = ph
  BY <1>2, TopKind
<1>4. /\ Top.i \in Nat \ {0} /\ Top.all.br \in Seq([c : Lists, b : Texts]) /\ Top.all.els \in Texts
      /\ Len(Top.all.br) \in Nat /\ (Top.ph = "got" => Top.i \in 1 .. Len(Top.all.br))
  BY <1>3 DEF CleanIf
<1>5. \A n \in 1 .. Len(Top.all.br) : Top.all.br[n].c \in Lists /\ Top.all.br[n].b \in Texts
  <2>1. \A n \in 1 .. Len(Top.all.br) : Top.all.br[n] \in [c : Lists, b : Texts]
    BY <1>4, ElementOfSeq
  <2>2. QED
    BY <2>1
<1>6. Plain([Top EXCEPT !.ph = "body"])
  BY <1>3, Turned
<1>7. CASE /\ Top.i <= Len(Top.all.br) /\ sh' = sh /\ Call(LineFrame(Top.all.br[Top.i].c), "got")
  <2>1. Top.i \in 1 .. Len(Top.all.br)
    BY <1>4, <1>7
  <2>2. Plain(LineFrame(Top.all.br[Top.i].c))
    BY <2>1, <1>5, NewLine
  <2> DEFINE g == [Top EXCEPT !.ph = "got"]
  <2>3. DOMAIN g = DOMAIN Top /\ g.f = Top.f /\ g.i = Top.i /\ g.all = Top.all /\ g.ph = "got"
    BY <1>3 DEF CleanIf
  <2>4. Plain(g)
    <3> HIDE DEF g
    <3>1. CleanIf(g)
      BY <2>1, <2>3, <1>3 DEF CleanIf
    <3>2. QED
      BY <3>1, <2>3, <1>3 DEF Plain
  <2>5. QED
    BY <2>2, <2>4, <1>1, <1>3, <1>7, Calls, SameKept DEF Call
<1>8. CASE sh' = sh /\ Call(LinesFrame(Top.all.els), "body")
  <2>1. Plain(LinesFrame(Top.all.els))
    BY <1>4, NewLines
  <2>2. QED
    BY <2>1, <1>1, <1>3, <1>6, <1>8, Calls, SameKept DEF Call
<1>9. CASE Set([sh EXCEPT !.rc = 0]) /\ Return(0)
  BY <1>1, <1>2, <1>9, Returns, RcKept DEF Set
<1>10. CASE Top.ph = "got" /\ Set([sh EXCEPT !.rc = ret]) /\ Call(LinesFrame(Top.all.br[Top.i].b), "body")
  <2>1. Plain(LinesFrame(Top.all.br[Top.i].b))
    BY <1>4, <1>5, <1>10, NewLines
  <2>2. QED
    BY <2>1, <1>1, <1>3, <1>6, <1>10, Calls, RcKept DEF Call, Set
<1>11. CASE /\ Set([sh EXCEPT !.rc = ret])
            /\ stack' = Append(Front(stack), [Top EXCEPT !.ph = "cond", !.i = @ + 1])
  <2> DEFINE g == [Top EXCEPT !.ph = "cond", !.i = @ + 1]
  <2>1. DOMAIN g = DOMAIN Top /\ g.f = Top.f /\ g.i = Top.i + 1 /\ g.all = Top.all /\ g.ph = "cond"
    BY <1>3 DEF CleanIf
  <2>2. Plain(g)
    <3> HIDE DEF g
    <3>1. CleanIf(g)
      BY <2>1, <1>3 DEF CleanIf
    <3>2. QED
      BY <3>1, <2>1, <1>3 DEF Plain
  <2>3. QED
    BY <2>2, <1>1, <1>3, <1>11, Swaps, RcKept DEF Set
<1>12. CASE sh' = sh /\ \E v : Return(v)
  BY <1>1, <1>2, <1>12, Returns, SameKept
<1>13. CASE Answered("if", "got")
  BY <1>10, <1>11, <1>13 DEF ExecIf, Answered, Running, In
<1>14. CASE ~Answered("if", "got")
  BY <1>7, <1>8, <1>9, <1>12, <1>14 DEF ExecIf
<1>15. QED
  BY <1>13, <1>14

LEMMA LoopRetStep ==
    ASSUME Before, NEW f \in {"for", "while"}, In(f, "body"), NEW again \in {"next", "sig"}, LoopRet(again),
           NoTrap'
    PROVE  Before'
<1>1. stack # <<>> /\ Plain(Top) /\ Top.f = f
  BY TopKind
<1>2. CASE Set(Consumed(sh)) /\ \E v : Return(v)
  <2>1. Kept
    BY <1>2 DEF Set, Consumed, Before, Calm, Kept
  <2>2. QED
    BY <2>1, <1>2, Returns
<1>3. CASE sh' = sh /\ \E v : Return(v)
  BY <1>3, Returns, SameKept
<1>4. CASE Goto(again) /\ sh' = sh
  <2>1. Plain([Top EXCEPT !.ph = again])
    BY <1>1, Turned
  <2>2. QED
    BY <2>1, <1>1, <1>4, Swaps, SameKept DEF Goto
<1>5. QED
  BY <1>2, <1>3, <1>4 DEF LoopRet

LEMMA ExecForStep == ASSUME Before, ExecFor PROVE Before'
<1>1. NoTrap'
  BY StillQuiet DEF ExecFor
<1>2. PICK ph : In("for", ph)
  BY DEF ExecFor, Running, Answered
<1>3. stack # <<>> /\ Plain(Top) /\ CleanFor(Top) /\ Top.f = "for"
  BY <1>2, TopKind
<1>4. CASE /\ stack' = Front(stack) \o <<[Top EXCEPT !.ph = "body", !.left = @ - 1], LinesFrame(Top.body)>>
           /\ sh' = sh
  <2> DEFINE g == [Top EXCEPT !.ph = "body", !.left = @ - 1]
  <2>1. DOMAIN g = DOMAIN Top /\ g.f = Top.f /\ g.body = Top.body
    BY <1>3 DEF CleanFor
  <2>2. Plain(g)
    <3> HIDE DEF g
    <3>1. QED
      BY <2>1, <1>3 DEF CleanFor, Plain
  <2>3. Plain(LinesFrame(Top.body))
    BY <1>3, NewLines DEF CleanFor
  <2>4. QED
    BY <2>2, <2>3, <1>1, <1>3, <1>4, Calls, SameKept
<1>5. CASE Return(0) /\ Set([sh EXCEPT !.rc = 0])
  BY <1>1, <1>2, <1>5, Returns, RcKept DEF Set
<1>6. CASE Return(sh.rc) /\ UNCHANGED sh
  BY <1>1, <1>2, <1>6, Returns, SameKept
<1>7. CASE Answered("for", "body") /\ LoopRet("next")
  BY <1>1, <1>7, LoopRetStep DEF Answered
<1>8. QED
  BY <1>4, <1>5, <1>6, <1>7 DEF ExecFor

LEMMA ExecWhileStep == ASSUME Before, ExecWhile PROVE Before'
<1>1. NoTrap' /\ sh.PENDING = None
  BY StillQuiet DEF ExecWhile, Before, Calm
<1>2. PICK ph : In("while", ph)
  BY DEF ExecWhile, Running, Answered
<1>3. stack # <<>> /\ Plain(Top) /\ CleanWhile(Top) /\ Top.f = "while"
  BY <1>2, TopKind
<1>4. Plain(LineFrame(Top.cond)) /\ Plain(LinesFrame(Top.body))
  BY <1>3, NewLine, NewLines DEF CleanWhile
<1>5. Plain([Top EXCEPT !.ph = "cond"]) /\ Plain([Top EXCEPT !.ph = "body"])
  BY <1>3, Turned
<1>6. CASE Call(LineFrame(Top.cond), "cond") /\ UNCHANGED sh
  BY <1>1, <1>3, <1>4, <1>5, <1>6, Calls, SameKept DEF Call
<1>7. CASE Call(LineFrame(Top.cond), "cond") /\ Set([sh EXCEPT !.rc = Top.rc])
  BY <1>1, <1>3, <1>4, <1>5, <1>7, Calls, RcKept DEF Call, Set
<1>8. CASE Call(LinesFrame(Top.body), "body") /\ Set([sh EXCEPT !.rc = ret])
  BY <1>1, <1>3, <1>4, <1>5, <1>8, Calls, RcKept DEF Call, Set
<1>9. CASE Return(0) /\ Set([sh EXCEPT !.rc = 0])
  BY <1>1, <1>2, <1>9, Returns, RcKept DEF Set
<1>10. CASE Answered("while", "body") /\ LoopRet("sig")
  BY <1>1, <1>10, LoopRetStep DEF Answered
<1>11. QED
  BY <1>1, <1>6, <1>7, <1>8, <1>9, <1>10 DEF ExecWhile

LEMMA ExecCaseStep == ASSUME Before, ExecCase PROVE Before'
<1>1. NoTrap'
  BY StillQuiet DEF ExecCase
<1>2. PICK ph : In("case", ph)
  BY DEF ExecCase, Running, Answered
<1>3. stack # <<>> /\ Plain(Top) /\ CleanCase(Top) /\ Top.f = "case"
  BY <1>2, TopKind
<1>4. CASE Call(LinesFrame(Top.body), "got") /\ UNCHANGED sh
  <2>1. Plain(LinesFrame(Top.body)) /\ Plain([Top EXCEPT !.ph = "got"])
    BY <1>3, NewLines, Turned DEF CleanCase
  <2>2. QED
    BY <2>1, <1>1, <1>3, <1>4, Calls, SameKept DEF Call
<1>5. CASE Return(0) /\ Set([sh EXCEPT !.rc = 0])
  BY <1>1, <1>2, <1>5, Returns, RcKept DEF Set
<1>6. CASE Return(ret) /\ UNCHANGED sh
  BY <1>1, <1>2, <1>6, Returns, SameKept
<1>7. QED
  BY <1>4, <1>5, <1>6 DEF ExecCase

LEMMA CompoundStep == ASSUME Before, Compound PROVE Before'
BY BlockStep, LinesNextStep, LinesRetStep, ExecIfStep, ExecForStep, ExecWhileStep, ExecCaseStep
DEF Compound

-----------------------------------------------------------------------------
(* The goodbye.                                                             *)

TrapLast == (\E S : trace \in Seq(S)) /\ \A j \in 1 .. Len(trace) : trace[j].id = "trap" => j = Len(trace)

\* The main process runs the trap's line, has run it, or is gone.
Goodbye(fr) == fr.f = "main" /\ fr.ph = "bye"
TrapFrame(fr) == fr.f = "line" /\ fr.ph = "seg" /\ fr.segs = TrapLine /\ fr.i \in {1, 2}
                 /\ {"f", "ph", "segs", "i"} \subseteq DOMAIN fr
After ==
    /\ TrapLast
    /\ \/ stack = <<>>
       \/ \E m : stack = <<m>> /\ Goodbye(m)
       \/ \E m, l : stack = <<m, l>> /\ Goodbye(m) /\ TrapFrame(l) /\ (l.i = 1 => NoTrap)

InterpInv == sigs \in Nat /\ (sigs = 0 => Before \/ After)

LEMMA MainBefore == ASSUME Before, Main PROVE Before' \/ After'
<1>1. stack # <<>> /\ Top.f = "main"
  BY DEF Main, Answered, In
<1>2. Len(stack) = 1 /\ Clean(Top) /\ NoTrap'
  BY <1>1, TopFacts, StillQuiet DEF Main
<1>3. Live(Top)
  BY <1>1, <1>2, PlainIsNot DEF Clean, Fork
<1>4. CASE stack' = <<[Top EXCEPT !.ph = "bye", !.rc = ret], LineFrame(TrapLine)>>
  <2>1. Goodbye([Top EXCEPT !.ph = "bye", !.rc = ret])
    BY <1>3 DEF Live, Goodbye
  <2>2. TrapFrame(LineFrame(TrapLine))
    BY DEF LineFrame, TrapFrame
  <2>3. TrapLast'
    BY <1>2 DEF NoTrap, TrapLast
  <2>4. QED
    BY <2>1, <2>2, <2>3, <1>2, <1>4 DEF After
<1>5. CASE Return(ret) /\ UNCHANGED sh
  <2>1. PICK S : stack \in Seq(S)
    BY DEF Before, Good
  <2>2. PICK t : t = stack'
    OBVIOUS
  <2>3. t \in Seq(S) /\ Len(t) = 0
    BY <1>1, <1>2, <1>5, <2>1, <2>2, FrontFacts DEF Return
  <2>4. Good(t) /\ Forked(t, sh'.TRAPS)
    BY <2>3 DEF Good, Forked
  <2>5. QED
    BY <2>2, <2>4, <1>2, <1>5 DEF Before
<1>6. QED
  BY <1>3, <1>4, <1>5 DEF Main, Answered, In, Live

LEMMA SignalCounts == ASSUME sigs \in Nat, Signal PROVE sigs' \in Nat /\ sigs' # 0
BY DEF Signal

LEMMA Uncounted == ASSUME Next, ~Signal PROVE sigs' = sigs
<1>1. CASE Source
  BY <1>1 DEF Source, SourceTop, SourceSignal, LeaveSource, SourceTrapped, SourceLine, SourceHead,
     SourceRet, SourceFin, Quiet
<1>2. CASE Line
  BY <1>2 DEF Line, LineStep, External, CallFunction, CallReturns, Dot, DotReturns, Eval, EvalReturns,
     BuiltinState, BuiltinFlow, Exit, ForkReturns, Quiet
<1>3. CASE Compound
  BY <1>3 DEF Compound, Block, LinesNext, LinesRet, ExecIf, ExecFor, ExecWhile, ExecCase, Quiet
<1>4. CASE Main
  BY <1>4 DEF Main, Quiet
<1>5. QED
  BY <1>1, <1>2, <1>3, <1>4 DEF Next

\* Which frame an action needs on top.
LEMMA NeedsTop ==
    ASSUME Next, ~Signal
    PROVE  \/ Main
           \/ \E f \in {"source", "block", "lines", "if", "for", "while", "case", "fork"} : \E ph : In(f, ph)
           \/ \E ph \in {"call", "dot", "eval"} : In("line", ph)
           \/ LineStep
           \/ External
           \/ \E c : At(c) /\ c # "ext"
<1>1. CASE Source
  <2>1. \E ph : In("source", ph)
    BY <1>1 DEF Source, SourceTop, SourceSignal, SourceTrapped, SourceLine, SourceHead, SourceRet,
       SourceFin, Running, Answered
  <2>2. QED
    BY <2>1
<1>2. CASE Line
  <2>1. CASE CallFunction \/ Dot \/ Eval \/ BuiltinState \/ BuiltinFlow \/ Exit
    BY <2>1 DEF CallFunction, Dot, Eval, BuiltinState, BuiltinFlow, Exit
  <2>2. CASE CallReturns \/ DotReturns \/ EvalReturns
    BY <2>2 DEF CallReturns, DotReturns, EvalReturns, Answered
  <2>3. CASE ForkReturns
    BY <2>3 DEF ForkReturns, Answered
  <2>4. QED
    BY <1>2, <2>1, <2>2, <2>3 DEF Line
<1>3. CASE Compound
  <2>1. CASE Block
    BY <2>1 DEF Block, Answered
  <2>2. CASE LinesNext \/ LinesRet
    BY <2>2 DEF LinesNext, LinesRet, Running, Answered
  <2>3. CASE ExecIf
    BY <2>3 DEF ExecIf, Running, Answered
  <2>4. CASE ExecFor
    BY <2>4 DEF ExecFor, Running, Answered
  <2>5. CASE ExecWhile
    BY <2>5 DEF ExecWhile, Running, Answered
  <2>6. CASE ExecCase
    BY <2>6 DEF ExecCase, Running, Answered
  <2>7. QED
    BY <1>3, <2>1, <2>2, <2>3, <2>4, <2>5, <2>6 DEF Compound
<1>4. QED
  BY <1>1, <1>2, <1>3 DEF Next

\* After the main process has said goodbye only the trap's line runs.
LEMMA AfterStep == ASSUME After, Next, ~Signal PROVE After'
<1>1. CASE stack = <<>>
  BY <1>1, NeedsTop DEF Main, LineStep, External, At, Running, Answered, In
<1>2. CASE \E m : stack = <<m>> /\ Goodbye(m)
  <2>1. PICK m : stack = <<m>> /\ Goodbye(m)
    BY <1>2
  <2>2. stack \in Seq({m}) /\ Len(stack) = 1 /\ stack[1] = m /\ stack # <<>>
    BY <2>1, OneFrame
  <2>3. Top = m /\ Front(stack) \in Seq({m}) /\ Len(Front(stack)) = 0
    <3>1. Front(stack) \in Seq({m}) /\ Len(Front(stack)) = Len(stack) - 1 /\ Last(stack) = stack[Len(stack)]
      BY <2>2, FrontFacts
    <3>2. QED
      BY <2>2, <3>1 DEF Top
  <2>4. Main
    BY <2>1, <2>3, NeedsTop DEF LineStep, External, At, Running, In, Goodbye
  <2>5. stack' = Front(stack) /\ trace' = trace
    BY <2>1, <2>3, <2>4 DEF Main, Answered, In, Goodbye, Return, Quiet
  <2>6. Front(stack) = <<>>
    BY <2>3, EmptySeq
  <2>7. TrapLast'
    BY <2>5 DEF After, TrapLast
  <2>8. QED
    BY <2>5, <2>6, <2>7 DEF After
<1>3. CASE \E m, l : stack = <<m, l>> /\ Goodbye(m) /\ TrapFrame(l) /\ (l.i = 1 => NoTrap)
  <2>1. PICK m, l : stack = <<m, l>> /\ Goodbye(m) /\ TrapFrame(l) /\ (l.i = 1 => NoTrap)
    BY <1>3
  <2>2. stack \in Seq({m, l}) /\ Len(stack) = 2 /\ stack[1] = m /\ stack[2] = l /\ stack # <<>>
    BY <2>1, TwoFrames
  <2>3. Top = l /\ Front(stack) \in Seq({m, l}) /\ Len(Front(stack)) = 1 /\ Front(stack)[1] = m
    <3>1. /\ Front(stack) \in Seq({m, l}) /\ Len(Front(stack)) = Len(stack) - 1
          /\ Last(stack) = stack[Len(stack)]
          /\ \A i \in 1 .. (Len(stack) - 1) : Front(stack)[i] = stack[i]
      BY <2>2, FrontFacts
    <3>2. QED
      BY <2>2, <3>1 DEF Top
  <2>4. Front(stack) = <<m>>
    <3>1. PICK w : w = Front(stack)
      OBVIOUS
    <3>2. w \in Seq({m, l}) /\ Len(w) = 1 /\ w[1] = m
      BY <2>3, <3>1
    <3>3. w = <<m>>
      BY <3>2
    <3>4. QED
      BY <3>1, <3>3
  <2>5. Top.f = "line" /\ Top.ph = "seg" /\ Top.i \in {1, 2} /\ Top.segs = TrapLine
    BY <2>1, <2>3 DEF TrapFrame
  <2>6. Len(TrapLine) = 1 /\ TrapLine[1] = Start(Ext("trap"))
    BY OneFrame DEF TrapLine
  <2>7. Top.i <= Len(Top.segs) => Top.i = 1 /\ Seg.cmd = Ext("trap") /\ Seg.op = "start"
    BY <2>5, <2>6 DEF Seg, Start
  <2>8. \A c : At(c) => c = "ext" /\ Top.i = 1
    BY <2>7 DEF At, Ext
  <2>9. LineStep \/ External
    BY <2>5, <2>8, NeedsTop DEF Main, Answered, In
  <2>10. ASSUME TrapLast',
                stack' = Front(stack) \/ (Top.i = 1 /\ stack' = Append(Front(stack), Step(Top)))
         PROVE  After'
    <3>1. CASE stack' = Front(stack)
      BY <3>1, <2>1, <2>4, <2>10 DEF After
    <3>2. CASE Top.i = 1 /\ stack' = Append(Front(stack), Step(Top))
      <4>1. PICK g : g = Step(l)
        OBVIOUS
      <4>2. g.i = 2 /\ TrapFrame(g)
        BY <4>1, <3>2, <2>1, <2>3 DEF Step, TrapFrame
      <4>3. stack' = Append(<<m>>, g)
        BY <3>2, <4>1, <2>3, <2>4
      <4>4. stack' = <<m, g>>
        BY <4>3, AppendFrame
      <4>5. QED
        BY <4>2, <4>4, <2>1, <2>10 DEF After
    <3>3. QED
      BY <2>10, <3>1, <3>2
  <2>11. CASE LineStep
    <3>1. TrapLast'
      BY <2>11 DEF LineStep, Quiet, After, TrapLast
    <3>2. QED
      BY <2>7, <2>10, <2>11, <3>1 DEF LineStep, Return, Advance
  <2>12. CASE External
    <3>1. NoTrap /\ Top.i = 1
      BY <2>1, <2>3, <2>8, <2>12 DEF External
    <3>2. PICK code \in Code : /\ trace' = Append(trace, [id |-> Seg.cmd.id, code |-> code])
                               /\ stack' = Front(stack) \/ stack' = Append(Front(stack), Step(Top))
      BY <2>12 DEF External, Return, Advance
    <3>3. PICK c : trace' = Append(trace, c)
      BY <3>2
    <3>4. PICK S : trace \in Seq(S)
      BY <3>1 DEF NoTrap
    <3>5. PICK t : t = trace'
      OBVIOUS
    <3>6. /\ t \in Seq(S \cup {c}) /\ Len(t) = Len(trace) + 1 /\ Len(trace) \in Nat
          /\ \A i \in 1 .. Len(trace) : t[i] = trace[i]
      BY <3>3, <3>4, <3>5, AppendProperties, SeqMonotonic
    <3>7. ASSUME NEW j \in 1 .. Len(t), t[j].id = "trap" PROVE j = Len(t)
      <4>1. j \in 1 .. Len(trace) \/ j = Len(t)
        BY <3>6
      <4>2. QED
        BY <4>1, <3>1, <3>6, <3>7 DEF NoTrap
    <3>8. TrapLast'
      BY <3>5, <3>6, <3>7 DEF TrapLast
    <3>9. QED
      BY <3>1, <3>2, <3>8, <2>10
  <2>13. QED
    BY <2>9, <2>11, <2>12
<1>4. QED
  BY <1>1, <1>2, <1>3 DEF After

LEMMA InterpInit == ASSUME Init PROVE InterpInv
<1>1. PICK p : p = SourceFrame(program)
  OBVIOUS
<1>2. program \in Texts
  BY TextAssumption DEF Init
<1>3. Plain(p) /\ p.f \notin {"main", "fork"}
  BY <1>1, <1>2, NewSource, PlainIsNot
<1>4. Live(MainFrame)
  BY DEF Live, MainFrame
<1>5. PICK m : m = MainFrame
  OBVIOUS
<1>6. stack = <<m, p>>
  BY <1>1, <1>5 DEF Init
<1>7. stack \in Seq({m, p}) /\ Len(stack) = 2 /\ stack[1] = m /\ stack[2] = p
  BY <1>6, TwoFrames
<1>8. \A j \in 1 .. Len(stack) : j = 1 \/ j = 2
  BY <1>7
<1>9. m.f = "main" /\ Clean(m) /\ Clean(p)
  BY <1>3, <1>4, <1>5 DEF Live, Clean
<1>10. Good(stack)
  <2>1. \A j \in 1 .. Len(stack) : Clean(stack[j]) /\ (stack[j].f = "main" <=> j = 1)
    BY <1>3, <1>7, <1>8, <1>9
  <2>2. QED
    BY <2>1, <1>7 DEF Good
<1>11. Forked(stack, sh.TRAPS)
  <2>1. \A j \in 1 .. Len(stack) : stack[j].f # "fork"
    BY <1>3, <1>7, <1>8, <1>9
  <2>2. QED
    BY <2>1 DEF Forked
<1>12. Calm(sh)
  BY DEF Init, Calm
<1>13. NoTrap
  <2>1. trace = <<>>
    BY DEF Init
  <2>2. trace \in Seq({m}) /\ Len(trace) = 0
    BY <2>1, EmptySeq
  <2>3. QED
    BY <2>2 DEF NoTrap
<1>14. QED
  BY <1>10, <1>11, <1>12, <1>13 DEF InterpInv, Before, Init

LEMMA InterpNext == ASSUME InterpInv, [Next]_vars PROVE InterpInv'
<1>1. CASE UNCHANGED vars
  BY <1>1 DEF vars, InterpInv, Before, Good, Forked, NoTrap, After, TrapLast
<1>2. CASE Signal
  BY <1>2, SignalCounts DEF InterpInv
<1>3. CASE Next /\ ~Signal
  <2>1. sigs' = sigs /\ sigs \in Nat
    BY <1>3, Uncounted DEF InterpInv
  <2>2. ASSUME Before PROVE Before' \/ After'
    BY <1>3, <2>2, SourceStep, LineActionStep, CompoundStep, MainBefore DEF Next
  <2>3. ASSUME After PROVE After'
    BY <1>3, <2>3, AfterStep
  <2>4. QED
    BY <2>1, <2>2, <2>3 DEF InterpInv
<1>4. QED
  BY <1>1, <1>2, <1>3

\* For all scripts and functions: without signals, the EXIT trap is the last
\* command that is run, and it is run once, whatever ended the script
\* (script.rs run_exit_trap, executor.rs exit in a subshell).
THEOREM ExitTrapRunsOnce == Spec => []ExitTrapOnce
<1>1. InterpInv => ExitTrapOnce
  <2> SUFFICES ASSUME InterpInv, sigs = 0, NEW j \in DOMAIN trace, trace[j].id = "trap"
               PROVE  j = Len(trace)
    BY DEF ExitTrapOnce
  <2>1. PICK S : trace \in Seq(S)
    BY DEF InterpInv, Before, NoTrap, After, TrapLast
  <2>2. j \in 1 .. Len(trace)
    BY <2>1, LenProperties
  <2>3. QED
    BY <2>2 DEF InterpInv, Before, NoTrap, After, TrapLast
<1>2. QED
  BY InterpInit, InterpNext, <1>1, PTL DEF Spec

=============================================================================
