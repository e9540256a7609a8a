----------------------------- MODULE JobsProofs ------------------------------
(***************************************************************************)
(* Proofs about Jobs: what a pipeline and wait answer, what the job table  *)
(* shows and the order of the typed bytes, for every number of processes,  *)
(* pipelines and events.                                                   *)
(***************************************************************************)
EXTENDS Jobs, TLAPS, WellFoundedInduction, FiniteSetTheorems, SequenceTheorems

(***************************************************************************)
(* The inductive invariant                                                 *)
(***************************************************************************)

Process == [st : {"none", "run", "stopped", "zombie", "gone"},
            code : AnyCode \cup {NoCode}, evt : {"none", "stopped", "continued"}]
Thread == [pc : {"prompt", "read", "key", "spawn", "wait", "join", "fg", "bg", "wait_pid",
                 "fg_wait", "wait_any", "wait_all"},
           kids : Seq(Pid), k : Nat \ {0}, bg : BOOLEAN, of : SUBSET Pid, fresh : SUBSET Pid,
           code : AnyCode, fail : AnyCode \cup {NoCode}]

Shape ==
    /\ proc \in [Pid -> Process]
    /\ table \in Seq(Job)
    /\ statuses \in [Pid -> AnyCode \cup {NoCode}]
    /\ sh \in Thread
    /\ FOREGROUND_PGID \in Pid \cup {NoPgid}

\* The change waitpid has not reported yet is the last one.
Processes ==
    \A p \in Pid :
        /\ proc[p].st = "run" => proc[p].evt # "stopped"
        /\ proc[p].st = "stopped" => proc[p].evt # "continued"
        /\ proc[p].st = "zombie" => proc[p].code # NoCode
        /\ Live(p) => proc[p].code = NoCode

KidCode(pr, s, i) == pr[s.kids[i]].code

\* The first sh.k - 1 children have been collected, by their pid: their codes
\* are known, and the shell's own variables are about them.
Waited ==
    /\ sh.k <= Len(sh.kids) + 1
    /\ \A i \in sh.k .. Len(sh.kids) : pgid_alive(proc, sh.kids[i])
    /\ \A i \in 1 .. (sh.k - 1) : proc[sh.kids[i]].st = "gone" /\ KidCode(proc, sh, i) # NoCode
    /\ sh.k > 1 => sh.code = KidCode(proc, sh, sh.k - 1)
    /\ \/ sh.fail = NoCode /\ \A i \in 1 .. (sh.k - 1) : KidCode(proc, sh, i) = 0
       \/ \E i \in 1 .. (sh.k - 1) :
            /\ sh.fail = KidCode(proc, sh, i) /\ KidCode(proc, sh, i) # 0
            /\ \A j \in 1 .. (sh.k - 1) : j > i => KidCode(proc, sh, j) = 0

Interrupted ==
    /\ sh.k <= Len(sh.kids)
    /\ sh.code = Signalled(SIGTSTP) /\ sh.fail = Signalled(SIGTSTP)

Pipeline ==
    /\ sh.pc \in {"spawn", "wait", "join"} =>
         \A i, j \in DOMAIN sh.kids : i # j => sh.kids[i] # sh.kids[j]
    /\ sh.pc = "spawn" =>
         /\ sh.k = 1 /\ sh.fail = NoCode
         /\ \A i \in DOMAIN sh.kids : pgid_alive(proc, sh.kids[i])
    /\ sh.pc = "wait" => sh.kids # <<>> /\ Waited
    /\ sh.pc = "join" => sh.kids # <<>> /\ (Interrupted \/ (Waited /\ sh.k = Len(sh.kids) + 1))

PipelineInv == Shape /\ Processes /\ Pipeline /\ PipelineStatus

\* An entry shows the state of its process unless a change is still to be
\* reported, or is about to be made by bg; children that are waited for are not
\* in the table, and a stop is not reported before the shell waits.
Shows(pr, s, j) ==
    /\ pr[j.pgid].st # "none"
    /\ pr[j.pgid].st \in {"run", "stopped"} /\ pr[j.pgid].evt = "none" =>
         \/ (j.state = "Stopped") = (pr[j.pgid].st = "stopped")
         \/ s.pc = "bg" /\ j.pgid \in s.of /\ pr[j.pgid].st = "stopped"
Unreported(r) == r.st = "stopped" => r.evt # "none"
Entries ==
    /\ \A k \in DOMAIN table : Shows(proc, sh, table[k])
    /\ sh.pc \in {"spawn", "wait"} =>
         \A i \in DOMAIN sh.kids, k \in DOMAIN table : sh.kids[i] # table[k].pgid
    /\ sh.pc = "spawn" => \A i \in DOMAIN sh.kids : Unreported(proc[sh.kids[i]])

\* A recorded code is that of a collected process, and what a wait was to find
\* is still there.
TrueCodes(pr, s) == \A p \in Pid : s[p] # NoCode => pr[p] = Collected(s[p])
Recorded ==
    /\ TrueCodes(proc, statuses)
    /\ sh.pc \in {"fg", "bg", "wait_pid", "fg_wait"} => \E p \in Pid : sh.of = {p}
    /\ sh.pc \in {"wait_pid", "fg_wait"} /\ sh.fresh # {} =>
         \A p \in sh.of : pgid_alive(proc, p) \/ statuses[p] # NoCode

TableInv == PipelineInv /\ Entries /\ Recorded /\ WaitStatus

\* The typed bytes: the queue and the terminal are in order, and the one before
\* the other; so are the consumed bytes unless the queue was passed over.
Before(s, t) == \A i \in DOMAIN s, j \in DOMAIN t : s[i] > 0 /\ t[j] > 0 => s[i] < t[j]
KeyInv ==
    /\ got \in Seq(Int) /\ PENDING_STDIN \in Seq(Int) /\ tty \in Seq(Int) /\ typed \in Nat
    /\ \A s \in {got, PENDING_STDIN, tty} : \A i \in DOMAIN s : s[i] <= typed
    /\ InOrder(PENDING_STDIN) /\ InOrder(tty) /\ Before(PENDING_STDIN, tty)
    /\ ~cut => InOrder(got) /\ Before(got, PENDING_STDIN) /\ Before(got, tty)

(***************************************************************************)
(* The typed bytes                                                         *)
(***************************************************************************)

LEMMA KeyInit == Init => KeyInv
<1> SUFFICES ASSUME Init PROVE KeyInv
  OBVIOUS
<1>1. got = <<>> /\ PENDING_STDIN = <<>> /\ tty = <<>> /\ typed = 0
  BY DEF Init
<1>2. QED
  BY <1>1 DEF KeyInv, InOrder, Before

\* The head of a queue goes to the end of the one before it.
LEMMA HeadMoves ==
    ASSUME NEW s \in Seq(Int), NEW t \in Seq(Int), t # <<>>,
           InOrder(s), InOrder(t), Before(s, t)
    PROVE  /\ Append(s, Head(t)) \in Seq(Int) /\ Tail(t) \in Seq(Int)
           /\ InOrder(Append(s, Head(t))) /\ InOrder(Tail(t))
           /\ Before(Append(s, Head(t)), Tail(t))
           /\ \A i \in DOMAIN Append(s, Head(t)) :
                (\E j \in DOMAIN s : Append(s, Head(t))[i] = s[j]) \/ Append(s, Head(t))[i] = t[1]
           /\ 1 \in DOMAIN t
<1>1. /\ Len(Append(s, Head(t))) = Len(s) + 1
      /\ \A i \in 1 .. Len(s) : Append(s, Head(t))[i] = s[i]
      /\ Append(s, Head(t))[Len(s) + 1] = t[1]
  OBVIOUS
<1>2. Len(t) > 0 /\ Len(Tail(t)) = Len(t) - 1 /\ \A i \in 1 .. (Len(t) - 1) : Tail(t)[i] = t[i + 1]
  OBVIOUS
<1>3. Append(s, Head(t)) \in Seq(Int) /\ Tail(t) \in Seq(Int)
  OBVIOUS
<1>4. /\ DOMAIN Append(s, Head(t)) = 1 .. (Len(s) + 1)
      /\ DOMAIN Tail(t) = 1 .. (Len(t) - 1) /\ DOMAIN s = 1 .. Len(s) /\ DOMAIN t = 1 .. Len(t)
  BY <1>1, <1>2, <1>3
<1>5. (\A i \in DOMAIN s : s[i] \in Int) /\ \A i \in DOMAIN t : t[i] \in Int
  OBVIOUS
<1>6. InOrder(Tail(t))
  BY <1>2, <1>4, <1>5 DEF InOrder
<1>7. InOrder(Append(s, Head(t)))
  BY <1>1, <1>2, <1>4, <1>5 DEF InOrder, Before
<1>8. Before(Append(s, Head(t)), Tail(t))
  <2> SUFFICES ASSUME NEW i \in 1 .. (Len(s) + 1), NEW j \in 1 .. (Len(t) - 1),
                      Append(s, Head(t))[i] > 0, t[j + 1] > 0
               PROVE  Append(s, Head(t))[i] < t[j + 1]
    BY <1>2, <1>4 DEF Before
  <2>1. j + 1 \in DOMAIN t /\ 1 \in DOMAIN t /\ 1 < j + 1
    BY <1>2, <1>4
  <2>2. CASE i = Len(s) + 1
    BY <1>1, <2>1, <2>2 DEF InOrder
  <2>3. CASE i \in 1 .. Len(s)
    BY <1>1, <1>4, <2>1, <2>3 DEF Before
  <2>4. QED
    BY <2>2, <2>3
<1>9. QED
  BY <1>1, <1>2, <1>3, <1>4, <1>6, <1>7, <1>8

LEMMA TailKeeps ==
    ASSUME NEW t \in Seq(Int), t # <<>>
    PROVE  /\ Tail(t) \in Seq(Int)
           /\ \A i \in DOMAIN Tail(t) : i + 1 \in DOMAIN t /\ Tail(t)[i] = t[i + 1]
           /\ DOMAIN Tail(t) \subseteq Int
           /\ InOrder(t) => InOrder(Tail(t))
           /\ \A s \in Seq(Int) : Before(s, t) => Before(s, Tail(t))
<1>1. Len(t) > 0 /\ Len(Tail(t)) = Len(t) - 1 /\ \A i \in 1 .. (Len(t) - 1) : Tail(t)[i] = t[i + 1]
  OBVIOUS
<1>2. Tail(t) \in Seq(Int)
  OBVIOUS
<1>3. \A i \in DOMAIN Tail(t) : i \in Int /\ i + 1 \in DOMAIN t /\ Tail(t)[i] = t[i + 1]
  BY <1>1, <1>2
<1>4. \A i \in DOMAIN t : t[i] \in Int
  OBVIOUS
<1>5. InOrder(t) => InOrder(Tail(t))
  BY <1>3, <1>4 DEF InOrder
<1>6. ASSUME NEW s \in Seq(Int), Before(s, t) PROVE Before(s, Tail(t))
  BY <1>3, <1>6 DEF Before
<1>7. QED
  BY <1>2, <1>3, <1>5, <1>6

\* The head of one queue goes to the end of another: how large the bytes are.
LEMMA HeadBounded ==
    ASSUME NEW s \in Seq(Int), NEW t \in Seq(Int), t # <<>>, NEW b \in Nat,
           \A i \in DOMAIN s : s[i] <= b, \A i \in DOMAIN t : t[i] <= b
    PROVE  /\ Append(s, Head(t)) \in Seq(Int) /\ Tail(t) \in Seq(Int)
           /\ \A i \in DOMAIN Append(s, Head(t)) : Append(s, Head(t))[i] <= b
           /\ \A i \in DOMAIN Tail(t) : Tail(t)[i] <= b
<1>1. Len(t) > 0 /\ 1 \in DOMAIN t /\ Head(t) = t[1] /\ t[1] \in Int /\ t[1] <= b
  OBVIOUS
<1>2. \A i \in DOMAIN Tail(t) : i + 1 \in DOMAIN t /\ Tail(t)[i] = t[i + 1]
  BY TailKeeps
<1>3. QED
  BY <1>1, <1>2

\* A byte is consumed from the front of the terminal.
LEMMA TtyConsumed ==
    ASSUME KeyInv, tty # <<>>, Consume(Head(tty)), tty' = Tail(tty),
           UNCHANGED <<PENDING_STDIN, typed>>,
           ~cut' => ~cut /\ PENDING_STDIN = <<>>
    PROVE  KeyInv'
<1>0. /\ got \in Seq(Int) /\ PENDING_STDIN \in Seq(Int) /\ tty \in Seq(Int) /\ typed \in Nat
      /\ \A i \in DOMAIN got : got[i] <= typed
      /\ \A i \in DOMAIN PENDING_STDIN : PENDING_STDIN[i] <= typed
      /\ \A i \in DOMAIN tty : tty[i] <= typed
      /\ InOrder(PENDING_STDIN) /\ InOrder(tty) /\ Before(PENDING_STDIN, tty)
      /\ ~cut => InOrder(got) /\ Before(got, PENDING_STDIN) /\ Before(got, tty)
  BY DEF KeyInv
<1> DEFINE g == Append(got, Head(tty))
<1>1. /\ g \in Seq(Int) /\ Tail(tty) \in Seq(Int)
      /\ \A i \in DOMAIN g : g[i] <= typed
      /\ \A i \in DOMAIN Tail(tty) : Tail(tty)[i] <= typed
  BY <1>0, HeadBounded
<1>2. /\ InOrder(Tail(tty)) /\ Before(PENDING_STDIN, Tail(tty))
      /\ ~cut => Before(got, Tail(tty))
  BY <1>0, TailKeeps
<1>3. ~cut => InOrder(g) /\ Before(g, Tail(tty))
  BY <1>0, HeadMoves
<1> HIDE DEF g
<1>4. got' \in {got, g}
  BY DEF Consume, g
<1>5. PENDING_STDIN = <<>> => Before(got', PENDING_STDIN)
  BY DEF Before
<1>6. QED
  BY <1>0, <1>1, <1>2, <1>3, <1>4, <1>5 DEF KeyInv

\* A byte is consumed from the front of the queue.
LEMMA QueueConsumed ==
    ASSUME KeyInv, PENDING_STDIN # <<>>, Consume(Head(PENDING_STDIN)),
           PENDING_STDIN' = Tail(PENDING_STDIN), UNCHANGED <<tty, typed, cut>>
    PROVE  KeyInv'
<1>0. /\ got \in Seq(Int) /\ PENDING_STDIN \in Seq(Int) /\ tty \in Seq(Int) /\ typed \in Nat
      /\ \A i \in DOMAIN got : got[i] <= typed
      /\ \A i \in DOMAIN PENDING_STDIN : PENDING_STDIN[i] <= typed
      /\ \A i \in DOMAIN tty : tty[i] <= typed
      /\ InOrder(PENDING_STDIN) /\ InOrder(tty) /\ Before(PENDING_STDIN, tty)
      /\ ~cut => InOrder(got) /\ Before(got, PENDING_STDIN) /\ Before(got, tty)
  BY DEF KeyInv
<1> DEFINE g == Append(got, Head(PENDING_STDIN))
<1>1. /\ g \in Seq(Int) /\ Tail(PENDING_STDIN) \in Seq(Int)
      /\ \A i \in DOMAIN g : g[i] <= typed
      /\ \A i \in DOMAIN Tail(PENDING_STDIN) : Tail(PENDING_STDIN)[i] <= typed
  BY <1>0, HeadBounded
<1>2. /\ \A i \in DOMAIN Tail(PENDING_STDIN) :
           i + 1 \in DOMAIN PENDING_STDIN /\ Tail(PENDING_STDIN)[i] = PENDING_STDIN[i + 1]
      /\ InOrder(Tail(PENDING_STDIN))
      /\ ~cut => Before(got, Tail(PENDING_STDIN))
  BY <1>0, TailKeeps
<1>3. Before(Tail(PENDING_STDIN), tty)
  BY <1>0, <1>2 DEF Before
<1>4. ASSUME ~cut
      PROVE  InOrder(g) /\ Before(g, Tail(PENDING_STDIN)) /\ Before(g, tty)
  <2>1. /\ InOrder(g) /\ Before(g, Tail(PENDING_STDIN)) /\ 1 \in DOMAIN PENDING_STDIN
        /\ \A i \in DOMAIN g : (\E j \in DOMAIN got : g[i] = got[j]) \/ g[i] = PENDING_STDIN[1]
    BY <1>0, <1>4, HeadMoves
  <2>2. Before(g, tty)
    BY <1>0, <1>4, <2>1 DEF Before
  <2>3. QED
    BY <2>1, <2>2
<1> HIDE DEF g
<1>5. got' \in {got, g}
  BY DEF Consume, g
<1>6. QED
  BY <1>0, <1>1, <1>2, <1>3, <1>4, <1>5 DEF KeyInv

LEMMA KeyStep == KeyInv /\ [Next]_vars => KeyInv'
<1> SUFFICES ASSUME KeyInv, [Next]_vars PROVE KeyInv'
  OBVIOUS
<1> DEFINE queues == <<got, PENDING_STDIN, tty, typed, cut>>
<1>0. /\ got \in Seq(Int) /\ PENDING_STDIN \in Seq(Int) /\ tty \in Seq(Int) /\ typed \in Nat
      /\ \A i \in DOMAIN got : got[i] <= typed
      /\ \A i \in DOMAIN PENDING_STDIN : PENDING_STDIN[i] <= typed
      /\ \A i \in DOMAIN tty : tty[i] <= typed
      /\ InOrder(PENDING_STDIN) /\ InOrder(tty) /\ Before(PENDING_STDIN, tty)
      /\ ~cut => InOrder(got) /\ Before(got, PENDING_STDIN) /\ Before(got, tty)
  BY DEF KeyInv
<1>1. CASE UNCHANGED queues
  BY <1>1 DEF KeyInv, InOrder, Before
<1>2. CASE NextByte \/ KeyByte \/ HereDoc
  <2>1. CASE NextByte /\ PENDING_STDIN # <<>>
    BY <2>1, QueueConsumed DEF NextByte
  <2>2. CASE NextByte /\ PENDING_STDIN = <<>>
    BY <2>2, TtyConsumed DEF NextByte
  <2>3. CASE KeyByte
    BY <2>3, TtyConsumed DEF KeyByte
  <2>4. CASE HereDoc
    BY <1>1, <2>4 DEF HereDoc, keyVars
  <2>5. QED
    BY <1>2, <2>1, <2>2, <2>3, <2>4
<1>3. CASE MonitorKeeps
  <2>1. /\ tty # <<>> /\ tty' = Tail(tty) /\ PENDING_STDIN' = Append(PENDING_STDIN, Head(tty))
        /\ UNCHANGED <<typed, got, cut>>
    BY <1>3 DEF MonitorKeeps, Kept
  <2> DEFINE g == Append(PENDING_STDIN, Head(tty))
  <2>2. /\ g \in Seq(Int) /\ Tail(tty) \in Seq(Int)
        /\ InOrder(g) /\ InOrder(Tail(tty)) /\ Before(g, Tail(tty))
        /\ \A i \in DOMAIN g :
             (\E j \in DOMAIN PENDING_STDIN : g[i] = PENDING_STDIN[j]) \/ g[i] = tty[1]
        /\ 1 \in DOMAIN tty
    BY <1>0, <2>1, HeadMoves
  <2>3. ~cut => Before(got, Tail(tty))
    BY <1>0, <2>1, TailKeeps
  <2>4. ~cut => Before(got, g)
    BY <1>0, <2>2 DEF Before
  <2>5. (\A i \in DOMAIN g : g[i] <= typed) /\ \A i \in DOMAIN Tail(tty) : Tail(tty)[i] <= typed
    BY <1>0, <2>1, HeadBounded
  <2> HIDE DEF g
  <2>6. PENDING_STDIN' = g
    BY <2>1 DEF g
  <2>7. QED
    BY <1>0, <2>1, <2>2, <2>3, <2>4, <2>5, <2>6 DEF KeyInv
<1>4. ASSUME tty # <<>>, tty' = Tail(tty), UNCHANGED <<PENDING_STDIN, got, typed, cut>>
      PROVE  KeyInv'
  <2>1. /\ Tail(tty) \in Seq(Int) /\ InOrder(Tail(tty))
        /\ ~cut => Before(got, Tail(tty))
        /\ Before(PENDING_STDIN, Tail(tty))
        /\ \A i \in DOMAIN Tail(tty) : i + 1 \in DOMAIN tty /\ Tail(tty)[i] = tty[i + 1]
    BY <1>0, <1>4, TailKeeps
  <2>2. \A i \in DOMAIN Tail(tty) : Tail(tty)[i] <= typed
    BY <1>0, <2>1
  <2>3. QED
    BY <1>0, <1>4, <2>1, <2>2 DEF KeyInv
<1>5. ASSUME NEW b \in {CtrlC, CtrlZ, typed + 1}, Type(b) PROVE KeyInv'
  <2>1. tty' = Append(tty, b) /\ typed' = typed + 1 /\ UNCHANGED <<PENDING_STDIN, got, cut>>
    BY <1>5 DEF Type
  <2>2. b \in Int /\ b <= typed + 1 /\ (b > 0 => b = typed + 1)
    BY <1>0 DEF CtrlC, CtrlZ
  <2>3. /\ Append(tty, b) \in Seq(Int)
        /\ Len(Append(tty, b)) = Len(tty) + 1
        /\ \A i \in 1 .. Len(tty) : Append(tty, b)[i] = tty[i]
        /\ Append(tty, b)[Len(tty) + 1] = b
    BY <1>0, <2>2
  <2>4. DOMAIN Append(tty, b) = 1 .. (Len(tty) + 1) /\ DOMAIN tty = 1 .. Len(tty)
    BY <1>0, <2>3
  <2>5. /\ \A i \in DOMAIN got : got[i] \in Int
        /\ \A i \in DOMAIN PENDING_STDIN : PENDING_STDIN[i] \in Int
        /\ \A i \in DOMAIN tty : tty[i] \in Int
    BY <1>0
  <2>6. \A i \in DOMAIN Append(tty, b) : Append(tty, b)[i] <= typed + 1
    BY <1>0, <2>2, <2>3, <2>4, <2>5
  <2>7. InOrder(Append(tty, b))
    BY <1>0, <2>2, <2>3, <2>4, <2>5 DEF InOrder
  <2>8. (~cut => Before(got, Append(tty, b))) /\ Before(PENDING_STDIN, Append(tty, b))
    <3>1. ASSUME NEW s \in {got, PENDING_STDIN}, Before(s, tty)
          PROVE  Before(s, Append(tty, b))
      <4> SUFFICES ASSUME NEW i \in DOMAIN s, NEW j \in DOMAIN Append(tty, b),
                          s[i] > 0, Append(tty, b)[j] > 0
                   PROVE  s[i] < Append(tty, b)[j]
        BY DEF Before
      <4>1. s[i] \in Int /\ s[i] <= typed
        BY <1>0, <2>5
      <4>2. CASE j = Len(tty) + 1
        BY <1>0, <2>2, <2>3, <4>1, <4>2
      <4>3. CASE j \in DOMAIN tty
        BY <2>3, <2>4, <3>1, <4>3 DEF Before
      <4>4. QED
        BY <1>0, <2>4, <4>2, <4>3
    <3>2. QED
      BY <1>0, <3>1
  <2>9. /\ \A i \in DOMAIN got : got[i] <= typed + 1
        /\ \A i \in DOMAIN PENDING_STDIN : PENDING_STDIN[i] <= typed + 1
    BY <1>0, <2>5
  <2>10. QED
    BY <1>0, <2>1, <2>3, <2>6, <2>7, <2>8, <2>9 DEF KeyInv
<1>6. CASE UNCHANGED vars
  BY <1>1, <1>6 DEF vars
<1>7. ASSUME Next PROVE KeyInv'
  <2>1. CASE Prompt
    BY <2>1, <1>1 DEF Prompt, keyVars
  <2>2. CASE Pipelines
    BY <2>2, <1>1 DEF Pipelines, StartPipeline, Spawn, SpawnFails, RedirectFails, Background,
       Foreground, WaitChild, ChildStopped, AllWaited, Joined, keyVars
  <2>3. CASE Builtins
    BY <2>3, <1>1 DEF Builtins, ListJobs, NoJob, TakeForeground, MarkRunning, Resume, WaitFor,
       WaitJob, WaitPidRound, WaitAny, WaitAnyRound, WaitAll, WaitAllRound, KillJob, keyVars
  <2>4. CASE Monitor
    <3>1. CASE MonitorSignal
      BY <3>1, <1>4 DEF MonitorSignal
    <3>2. QED
      BY <2>4, <3>1, <1>1, <1>3 DEF Monitor, MonitorTop, MonitorIdle
  <2>5. CASE Environment
    <3>1. CASE ChildReads
      BY <3>1, <1>4 DEF ChildReads
    <3>2. ASSUME NEW p \in Pid, Stops(p) \/ Continues(p) \/ \E code \in Code : Exits(p, code)
          PROVE  KeyInv'
      BY <3>2, <1>1 DEF Stops, Continues, Exits, keyVars
    <3>3. QED
      BY <2>5, <3>1, <3>2, <1>5 DEF Environment
  <2>6. QED
    BY <1>2, <1>7, <2>1, <2>2, <2>3, <2>4, <2>5 DEF Next
<1>8. QED
  BY <1>6, <1>7

LEMMA Joins ==
    ASSUME NEW s \in Seq(Int), NEW t \in Seq(Int), InOrder(s), InOrder(t), Before(s, t)
    PROVE  s \o t \in Seq(Int) /\ InOrder(s \o t)
<1>1. /\ s \o t \in Seq(Int) /\ Len(s \o t) = Len(s) + Len(t)
      /\ \A i \in 1 .. Len(s \o t) : (s \o t)[i] = IF i <= Len(s) THEN s[i] ELSE t[i - Len(s)]
  OBVIOUS
<1>2. QED
  BY <1>1 DEF InOrder, Before

LEMMA KeyInOrder == KeyInv => QueueInOrder
<1> SUFFICES ASSUME KeyInv PROVE QueueInOrder
  OBVIOUS
<1>0. /\ got \in Seq(Int) /\ PENDING_STDIN \in Seq(Int) /\ tty \in Seq(Int)
      /\ InOrder(PENDING_STDIN) /\ InOrder(tty) /\ Before(PENDING_STDIN, tty)
      /\ ~cut => InOrder(got) /\ Before(got, PENDING_STDIN) /\ Before(got, tty)
  BY DEF KeyInv
<1>1. InOrder(PENDING_STDIN \o tty)
  BY <1>0, Joins
<1>2. ASSUME ~cut PROVE InOrder(got \o PENDING_STDIN \o tty)
  <2> DEFINE s == got \o PENDING_STDIN
  <2>1. s \in Seq(Int) /\ InOrder(s)
    BY <1>0, <1>2, Joins
  <2>2. /\ Len(s) = Len(got) + Len(PENDING_STDIN)
        /\ \A i \in 1 .. Len(s) :
             s[i] = IF i <= Len(got) THEN got[i] ELSE PENDING_STDIN[i - Len(got)]
    BY <1>0
  <2> HIDE DEF s
  <2>3. Before(s, tty)
    <3> SUFFICES ASSUME NEW i \in DOMAIN s, NEW j \in DOMAIN tty, s[i] > 0, tty[j] > 0
                 PROVE  s[i] < tty[j]
      BY DEF Before
    <3>1. i \in 1 .. Len(s) /\ DOMAIN got = 1 .. Len(got)
          /\ DOMAIN PENDING_STDIN = 1 .. Len(PENDING_STDIN)
      BY <1>0, <2>1
    <3>2. CASE i <= Len(got)
      BY <1>0, <1>2, <2>2, <3>1, <3>2 DEF Before
    <3>3. CASE i > Len(got)
      <4>1. i - Len(got) \in DOMAIN PENDING_STDIN /\ s[i] = PENDING_STDIN[i - Len(got)]
        BY <1>0, <2>2, <3>1, <3>3
      <4>2. QED
        BY <1>0, <4>1 DEF Before
    <3>4. QED
      BY <1>0, <3>1, <3>2, <3>3
  <2>4. InOrder(s \o tty)
    BY <1>0, <2>1, <2>3, Joins
  <2>5. QED
    BY <2>4 DEF s
<1>3. QED
  BY <1>1, <1>2 DEF QueueInOrder

\* What was typed while a program ran is kept in order, and unless a key or a
\* here-doc is read past it, it is consumed in order.
THEOREM QueueStaysInOrder == Spec => []QueueInOrder
<1>1. Spec => []KeyInv
  BY KeyInit, KeyStep, PTL DEF Spec
<1>2. QED
  BY <1>1, KeyInOrder, PTL

(***************************************************************************)
(* Numbers and the job table                                               *)
(***************************************************************************)

\* Induction on the numbers, for a set that holds them.
LEMMA AllNumbers ==
    ASSUME NEW T \in SUBSET Nat, 0 \in T, \A n \in T : n + 1 \in T
    PROVE  T = Nat
<1> SUFFICES ASSUME Nat \ T # {} PROVE FALSE
  OBVIOUS
<1>1. IsWellFoundedOn(OpToRel(<, Nat), Nat)
  BY NatLessThanWellFounded
<1>2. PICK x \in Nat \ T : \A y \in Nat \ T : ~(<<y, x>> \in OpToRel(<, Nat))
  BY <1>1, WFMin
<1>3. \A y \in Nat \ T : ~(y < x)
  BY <1>2 DEF OpToRel
<1>4. x # 0 /\ x - 1 \in Nat /\ x - 1 \in T
  BY <1>3
<1>5. QED
  BY <1>4

\* The numbers of a set below a bound can be listed in order.
Listing(S) ==
    {s \in [1 .. Cardinality(S) -> S] : \A i, k \in DOMAIN s : i < k => s[i] < s[k]}

LEMMA Listed ==
    ASSUME NEW n \in Nat, NEW S \in SUBSET (1 .. n)
    PROVE  Cardinality(S) \in Nat /\ Listing(S) # {}
<1> DEFINE Good == {m \in Nat : \A T \in SUBSET (1 .. m) : Listing(T) # {}}
<1>0. \A m \in Nat : \A T \in SUBSET (1 .. m) : IsFiniteSet(T) /\ Cardinality(T) \in Nat
  <2> TAKE m \in Nat
  <2>1. IsFiniteSet(1 .. m)
    BY FS_Interval
  <2> TAKE T \in SUBSET (1 .. m)
  <2>2. IsFiniteSet(T)
    BY <2>1, FS_Subset
  <2>3. QED
    BY <2>2, FS_CardinalityType
<1>1. 0 \in Good
  <2> SUFFICES ASSUME NEW T \in SUBSET (1 .. 0) PROVE Listing(T) # {}
    OBVIOUS
  <2>0. T = {}
    OBVIOUS
  <2>1. T = {} /\ Cardinality(T) = 0
    BY <2>0, FS_EmptySet
  <2>2. [i \in 1 .. 0 |-> i] \in Listing(T)
    BY <2>1 DEF Listing
  <2>3. QED
    BY <2>2
<1>2. ASSUME NEW m \in Good PROVE m + 1 \in Good
  <2> SUFFICES ASSUME NEW T \in SUBSET (1 .. (m + 1)) PROVE Listing(T) # {}
    BY <1>2
  <2>1. CASE m + 1 \notin T
    <3>1. T \in SUBSET (1 .. m)
      BY <2>1
    <3>2. QED
      BY <1>2, <3>1
  <2>2. CASE m + 1 \in T
    <3> DEFINE U == T \ {m + 1}
               c == Cardinality(U)
    <3>1. U \in SUBSET (1 .. m)
      OBVIOUS
    <3>2. c \in Nat /\ Cardinality(T) = c + 1
      <4>1. m \in Nat /\ m + 1 \in Nat
        BY <1>2
      <4>2. IsFiniteSet(T) /\ Cardinality(T) \in Nat /\ c \in Nat
        BY <1>0, <3>1, <4>1
      <4>3. c = Cardinality(T) - 1
        BY <2>2, <4>2, FS_RemoveElement
      <4> HIDE DEF c
      <4>4. QED
        BY <4>2, <4>3
    <3>3. PICK s \in Listing(U) : TRUE
      BY <1>2, <3>1
    <3>4. s \in [1 .. c -> U] /\ \A i, k \in 1 .. c : i < k => s[i] < s[k]
      BY <3>3 DEF Listing
    <3> DEFINE r == [i \in 1 .. (c + 1) |-> IF i = c + 1 THEN m + 1 ELSE s[i]]
    <3> HIDE DEF c
    <3>5. r \in [1 .. (c + 1) -> T]
      BY <2>2, <3>2, <3>4
    <3>6. ASSUME NEW i \in 1 .. (c + 1), NEW k \in 1 .. (c + 1), i < k PROVE r[i] < r[k]
      <4>0. m \in Nat /\ i \in 1 .. c
        BY <1>2, <3>2, <3>6
      <4>1. i \in 1 .. c /\ s[i] \in U /\ s[i] < m + 1 /\ r[i] = s[i]
        <5>1. s[i] \in U
          BY <3>4, <4>0
        <5>2. s[i] \in 1 .. m
          BY <3>1, <5>1
        <5>3. i # c + 1
          BY <3>2, <4>0
        <5>4. QED
          BY <4>0, <5>1, <5>2, <5>3
      <4>2. CASE k = c + 1
        BY <4>1, <4>2
      <4>3. CASE k \in 1 .. c
        BY <3>2, <3>4, <3>6, <4>1, <4>3
      <4>4. QED
        BY <3>2, <4>2, <4>3
    <3>7. r \in Listing(T)
      BY <3>2, <3>5, <3>6 DEF Listing
    <3>8. QED
      BY <3>7
  <2>3. QED
    BY <2>1, <2>2
<1> HIDE DEF Good
<1>3. Good = Nat
  <2>1. Good \in SUBSET Nat
    BY DEF Good
  <2>2. QED
    BY <1>1, <1>2, <2>1, AllNumbers
<1>4. QED
  BY <1>0, <1>3 DEF Good

\* Every value of a finite sequence of numbers is below one of them.
LEMMA MaxExists ==
    ASSUME NEW n \in Nat, n # 0, NEW f \in [1 .. n -> Nat]
    PROVE  \E k \in 1 .. n : \A j \in 1 .. n : f[k] >= f[j]
<1> DEFINE Good == {m \in Nat : m \in 1 .. n => \E k \in 1 .. m : \A j \in 1 .. m : f[k] >= f[j]}
<1>1. 0 \in Good
  OBVIOUS
<1>2. ASSUME NEW m \in Good PROVE m + 1 \in Good
  <2> SUFFICES ASSUME m + 1 \in 1 .. n
               PROVE  \E k \in 1 .. (m + 1) : \A j \in 1 .. (m + 1) : f[k] >= f[j]
    BY <1>2
  <2>1. CASE m = 0
    BY <2>1
  <2>2. CASE m # 0
    <3>1. m \in 1 .. n
      BY <1>2, <2>2
    <3>2. PICK k \in 1 .. m : \A j \in 1 .. m : f[k] >= f[j]
      BY <1>2, <3>1
    <3>3. k \in 1 .. n /\ f[k] \in Nat /\ f[m + 1] \in Nat /\ \A j \in 1 .. m : f[j] \in Nat
      BY <1>2, <3>1
    <3>4. CASE f[k] >= f[m + 1]
      <4>1. \A j \in 1 .. (m + 1) : f[k] >= f[j]
        BY <1>2, <3>2, <3>3, <3>4
      <4>2. QED
        BY <1>2, <4>1
    <3>5. CASE f[m + 1] >= f[k]
      <4>1. \A j \in 1 .. (m + 1) : f[m + 1] >= f[j]
        BY <1>2, <3>2, <3>3, <3>5
      <4>2. QED
        BY <1>2, <4>1
    <3>6. QED
      BY <3>3, <3>4, <3>5
  <2>3. QED
    BY <2>1, <2>2
<1> HIDE DEF Good
<1>3. Good = Nat
  <2>1. Good \in SUBSET Nat
    BY DEF Good
  <2>2. QED
    BY <1>1, <1>2, <2>1, AllNumbers
<1>4. n \in Good
  BY <1>3
<1>5. QED
  BY <1>4 DEF Good

\* Pruning the table keeps entries of processes that exist, and nothing else.
LEMMA RetainedFacts ==
    ASSUME NEW pr, NEW t \in Seq(Job)
    PROVE  /\ retained(pr, t) \in Seq(Job)
           /\ \A k \in DOMAIN retained(pr, t) :
                /\ pgid_alive(pr, retained(pr, t)[k].pgid)
                /\ \E i \in DOMAIN t : retained(pr, t)[k] = t[i]
<1> DEFINE kept == {k \in DOMAIN t : pgid_alive(pr, t[k].pgid)}
           at == CHOOSE s \in [1 .. Cardinality(kept) -> kept] :
                     \A i, k \in DOMAIN s : i < k => s[i] < s[k]
<1>1. kept \in SUBSET (1 .. Len(t)) /\ Len(t) \in Nat
  OBVIOUS
<1>2. Cardinality(kept) \in Nat /\ Listing(kept) # {}
  BY <1>1, Listed
<1>3. at \in [1 .. Cardinality(kept) -> kept]
  <2> HIDE DEF kept
  <2>1. QED
    BY <1>2 DEF Listing
<1>4. retained(pr, t) = [k \in DOMAIN at |-> t[at[k]]]
  BY DEF retained
<1> HIDE DEF at
<1>5. DOMAIN at = 1 .. Cardinality(kept)
  BY <1>3
<1>6. \A k \in DOMAIN at : at[k] \in DOMAIN t /\ pgid_alive(pr, t[at[k]].pgid) /\ t[at[k]] \in Job
  BY <1>3
<1> HIDE DEF kept
<1>7. retained(pr, t) \in Seq(Job)
  BY <1>2, <1>4, <1>5, <1>6, IsASeq
<1>8. QED
  BY <1>4, <1>6, <1>7

LEMMA MaxFacts ==
    ASSUME NEW S \in SUBSET Nat, NEW x \in S, \A y \in S : x >= y
    PROVE  Max(S) = x
<1>1. /\ Max(S) \in S
      /\ \A y \in S : Max(S) >= y
  BY DEF Max
<1>2. Max(S) >= x /\ x >= Max(S) /\ Max(S) \in Nat /\ x \in Nat
  BY <1>1
<1>3. QED
  BY <1>2

LEMMA NextIdFacts ==
    ASSUME NEW t \in Seq(Job)
    PROVE  next_id(t) \in Nat \ {0}
<1>1. CASE t = <<>>
  BY <1>1 DEF next_id
<1>2. CASE t # <<>>
  <2> DEFINE f == [k \in 1 .. Len(t) |-> t[k].id]
             ids == {t[k].id : k \in DOMAIN t}
  <2>1. Len(t) \in Nat /\ Len(t) # 0 /\ DOMAIN t = 1 .. Len(t)
    BY <1>2
  <2>2. \A k \in 1 .. Len(t) : t[k].id \in Nat \ {0}
    <3>1. \A k \in 1 .. Len(t) : t[k] \in Job
      OBVIOUS
    <3>2. QED
      BY <3>1 DEF Job
  <2>3. f \in [1 .. Len(t) -> Nat]
    BY <2>2
  <2>4. PICK k \in 1 .. Len(t) : \A j \in 1 .. Len(t) : f[k] >= f[j]
    <3> HIDE DEF f
    <3>1. QED
      BY <2>1, <2>3, MaxExists
  <2>5. f[k] \in ids /\ ids \in SUBSET Nat /\ \A y \in ids : f[k] >= y
    BY <2>1, <2>2, <2>4
  <2>6. Max(ids) \in Nat
    <3> HIDE DEF ids, f
    <3>1. QED
      BY <2>5, MaxFacts
  <2>7. next_id(t) = Max(ids) + 1
    BY <1>2 DEF next_id
  <2> HIDE DEF ids
  <2>8. QED
    BY <2>6, <2>7
<1>3. QED
  BY <1>1, <1>2

LEMMA AddJobFacts ==
    ASSUME NEW pr, NEW t \in Seq(Job), NEW p \in Pid, NEW state \in {"Running", "Stopped"}
    PROVE  /\ add_job(pr, t, p, state) \in Seq(Job)
           /\ \A k \in DOMAIN add_job(pr, t, p, state) :
                \/ /\ add_job(pr, t, p, state)[k].pgid = p
                   /\ add_job(pr, t, p, state)[k].state = state
                \/ \E i \in DOMAIN t : add_job(pr, t, p, state)[k] = t[i]
<1> DEFINE r == retained(pr, t)
           e == [id |-> next_id(r), pgid |-> p, state |-> state]
<1>1. r \in Seq(Job) /\ \A k \in DOMAIN r : \E i \in DOMAIN t : r[k] = t[i]
  BY RetainedFacts
<1> HIDE DEF r
<1>2. e \in Job /\ e.pgid = p /\ e.state = state
  BY <1>1, NextIdFacts DEF Job
<1>3. add_job(pr, t, p, state) = Append(r, e)
  BY DEF add_job, r
<1> HIDE DEF e
<1>4. /\ Append(r, e) \in Seq(Job) /\ DOMAIN Append(r, e) = 1 .. (Len(r) + 1)
      /\ DOMAIN r = 1 .. Len(r)
      /\ \A k \in 1 .. Len(r) : Append(r, e)[k] = r[k]
      /\ Append(r, e)[Len(r) + 1] = e
  BY <1>1, <1>2
<1>5. ASSUME NEW k \in DOMAIN Append(r, e)
      PROVE  Append(r, e)[k] = e \/ \E i \in DOMAIN t : Append(r, e)[k] = t[i]
  <2>1. CASE k = Len(r) + 1
    BY <1>4, <2>1
  <2>2. CASE k \in 1 .. Len(r)
    BY <1>1, <1>4, <2>2
  <2>3. QED
    BY <1>1, <1>4, <2>1, <2>2
<1>6. QED
  BY <1>2, <1>3, <1>4, <1>5

LEMMA AddedJob ==
    ASSUME NEW pr, NEW t \in Seq(Job), NEW p \in Pid, NEW state \in {"Running", "Stopped"},
           NEW r, r = add_job(pr, t, p, state), NEW k \in DOMAIN r
    PROVE  (r[k].pgid = p /\ r[k].state = state) \/ \E i \in DOMAIN t : r[k] = t[i]
<1>1. \A j \in DOMAIN add_job(pr, t, p, state) :
        \/ /\ add_job(pr, t, p, state)[j].pgid = p
           /\ add_job(pr, t, p, state)[j].state = state
        \/ \E i \in DOMAIN t : add_job(pr, t, p, state)[j] = t[i]
  BY AddJobFacts, Zenon
<1>2. QED
  BY <1>1

LEMMA AddedRunning ==
    ASSUME NEW pr, NEW t \in Seq(Job), NEW p \in Pid, NEW r, r = add_job(pr, t, p, "Running")
    PROVE  \A k \in DOMAIN r :
             (r[k].pgid = p /\ r[k].state = "Running") \/ \E i \in DOMAIN t : r[k] = t[i]
<1>1. \A k \in DOMAIN add_job(pr, t, p, "Running") :
        \/ /\ add_job(pr, t, p, "Running")[k].pgid = p
           /\ add_job(pr, t, p, "Running")[k].state = "Running"
        \/ \E i \in DOMAIN t : add_job(pr, t, p, "Running")[k] = t[i]
  BY AddJobFacts
<1>2. QED
  BY <1>1

LEMMA UpdatedFacts ==
    ASSUME NEW pr \in [Pid -> Process], NEW t \in Seq(Job)
    PROVE  /\ updated(pr, t) \in Seq(Job) /\ DOMAIN updated(pr, t) = DOMAIN t
           /\ \A k \in DOMAIN t :
                LET j == updated(pr, t)[k]
                    e == pr[t[k].pgid].evt
                IN  /\ j.pgid = t[k].pgid
                    /\ e = "stopped" => j.state = "Stopped"
                    /\ e = "continued" => j.state = "Running"
                    /\ e \notin {"stopped", "continued"} => j = t[k]
<1> DEFINE e(k) == CASE pr[t[k].pgid].evt = "stopped" -> [t[k] EXCEPT !.state = "Stopped"]
                     [] pr[t[k].pgid].evt = "continued" -> [t[k] EXCEPT !.state = "Running"]
                     [] OTHER -> t[k]
<1>1. DOMAIN t = 1 .. Len(t) /\ Len(t) \in Nat
  OBVIOUS
<1>2. ASSUME NEW k \in 1 .. Len(t)
      PROVE  /\ e(k) \in Job /\ e(k).pgid = t[k].pgid
             /\ pr[t[k].pgid].evt = "stopped" => e(k).state = "Stopped"
             /\ pr[t[k].pgid].evt = "continued" => e(k).state = "Running"
             /\ pr[t[k].pgid].evt \notin {"stopped", "continued"} => e(k) = t[k]
  <2>1. t[k] \in Job
    BY <1>2, ElementOfSeq
  <2>2. QED
    BY <2>1 DEF Job
<1>3. updated(pr, t) = [k \in 1 .. Len(t) |-> e(k)]
  BY <1>1 DEF updated
<1> HIDE DEF e
<1>4. updated(pr, t) \in Seq(Job)
  BY <1>1, <1>2, <1>3, IsASeq
<1>5. QED
  BY <1>1, <1>2, <1>3, <1>4

LEMMA JobFacts ==
    ASSUME NEW t \in Seq(Job), NEW k \in DOMAIN t
    PROVE  /\ t[k] \in Job /\ t[k].pgid \in Pid /\ t[k].state \in {"Running", "Stopped"}
           /\ [t[k] EXCEPT !.state = "Running"] \in Job
<1>1. t[k] \in Job
  OBVIOUS
<1>2. QED
  BY <1>1 DEF Job

LEMMA PgidsFacts ==
    ASSUME NEW t \in Seq(Job)
    PROVE  Pgids(t) \in SUBSET Pid /\ all_pgids(t) \in SUBSET Pid
<1>1. \A k \in DOMAIN t : t[k].pgid \in Pid
  BY JobFacts
<1>2. QED
  BY <1>1 DEF Pgids, all_pgids

LEMMA CodeFacts ==
    /\ AnyCode \subseteq 0 .. 255 /\ NoCode \notin AnyCode
    /\ {0, 1, 127, Signalled(SIGTSTP), Signalled(SIGKILL), Signalled(SIGINT), Signalled(SIGTERM)}
         \subseteq AnyCode
    /\ Code \subseteq AnyCode
    /\ Pid \subseteq Nat \ {0} /\ NoPgid \notin Pid
<1> DEFINE signalled == {Signalled(s) : s \in {SIGINT, SIGKILL, SIGTERM, SIGTSTP}}
<1>1. signalled = {Signalled(SIGINT), Signalled(SIGKILL), Signalled(SIGTERM), Signalled(SIGTSTP)}
  OBVIOUS
<1>2. AnyCode = Code \cup {0, 1, 127} \cup signalled
  BY DEF AnyCode
<1> HIDE DEF signalled
<1>3. QED
  BY <1>1, <1>2, JobsAssumption
     DEF NoCode, NoPgid, Signalled, SIGTSTP, SIGKILL, SIGINT, SIGTERM

LEMMA CollectedFacts ==
    ASSUME NEW c
    PROVE  Collected(c).st = "gone" /\ Collected(c).code = c /\ Collected(c).evt = "none"
BY DEF Collected

LEMMA IdleFacts ==
    ASSUME NEW pc \in {"prompt", "read", "key", "spawn", "wait", "join", "fg", "bg", "wait_pid",
                       "fg_wait", "wait_any", "wait_all"}
    PROVE  Idle(pc) \in Thread
<1>1. <<>> \in Seq(Pid)
  OBVIOUS
<1>2. QED
  BY <1>1, CodeFacts DEF Idle, Thread

(***************************************************************************)
(* Changes of the processes                                                *)
(***************************************************************************)

\* What a live process may become while the shell is not looking.
Changes ==
    {Zombie(c) : c \in AnyCode} \cup
    {[st |-> "stopped", code |-> NoCode, evt |-> "stopped"],
     [st |-> "run", code |-> NoCode, evt |-> "continued"]}

Moves == \A p \in Pid : proc'[p] = proc[p] \/ (Live(p) /\ proc'[p] \in Changes)

LEMMA MovesFacts ==
    ASSUME Shape, Processes, Moves, proc' = [p \in Pid |-> proc'[p]]
    PROVE  /\ proc' \in [Pid -> Process] /\ Processes'
           /\ \A p \in Pid :
                /\ pgid_alive(proc, p) => pgid_alive(proc', p)
                /\ ~Live(p) => proc'[p] = proc[p]
<1>1. Changes \subseteq Process
  BY CodeFacts DEF Changes, Process, Zombie
<1>2. \A p \in Pid : proc[p] \in Process /\ proc'[p] \in Process
  BY <1>1 DEF Shape, Moves
<1>3. proc' \in [Pid -> Process]
  BY <1>2
<1>4. Processes'
  <2> SUFFICES ASSUME NEW p \in Pid
               PROVE  /\ proc'[p].st = "run" => proc'[p].evt # "stopped"
                      /\ proc'[p].st = "stopped" => proc'[p].evt # "continued"
                      /\ proc'[p].st = "zombie" => proc'[p].code # NoCode
                      /\ proc'[p].st \in {"run", "stopped"} => proc'[p].code = NoCode
    BY DEF Processes, Live
  <2>1. CASE proc'[p] = proc[p]
    BY <2>1 DEF Processes, Live
  <2>2. CASE proc'[p] \in Changes
    BY <2>2, CodeFacts DEF Changes, Zombie
  <2>3. QED
    BY <2>1, <2>2 DEF Moves
<1>5. ASSUME NEW p \in Pid, pgid_alive(proc, p) PROVE pgid_alive(proc', p)
  <2>1. CASE proc'[p] = proc[p]
    BY <2>1, <1>5 DEF pgid_alive
  <2>2. CASE proc'[p] \in Changes
    BY <2>2 DEF Changes, Zombie, pgid_alive
  <2>3. QED
    BY <2>1, <2>2 DEF Moves
<1>6. QED
  BY <1>3, <1>4, <1>5 DEF Moves

\* One process changes.
LEMMA OneMoves ==
    ASSUME Shape, NEW p \in Pid, NEW o, proc' = [proc EXCEPT ![p] = o],
           o = proc[p] \/ (Live(p) /\ o \in Changes)
    PROVE  Moves /\ proc' = [q \in Pid |-> proc'[q]]
<1>1. DOMAIN proc = Pid
  BY DEF Shape
<1>2. proc'[p] = o /\ \A q \in Pid \ {p} : proc'[q] = proc[q]
  BY <1>1
<1>3. QED
  BY <1>1, <1>2 DEF Moves

LEMMA StopFacts ==
    ASSUME NEW r \in Process, r.code = NoCode
    PROVE  [r EXCEPT !.st = "stopped", !.evt = "stopped"]
             = [st |-> "stopped", code |-> NoCode, evt |-> "stopped"]
<1> DEFINE o == [r EXCEPT !.st = "stopped", !.evt = "stopped"]
<1>1. o \in Process /\ o.st = "stopped" /\ o.code = NoCode /\ o.evt = "stopped"
  BY DEF Process
<1> HIDE DEF o
<1>2. o = [st |-> "stopped", code |-> NoCode, evt |-> "stopped"]
  BY <1>1 DEF Process
<1>3. QED
  BY <1>2 DEF o

LEMMA OutcomeMoves ==
    ASSUME Shape, Processes, NEW p \in Pid, NEW sig \in {SIGINT, SIGTERM, SIGTSTP},
           NEW o \in Outcomes(sig, p), proc' = [proc EXCEPT ![p] = o]
    PROVE  Moves /\ proc' = [q \in Pid |-> proc'[q]]
<1>1. o = proc[p] \/ (Live(p) /\ o \in Changes)
  <2>1. CASE ~Live(p)
    BY <2>1 DEF Outcomes
  <2>2. CASE Live(p) /\ sig = SIGTSTP
    <3>1. o = [proc[p] EXCEPT !.st = "stopped", !.evt = "stopped"]
      BY <2>2 DEF Outcomes, SIGTSTP, SIGKILL
    <3>2. proc[p] \in Process /\ proc[p].code = NoCode
      BY <2>2 DEF Shape, Processes
    <3>3. o = [st |-> "stopped", code |-> NoCode, evt |-> "stopped"]
      BY <3>1, <3>2 DEF Process
    <3>4. QED
      BY <2>2, <3>3 DEF Changes
  <2>3. CASE Live(p) /\ sig \in {SIGINT, SIGTERM}
    <3>1. o = proc[p] \/ o = Zombie(Signalled(sig))
      BY <2>3 DEF Outcomes, SIGINT, SIGTERM, SIGTSTP, SIGKILL
    <3>2. Signalled(sig) \in AnyCode
      BY <2>3, CodeFacts
    <3>3. QED
      BY <2>3, <3>1, <3>2 DEF Changes
  <2>4. QED
    BY <2>1, <2>2, <2>3
<1>2. QED
  BY <1>1, OneMoves

LEMMA ResumedMoves ==
    ASSUME Shape, NEW p \in Pid, proc' = [proc EXCEPT ![p] = Resumed(p)]
    PROVE  Moves /\ proc' = [q \in Pid |-> proc'[q]]
<1>1. Resumed(p) = proc[p] \/ (Live(p) /\ Resumed(p) \in Changes)
  BY DEF Resumed, Live, Changes
<1>2. QED
  BY <1>1, OneMoves

\* After reap_children no change is left to report and no zombie to collect.
LEMMA ReapFacts ==
    ASSUME Shape, Processes, proc' = reap_children(proc)
    PROVE  /\ proc' \in [Pid -> Process] /\ Processes'
           /\ \A p \in Pid :
                /\ proc[p].st = "zombie" => proc'[p] = Collected(proc[p].code)
                /\ proc[p].st # "zombie" =>
                     /\ proc'[p].st = proc[p].st /\ proc'[p].code = proc[p].code
                     /\ proc'[p].evt = "none"
<1>1. ASSUME NEW p \in Pid
      PROVE  /\ proc'[p] \in Process
             /\ proc[p].st = "zombie" => proc'[p] = Collected(proc[p].code)
             /\ proc[p].st # "zombie" =>
                  /\ proc'[p].st = proc[p].st /\ proc'[p].code = proc[p].code
                  /\ proc'[p].evt = "none"
  <2>1. proc[p] \in Process
    BY DEF Shape
  <2>2. proc'[p] = IF proc[p].st = "zombie" THEN Collected(proc[p].code)
                   ELSE [proc[p] EXCEPT !.evt = "none"]
    BY DEF reap_children
  <2>3. QED
    BY <2>1, <2>2 DEF Process, Collected
<1>2. proc' \in [Pid -> Process]
  BY <1>1 DEF reap_children
<1>3. Processes'
  <2> SUFFICES ASSUME NEW p \in Pid
               PROVE  /\ proc'[p].st = "run" => proc'[p].evt # "stopped"
                      /\ proc'[p].st = "stopped" => proc'[p].evt # "continued"
                      /\ proc'[p].st = "zombie" => proc'[p].code # NoCode
                      /\ proc'[p].st \in {"run", "stopped"} => proc'[p].code = NoCode
    BY DEF Processes, Live
  <2>1. CASE proc[p].st = "zombie"
    <3>1. proc'[p] = Collected(proc[p].code)
      BY <1>1, <2>1
    <3>2. proc'[p].st = "gone"
      BY <3>1 DEF Collected
    <3>3. QED
      BY <3>2
  <2>2. CASE proc[p].st # "zombie"
    BY <1>1, <2>2 DEF Processes, Live
  <2>3. QED
    BY <2>1, <2>2
<1>4. QED
  BY <1>1, <1>2, <1>3

LEMMA RecordedFacts ==
    ASSUME Shape
    PROVE  /\ recorded(proc, statuses) \in [Pid -> AnyCode \cup {NoCode}]
           /\ \A p \in Pid :
                recorded(proc, statuses)[p] = IF proc[p].st = "zombie" THEN proc[p].code ELSE statuses[p]
<1>1. \A p \in Pid : proc[p].code \in AnyCode \cup {NoCode}
  BY DEF Shape, Process
<1>2. QED
  BY <1>1 DEF Shape, recorded

(***************************************************************************)
(* Pipelines                                                               *)
(***************************************************************************)

LEMMA PipelineInit == Init => PipelineInv
<1> SUFFICES ASSUME Init PROVE PipelineInv
  OBVIOUS
<1>1. Shape
  <2>1. NoProc \in Process
    BY DEF NoProc, Process
  <2>2. <<>> \in Seq(Job)
    OBVIOUS
  <2>3. QED
    BY <2>1, <2>2, IdleFacts DEF Init, Shape
<1>2. Processes
  BY CodeFacts DEF Init, Processes, NoProc, Live
<1>3. Pipeline
  BY DEF Init, Pipeline, Idle
<1>4. PipelineStatus
  BY DEF Init, PipelineStatus, NoRet
<1>5. QED
  BY <1>1, <1>2, <1>3, <1>4 DEF PipelineInv

\* The shell is not in a pipeline afterwards.
LEMMA Elsewhere ==
    ASSUME PipelineInv, Shape', Processes', sh'.pc \notin {"spawn", "wait", "join"},
           ret' = ret \/ ret'.cmd # "pipeline"
    PROVE  PipelineInv'
<1>1. Pipeline'
  BY DEF Pipeline
<1>2. PipelineStatus'
  BY DEF PipelineInv, PipelineStatus
<1>3. QED
  BY <1>1, <1>2 DEF PipelineInv

\* Children change while the main thread does nothing.
LEMMA Meanwhile ==
    ASSUME PipelineInv, Moves, proc' = [p \in Pid |-> proc'[p]],
           UNCHANGED <<jobVars, sh, ret, FOREGROUND_PGID>>
    PROVE  PipelineInv'
<1>0. Shape /\ Processes /\ Pipeline /\ PipelineStatus
  BY DEF PipelineInv
<1>1. /\ proc' \in [Pid -> Process] /\ Processes'
      /\ \A p \in Pid :
           /\ pgid_alive(proc, p) => pgid_alive(proc', p)
           /\ ~Live(p) => proc'[p] = proc[p]
  BY <1>0, MovesFacts
<1>2. Shape'
  BY <1>0, <1>1 DEF Shape, jobVars
<1>3. \A i \in DOMAIN sh.kids : sh.kids[i] \in Pid
  BY <1>0 DEF Shape, Thread
<1>4. sh' = sh /\ sh.kids \in Seq(Pid) /\ DOMAIN sh.kids = 1 .. Len(sh.kids) /\ sh.k \in Nat \ {0}
  BY <1>0 DEF Shape, Thread
<1>5. \A i \in DOMAIN sh.kids :
        proc[sh.kids[i]].st = "gone" => proc'[sh.kids[i]] = proc[sh.kids[i]]
  BY <1>1, <1>3 DEF Live
<1>6. Waited => Waited'
  <2> SUFFICES ASSUME Waited PROVE Waited'
    OBVIOUS
  <2>1. sh.k <= Len(sh.kids) + 1
    BY DEF Waited
  <2>2. \A i \in 1 .. (sh.k - 1) : i \in DOMAIN sh.kids
    BY <1>4, <2>1
  <2>3. \A i \in 1 .. (sh.k - 1) : proc'[sh.kids[i]] = proc[sh.kids[i]]
    BY <1>5, <2>2 DEF Waited
  <2>4. \A i \in sh.k .. Len(sh.kids) : i \in DOMAIN sh.kids
    BY <1>4
  <2>5. \A i \in sh.k .. Len(sh.kids) : pgid_alive(proc', sh.kids[i])
    BY <1>1, <1>3, <2>4 DEF Waited
  <2>6. sh.k > 1 => sh.k - 1 \in 1 .. (sh.k - 1)
    BY <1>4
  <2>7. \A i \in 1 .. (sh.k - 1) : KidCode(proc', sh', i) = KidCode(proc, sh, i)
    BY <1>4, <2>3 DEF KidCode
  <2>8. \A i \in 1 .. (sh.k - 1) : proc'[sh.kids[i]].st = "gone" /\ KidCode(proc', sh', i) # NoCode
    BY <2>3, <2>7 DEF Waited
  <2>9. sh.k > 1 => sh.code = KidCode(proc', sh', sh.k - 1)
    BY <2>6, <2>7 DEF Waited
  <2>10. \/ sh.fail = NoCode /\ \A i \in 1 .. (sh.k - 1) : KidCode(proc', sh', i) = 0
         \/ \E i \in 1 .. (sh.k - 1) :
              /\ sh.fail = KidCode(proc', sh', i) /\ KidCode(proc', sh', i) # 0
              /\ \A j \in 1 .. (sh.k - 1) : j > i => KidCode(proc', sh', j) = 0
    BY <2>7 DEF Waited
  <2>11. QED
    BY <1>4, <2>1, <2>5, <2>8, <2>9, <2>10 DEF Waited
<1>7. Pipeline'
  BY <1>0, <1>1, <1>3, <1>4, <1>6 DEF Pipeline, Interrupted
<1>8. PipelineStatus'
  BY <1>0 DEF PipelineStatus
<1>9. QED
  BY <1>1, <1>2, <1>7, <1>8 DEF PipelineInv

\* The children themselves, the Ctrl-C thread and the user.
LEMMA OutsideMoves ==
    ASSUME PipelineInv, Environment \/ Monitor
    PROVE  /\ Moves /\ proc' = [p \in Pid |-> proc'[p]]
           /\ UNCHANGED <<jobVars, sh, ret, FOREGROUND_PGID>>
<1>0. Shape /\ Processes
  BY DEF PipelineInv
<1>1. ASSUME UNCHANGED proc PROVE Moves /\ proc' = [p \in Pid |-> proc'[p]]
  BY <1>0, <1>1 DEF Moves, Shape
<1>2. ASSUME NEW p \in Pid, Stops(p)
      PROVE  /\ Moves /\ proc' = [q \in Pid |-> proc'[q]]
             /\ UNCHANGED <<jobVars, sh, ret, FOREGROUND_PGID>>
  <2> DEFINE o == [proc[p] EXCEPT !.st = "stopped", !.evt = "stopped"]
  <2>1. proc' = [proc EXCEPT ![p] = o]
    BY <1>0, <1>2 DEF Stops, Shape, Process
  <2>2. Live(p) /\ proc[p] \in Process /\ proc[p].code = NoCode
    BY <1>0, <1>2 DEF Stops, Live, Shape, Processes
  <2>3. o = [st |-> "stopped", code |-> NoCode, evt |-> "stopped"]
    BY <2>2, StopFacts
  <2>4. o \in Changes
    BY <2>3 DEF Changes
  <2> HIDE DEF o
  <2>5. QED
    BY <1>0, <1>2, <2>1, <2>2, <2>4, OneMoves DEF Stops
<1>3. ASSUME NEW p \in Pid, Continues(p)
      PROVE  /\ Moves /\ proc' = [q \in Pid |-> proc'[q]]
             /\ UNCHANGED <<jobVars, sh, ret, FOREGROUND_PGID>>
  BY <1>0, <1>3, ResumedMoves DEF Continues
<1>4. ASSUME NEW p \in Pid, NEW code \in Code, Exits(p, code)
      PROVE  /\ Moves /\ proc' = [q \in Pid |-> proc'[q]]
             /\ UNCHANGED <<jobVars, sh, ret, FOREGROUND_PGID>>
  <2>1. Live(p) /\ Zombie(code) \in Changes
    BY <1>4, CodeFacts DEF Exits, Live, Changes
  <2>2. QED
    BY <1>0, <1>4, <2>1, OneMoves DEF Exits
<1>5. ASSUME MonitorSignal
      PROVE  /\ Moves /\ proc' = [q \in Pid |-> proc'[q]]
             /\ UNCHANGED <<jobVars, sh, ret, FOREGROUND_PGID>>
  <2>1. CASE FOREGROUND_PGID = NoPgid
    BY <1>1, <1>5, <2>1 DEF MonitorSignal, kernel
  <2>2. CASE FOREGROUND_PGID # NoPgid
    <3>1. FOREGROUND_PGID \in Pid
      BY <1>0, <2>2 DEF Shape
    <3>2. PICK sig \in {SIGINT, SIGTSTP} : \E o \in Outcomes(sig, FOREGROUND_PGID) :
             proc' = [proc EXCEPT ![FOREGROUND_PGID] = o]
      BY <1>5, <2>2 DEF MonitorSignal
    <3>3. QED
      BY <1>0, <1>5, <3>1, <3>2, OutcomeMoves DEF MonitorSignal
  <2>3. QED
    BY <2>1, <2>2
<1>6. CASE MonitorTop \/ MonitorIdle \/ MonitorKeeps \/ ChildReads
           \/ \E b \in {CtrlC, CtrlZ, typed + 1} : Type(b)
  BY <1>1, <1>6 DEF MonitorTop, MonitorIdle, MonitorKeeps, ChildReads, Type, kernel
<1>7. QED
  BY <1>2, <1>3, <1>4, <1>5, <1>6 DEF Environment, Monitor

\* wait %job answers at once or goes on waiting for a live job.
LEMMA WaitJobEnds ==
    ASSUME WaitJob
    PROVE  LET t == updated(proc, table)
           IN  \/ sh' = Idle("prompt") /\ ret'.cmd \in {"wait_job", "nojob"}
               \/ \E k \in resolve_spec(t) :
                    /\ pgid_alive(proc', t[k].pgid) /\ ret' = ret
                    /\ sh' = [Idle("wait_pid") EXCEPT !.of = {t[k].pgid}, !.fresh = {t[k].pgid}]
<1> DEFINE t == updated(proc, table)
<1>1. \/ \E k \in resolve_spec(t) :
            /\ pgid_alive(proc', t[k].pgid) /\ ret' = ret
            /\ sh' = [Idle("wait_pid") EXCEPT !.of = {t[k].pgid}, !.fresh = {t[k].pgid}]
      \/ \E k \in resolve_spec(t) : Answer("wait_job", 127, Codes(proc', {t[k].pgid}))
      \/ Answer("nojob", 127, {127})
  BY Zenon DEF WaitJob
<1> HIDE DEF t
<1>2. ASSUME NEW cmd, NEW codes, Answer(cmd, 127, codes)
      PROVE  sh' = Idle("prompt") /\ ret'.cmd = cmd
  BY <1>2 DEF Answer
<1>3. QED
  BY <1>1, <1>2, Zenon DEF t


\* Looking at processes without a foreground pipeline: everything a builtin or
\* the prompt does to the tables keeps their shape.
LEMMA BuiltinShape ==
    ASSUME PipelineInv, Prompt \/ Builtins
    PROVE  Shape' /\ Processes'
<1>0. Shape /\ Processes
  BY DEF PipelineInv
<1>1. ASSUME UNCHANGED proc PROVE proc' \in [Pid -> Process] /\ Processes'
  BY <1>0, <1>1 DEF Shape, Processes, Live
<1>2. retained(proc, table) \in Seq(Job)
  BY <1>0, RetainedFacts DEF Shape
<1>3. updated(proc, table) \in Seq(Job)
  BY <1>0, UpdatedFacts DEF Shape
<1>4. recorded(proc, statuses) \in [Pid -> AnyCode \cup {NoCode}]
  BY <1>0, RecordedFacts
<1>5. ASSUME proc' = reap_children(proc) PROVE proc' \in [Pid -> Process] /\ Processes'
  BY <1>0, <1>5, ReapFacts
<1>6. CASE Prompt
  <2> DEFINE pr == IF SIGCHLD_PENDING THEN reap_children(proc) ELSE proc
  <2>1. /\ proc' = Forgotten(pr, statuses')
        /\ table' \in Seq(Job) /\ statuses' \in [Pid -> AnyCode \cup {NoCode}]
        /\ sh' = Idle("read") /\ FOREGROUND_PGID' = FOREGROUND_PGID
    BY <1>0, <1>3, <1>4, <1>6 DEF Prompt, jobVars, Shape
  <2>2. /\ pr \in [Pid -> Process]
        /\ \A p \in Pid :
             /\ pr[p].st = "run" => pr[p].evt # "stopped"
             /\ pr[p].st = "stopped" => pr[p].evt # "continued"
             /\ pr[p].st = "zombie" => pr[p].code # NoCode
             /\ pr[p].st \in {"run", "stopped"} => pr[p].code = NoCode
    <3>1. CASE ~SIGCHLD_PENDING
      BY <1>0, <3>1 DEF Shape, Processes, Live
    <3>2. CASE SIGCHLD_PENDING
      <4>1. ASSUME NEW p \in Pid
            PROVE  /\ pr[p] \in Process
                   /\ pr[p].st = "run" => pr[p].evt # "stopped"
                   /\ pr[p].st = "stopped" => pr[p].evt # "continued"
                   /\ pr[p].st # "zombie"
                   /\ pr[p].st \in {"run", "stopped"} => pr[p].code = NoCode
        <5>1. proc[p] \in Process
          BY <1>0 DEF Shape
        <5>2. pr[p] = IF proc[p].st = "zombie" THEN Collected(proc[p].code)
                      ELSE [proc[p] EXCEPT !.evt = "none"]
          BY <3>2 DEF reap_children
        <5>3. Live(p) => proc[p].code = NoCode
          BY <1>0 DEF Processes
        <5>4. QED
          BY <5>1, <5>2, <5>3 DEF Process, Collected, Live
      <4>2. pr = [p \in Pid |-> pr[p]]
        BY <3>2 DEF reap_children
      <4> HIDE DEF pr
      <4>3. QED
        BY <4>1, <4>2
    <3>3. QED
      BY <3>1, <3>2
  <2> HIDE DEF pr
  <2>3. \A p \in Pid : proc'[p] = pr[p] \/ (pr[p].st = "gone" /\ proc'[p] = Collected(NoCode))
    BY <2>1 DEF Forgotten
  <2>4. Collected(NoCode) \in Process /\ Collected(NoCode).st = "gone"
    BY DEF Collected, Process
  <2>5. \A p \in Pid : proc'[p] \in Process
    BY <2>2, <2>3, <2>4
  <2>6. proc' \in [Pid -> Process]
    BY <2>1, <2>5 DEF Forgotten
  <2>7. Processes'
    BY <2>2, <2>3, <2>4 DEF Processes, Live
  <2>8. QED
    BY <1>0, <2>1, <2>6, <2>7, IdleFacts DEF Shape
<1>7. CASE ListJobs \/ NoJob("nojob", 1)
  BY <1>0, <1>1, <1>2, <1>7, IdleFacts DEF ListJobs, NoJob, Answer, Shape, kernel
<1>8. CASE TakeForeground
  <2> DEFINE t == retained(proc, table)
  <2>1. PICK k \in DOMAIN t :
           /\ table' = SubSeq(t, 1, k - 1) \o SubSeq(t, k + 1, Len(t))
           /\ sh' = [Idle("fg") EXCEPT !.of = {t[k].pgid}]
    BY <1>8 DEF TakeForeground, resolve_spec
  <2> HIDE DEF t
  <2>2. t \in Seq(Job)
    BY <1>2 DEF t
  <2>3. table' \in Seq(Job)
    BY <2>1, <2>2
  <2>4. {t[k].pgid} \in SUBSET Pid
    BY <2>2, JobFacts
  <2>5. sh' \in Thread
    BY <2>1, <2>4, IdleFacts DEF Thread
  <2>6. QED
    BY <1>0, <1>1, <1>8, <2>3, <2>5 DEF TakeForeground, kernel, Shape
<1>9. CASE MarkRunning
  <2> DEFINE t == retained(proc, table)
  <2>1. PICK k \in DOMAIN t :
           /\ table' = [t EXCEPT ![k].state = "Running"]
           /\ sh' = [Idle("bg") EXCEPT !.of = {t[k].pgid}]
    BY <1>9 DEF MarkRunning, resolve_spec
  <2> HIDE DEF t
  <2>2. t \in Seq(Job)
    BY <1>2 DEF t
  <2>3. t[k] \in Job /\ [t[k] EXCEPT !.state = "Running"] \in Job
    BY <2>2, JobFacts
  <2>4. table' = [t EXCEPT ![k] = [t[k] EXCEPT !.state = "Running"]] /\ k \in 1 .. Len(t)
    BY <2>1, <2>2
  <2>5. table' \in Seq(Job)
    BY <2>2, <2>3, <2>4, ExceptSeq
  <2>6. sh' \in Thread
    BY <2>1, <2>3, IdleFacts DEF Thread, Job
  <2>7. QED
    BY <1>0, <1>1, <1>9, <2>5, <2>6 DEF MarkRunning, kernel, Shape
<1>10. CASE Resume
  <2>1. PICK p \in sh.of : proc' = [proc EXCEPT ![p] = Resumed(p)]
    BY <1>10 DEF Resume
  <2>2. p \in Pid
    BY <1>0 DEF Shape, Thread
  <2>3. Moves /\ proc' = [q \in Pid |-> proc'[q]]
    BY <1>0, <2>1, <2>2, ResumedMoves
  <2>4. proc' \in [Pid -> Process] /\ Processes'
    BY <1>0, <2>3, MovesFacts
  <2>5. sh' \in Thread
    <3>1. CASE sh.pc = "bg"
      BY <1>10, <3>1, IdleFacts DEF Resume, Answer
    <3>2. CASE sh.pc # "bg"
      <4>1. sh' = [sh EXCEPT !.pc = "fg_wait", !.fresh = Fresh(proc, statuses, sh.of)]
        BY <1>10, <3>2 DEF Resume
      <4>2. Fresh(proc, statuses, sh.of) \in SUBSET Pid
        BY <1>0 DEF Shape, Thread, Fresh
      <4>3. QED
        BY <1>0, <4>1, <4>2 DEF Shape, Thread
    <3>3. QED
      BY <3>1, <3>2
  <2>6. QED
    BY <1>0, <1>10, <2>4, <2>5 DEF Resume, jobVars, Shape
<1>11. ASSUME NEW p \in Pid, WaitFor(p) PROVE Shape' /\ Processes'
  <2>1. sh' \in Thread
    <3>1. sh' = [Idle("wait_pid") EXCEPT !.of = {p}, !.fresh = Fresh(proc', statuses', {p})]
      BY <1>11 DEF WaitFor
    <3>2. Fresh(proc', statuses', {p}) \in SUBSET Pid
      BY DEF Fresh
    <3>3. QED
      BY <3>1, <3>2, IdleFacts DEF Thread
  <2>2. QED
    BY <1>0, <1>3, <1>4, <1>5, <1>11, <2>1 DEF WaitFor, Reap, Shape
<1>12. CASE WaitPidRound
  <2> DEFINE p == CHOOSE q \in sh.of : TRUE
             s == recorded(proc, statuses)
  <2>1. statuses' = take_status(s, p) \/ statuses' = s
    BY <1>12 DEF WaitPidRound
  <2>2. statuses' \in [Pid -> AnyCode \cup {NoCode}]
    BY <1>4, <2>1 DEF take_status
  <2>3. sh' = sh \/ sh' = Idle("prompt")
    BY <1>12 DEF WaitPidRound, Waits, Answer
  <2>4. QED
    BY <1>0, <1>3, <1>5, <1>12, <2>2, <2>3, IdleFacts DEF WaitPidRound, Shape
<1>13. CASE WaitAny
  <2>1. CASE all_pgids(table') = {}
    BY <1>0, <1>3, <1>4, <1>5, <1>13, <2>1, IdleFacts DEF WaitAny, Reap, Answer, Shape
  <2>2. CASE all_pgids(table') # {}
    <3>1. sh' = [Idle("wait_any") EXCEPT !.of = all_pgids(table')]
      BY <1>13, <2>2 DEF WaitAny
    <3>2. table' \in Seq(Job)
      BY <1>3, <1>13 DEF WaitAny, Reap
    <3>3. all_pgids(table') \in SUBSET Pid
      BY <3>2, PgidsFacts
    <3>4. sh' \in Thread
      BY <3>1, <3>3, IdleFacts DEF Thread
    <3>5. QED
      BY <1>0, <1>3, <1>4, <1>5, <1>13, <3>4 DEF WaitAny, Reap, Shape
  <2>3. QED
    BY <2>1, <2>2
<1>14. CASE WaitAnyRound
  <2> DEFINE s == recorded(proc, statuses)
  <2>1. (\E p \in Pid : statuses' = take_status(s, p)) \/ statuses' = s
    BY <1>0, <1>14 DEF WaitAnyRound, Shape, Thread
  <2>2. statuses' \in [Pid -> AnyCode \cup {NoCode}]
    BY <1>4, <2>1 DEF take_status
  <2>3. sh' = sh \/ sh' = Idle("prompt")
    BY <1>14 DEF WaitAnyRound, Answer
  <2>4. QED
    BY <1>0, <1>3, <1>5, <1>14, <2>2, <2>3, IdleFacts DEF WaitAnyRound, Shape
<1>15. CASE WaitAll
  <2> DEFINE ps == {p \in Pgids(table') : pgid_alive(proc', p)}
  <2>1. sh' = [Idle("wait_all") EXCEPT !.of = ps]
    BY <1>15 DEF WaitAll
  <2>2. table' \in Seq(Job)
    BY <1>3, <1>15 DEF WaitAll, Reap
  <2>3. ps \in SUBSET Pid
    BY <2>2, PgidsFacts
  <2>4. sh' \in Thread
    BY <2>1, <2>3, IdleFacts DEF Thread
  <2>5. QED
    BY <1>0, <1>3, <1>4, <1>5, <1>15, <2>4 DEF WaitAll, Reap, Shape
<1>16. CASE WaitAllRound
  <2> DEFINE s == recorded(proc, statuses)
             known == {p \in Pgids(table') : s[p] # NoCode}
  <2>1. table' \in Seq(Job)
    BY <1>3, <1>16, RetainedFacts DEF WaitAllRound
  <2>2. statuses' \in [Pid -> AnyCode \cup {NoCode}]
    BY <1>4, <1>16 DEF WaitAllRound
  <2>3. known \in SUBSET Pid
    BY <2>1, PgidsFacts
  <2>4. sh' \in Thread
    <3>1. CASE sh' = Idle("prompt") \/ sh' = sh
      BY <1>0, <3>1, IdleFacts DEF Shape
    <3>2. CASE known # {} /\ sh' = [sh EXCEPT !.code = s[CHOOSE p \in known : TRUE]]
      <4> DEFINE q == CHOOSE p \in known : TRUE
      <4>1. q \in known
        BY <3>2
      <4>2. s[q] \in AnyCode
        BY <1>4, <2>3, <4>1
      <4> HIDE DEF q
      <4>3. sh' = [sh EXCEPT !.code = s[q]]
        BY <3>2 DEF q
      <4> HIDE DEF s
      <4>4. QED
        BY <1>0, <4>2, <4>3 DEF Shape, Thread
    <3>3. QED
      BY <1>16, <3>1, <3>2 DEF WaitAllRound, Answer
  <2>5. QED
    BY <1>0, <1>5, <1>16, <2>1, <2>2, <2>4 DEF WaitAllRound, Shape
<1>17. CASE KillJob(SIGTERM)
  <2> DEFINE t == retained(proc, table)
  <2>1. PICK k \in DOMAIN t : \E o \in Outcomes(SIGTERM, t[k].pgid) :
           proc' = [proc EXCEPT ![t[k].pgid] = o]
    BY <1>17 DEF KillJob, resolve_spec
  <2>2. t[k].pgid \in Pid
    <3> HIDE DEF t
    <3>1. t \in Seq(Job)
      BY <1>2 DEF t
    <3>2. QED
      BY <3>1, JobFacts
  <2>3. Moves /\ proc' = [q \in Pid |-> proc'[q]]
    BY <1>0, <2>1, <2>2, OutcomeMoves
  <2>4. proc' \in [Pid -> Process] /\ Processes'
    BY <1>0, <2>3, MovesFacts
  <2>5. QED
    BY <1>0, <1>2, <1>17, <2>4, IdleFacts DEF KillJob, Answer, Shape
<1>18. CASE WaitJob
  <2> DEFINE t == updated(proc, table)
  <2>1. table' \in Seq(Job)
    BY <1>3, <1>18, RetainedFacts DEF WaitJob
  <2>2. sh' \in Thread
    <3>1. CASE sh' = Idle("prompt")
      BY <3>1, IdleFacts
    <3>2. ASSUME NEW k \in DOMAIN t,
                 sh' = [Idle("wait_pid") EXCEPT !.of = {t[k].pgid}, !.fresh = {t[k].pgid}]
          PROVE  sh' \in Thread
      <4>1. t[k].pgid \in Pid
        BY <1>3, JobFacts
      <4> HIDE DEF t
      <4>2. QED
        BY <3>2, <4>1, IdleFacts DEF Thread
    <3>3. QED
      BY <1>18, <3>1, <3>2 DEF WaitJob, Answer, resolve_spec
  <2>3. QED
    BY <1>0, <1>4, <1>5, <1>18, <2>1, <2>2 DEF WaitJob, Shape
<1>19. QED
  BY <1>6, <1>7, <1>8, <1>9, <1>10, <1>11, <1>12, <1>13, <1>14, <1>15, <1>16, <1>17, <1>18
     DEF Builtins

LEMMA BuiltinElsewhere ==
    ASSUME PipelineInv, Prompt \/ Builtins
    PROVE  sh'.pc \notin {"spawn", "wait", "join"} /\ (ret' = ret \/ ret'.cmd # "pipeline")
<1>0. sh \in Thread
  BY DEF PipelineInv, Shape
<1>1. ASSUME NEW cmd, NEW code, NEW true, Answer(cmd, code, true)
      PROVE  sh'.pc = "prompt" /\ ret'.cmd = cmd
  BY <1>1 DEF Answer, Idle
<1>2. CASE Prompt
  BY <1>2 DEF Prompt, Idle, NoRet
<1>3. CASE ListJobs \/ NoJob("nojob", 1) \/ KillJob(SIGTERM)
  BY <1>1, <1>3 DEF ListJobs, NoJob, KillJob
<1>4. CASE TakeForeground \/ MarkRunning \/ WaitAll \/ \E p \in Pid : WaitFor(p)
  BY <1>4 DEF TakeForeground, MarkRunning, WaitAll, WaitFor, Idle
<1>5. CASE Resume
  BY <1>0, <1>1, <1>5 DEF Resume, Thread
<1>6. CASE WaitAny
  BY <1>1, <1>6 DEF WaitAny, Idle
<1>7. CASE WaitPidRound
  BY <1>1, <1>7 DEF WaitPidRound, Waits
<1>8. CASE WaitAnyRound
  BY <1>1, <1>8 DEF WaitAnyRound
<1>9. CASE WaitAllRound
  BY <1>0, <1>1, <1>9 DEF WaitAllRound, Thread
<1>10. CASE WaitJob
  <2>1. CASE sh' = Idle("prompt") /\ ret'.cmd \in {"wait_job", "nojob"}
    BY <1>1, <2>1 DEF Idle
  <2>2. ASSUME NEW q, ret' = ret, sh' = [Idle("wait_pid") EXCEPT !.of = {q}, !.fresh = {q}]
        PROVE  ret' = ret /\ sh'.pc = "wait_pid"
    BY <2>2 DEF Idle
  <2>3. QED
    BY <1>1, <1>10, <2>1, <2>2, WaitJobEnds
<1>11. QED
  BY <1>2, <1>3, <1>4, <1>5, <1>6, <1>7, <1>8, <1>9, <1>10 DEF Builtins

LEMMA SpawnSteps ==
    ASSUME PipelineInv,
           \/ \E bg \in BOOLEAN : StartPipeline(bg)
           \/ \E p \in Pid : Spawn(p)
           \/ SpawnFails \/ RedirectFails \/ Background
           \/ \E watch \in BOOLEAN : Foreground(watch)
    PROVE  PipelineInv'
<1>0. Shape /\ Processes /\ Pipeline /\ PipelineStatus /\ sh \in Thread
  BY DEF PipelineInv, Shape
<1>a. sh.kids \in Seq(Pid) /\ DOMAIN sh.kids = 1 .. Len(sh.kids)
  BY <1>0 DEF Thread
<1>1. ASSUME UNCHANGED proc PROVE proc' \in [Pid -> Process] /\ Processes'
  BY <1>0, <1>1 DEF Shape, Processes, Live
<1>2. ASSUME NEW bg \in BOOLEAN, StartPipeline(bg) PROVE PipelineInv'
  <2>1. sh' = [Idle("spawn") EXCEPT !.bg = bg] /\ ret' = ret
    BY <1>2 DEF StartPipeline
  <2>2. sh' \in Thread
    BY <2>1, IdleFacts DEF Thread
  <2>3. Shape' /\ Processes'
    BY <1>0, <1>1, <1>2, <2>2 DEF StartPipeline, Shape, kernel, jobVars
  <2>4. sh'.kids = <<>> /\ sh'.pc = "spawn" /\ sh'.k = 1 /\ sh'.fail = NoCode
    BY <2>1 DEF Idle
  <2>5. Pipeline'
    BY <2>4 DEF Pipeline
  <2>6. QED
    BY <1>0, <2>1, <2>3, <2>5 DEF PipelineInv, PipelineStatus
<1>3. ASSUME NEW p \in Pid, Spawn(p) PROVE PipelineInv'
  <2>1. /\ sh' = [sh EXCEPT !.kids = Append(sh.kids, p)] /\ ret' = ret /\ sh.pc = "spawn"
        /\ proc' = [proc EXCEPT ![p] = NewProc]
    BY <1>3 DEF Spawn
  <2>2. ~pgid_alive(proc, p)
    BY <1>3 DEF Spawn, FreePids, pgid_alive
  <2>3. NewProc \in Process
    BY DEF NewProc, Process
  <2>4. proc' \in [Pid -> Process] /\ proc'[p] = NewProc /\ \A q \in Pid \ {p} : proc'[q] = proc[q]
    BY <1>0, <2>1, <2>3 DEF Shape
  <2>5. Processes'
    BY <1>0, <2>4 DEF Processes, Live, NewProc
  <2>6. Append(sh.kids, p) \in Seq(Pid)
    BY <1>a
  <2>7. sh' \in Thread /\ sh'.pc = "spawn" /\ sh'.k = sh.k /\ sh'.fail = sh.fail
        /\ sh'.kids = Append(sh.kids, p)
    BY <1>0, <2>1, <2>6 DEF Thread
  <2>8. Shape'
    BY <1>0, <1>3, <2>4, <2>7 DEF Spawn, Shape, jobVars
  <2>9. /\ DOMAIN Append(sh.kids, p) = 1 .. (Len(sh.kids) + 1)
        /\ \A i \in 1 .. Len(sh.kids) : Append(sh.kids, p)[i] = sh.kids[i]
        /\ Append(sh.kids, p)[Len(sh.kids) + 1] = p
    BY <1>a
  <2>10. \A i \in 1 .. Len(sh.kids) :
           sh.kids[i] \in Pid /\ pgid_alive(proc, sh.kids[i]) /\ sh.kids[i] # p
    BY <1>0, <1>a, <2>1, <2>2 DEF Pipeline
  <2>11. \A i \in 1 .. (Len(sh.kids) + 1) : i \in 1 .. Len(sh.kids) \/ i = Len(sh.kids) + 1
    BY <1>a
  <2>12. \A i \in DOMAIN sh'.kids : pgid_alive(proc', sh'.kids[i])
    <3>1. pgid_alive(proc', p)
      BY <2>4 DEF pgid_alive, NewProc
    <3>2. \A i \in 1 .. Len(sh.kids) : pgid_alive(proc', sh.kids[i])
      BY <2>4, <2>10 DEF pgid_alive
    <3>3. QED
      BY <2>7, <2>9, <2>11, <3>1, <3>2
  <2>13. \A i, j \in DOMAIN sh'.kids : i # j => sh'.kids[i] # sh'.kids[j]
    <3>1. \A i, j \in 1 .. Len(sh.kids) : i # j => sh.kids[i] # sh.kids[j]
      BY <1>0, <1>a, <2>1 DEF Pipeline
    <3>2. QED
      BY <2>7, <2>9, <2>10, <2>11, <3>1
  <2>14. Pipeline'
    BY <1>0, <2>1, <2>7, <2>12, <2>13 DEF Pipeline
  <2>15. QED
    BY <1>0, <2>1, <2>5, <2>8, <2>14 DEF PipelineInv, PipelineStatus
<1>4. CASE SpawnFails
  <2>1. sh' = Idle("prompt") /\ ret'.cmd = "failed"
    BY <1>4 DEF SpawnFails, Answer
  <2> DEFINE c(p) == IF Live(p) THEN Signalled(SIGKILL) ELSE proc[p].code
  <2>2. \A p \in Pid : c(p) \in AnyCode \cup {NoCode}
    BY <1>0, CodeFacts DEF Shape, Process
  <2>3. \A p \in Pid : proc'[p] = Collected(c(p)) \/ proc'[p] = proc[p]
    BY <1>4 DEF SpawnFails
  <2> HIDE DEF c
  <2>4. \A p \in Pid : Collected(c(p)) \in Process /\ Collected(c(p)).st = "gone"
    BY <2>2 DEF Collected, Process
  <2>5. \A p \in Pid : proc'[p] \in Process
    BY <1>0, <2>3, <2>4 DEF Shape
  <2>6. proc' \in [Pid -> Process]
    BY <1>4, <2>5 DEF SpawnFails
  <2>7. Processes'
    BY <1>0, <2>3, <2>4 DEF Processes, Live
  <2>8. Shape'
    BY <1>0, <1>4, <2>1, <2>6, IdleFacts DEF SpawnFails, Shape, jobVars
  <2>9. QED
    BY <2>1, <2>7, <2>8, Elsewhere DEF Idle
<1>5. CASE RedirectFails
  <2>1. sh' = Idle("prompt") /\ ret'.cmd = "failed"
    BY <1>5 DEF RedirectFails, Answer
  <2>2. Shape' /\ Processes'
    BY <1>0, <1>1, <1>5, <2>1, IdleFacts DEF RedirectFails, Shape, jobVars, kernel
  <2>3. QED
    BY <2>1, <2>2, Elsewhere DEF Idle
<1>6. CASE Background
  <2>1. sh' = Idle("prompt") /\ ret'.cmd = "background"
    BY <1>6 DEF Background, Answer
  <2>2. Head(sh.kids) \in Pid
    BY <1>6, <1>a DEF Background
  <2>3. table' \in Seq(Job)
    BY <1>0, <1>6, <2>2, AddJobFacts DEF Background, Shape
  <2>4. Shape' /\ Processes'
    BY <1>0, <1>1, <1>6, <2>1, <2>3, IdleFacts DEF Background, Shape, kernel
  <2>5. QED
    BY <2>1, <2>4, Elsewhere DEF Idle
<1>7. ASSUME NEW watch \in BOOLEAN, Foreground(watch) PROVE PipelineInv'
  <2>1. /\ sh.pc = "spawn" /\ sh.kids # <<>> /\ sh' = [sh EXCEPT !.pc = "wait"] /\ ret' = ret
        /\ FOREGROUND_PGID' = Head(sh.kids) /\ proc' = proc
    BY <1>7 DEF Foreground, kernel
  <2>2. Head(sh.kids) \in Pid
    BY <1>a, <2>1
  <2>3. /\ sh' \in Thread /\ sh'.pc = "wait" /\ sh'.kids = sh.kids /\ sh'.k = sh.k
        /\ sh'.code = sh.code /\ sh'.fail = sh.fail
    BY <1>0, <2>1 DEF Thread
  <2>4. Shape' /\ Processes'
    BY <1>0, <1>1, <1>7, <2>1, <2>2, <2>3 DEF Foreground, Shape, jobVars
  <2>5. Waited'
    BY <1>0, <1>a, <2>1, <2>3 DEF Pipeline, Waited, KidCode
  <2>6. Pipeline'
    BY <1>0, <2>1, <2>3, <2>5 DEF Pipeline
  <2>7. QED
    BY <1>0, <2>1, <2>4, <2>6 DEF PipelineInv, PipelineStatus
<1>8. QED
  BY <1>2, <1>3, <1>4, <1>5, <1>6, <1>7

\* waitpid on the next child, which nobody else has collected.
LEMMA WaitChildStep ==
    ASSUME PipelineInv, WaitChild
    PROVE  PipelineInv'
<1>0. Shape /\ Processes /\ Pipeline /\ PipelineStatus /\ sh \in Thread
  BY DEF PipelineInv, Shape
<1>a. sh.kids \in Seq(Pid) /\ DOMAIN sh.kids = 1 .. Len(sh.kids) /\ sh.k \in Nat \ {0}
  BY <1>0 DEF Thread
<1> DEFINE p == sh.kids[sh.k]
           code == IF proc[p].st = "zombie" THEN proc[p].code ELSE 1
<1>1. /\ sh.pc = "wait" /\ sh.k \in DOMAIN sh.kids /\ ~Live(p) /\ ret' = ret
      /\ sh' = [sh EXCEPT !.k = sh.k + 1, !.code = code,
                          !.fail = IF code # 0 THEN code ELSE sh.fail]
      /\ proc' = [proc EXCEPT ![p] = Collected(proc[p].code)]
  BY DEF WaitChild
<1>2. Waited /\ sh.kids # <<>>
  BY <1>0, <1>1 DEF Pipeline
<1>3. p \in Pid /\ sh.k <= Len(sh.kids)
  BY <1>1, <1>a
<1>4. proc[p].st = "zombie" /\ code = proc[p].code /\ code \in AnyCode
  <2>1. pgid_alive(proc, p)
    BY <1>1, <1>2, <1>a DEF Waited
  <2>2. proc[p].st = "zombie"
    BY <1>1, <2>1 DEF pgid_alive, Live
  <2>3. QED
    BY <1>0, <1>3, <2>2 DEF Processes, Shape, Process
<1>5. \A i \in DOMAIN sh.kids : i # sh.k => sh.kids[i] # p /\ sh.kids[i] \in Pid
  BY <1>0, <1>1, <1>a DEF Pipeline
<1> HIDE DEF p, code
<1>6. Collected(code) \in Process /\ Collected(code).st = "gone" /\ Collected(code).code = code
  BY <1>4 DEF Collected, Process
<1>7. /\ proc' \in [Pid -> Process] /\ proc'[p] = Collected(code)
      /\ \A q \in Pid \ {p} : proc'[q] = proc[q]
  BY <1>0, <1>1, <1>3, <1>4, <1>6 DEF Shape
<1>8. Processes'
  BY <1>0, <1>6, <1>7 DEF Processes, Live
<1>9. /\ sh' \in Thread /\ sh'.pc = "wait" /\ sh'.kids = sh.kids /\ sh'.k = sh.k + 1
      /\ sh'.code = code /\ sh'.fail = IF code # 0 THEN code ELSE sh.fail
  <2> DEFINE fail == IF code # 0 THEN code ELSE sh.fail
  <2>1. fail \in AnyCode \cup {NoCode} /\ sh.k + 1 \in Nat \ {0}
    BY <1>0, <1>4, <1>a DEF Thread
  <2>2. sh' = [sh EXCEPT !.k = sh.k + 1, !.code = code, !.fail = fail]
    BY <1>1
  <2> HIDE DEF fail
  <2>3. /\ sh' \in Thread /\ sh'.pc = "wait" /\ sh'.kids = sh.kids /\ sh'.k = sh.k + 1
        /\ sh'.code = code /\ sh'.fail = fail
    BY <1>0, <1>1, <1>4, <2>1, <2>2 DEF Thread
  <2>4. QED
    BY <2>3 DEF fail
<1>10. Shape'
  BY <1>0, <1>7, <1>9 DEF WaitChild, Shape, jobVars
<1>11. \A i \in DOMAIN sh.kids : i # sh.k => proc'[sh.kids[i]] = proc[sh.kids[i]]
  BY <1>5, <1>7
<1>12. /\ KidCode(proc', sh', sh.k) = code /\ proc'[sh'.kids[sh.k]].st = "gone"
       /\ \A i \in 1 .. (sh.k - 1) :
            KidCode(proc', sh', i) = KidCode(proc, sh, i) /\ proc'[sh'.kids[i]] = proc[sh.kids[i]]
  <2>1. \A i \in 1 .. (sh.k - 1) : i \in DOMAIN sh.kids /\ i # sh.k
    BY <1>3, <1>a
  <2>2. QED
    BY <1>6, <1>7, <1>9, <1>11, <2>1 DEF KidCode, p
<1>13. Waited'
  <2>1. sh'.k <= Len(sh'.kids) + 1
    BY <1>3, <1>9, <1>a
  <2>2. \A i \in sh'.k .. Len(sh'.kids) : pgid_alive(proc', sh'.kids[i])
    <3>1. \A i \in (sh.k + 1) .. Len(sh.kids) :
             i \in sh.k .. Len(sh.kids) /\ i \in DOMAIN sh.kids /\ i # sh.k
      BY <1>a
    <3>2. QED
      BY <1>2, <1>9, <1>11, <3>1 DEF Waited, pgid_alive
  <2>3. \A i \in 1 .. (sh'.k - 1) : i \in 1 .. (sh.k - 1) \/ i = sh.k
    BY <1>9, <1>a
  <2>4. \A i \in 1 .. (sh'.k - 1) : proc'[sh'.kids[i]].st = "gone" /\ KidCode(proc', sh', i) # NoCode
    BY <1>2, <1>4, <1>12, <2>3, CodeFacts DEF Waited
  <2>5. sh'.k > 1 => sh'.code = KidCode(proc', sh', sh'.k - 1)
    <3>1. sh'.k - 1 = sh.k
      BY <1>9, <1>a
    <3>2. sh'.code = KidCode(proc', sh', sh.k)
      BY <1>9, <1>12
    <3>3. QED
      BY <3>1, <3>2 DEF KidCode
  <2>6. \/ sh'.fail = NoCode /\ \A i \in 1 .. (sh'.k - 1) : KidCode(proc', sh', i) = 0
        \/ \E i \in 1 .. (sh'.k - 1) :
             /\ sh'.fail = KidCode(proc', sh', i) /\ KidCode(proc', sh', i) # 0
             /\ \A j \in 1 .. (sh'.k - 1) : j > i => KidCode(proc', sh', j) = 0
    <3>0. sh.k \in 1 .. (sh'.k - 1) /\ \A j \in 1 .. (sh'.k - 1) : ~(j > sh.k)
      BY <1>9, <1>a
    <3>1. CASE code # 0
      BY <1>9, <1>12, <3>0, <3>1
    <3>2. CASE code = 0 /\ sh.fail = NoCode /\ \A i \in 1 .. (sh.k - 1) : KidCode(proc, sh, i) = 0
      BY <1>9, <1>12, <2>3, <3>2
    <3>3. ASSUME code = 0, NEW i \in 1 .. (sh.k - 1),
                 sh.fail = KidCode(proc, sh, i), KidCode(proc, sh, i) # 0,
                 \A j \in 1 .. (sh.k - 1) : j > i => KidCode(proc, sh, j) = 0
          PROVE  /\ i \in 1 .. (sh'.k - 1)
                 /\ sh'.fail = KidCode(proc', sh', i) /\ KidCode(proc', sh', i) # 0
                 /\ \A j \in 1 .. (sh'.k - 1) : j > i => KidCode(proc', sh', j) = 0
      <4>1. i \in 1 .. (sh'.k - 1)
        BY <1>9, <1>a
      <4>2. sh'.fail = KidCode(proc', sh', i) /\ KidCode(proc', sh', i) # 0
        BY <1>9, <1>12, <3>3
      <4>3. \A j \in 1 .. (sh'.k - 1) : j > i => KidCode(proc', sh', j) = 0
        BY <1>12, <2>3, <3>3
      <4>4. QED
        BY <4>1, <4>2, <4>3
    <3>4. QED
      BY <1>2, <3>1, <3>2, <3>3 DEF Waited
  <2>7. QED
    BY <2>1, <2>2, <2>4, <2>5, <2>6 DEF Waited
<1>14. Pipeline'
  BY <1>0, <1>1, <1>2, <1>9, <1>13 DEF Pipeline
<1>15. QED
  BY <1>0, <1>1, <1>8, <1>10, <1>14 DEF PipelineInv, PipelineStatus

LEMMA StoppedStep ==
    ASSUME PipelineInv, ChildStopped
    PROVE  PipelineInv'
<1>0. Shape /\ Processes /\ Pipeline /\ PipelineStatus /\ sh \in Thread
  BY DEF PipelineInv, Shape
<1>a. sh.kids \in Seq(Pid) /\ DOMAIN sh.kids = 1 .. Len(sh.kids) /\ sh.k \in Nat \ {0}
  BY <1>0 DEF Thread
<1> DEFINE p == sh.kids[sh.k]
<1>1. /\ sh.pc = "wait" /\ sh.k \in DOMAIN sh.kids /\ ret' = ret
      /\ proc[p].st = "stopped" /\ proc' = [proc EXCEPT ![p].evt = "none"]
      /\ table' = add_job(proc', table, p, "Stopped")
      /\ sh' = [sh EXCEPT !.pc = "join", !.code = Signalled(SIGTSTP), !.fail = Signalled(SIGTSTP)]
  BY DEF ChildStopped
<1>2. p \in Pid /\ sh.k <= Len(sh.kids)
  BY <1>1, <1>a
<1> HIDE DEF p
<1>3. /\ [proc[p] EXCEPT !.evt = "none"] \in Process
      /\ [proc[p] EXCEPT !.evt = "none"].st = proc[p].st
      /\ [proc[p] EXCEPT !.evt = "none"].code = proc[p].code
      /\ [proc[p] EXCEPT !.evt = "none"].evt = "none"
  BY <1>0, <1>2 DEF Shape, Process
<1>4. /\ proc' \in [Pid -> Process] /\ \A q \in Pid \ {p} : proc'[q] = proc[q]
      /\ proc'[p].st = proc[p].st /\ proc'[p].code = proc[p].code /\ proc'[p].evt = "none"
  BY <1>0, <1>1, <1>2, <1>3 DEF Shape
<1>5. Processes'
  BY <1>0, <1>4 DEF Processes, Live
<1>6. table' \in Seq(Job)
  BY <1>0, <1>1, <1>2, AddJobFacts DEF Shape
<1>7. /\ sh' \in Thread /\ sh'.pc = "join" /\ sh'.kids = sh.kids /\ sh'.k = sh.k
      /\ sh'.code = Signalled(SIGTSTP) /\ sh'.fail = Signalled(SIGTSTP)
  BY <1>0, <1>1, CodeFacts DEF Thread
<1>8. Shape'
  BY <1>0, <1>4, <1>6, <1>7 DEF ChildStopped, Shape
<1>9. Pipeline'
  BY <1>0, <1>1, <1>2, <1>7 DEF Pipeline, Interrupted
<1>10. QED
  BY <1>0, <1>1, <1>5, <1>8, <1>9 DEF PipelineInv, PipelineStatus

LEMMA AllWaitedStep ==
    ASSUME PipelineInv, AllWaited
    PROVE  PipelineInv'
<1>0. Shape /\ Processes /\ Pipeline /\ PipelineStatus /\ sh \in Thread
  BY DEF PipelineInv, Shape
<1>a. sh.kids \in Seq(Pid) /\ sh.k \in Nat \ {0}
  BY <1>0 DEF Thread
<1>1. sh.pc = "wait" /\ sh.k > Len(sh.kids) /\ sh' = [sh EXCEPT !.pc = "join"] /\ ret' = ret /\ proc' = proc
  BY DEF AllWaited, kernel
<1>2. /\ sh' \in Thread /\ sh'.pc = "join" /\ sh'.kids = sh.kids /\ sh'.k = sh.k
      /\ sh'.code = sh.code /\ sh'.fail = sh.fail
  BY <1>0, <1>1 DEF Thread
<1>3. Shape' /\ Processes'
  BY <1>0, <1>1, <1>2 DEF AllWaited, Shape, jobVars, Processes, Live
<1>4. Waited /\ sh.k = Len(sh.kids) + 1
  BY <1>0, <1>1, <1>a DEF Pipeline, Waited
<1>5. Waited'
  BY <1>1, <1>2, <1>4 DEF Waited, KidCode
<1>6. Pipeline'
  BY <1>0, <1>1, <1>2, <1>4, <1>5 DEF Pipeline
<1>7. QED
  BY <1>0, <1>1, <1>3, <1>6 DEF PipelineInv, PipelineStatus

\* The code the shell kept while it waited is the one the processes ended with.
LEMMA CodeKept ==
    ASSUME PipelineInv, sh.pc = "join"
    PROVE  PipelineCode = IF Pipefail /\ sh.fail # NoCode THEN sh.fail ELSE sh.code
<1>0. Shape /\ Pipeline /\ sh \in Thread
  BY DEF PipelineInv, Shape
<1>a. sh.kids \in Seq(Pid) /\ DOMAIN sh.kids = 1 .. Len(sh.kids) /\ sh.k \in Nat \ {0}
      /\ Len(sh.kids) \in Nat
  BY <1>0 DEF Thread
<1>b. sh.kids # <<>> /\ (Interrupted \/ (Waited /\ sh.k = Len(sh.kids) + 1))
  BY <1>0 DEF Pipeline
<1>1. CASE Interrupted
  BY <1>1 DEF Interrupted, PipelineCode
<1>2. CASE Waited /\ sh.k = Len(sh.kids) + 1
  <2> DEFINE codes == [k \in DOMAIN sh.kids |-> proc[sh.kids[k]].code]
             bad == {k \in DOMAIN codes : codes[k] # 0}
             n == Len(sh.kids)
  <2>1. ~(sh.k <= n) /\ n > 0 /\ sh.k - 1 = n /\ sh.k > 1
    BY <1>2, <1>a, <1>b
  <2>2. PipelineCode = IF Pipefail /\ bad # {} THEN codes[Max(bad)] ELSE Last(codes)
    BY <2>1 DEF PipelineCode
  <2>3. \A i \in 1 .. n : codes[i] = KidCode(proc, sh, i)
    BY <1>a DEF KidCode
  <2>4. codes \in [1 .. n -> AnyCode \cup {NoCode}]
    BY <1>0, <1>a DEF Shape, Process
  <2>5. Len(codes) = n
    BY <2>4, <1>a
  <2>6. Last(codes) = sh.code
    <3>1. sh.code = KidCode(proc, sh, n) /\ n \in 1 .. n
      BY <1>2, <2>1, <1>a DEF Waited
    <3>2. codes[n] = sh.code
      BY <2>3, <3>1
    <3> HIDE DEF codes
    <3>3. QED
      BY <2>5, <3>2 DEF Last
  <2>7. CASE sh.fail = NoCode /\ \A i \in 1 .. n : KidCode(proc, sh, i) = 0
    <3>1. bad = {}
      BY <2>3, <2>4, <2>7
    <3>2. QED
      BY <2>2, <2>6, <2>7, <3>1
  <2>8. ASSUME NEW i \in 1 .. n, sh.fail = KidCode(proc, sh, i), KidCode(proc, sh, i) # 0,
               \A j \in 1 .. n : j > i => KidCode(proc, sh, j) = 0
        PROVE  bad # {} /\ codes[Max(bad)] = sh.fail /\ sh.fail # NoCode
    <3>1. i \in bad /\ bad \in SUBSET Nat /\ \A k \in bad : i >= k
      <4>1. DOMAIN codes = 1 .. n /\ i \in Nat /\ i \in DOMAIN codes
        BY <1>a
      <4>2. i \in bad /\ bad \in SUBSET Nat
        <5>1. codes[i] # 0
          BY <2>3, <2>8
        <5>2. bad \subseteq 1 .. n
          BY <4>1
        <5> HIDE DEF codes
        <5>3. QED
          BY <4>1, <5>1, <5>2, <1>a
      <4>3. ASSUME NEW k \in bad PROVE i >= k
        <5>1. k \in 1 .. n /\ KidCode(proc, sh, k) # 0
          BY <1>a, <2>3
        <5>2. ~(k > i)
          BY <2>8, <5>1
        <5>3. QED
          BY <5>1, <5>2, <4>1
      <4>4. QED
        BY <4>2, <4>3
    <3>2. Max(bad) = i
      <4> HIDE DEF bad
      <4>1. QED
        BY <3>1, MaxFacts
    <3>3. KidCode(proc, sh, i) # NoCode
      BY <1>2, <2>1, <2>8 DEF Waited
    <3>4. QED
      BY <2>3, <2>8, <3>1, <3>2, <3>3
  <2>9. QED
    <3>1. \/ sh.fail = NoCode /\ \A i \in 1 .. n : KidCode(proc, sh, i) = 0
          \/ \E i \in 1 .. n :
               /\ sh.fail = KidCode(proc, sh, i) /\ KidCode(proc, sh, i) # 0
               /\ \A j \in 1 .. n : j > i => KidCode(proc, sh, j) = 0
      BY <1>2, <2>1 DEF Waited
    <3>2. QED
      BY <2>2, <2>6, <2>7, <2>8, <3>1
<1>3. QED
  BY <1>1, <1>2, <1>b

LEMMA JoinedStep ==
    ASSUME PipelineInv, Joined
    PROVE  PipelineInv'
<1>0. Shape /\ Processes /\ Pipeline /\ sh.pc = "join"
  BY DEF PipelineInv, Joined
<1>1. /\ proc' = reap_children(proc) /\ table' = updated(proc, table)
      /\ statuses' = recorded(proc, statuses) /\ FOREGROUND_PGID' = NoPgid
      /\ sh' = Idle("prompt")
      /\ ret' = [cmd |-> "pipeline",
                 code |-> IF Pipefail /\ sh.fail # NoCode THEN sh.fail ELSE sh.code,
                 true |-> {PipelineCode}]
  BY DEF Joined, Reap, Answer
<1>2. Shape' /\ Processes'
  BY <1>0, <1>1, ReapFacts, UpdatedFacts, RecordedFacts, IdleFacts DEF Shape
<1>3. Pipeline'
  BY <1>1 DEF Pipeline, Idle
<1>4. PipelineStatus'
  BY <1>0, <1>1, CodeKept DEF PipelineStatus
<1>5. QED
  BY <1>2, <1>3, <1>4 DEF PipelineInv

\* Reading keys touches neither processes nor jobs.
LEMMA KeyFrame ==
    ASSUME NextByte \/ HereDoc \/ KeyByte
    PROVE  /\ UNCHANGED <<proc, table, statuses, ret, FOREGROUND_PGID>>
           /\ sh' \in {Idle("prompt"), Idle("key"), Idle("read")}
           /\ sh.pc \in {"read", "key"}
BY DEF NextByte, HereDoc, KeyByte, kernel, jobVars

LEMMA PipelineStep == PipelineInv /\ [Next]_vars => PipelineInv'
<1> SUFFICES ASSUME PipelineInv, [Next]_vars PROVE PipelineInv'
  OBVIOUS
<1>0. Shape /\ Processes
  BY DEF PipelineInv
<1>1. ASSUME UNCHANGED <<proc, jobVars, sh, ret, FOREGROUND_PGID>> PROVE PipelineInv'
  <2>1. Moves /\ proc' = [p \in Pid |-> proc'[p]]
    BY <1>0, <1>1 DEF Moves, Shape
  <2>2. QED
    BY <1>1, <2>1, Meanwhile
<1>2. CASE UNCHANGED vars
  BY <1>1, <1>2 DEF vars, jobVars
<1>7. CASE NextByte \/ HereDoc \/ KeyByte
  <2>1. Shape' /\ Processes'
    BY <1>0, <1>7, KeyFrame, IdleFacts DEF Shape, Processes, Live
  <2>2. QED
    BY <1>7, <2>1, KeyFrame, Elsewhere DEF Idle
<1>3. CASE Prompt \/ Builtins
  BY <1>3, BuiltinShape, BuiltinElsewhere, Elsewhere
<1>4. CASE Environment \/ Monitor
  BY <1>4, OutsideMoves, Meanwhile
<1>5. CASE Pipelines
  BY <1>5, SpawnSteps, WaitChildStep, StoppedStep, AllWaitedStep, JoinedStep DEF Pipelines
<1>6. QED
  BY <1>2, <1>3, <1>4, <1>5, <1>7 DEF Next

\* A foreground pipeline answers with the code its commands really ended with,
\* whatever the children, the Ctrl-C thread and the SIGCHLD handler do meanwhile
\* and however the kernel numbers processes.
THEOREM PipelineAnswersTruly == Spec => []PipelineStatus
<1>1. Spec => []PipelineInv
  BY PipelineInit, PipelineStep, PTL DEF Spec
<1>2. PipelineInv => PipelineStatus
  BY DEF PipelineInv
<1>3. QED
  BY <1>1, <1>2, PTL

(***************************************************************************)
(* The job table and the recorded codes                                    *)
(***************************************************************************)

LEMMA TableInit == Init => TableInv
<1> SUFFICES ASSUME Init PROVE TableInv
  OBVIOUS
<1>1. Entries /\ Recorded /\ WaitStatus
  BY DEF Init, Entries, Recorded, TrueCodes, WaitStatus, Idle, NoRet
<1>2. QED
  BY <1>1, PipelineInit DEF TableInv

\* An entry that is right stays so while the process changes unobserved ...
LEMMA ShowsMoves ==
    ASSUME Shape, Processes, Moves, NEW j \in Job, Shows(proc, sh, j)
    PROVE  Shows(proc', sh, j)
<1>1. j.pgid \in Pid
  BY DEF Job
<1>2. CASE proc'[j.pgid] = proc[j.pgid]
  BY <1>2 DEF Shows
<1>3. CASE proc'[j.pgid] \in Changes
  <2>1. \A r \in Changes : r.st # "none" /\ (r.st = "zombie" \/ r.evt # "none")
    BY DEF Changes, Zombie
  <2>2. QED
    BY <1>3, <2>1 DEF Shows
<1>4. QED
  BY <1>1, <1>2, <1>3 DEF Moves

\* ... and is brought up to date when the change is reported.
LEMMA ShowsReaped ==
    ASSUME Shape, Processes, sh.pc # "bg",
           NEW k \in DOMAIN table, Shows(proc, sh, table[k]), NEW s
    PROVE  Shows(reap_children(proc), s, updated(proc, table)[k])
<1>1. Shows(proc, sh, table[k]) /\ table \in Seq(Job) /\ proc \in [Pid -> Process]
  BY DEF Shape
<1>2. table[k].pgid \in Pid /\ table[k].state \in {"Running", "Stopped"}
  BY <1>1, JobFacts
<1> DEFINE q == table[k].pgid
           j == updated(proc, table)[k]
<1>3. /\ j.pgid = q
      /\ proc[q].evt = "stopped" => j.state = "Stopped"
      /\ proc[q].evt = "continued" => j.state = "Running"
      /\ proc[q].evt \notin {"stopped", "continued"} => j = table[k]
  BY <1>1, UpdatedFacts
<1>4. proc[q] \in Process
  BY <1>1, <1>2
<1>5. reap_children(proc)[q] = IF proc[q].st = "zombie" THEN Collected(proc[q].code)
                               ELSE [proc[q] EXCEPT !.evt = "none"]
  BY <1>2 DEF reap_children
<1>6. /\ proc[q].st = "run" => proc[q].evt # "stopped"
      /\ proc[q].st = "stopped" => proc[q].evt # "continued"
  BY <1>2 DEF Processes
<1>7. /\ proc[q].st # "none"
      /\ proc[q].evt = "none" /\ proc[q].st \in {"run", "stopped"} =>
           (table[k].state = "Stopped") = (proc[q].st = "stopped")
  BY <1>1 DEF Shows
<1> HIDE DEF q, j
<1>8. /\ reap_children(proc)[q].st = IF proc[q].st = "zombie" THEN "gone" ELSE proc[q].st
      /\ proc[q].evt \in {"none", "stopped", "continued"}
  BY <1>4, <1>5 DEF Process, Collected
<1>9. proc[q].st \in {"run", "stopped"} => (j.state = "Stopped") = (proc[q].st = "stopped")
  BY <1>3, <1>6, <1>7, <1>8
<1>10. Shows(reap_children(proc), s, j)
  BY <1>3, <1>7, <1>8, <1>9 DEF Shows
<1>11. QED
  BY <1>10 DEF j

LEMMA CodesMove ==
    ASSUME Moves, TrueCodes(proc, statuses)
    PROVE  TrueCodes(proc', statuses)
<1> SUFFICES ASSUME NEW p \in Pid, statuses[p] # NoCode PROVE proc'[p] = Collected(statuses[p])
  BY DEF TrueCodes
<1>1. proc[p] = Collected(statuses[p])
  BY DEF TrueCodes
<1>2. ~Live(p)
  BY <1>1 DEF Collected, Live
<1>3. QED
  BY <1>1, <1>2 DEF Moves

LEMMA CodesReaped ==
    ASSUME Shape, TrueCodes(proc, statuses)
    PROVE  TrueCodes(reap_children(proc), recorded(proc, statuses))
<1> SUFFICES ASSUME NEW p \in Pid, recorded(proc, statuses)[p] # NoCode
             PROVE  reap_children(proc)[p] = Collected(recorded(proc, statuses)[p])
  BY DEF TrueCodes
<1>1. CASE proc[p].st = "zombie"
  BY <1>1, RecordedFacts DEF reap_children
<1>2. CASE proc[p].st # "zombie"
  <2>1. recorded(proc, statuses)[p] = statuses[p]
    BY <1>2, RecordedFacts
  <2>2. proc[p] = Collected(statuses[p])
    BY <2>1 DEF TrueCodes
  <2>3. reap_children(proc)[p] = [proc[p] EXCEPT !.evt = "none"]
    BY <1>2 DEF reap_children
  <2>4. QED
    BY <2>1, <2>2, <2>3 DEF Collected
<1>3. QED
  BY <1>1, <1>2

\* The children change while the shell does nothing.
LEMMA TableMeanwhile ==
    ASSUME TableInv, Moves, proc' = [p \in Pid |-> proc'[p]], UNCHANGED <<jobVars, sh, ret>>
    PROVE  Entries' /\ Recorded' /\ WaitStatus'
<1>0. Shape /\ Processes /\ Entries /\ Recorded /\ WaitStatus
  BY DEF TableInv, PipelineInv
<1>1. table' = table /\ statuses' = statuses /\ sh' = sh /\ ret' = ret
  BY DEF jobVars
<1>2. ASSUME NEW k \in DOMAIN table PROVE Shows(proc', sh, table[k])
  <2>1. table[k] \in Job /\ Shows(proc, sh, table[k])
    BY <1>0 DEF Shape, Entries
  <2>2. QED
    BY <1>0, <2>1, ShowsMoves
<1>a. ASSUME NEW p \in Pid, Unreported(proc[p]) PROVE Unreported(proc'[p])
  <2>1. \A r \in Changes : r.st # "stopped" \/ r.evt # "none"
    BY DEF Changes, Zombie
  <2>2. QED
    BY <1>a, <2>1 DEF Moves, Unreported
<1>b. \A i \in DOMAIN sh.kids : sh.kids[i] \in Pid
  BY <1>0 DEF Shape, Thread
<1>3. Entries'
  BY <1>0, <1>1, <1>2, <1>a, <1>b DEF Entries
<1>4. TrueCodes(proc', statuses')
  BY <1>0, <1>1, CodesMove DEF Recorded
<1>5. \A p \in Pid : pgid_alive(proc, p) => pgid_alive(proc', p)
  BY <1>0, MovesFacts
<1>6. sh.of \in SUBSET Pid
  BY <1>0 DEF Shape, Thread
<1>7. Recorded'
  BY <1>0, <1>1, <1>4, <1>5, <1>6 DEF Recorded
<1>8. QED
  BY <1>0, <1>1, <1>3, <1>7 DEF WaitStatus

\* Everything reported is taken over: the tables after reap_children.
LEMMA TableReaped ==
    ASSUME TableInv, sh.pc # "bg", NEW s
    PROVE  /\ \A k \in DOMAIN updated(proc, table) :
                Shows(reap_children(proc), s, updated(proc, table)[k])
           /\ TrueCodes(reap_children(proc), recorded(proc, statuses))
<1>0. Shape /\ Processes /\ Entries /\ Recorded
  BY DEF TableInv, PipelineInv
<1>1. DOMAIN updated(proc, table) = DOMAIN table
  BY <1>0, UpdatedFacts DEF Shape
<1>2. \A k \in DOMAIN table : Shows(reap_children(proc), s, updated(proc, table)[k])
  BY <1>0, ShowsReaped DEF Entries
<1>3. TrueCodes(reap_children(proc), recorded(proc, statuses))
  BY <1>0, CodesReaped DEF Recorded
<1>4. QED
  BY <1>1, <1>2, <1>3

\* Entries that remain when the table is pruned.
LEMMA TablePruned ==
    ASSUME TableInv, sh.pc # "bg"
    PROVE  \A k \in DOMAIN retained(proc, table) :
              /\ Shows(proc, sh', retained(proc, table)[k])
              /\ retained(proc, table)[k] \in Job
<1>0. Shape /\ Entries
  BY DEF TableInv, PipelineInv
<1>1. ASSUME NEW k \in DOMAIN table PROVE Shows(proc, sh', table[k]) /\ table[k] \in Job
  <2>1. Shows(proc, sh, table[k]) /\ table[k] \in Job
    BY <1>0 DEF Entries, Shape
  <2>2. QED
    BY <2>1 DEF Shows
<1>2. \A k \in DOMAIN retained(proc, table) : \E i \in DOMAIN table : retained(proc, table)[k] = table[i]
  BY <1>0, RetainedFacts DEF Shape
<1>3. QED
  BY <1>1, <1>2

\* Prompt, wait and wait -n: everything is collected, nothing is pruned.
LEMMA ReapSteps ==
    ASSUME TableInv, Prompt \/ Joined \/ WaitAny \/ WaitAll \/ \E p \in Pid : WaitFor(p)
    PROVE  Entries' /\ Recorded' /\ WaitStatus'
<1>0. Shape /\ Processes /\ Entries /\ Recorded /\ WaitStatus
  BY DEF TableInv, PipelineInv
<1>1. ASSUME Reap, sh.pc # "bg", sh'.pc \notin {"spawn", "wait"}
      PROVE  Entries' /\ TrueCodes(proc', statuses')
  BY <1>1, TableReaped DEF Reap, Entries
<1>2. ASSUME TrueCodes(proc', statuses'), sh'.pc \notin {"fg", "bg", "wait_pid", "fg_wait"} PROVE Recorded'
  BY <1>2 DEF Recorded
<1>3. CASE Prompt
  <2>1. sh.pc = "prompt" /\ sh'.pc = "read" /\ ret'.cmd = "none"
    BY <1>3 DEF Prompt, Idle, NoRet
  <2> DEFINE pr == IF SIGCHLD_PENDING THEN reap_children(proc) ELSE proc
  <2>2. proc' = Forgotten(pr, statuses')
    BY <1>3 DEF Prompt, jobVars
  <2>3. /\ \A k \in DOMAIN table' : Shows(pr, sh', table'[k]) /\ table'[k].pgid \in Pid
        /\ TrueCodes(pr, statuses')
    <3>1. CASE SIGCHLD_PENDING
      <4>1. table' = updated(proc, table) /\ statuses' = recorded(proc, statuses)
        BY <1>3, <3>1 DEF Prompt
      <4>2. updated(proc, table) \in Seq(Job)
        BY <1>0, UpdatedFacts DEF Shape
      <4>3. QED
        BY <2>1, <3>1, <4>1, <4>2, JobFacts, TableReaped
    <3>2. CASE ~SIGCHLD_PENDING
      <4>1. table' = table /\ statuses' = statuses
        BY <1>3, <3>2 DEF Prompt, jobVars
      <4>2. \A k \in DOMAIN table : Shows(proc, sh', table[k]) /\ table[k].pgid \in Pid
        BY <1>0, <2>1, JobFacts DEF Entries, Shows, Shape
      <4>3. QED
        BY <1>0, <3>2, <4>1, <4>2 DEF Recorded
    <3>3. QED
      BY <3>1, <3>2
  <2> HIDE DEF pr
  <2>4. \A p \in Pid :
          \/ proc'[p] = pr[p]
          \/ pr[p].st = "gone" /\ statuses'[p] = NoCode /\ proc'[p] = Collected(NoCode)
    BY <2>2 DEF Forgotten
  <2>5. \A k \in DOMAIN table' : Shows(proc', sh', table'[k])
    BY <2>3, <2>4 DEF Shows, Collected
  <2>6. TrueCodes(proc', statuses')
    BY <2>3, <2>4 DEF TrueCodes
  <2>7. QED
    BY <1>2, <2>1, <2>5, <2>6 DEF Entries, WaitStatus
<1>4. CASE Joined
  <2>1. Reap /\ sh.pc = "join" /\ sh'.pc = "prompt" /\ ret'.cmd = "pipeline"
    BY <1>4 DEF Joined, Answer, Idle
  <2>2. QED
    BY <1>1, <1>2, <2>1 DEF WaitStatus
<1>5. CASE WaitAny
  <2>1. /\ Reap /\ sh.pc = "read" /\ sh'.pc \in {"prompt", "wait_any"}
        /\ ret'.cmd = "wait_any" \/ ret' = ret
    BY <1>5 DEF WaitAny, Answer, Idle
  <2>2. QED
    BY <1>0, <1>1, <1>2, <2>1 DEF WaitStatus
<1>6. CASE WaitAll
  <2>1. Reap /\ sh.pc = "read" /\ sh'.pc = "wait_all" /\ ret' = ret
    BY <1>6 DEF WaitAll, Idle
  <2>2. QED
    BY <1>0, <1>1, <1>2, <2>1 DEF WaitStatus
<1>7. ASSUME NEW p \in Pid, WaitFor(p) PROVE Entries' /\ Recorded' /\ WaitStatus'
  <2>1. /\ Reap /\ sh.pc = "read" /\ sh'.pc = "wait_pid" /\ ret' = ret
        /\ sh'.of = {p} /\ sh'.fresh = Fresh(proc', statuses', {p})
    BY <1>7 DEF WaitFor, Idle
  <2>2. Entries' /\ TrueCodes(proc', statuses')
    BY <1>1, <2>1
  <2>3. sh'.fresh # {} => \A q \in sh'.of : pgid_alive(proc', q) \/ statuses'[q] # NoCode
    BY <2>1 DEF Fresh
  <2>4. Recorded'
    BY <2>1, <2>2, <2>3 DEF Recorded
  <2>5. QED
    BY <1>0, <2>1, <2>2, <2>4 DEF WaitStatus
<1>8. QED
  BY <1>3, <1>4, <1>5, <1>6, <1>7

\* wait %job: everything is collected, then the table is pruned.
LEMMA WaitJobStep ==
    ASSUME TableInv, WaitJob
    PROVE  Entries' /\ Recorded' /\ WaitStatus'
<1> DEFINE t == updated(proc, table)
<1>0. Shape /\ WaitStatus
  BY DEF TableInv, PipelineInv
<1>1. /\ sh.pc = "read" /\ proc' = reap_children(proc) /\ statuses' = recorded(proc, statuses)
      /\ table' = retained(proc', t)
  BY DEF WaitJob
<1>2. /\ \A k \in DOMAIN t : Shows(proc', sh', t[k])
      /\ TrueCodes(proc', statuses')
  BY <1>1, TableReaped
<1>3. t \in Seq(Job)
  BY <1>0, UpdatedFacts DEF Shape
<1> HIDE DEF t
<1>4. \A k \in DOMAIN table' : \E i \in DOMAIN t : table'[k] = t[i]
  BY <1>1, <1>3, RetainedFacts
<1>5. \/ sh'.pc = "prompt" /\ ret'.cmd \in {"wait_job", "nojob"}
      \/ /\ sh'.pc = "wait_pid" /\ ret' = ret
         /\ \E k \in DOMAIN t : sh'.of = {t[k].pgid} /\ pgid_alive(proc', t[k].pgid)
  <2>1. CASE sh' = Idle("prompt") /\ ret'.cmd \in {"wait_job", "nojob"}
    BY <2>1 DEF Idle
  <2>2. ASSUME NEW k \in resolve_spec(t), pgid_alive(proc', t[k].pgid), ret' = ret,
               sh' = [Idle("wait_pid") EXCEPT !.of = {t[k].pgid}, !.fresh = {t[k].pgid}]
        PROVE  /\ sh'.pc = "wait_pid" /\ ret' = ret
               /\ \E i \in DOMAIN t : sh'.of = {t[i].pgid} /\ pgid_alive(proc', t[i].pgid)
    BY <2>2 DEF Idle, resolve_spec
  <2>3. QED
    BY <2>1, <2>2, WaitJobEnds DEF t
<1>6. \A k \in DOMAIN t : t[k].pgid \in Pid
  BY <1>3, JobFacts
<1>7. Entries'
  BY <1>2, <1>4, <1>5 DEF Entries
<1>8. Recorded'
  BY <1>2, <1>5, <1>6 DEF Recorded
<1>9. WaitStatus'
  BY <1>0, <1>5 DEF WaitStatus
<1>10. QED
  BY <1>7, <1>8, <1>9

\* One round of a wait: a code that is there is taken, and it is a true one.
LEMMA WaitRounds ==
    ASSUME TableInv, WaitPidRound \/ WaitAnyRound \/ WaitAllRound
    PROVE  Entries' /\ Recorded' /\ WaitStatus'
<1>0. Shape /\ Processes /\ Entries /\ Recorded /\ WaitStatus /\ sh \in Thread
  BY DEF TableInv, PipelineInv, Shape
<1> DEFINE s == recorded(proc, statuses)
<1>1. /\ sh.pc \in {"wait_pid", "fg_wait", "wait_any", "wait_all"} /\ sh.pc # "bg"
      /\ proc' = reap_children(proc)
  BY DEF WaitPidRound, WaitAnyRound, WaitAllRound
<1>2. /\ \A k \in DOMAIN updated(proc, table) : Shows(proc', sh', updated(proc, table)[k])
      /\ TrueCodes(proc', s)
  BY <1>1, TableReaped
<1>3. /\ updated(proc, table) \in Seq(Job)
      /\ \A p \in Pid : s[p] = IF proc[p].st = "zombie" THEN proc[p].code ELSE statuses[p]
      /\ s \in [Pid -> AnyCode \cup {NoCode}]
  BY <1>0, UpdatedFacts, RecordedFacts DEF Shape
<1>4. sh'.pc \notin {"spawn", "wait"} /\ (sh' = sh \/ sh'.pc \in {"prompt", "wait_all"})
  BY <1>0, <1>1 DEF WaitPidRound, Waits, WaitAnyRound, WaitAllRound, Answer, Idle, Thread
<1>5. \A p \in Pid : pgid_alive(proc, p) => pgid_alive(proc', p) \/ s[p] # NoCode
  <2>1. ASSUME NEW p \in Pid, pgid_alive(proc, p), ~pgid_alive(proc', p) PROVE s[p] # NoCode
    <3>1. proc[p].st = "zombie"
      BY <1>0, <1>1, <2>1, ReapFacts DEF pgid_alive
    <3>2. QED
      BY <1>0, <1>3, <3>1 DEF Processes
  <2>2. QED
    BY <2>1
<1>6. \A p \in Pid : statuses[p] # NoCode => s[p] # NoCode
  BY <1>0, <1>3 DEF Processes
<1> HIDE DEF s
<1>7. \A p \in Pid, q \in SUBSET Pid : s[p] # NoCode /\ p \in q => s[p] \in Codes(proc', q)
  <2> SUFFICES ASSUME NEW p \in Pid, NEW q \in SUBSET Pid, s[p] # NoCode, p \in q
               PROVE  s[p] \in Codes(proc', q)
    OBVIOUS
  <2>1. proc'[p] = Collected(s[p])
    BY <1>2 DEF TrueCodes
  <2>2. proc'[p].st = "gone" /\ proc'[p].code = s[p]
    BY <2>1 DEF Collected
  <2>3. QED
    BY <2>2 DEF Codes
<1>8. ASSUME NEW p \in Pid PROVE TrueCodes(proc', take_status(s, p))
  BY <1>2, <1>3 DEF TrueCodes, take_status
<1>9. CASE WaitPidRound
  <2> DEFINE p == CHOOSE q \in sh.of : TRUE
  <2>0. sh.pc \in {"wait_pid", "fg_wait"} /\ table' = updated(proc, table)
    BY <1>9 DEF WaitPidRound
  <2>1. p \in Pid /\ sh.of = {p}
    <3>1. PICK q \in Pid : sh.of = {q}
      BY <1>0, <2>0 DEF Recorded
    <3>2. QED
      BY <3>1
  <2>2. Entries'
    BY <1>2, <1>4, <2>0 DEF Entries
  <2>3. sh.fresh # {} => pgid_alive(proc', p) \/ s[p] # NoCode
    BY <1>0, <1>5, <1>6, <2>0, <2>1 DEF Recorded
  <2> HIDE DEF p
  <2>4. CASE s[p] # NoCode
    <3>1. /\ statuses' = take_status(s, p) /\ sh'.pc = "prompt"
          /\ \/ ret'.cmd = "fg"
             \/ /\ ret'.code = s[p]
                /\ ret'.true = IF sh.fresh = {} THEN AnyCode ELSE Codes(proc', sh.of)
      BY <1>9, <2>4 DEF WaitPidRound, Waits, Answer, Idle, p, s
    <3>2. s[p] \in AnyCode /\ s[p] \in Codes(proc', sh.of)
      BY <1>0, <1>3, <1>7, <2>1, <2>4 DEF Thread
    <3>3. WaitStatus'
      BY <3>1, <3>2 DEF WaitStatus
    <3>4. QED
      BY <1>8, <2>1, <2>2, <3>1, <3>3 DEF Recorded
  <2>5. CASE s[p] = NoCode /\ pgid_alive(proc', p)
    <3>1. statuses' = s /\ sh' = sh /\ ret' = ret
      BY <1>9, <2>5 DEF WaitPidRound, p, s
    <3>2. Recorded'
      BY <1>0, <1>2, <2>0, <2>1, <2>3, <3>1 DEF Recorded
    <3>3. QED
      BY <1>0, <2>2, <3>1, <3>2 DEF WaitStatus
  <2>6. CASE s[p] = NoCode /\ ~pgid_alive(proc', p)
    <3>1. /\ statuses' = s /\ sh'.pc = "prompt"
          /\ \/ ret'.cmd = "fg"
             \/ /\ ret'.code = 0
                /\ ret'.true = IF sh.fresh = {} THEN AnyCode ELSE Codes(proc', sh.of)
      BY <1>9, <2>6 DEF WaitPidRound, Waits, Answer, Idle, p, s
    <3>2. sh.fresh = {}
      BY <2>3, <2>6
    <3>3. WaitStatus'
      BY <3>1, <3>2, CodeFacts DEF WaitStatus
    <3>4. QED
      BY <1>2, <2>2, <3>1, <3>3 DEF Recorded
  <2>7. QED
    BY <2>4, <2>5, <2>6
<1>10. CASE WaitAnyRound
  <2> DEFINE done == {p \in sh.of : s[p] # NoCode}
  <2>0. sh.pc = "wait_any" /\ table' = updated(proc, table)
    BY <1>10 DEF WaitAnyRound
  <2>1. Entries'
    BY <1>2, <1>4, <2>0 DEF Entries
  <2>2. done \in SUBSET Pid
    BY <1>0 DEF Thread
  <2>3. CASE done # {}
    <3>1. PICK p \in done :
             /\ statuses' = take_status(s, p) /\ sh'.pc = "prompt"
             /\ ret'.code = s[p] /\ ret'.true = Codes(proc', sh.of)
      BY <1>10, <2>3 DEF WaitAnyRound, Answer, Idle, s
    <3>2. s[p] \in Codes(proc', sh.of)
      BY <1>0, <1>7, <2>2, <3>1 DEF Thread
    <3>3. WaitStatus'
      BY <3>1, <3>2 DEF WaitStatus
    <3>4. QED
      BY <1>8, <2>1, <2>2, <3>1, <3>3 DEF Recorded
  <2>4. CASE done = {}
    <3>1. /\ statuses' = s /\ sh'.pc \in {"prompt", "wait_any"}
          /\ ret' = ret \/ ret'.cmd = "wait_any"
      BY <1>10, <2>0, <2>4 DEF WaitAnyRound, Answer, Idle, s
    <3>2. QED
      BY <1>0, <1>2, <2>1, <3>1 DEF Recorded, WaitStatus
  <2>5. QED
    BY <2>3, <2>4
<1>11. CASE WaitAllRound
  <2>0. /\ sh.pc = "wait_all" /\ table' = retained(proc', updated(proc, table))
        /\ statuses' = [p \in Pid |-> IF p \in {q \in Pgids(table') : s[q] # NoCode} THEN NoCode ELSE s[p]]
        /\ ret' = ret \/ ret'.cmd = "wait_all"
    BY <1>11 DEF WaitAllRound, Answer, s
  <2>1. \A k \in DOMAIN table' : \E i \in DOMAIN updated(proc, table) : table'[k] = updated(proc, table)[i]
    BY <1>3, <2>0, RetainedFacts
  <2>2. Entries'
    BY <1>2, <1>4, <2>1 DEF Entries
  <2>3. TrueCodes(proc', statuses')
    BY <1>2, <2>0 DEF TrueCodes
  <2>4. sh'.pc \notin {"fg", "bg", "wait_pid", "fg_wait"}
    BY <1>4, <2>0
  <2>5. QED
    BY <1>0, <2>0, <2>2, <2>3, <2>4 DEF Recorded, WaitStatus
<1>12. QED
  BY <1>9, <1>10, <1>11

LEMMA JobBuiltins ==
    ASSUME TableInv,
           ListJobs \/ NoJob("nojob", 1) \/ TakeForeground \/ MarkRunning \/ Resume \/ KillJob(SIGTERM)
    PROVE  Entries' /\ Recorded' /\ WaitStatus'
<1>0. Shape /\ Processes /\ Entries /\ Recorded /\ WaitStatus /\ sh \in Thread
  BY DEF TableInv, PipelineInv, Shape
<1> DEFINE t == retained(proc, table)
<1>1. t \in Seq(Job)
  BY <1>0, RetainedFacts DEF Shape
<1>2. ASSUME sh.pc # "bg" PROVE \A k \in DOMAIN t : Shows(proc, sh', t[k]) /\ t[k] \in Job
  BY <1>2, TablePruned
<1>3. TrueCodes(proc, statuses)
  BY <1>0 DEF Recorded
<1> HIDE DEF t
<1>4. CASE ListJobs \/ NoJob("nojob", 1)
  <2>1. /\ sh.pc = "read" /\ table' = t /\ proc' = proc /\ statuses' = statuses /\ sh'.pc = "prompt"
        /\ ret'.cmd \in {"jobs", "nojob"}
    BY <1>4 DEF ListJobs, NoJob, Answer, Idle, kernel, t
  <2>2. QED
    BY <1>2, <1>3, <2>1 DEF Entries, Recorded, WaitStatus
<1>5. CASE TakeForeground
  <2>1. PICK k \in DOMAIN t :
           /\ table' = SubSeq(t, 1, k - 1) \o SubSeq(t, k + 1, Len(t))
           /\ sh' = [Idle("fg") EXCEPT !.of = {t[k].pgid}]
    BY <1>5 DEF TakeForeground, resolve_spec, t
  <2>2. sh.pc = "read" /\ proc' = proc /\ statuses' = statuses /\ ret' = ret
    BY <1>5 DEF TakeForeground, kernel
  <2>3. sh'.pc = "fg" /\ sh'.of = {t[k].pgid} /\ t[k].pgid \in Pid
    BY <1>1, <2>1, JobFacts DEF Idle
  <2>4. \A i \in DOMAIN table' : \E j \in DOMAIN t : table'[i] = t[j]
    <3>1. k \in 1 .. Len(t) /\ Len(t) \in Nat
      BY <1>1
    <3>2. /\ SubSeq(t, 1, k - 1) \in Seq(Job) /\ Len(SubSeq(t, 1, k - 1)) = k - 1
          /\ \A i \in 1 .. (k - 1) : SubSeq(t, 1, k - 1)[i] = t[i]
      BY <1>1, <3>1
    <3>3. /\ SubSeq(t, k + 1, Len(t)) \in Seq(Job) /\ Len(SubSeq(t, k + 1, Len(t))) = Len(t) - k
          /\ \A i \in 1 .. (Len(t) - k) : SubSeq(t, k + 1, Len(t))[i] = t[k + i]
      BY <1>1, <3>1
    <3> DEFINE a == SubSeq(t, 1, k - 1)
               b == SubSeq(t, k + 1, Len(t))
    <3> HIDE DEF a, b
    <3>4. /\ DOMAIN (a \o b) = 1 .. (Len(a) + Len(b))
          /\ \A i \in 1 .. (Len(a) + Len(b)) :
               (a \o b)[i] = IF i <= Len(a) THEN a[i] ELSE b[i - Len(a)]
      <4>1. a \in Seq(Job) /\ b \in Seq(Job)
        BY <3>2, <3>3 DEF a, b
      <4>2. QED
        BY <4>1
    <3>5. ASSUME NEW i \in 1 .. (Len(a) + Len(b)) PROVE \E j \in DOMAIN t : (a \o b)[i] = t[j]
      <4>0. Len(a) = k - 1 /\ Len(b) = Len(t) - k /\ DOMAIN t = 1 .. Len(t)
        BY <1>1, <3>2, <3>3 DEF a, b
      <4>1. CASE i <= k - 1
        <5>1. (a \o b)[i] = t[i] /\ i \in DOMAIN t
          BY <3>1, <3>2, <3>4, <4>0, <4>1 DEF a
        <5>2. QED
          BY <5>1
      <4>2. CASE i > k - 1
        <5>1. (a \o b)[i] = b[i - (k - 1)] /\ i - (k - 1) \in 1 .. (Len(t) - k)
          BY <3>1, <3>4, <4>0, <4>2
        <5> DEFINE j == i - (k - 1)
        <5>2. b[j] = t[k + j]
          BY <3>3, <5>1 DEF b
        <5>3. k + j \in DOMAIN t
          <6>1. j \in 1 .. (Len(t) - k)
            BY <5>1
          <6> HIDE DEF j
          <6>2. QED
            BY <3>1, <4>0, <6>1
        <5>4. QED
          BY <5>1, <5>2, <5>3
      <4>3. QED
        BY <3>1, <4>0, <4>1, <4>2
    <3>6. QED
      BY <2>1, <3>4, <3>5 DEF a, b
  <2>5. Entries'
    BY <1>2, <2>2, <2>3, <2>4 DEF Entries
  <2>6. QED
    BY <1>0, <1>3, <2>2, <2>3, <2>5 DEF Recorded, WaitStatus
<1>6. CASE MarkRunning
  <2>1. PICK k \in DOMAIN t :
           /\ table' = [t EXCEPT ![k].state = "Running"]
           /\ sh' = [Idle("bg") EXCEPT !.of = {t[k].pgid}]
    BY <1>6 DEF MarkRunning, resolve_spec, t
  <2>2. sh.pc = "read" /\ proc' = proc /\ statuses' = statuses /\ ret' = ret
    BY <1>6 DEF MarkRunning, kernel
  <2>3. t[k] \in Job /\ t[k].pgid \in Pid
    BY <1>1, JobFacts
  <2>4. sh'.pc = "bg" /\ sh'.of = {t[k].pgid}
    BY <2>1 DEF Idle
  <2>5. /\ DOMAIN table' = DOMAIN t
        /\ table'[k].pgid = t[k].pgid /\ table'[k].state = "Running"
        /\ \A i \in DOMAIN t : i # k => table'[i] = t[i]
    BY <1>1, <2>1, <2>3 DEF Job
  <2>6. ASSUME NEW i \in DOMAIN t PROVE Shows(proc', sh', table'[i])
    <3>1. Shows(proc, sh', t[i])
      BY <1>2, <2>2
    <3>2. CASE i # k
      BY <2>2, <2>5, <3>1, <3>2
    <3>3. CASE i = k
      BY <2>2, <2>4, <2>5, <3>1, <3>3 DEF Shows
    <3>4. QED
      BY <3>2, <3>3
  <2>7. Entries'
    BY <2>4, <2>5, <2>6 DEF Entries
  <2>8. QED
    BY <1>0, <1>3, <2>2, <2>3, <2>4, <2>7 DEF Recorded, WaitStatus
<1>7. CASE Resume
  <2>1. PICK p \in sh.of : proc' = [proc EXCEPT ![p] = Resumed(p)]
    BY <1>7 DEF Resume
  <2>2. sh.of = {p} /\ p \in Pid /\ sh.pc \in {"fg", "bg"} /\ table' = table /\ statuses' = statuses
    BY <1>0, <1>7 DEF Resume, Recorded, jobVars
  <2>3. Moves /\ proc' = [q \in Pid |-> proc'[q]]
    BY <1>0, <2>1, <2>2, ResumedMoves
  <2>4. TrueCodes(proc', statuses')
    BY <1>3, <2>2, <2>3, CodesMove
  <2>5. /\ sh'.pc \in {"prompt", "fg_wait"} /\ (ret' = ret \/ ret'.cmd = "bg")
        /\ sh'.pc = "fg_wait" => sh'.of = sh.of /\ sh'.fresh = Fresh(proc, statuses, sh.of)
    <3>1. CASE sh.pc = "bg"
      BY <1>7, <3>1 DEF Resume, Answer, Idle
    <3>2. CASE sh.pc = "fg"
      <4>1. sh' = [sh EXCEPT !.pc = "fg_wait", !.fresh = Fresh(proc, statuses, sh.of)] /\ ret' = ret
        BY <1>7, <3>2 DEF Resume
      <4>2. QED
        BY <1>0, <4>1 DEF Thread
    <3>3. QED
      BY <2>2, <3>1, <3>2
  <2>6. proc'[p].st # "stopped"
    BY <1>0, <2>1, <2>2 DEF Shape, Resumed
  <2>7. ASSUME NEW k \in DOMAIN table PROVE Shows(proc', sh', table[k])
    <3>1. Shows(proc', sh, table[k])
      BY <1>0, <2>3, ShowsMoves DEF Entries, Shape
    <3>2. QED
      BY <2>2, <2>6, <3>1 DEF Shows
  <2>8. Entries'
    BY <2>2, <2>5, <2>7 DEF Entries
  <2>9. \A q \in Pid : pgid_alive(proc, q) => pgid_alive(proc', q)
    BY <1>0, <2>3, MovesFacts
  <2>10. Recorded'
    BY <2>2, <2>4, <2>5, <2>9 DEF Recorded, Fresh
  <2>11. QED
    BY <1>0, <2>5, <2>8, <2>10 DEF WaitStatus
<1>8. CASE KillJob(SIGTERM)
  <2>1. PICK k \in DOMAIN t : \E o \in Outcomes(SIGTERM, t[k].pgid) :
           proc' = [proc EXCEPT ![t[k].pgid] = o]
    BY <1>8 DEF KillJob, resolve_spec, t
  <2>2. sh.pc = "read" /\ table' = t /\ statuses' = statuses /\ sh'.pc = "prompt" /\ ret'.cmd = "kill"
    BY <1>8 DEF KillJob, Answer, Idle, t
  <2>3. t[k].pgid \in Pid
    BY <1>1, JobFacts
  <2>4. Moves /\ proc' = [q \in Pid |-> proc'[q]]
    BY <1>0, <2>1, <2>3, OutcomeMoves
  <2>5. ASSUME NEW i \in DOMAIN t PROVE Shows(proc', sh', t[i])
    <3>1. Shows(proc, sh, t[i]) /\ t[i] \in Job
      BY <1>2, <2>2 DEF Shows
    <3>2. Shows(proc', sh, t[i])
      BY <1>0, <2>4, <3>1, ShowsMoves
    <3>3. QED
      BY <2>2, <3>2 DEF Shows
  <2>6. Entries'
    BY <2>2, <2>5 DEF Entries
  <2>7. TrueCodes(proc', statuses')
    BY <1>3, <2>2, <2>4, CodesMove
  <2>8. QED
    BY <2>2, <2>6, <2>7 DEF Recorded, WaitStatus
<1>9. QED
  BY <1>4, <1>5, <1>6, <1>7, <1>8

\* Starting a pipeline.  A pid that is not reused belongs to no table entry and
\* to no recorded code.
LEMMA SpawnTables ==
    ASSUME ~PidReuse, TableInv,
           \/ \E bg \in BOOLEAN : StartPipeline(bg)
           \/ \E p \in Pid : Spawn(p)
           \/ SpawnFails \/ RedirectFails \/ Background
           \/ \E watch \in BOOLEAN : Foreground(watch)
    PROVE  Entries' /\ Recorded' /\ WaitStatus'
<1>0. Shape /\ Processes /\ Pipeline /\ Entries /\ Recorded /\ WaitStatus /\ sh \in Thread
  BY DEF TableInv, PipelineInv, Shape
<1>a. sh.kids \in Seq(Pid) /\ DOMAIN sh.kids = 1 .. Len(sh.kids)
  BY <1>0 DEF Thread
<1>b. TrueCodes(proc, statuses) /\ \A k \in DOMAIN table : table[k].pgid \in Pid /\ table[k] \in Job
  BY <1>0, JobFacts DEF Recorded, Shape
<1>1. ASSUME NEW bg \in BOOLEAN, StartPipeline(bg) PROVE Entries' /\ Recorded' /\ WaitStatus'
  <2>1. /\ sh.pc = "read" /\ sh'.pc = "spawn" /\ sh'.kids = <<>> /\ ret' = ret
        /\ proc' = proc /\ table' = table /\ statuses' = statuses
    BY <1>1 DEF StartPipeline, Idle, kernel, jobVars
  <2>2. \A k \in DOMAIN table : Shows(proc, sh', table[k])
    BY <1>0, <2>1 DEF Entries, Shows
  <2>3. Entries'
    BY <2>1, <2>2 DEF Entries
  <2>4. QED
    BY <1>0, <1>b, <2>1, <2>3 DEF Recorded, WaitStatus
<1>2. ASSUME NEW p \in Pid, Spawn(p) PROVE Entries' /\ Recorded' /\ WaitStatus'
  <2>1. /\ sh.pc = "spawn" /\ sh' = [sh EXCEPT !.kids = Append(sh.kids, p)] /\ ret' = ret
        /\ proc' = [proc EXCEPT ![p] = NewProc] /\ table' = table /\ statuses' = statuses
        /\ proc[p].st = "none"
    BY <1>2 DEF Spawn, jobVars, FreePids
  <2>2. \A q \in Pid \ {p} : proc'[q] = proc[q]
    BY <1>0, <2>1 DEF Shape
  <2>3. \A k \in DOMAIN table : table[k].pgid \in Pid \ {p}
    BY <1>0, <1>b, <2>1 DEF Entries, Shows
  <2>4. sh'.pc = "spawn" /\ sh'.kids = Append(sh.kids, p)
    BY <1>0, <2>1 DEF Thread
  <2>5. \A k \in DOMAIN table : Shows(proc', sh', table[k])
    <3>1. \A k \in DOMAIN table : proc'[table[k].pgid] = proc[table[k].pgid]
      BY <2>2, <2>3
    <3>2. QED
      BY <1>0, <2>1, <3>1 DEF Entries, Shows
  <2>6. \A i \in DOMAIN sh'.kids, k \in DOMAIN table : sh'.kids[i] # table[k].pgid
    <3>1. /\ DOMAIN Append(sh.kids, p) = 1 .. (Len(sh.kids) + 1)
          /\ \A i \in 1 .. Len(sh.kids) : Append(sh.kids, p)[i] = sh.kids[i]
          /\ Append(sh.kids, p)[Len(sh.kids) + 1] = p
      BY <1>a
    <3>2. \A i \in 1 .. (Len(sh.kids) + 1) : i \in 1 .. Len(sh.kids) \/ i = Len(sh.kids) + 1
      BY <1>a
    <3>3. \A i \in 1 .. Len(sh.kids), k \in DOMAIN table : sh.kids[i] # table[k].pgid
      BY <1>0, <1>a, <2>1 DEF Entries
    <3>4. QED
      BY <2>3, <2>4, <3>1, <3>2, <3>3
  <2>7. TrueCodes(proc', statuses')
    <3>1. statuses[p] = NoCode
      BY <1>b, <2>1, CollectedFacts DEF TrueCodes
    <3>2. QED
      BY <1>b, <2>1, <2>2, <3>1 DEF TrueCodes
  <2>8. \A i \in DOMAIN sh'.kids : Unreported(proc'[sh'.kids[i]])
    <3>1. /\ DOMAIN Append(sh.kids, p) = 1 .. (Len(sh.kids) + 1)
          /\ \A i \in 1 .. Len(sh.kids) : Append(sh.kids, p)[i] = sh.kids[i]
          /\ Append(sh.kids, p)[Len(sh.kids) + 1] = p
      BY <1>a
    <3>2. \A i \in 1 .. (Len(sh.kids) + 1) : i \in 1 .. Len(sh.kids) \/ i = Len(sh.kids) + 1
      BY <1>a
    <3>3. Unreported(proc'[p])
      BY <1>0, <2>1 DEF Shape, Unreported, NewProc
    <3>4. \A i \in 1 .. Len(sh.kids) : sh.kids[i] \in Pid /\ Unreported(proc[sh.kids[i]])
      BY <1>0, <1>a, <2>1 DEF Entries
    <3>5. \A i \in 1 .. Len(sh.kids) : Unreported(proc'[sh.kids[i]])
      BY <2>2, <3>3, <3>4
    <3>6. QED
      BY <2>4, <3>1, <3>2, <3>3, <3>5
  <2>9. QED
    BY <1>0, <2>1, <2>4, <2>5, <2>6, <2>7, <2>8 DEF Entries, Recorded, WaitStatus
<1>3. CASE SpawnFails
  <2>1. /\ sh.pc = "spawn" /\ sh'.pc = "prompt" /\ ret'.cmd = "failed"
        /\ table' = table /\ statuses' = statuses
    BY <1>3 DEF SpawnFails, Answer, Idle, jobVars
  <2>2. \A p \in Pid : p \notin ToSet(sh.kids) => proc'[p] = proc[p]
    BY <1>3 DEF SpawnFails
  <2>3. \A p \in ToSet(sh.kids) : pgid_alive(proc, p) /\ \A k \in DOMAIN table : table[k].pgid # p
    BY <1>0, <2>1 DEF ToSet, Pipeline, Entries
  <2>4. \A k \in DOMAIN table : Shows(proc', sh', table[k])
    <3>1. \A k \in DOMAIN table : proc'[table[k].pgid] = proc[table[k].pgid]
      BY <1>b, <2>2, <2>3
    <3>2. QED
      BY <1>0, <2>1, <3>1 DEF Entries, Shows
  <2>5. \A p \in Pid : statuses[p] # NoCode => p \notin ToSet(sh.kids)
    <3>1. \A p \in Pid : statuses[p] # NoCode => proc[p].st = "gone"
      BY <1>b, CollectedFacts DEF TrueCodes
    <3>2. QED
      BY <2>3, <3>1 DEF pgid_alive
  <2>6. TrueCodes(proc', statuses')
    BY <1>b, <2>1, <2>2, <2>5 DEF TrueCodes
  <2>7. QED
    BY <2>1, <2>4, <2>6 DEF Entries, Recorded, WaitStatus
<1>4. CASE RedirectFails
  <2>1. /\ sh.pc = "spawn" /\ sh'.pc = "prompt" /\ ret'.cmd = "failed"
        /\ proc' = proc /\ table' = table /\ statuses' = statuses
    BY <1>4 DEF RedirectFails, Answer, Idle, jobVars, kernel
  <2>2. \A k \in DOMAIN table : Shows(proc, sh', table[k])
    BY <1>0, <2>1 DEF Entries, Shows
  <2>3. QED
    BY <1>b, <2>1, <2>2 DEF Entries, Recorded, WaitStatus
<1>5. CASE Background
  <2> DEFINE p == Head(sh.kids)
  <2>1. /\ sh.pc = "spawn" /\ sh.kids # <<>> /\ sh'.pc = "prompt" /\ ret'.cmd = "background"
        /\ proc' = proc /\ table' = add_job(proc, table, p, "Running") /\ statuses' = statuses
    BY <1>5 DEF Background, Answer, Idle, kernel
  <2>2. p \in Pid /\ p = sh.kids[1] /\ 1 \in DOMAIN sh.kids
    BY <1>a, <2>1
  <2>3. pgid_alive(proc, p)
    BY <1>0, <2>1, <2>2 DEF Pipeline
  <2> HIDE DEF p
  <2>4. ASSUME NEW k \in DOMAIN table' PROVE Shows(proc, sh', table'[k])
    <3>1. CASE table'[k].pgid = p /\ table'[k].state = "Running"
      <4>1. proc[p].st = "stopped" => proc[p].evt # "none"
        BY <1>0, <2>1, <2>2 DEF Entries, Unreported
      <4>2. QED
        BY <2>3, <3>1, <4>1 DEF Shows, pgid_alive
    <3>2. CASE \E i \in DOMAIN table : table'[k] = table[i]
      BY <1>0, <2>1, <3>2 DEF Entries, Shows
    <3>3. table \in Seq(Job)
      BY <1>0 DEF Shape
    <3>4. /\ table \in Seq(Job) /\ p \in Pid /\ k \in DOMAIN table'
          /\ table' = add_job(proc, table, p, "Running")
      BY <2>1, <2>2, <3>3, <2>4
    <3>5. \A x \in DOMAIN table' : \/ table'[x].pgid = p /\ table'[x].state = "Running"
                                   \/ \E i \in DOMAIN table : table'[x] = table[i]
      BY <3>4, AddedRunning
    <3>6. \/ table'[k].pgid = p /\ table'[k].state = "Running"
          \/ \E i \in DOMAIN table : table'[k] = table[i]
      BY <3>4, <3>5
    <3>7. QED
      BY <3>1, <3>2, <3>6
  <2>5. QED
    BY <1>b, <2>1, <2>4 DEF Entries, Recorded, WaitStatus
<1>6. ASSUME NEW watch \in BOOLEAN, Foreground(watch) PROVE Entries' /\ Recorded' /\ WaitStatus'
  <2>1. /\ sh.pc = "spawn" /\ sh' = [sh EXCEPT !.pc = "wait"] /\ ret' = ret
        /\ proc' = proc /\ table' = table /\ statuses' = statuses
    BY <1>6 DEF Foreground, kernel, jobVars
  <2>2. sh'.pc = "wait" /\ sh'.kids = sh.kids
    BY <1>0, <2>1 DEF Thread
  <2>3. \A k \in DOMAIN table : Shows(proc, sh', table[k])
    BY <1>0, <2>1 DEF Entries, Shows
  <2>4. Entries'
    BY <1>0, <2>1, <2>2, <2>3 DEF Entries
  <2>5. QED
    BY <1>0, <1>b, <2>1, <2>2, <2>4 DEF Recorded, WaitStatus
<1>7. QED
  BY <1>1, <1>2, <1>3, <1>4, <1>5, <1>6

\* Waiting for the children of a foreground pipeline.
LEMMA WaitTables ==
    ASSUME TableInv, WaitChild \/ ChildStopped \/ AllWaited
    PROVE  Entries' /\ Recorded' /\ WaitStatus'
<1>0. Shape /\ Processes /\ Pipeline /\ Entries /\ Recorded /\ WaitStatus /\ sh \in Thread
  BY DEF TableInv, PipelineInv, Shape
<1>a. sh.kids \in Seq(Pid) /\ DOMAIN sh.kids = 1 .. Len(sh.kids) /\ sh.pc = "wait"
  BY <1>0 DEF Thread, WaitChild, ChildStopped, AllWaited
<1>b. /\ TrueCodes(proc, statuses) /\ table \in Seq(Job)
      /\ \A k \in DOMAIN table : table[k].pgid \in Pid /\ Shows(proc, sh, table[k])
      /\ \A i \in DOMAIN sh.kids, k \in DOMAIN table : sh.kids[i] # table[k].pgid
  BY <1>0, <1>a, JobFacts DEF Recorded, Shape, Entries
<1>c. \A p \in Pid : statuses[p] # NoCode => proc[p].st = "gone"
  BY <1>b, CollectedFacts DEF TrueCodes
<1> DEFINE p == sh.kids[sh.k]
<1>1. CASE WaitChild
  <2>1. /\ sh.k \in DOMAIN sh.kids /\ proc' = [proc EXCEPT ![p] = Collected(proc[p].code)]
        /\ sh'.pc = "wait" /\ sh'.kids = sh.kids
        /\ table' = table /\ statuses' = statuses /\ ret' = ret
    BY <1>0, <1>1, <1>a DEF WaitChild, jobVars, Thread
  <2>2. p \in Pid /\ \A k \in DOMAIN table : table[k].pgid # p
    BY <1>a, <1>b, <2>1
  <2>3. statuses[p] = NoCode
    <3>1. sh.k \in sh.k .. Len(sh.kids)
      BY <1>0, <1>a, <2>1 DEF Thread
    <3>2. pgid_alive(proc, p)
      BY <1>0, <1>a, <3>1 DEF Pipeline, Waited
    <3>3. QED
      BY <1>c, <2>2, <3>2 DEF pgid_alive
  <2> HIDE DEF p
  <2>4. \A q \in Pid \ {p} : proc'[q] = proc[q]
    BY <1>0, <2>1 DEF Shape
  <2>5. \A k \in DOMAIN table : Shows(proc', sh', table[k])
    <3>1. \A k \in DOMAIN table : proc'[table[k].pgid] = proc[table[k].pgid]
      BY <1>b, <2>2, <2>4
    <3>2. QED
      BY <1>a, <1>b, <3>1 DEF Shows
  <2>6. TrueCodes(proc', statuses')
    BY <1>b, <2>1, <2>3, <2>4 DEF TrueCodes
  <2>7. QED
    BY <1>0, <1>b, <2>1, <2>5, <2>6 DEF Entries, Recorded, WaitStatus
<1>2. CASE ChildStopped
  <2>1. /\ sh.k \in DOMAIN sh.kids /\ proc[p].st = "stopped"
        /\ proc' = [proc EXCEPT ![p].evt = "none"]
        /\ table' = add_job(proc', table, p, "Stopped")
        /\ sh'.pc = "join" /\ statuses' = statuses /\ ret' = ret
    BY <1>0, <1>2 DEF ChildStopped, Thread
  <2>2. p \in Pid /\ \A k \in DOMAIN table : table[k].pgid # p
    BY <1>a, <1>b, <2>1
  <2> HIDE DEF p
  <2>3. (\A q \in Pid \ {p} : proc'[q] = proc[q]) /\ proc'[p].st = "stopped"
    <3>1. proc[p] \in Process /\ [proc[p] EXCEPT !.evt = "none"].st = "stopped"
      BY <1>0, <2>1, <2>2 DEF Shape, Process
    <3>2. QED
      BY <1>0, <2>1, <2>2, <3>1 DEF Shape
  <2>4. ASSUME NEW k \in DOMAIN table' PROVE Shows(proc', sh', table'[k])
    <3>1. CASE table'[k].pgid = p /\ table'[k].state = "Stopped"
      BY <2>3, <3>1 DEF Shows
    <3>2. CASE \E i \in DOMAIN table : table'[k] = table[i]
      <4>1. PICK i \in DOMAIN table : table'[k] = table[i]
        BY <3>2
      <4>2. proc'[table[i].pgid] = proc[table[i].pgid] /\ Shows(proc, sh, table[i])
        BY <1>b, <2>2, <2>3
      <4>3. QED
        BY <1>a, <4>1, <4>2 DEF Shows
    <3>3. /\ table \in Seq(Job) /\ p \in Pid /\ k \in DOMAIN table'
          /\ table' = add_job(proc', table, p, "Stopped")
      BY <1>b, <2>1, <2>2, <2>4
    <3>4. "Stopped" \in {"Running", "Stopped"}
      OBVIOUS
    <3>5. \/ table'[k].pgid = p /\ table'[k].state = "Stopped"
          \/ \E i \in DOMAIN table : table'[k] = table[i]
      BY <3>3, <3>4, AddedJob
    <3>6. QED
      BY <3>1, <3>2, <3>5
  <2>5. TrueCodes(proc', statuses')
    BY <1>b, <1>c, <2>1, <2>2, <2>3 DEF TrueCodes
  <2>6. QED
    BY <1>0, <2>1, <2>4, <2>5 DEF Entries, Recorded, WaitStatus
<1>3. CASE AllWaited
  <2>1. sh'.pc = "join" /\ proc' = proc /\ table' = table /\ statuses' = statuses /\ ret' = ret
    BY <1>0, <1>3 DEF AllWaited, Thread, kernel, jobVars
  <2>2. \A k \in DOMAIN table : Shows(proc, sh', table[k])
    BY <1>a, <1>b DEF Shows
  <2>3. QED
    BY <1>0, <1>b, <2>1, <2>2 DEF Entries, Recorded, WaitStatus
<1>4. QED
  BY <1>1, <1>2, <1>3

LEMMA TableStep ==
    ASSUME ~PidReuse
    PROVE  TableInv /\ [Next]_vars => TableInv'
<1> SUFFICES ASSUME TableInv, [Next]_vars PROVE TableInv'
  OBVIOUS
<1>0. PipelineInv /\ Shape /\ PipelineInv'
  BY PipelineStep DEF TableInv, PipelineInv
<1> SUFFICES Entries' /\ Recorded' /\ WaitStatus'
  BY <1>0 DEF TableInv
<1>1. CASE UNCHANGED vars
  <2>1. proc' = proc /\ UNCHANGED <<jobVars, sh, ret>>
    BY <1>1 DEF vars, jobVars
  <2>2. Moves /\ proc' = [p \in Pid |-> proc'[p]]
    BY <1>0, <2>1 DEF Moves, Shape
  <2>3. QED
    BY <2>1, <2>2, TableMeanwhile
<1>2. CASE Environment \/ Monitor
  BY <1>0, <1>2, OutsideMoves, TableMeanwhile
<1>3. CASE Prompt \/ Builtins
  BY <1>3, ReapSteps, WaitRounds, WaitJobStep, JobBuiltins DEF Builtins
<1>4. CASE Pipelines
  BY <1>4, SpawnTables, WaitTables, ReapSteps DEF Pipelines
<1>5. CASE NextByte \/ HereDoc \/ KeyByte
  <2>1. Entries /\ Recorded /\ WaitStatus
    BY DEF TableInv
  <2>2. sh'.pc \in {"prompt", "key", "read"}
    BY <1>5, KeyFrame DEF Idle
  <2>3. Entries'
    BY <1>5, <2>1, <2>2, KeyFrame DEF Entries, Shows
  <2>4. QED
    BY <1>5, <2>1, <2>2, <2>3, KeyFrame DEF Recorded, WaitStatus
<1>6. QED
  BY <1>1, <1>2, <1>3, <1>4, <1>5 DEF Next

LEMMA TableAlways ==
    ASSUME ~PidReuse
    PROVE  Spec => []TableInv
<1>1. TableInv /\ [Next]_vars => TableInv'
  BY TableStep
<1>2. QED
  BY TableInit, <1>1, PTL DEF Spec

\* As long as the pid counter has not wrapped, wait pid and wait -n, and wait %job
\* once it has found its job, return the exit code of a process waited for, no
\* matter which of the REPL, a foreground pipeline or another wait collected it.
THEOREM WaitAnswersTruly ==
    ASSUME ~PidReuse
    PROVE  Spec => []WaitStatus
<1>1. TableInv => WaitStatus
  BY DEF TableInv
<1>2. QED
  BY TableAlways, <1>1, PTL

\* As long as the pid counter has not wrapped, the table shows every job as its
\* process is, up to changes the kernel has not reported.
THEOREM JobsShownAccurately ==
    ASSUME ~PidReuse
    PROVE  Spec => []JobStateAccurate
<1>1. TableInv => JobStateAccurate
  BY DEF TableInv, Entries, Shows, JobStateAccurate, Live
<1>2. QED
  BY TableAlways, <1>1, PTL

=============================================================================
