----------------------------- MODULE BootProofs ------------------------------
(***************************************************************************)
(* Proofs about Boot: for every set of unit files the start order is       *)
(* topological, results are known where they are used, the main loop means *)
(* the target's services, and rescue mode stops every main process and     *)
(* every daemon whose cgroup it can kill.                                  *)
(***************************************************************************)
EXTENDS Boot, TLAPS, WellFoundedInduction, FiniteSetTheorems, SequenceTheorems

(***************************************************************************)
(* The inductive invariant                                                 *)
(***************************************************************************)

Loading  == {"early", "mode", "load"}
Ordering == {"order", "cycle"}
Starting == {"check", "start", "detect", "complete", "main"}
Ending   == {"rescue", "stopping", "emergency", "off"}

Known == DOMAIN units \cup UNION {sort_deps(units, n) : n \in DOMAIN units}
Frame == [n : DOMAIN units, deps : SUBSET Known]

Pc == {"begin", "main", "post", "stop", "ok", "inst", "failed"}

Shape ==
    /\ phase \in Loading \cup Ordering \cup {"depth"} \cup Starting \cup Ending
    /\ stack \in Seq(Frame)
    /\ order \in Seq(DOMAIN units)
    /\ services \in Seq(DOMAIN units)
    /\ depths \in [DOMAIN depths -> Nat]
    /\ di \in Nat \ {0} /\ changed \in BOOLEAN /\ layer \in Nat
    /\ started \in [DOMAIN started -> BOOLEAN]
    /\ thread \in [DOMAIN thread -> Pc]

\* Nothing is ordered before everything is loaded, nothing is started before
\* everything is ordered.
Fresh ==
    /\ phase \in Loading => stack = <<>> /\ open = {} /\ done = {} /\ order = <<>>
    /\ phase \in Loading \cup Ordering => depths = <<>>
    /\ phase \in Loading \cup Ordering \cup {"depth"} =>
         started = <<>> /\ thread = <<>> /\ child = <<>> /\ daemon = {} /\ services = <<>>

\* The depth-first search: what a name on the stack still waits for is in its
\* frame, or is the next name on the stack.
Search ==
    /\ \A i, j \in DOMAIN stack : i # j => stack[i].n # stack[j].n
    /\ open = {stack[i].n : i \in DOMAIN stack}
    /\ open \cap done = {}
    /\ done \cap DOMAIN units = InOrder
    /\ \A i \in DOMAIN stack : \A m \in sort_deps(units, stack[i].n) :
         m \in stack[i].deps \cup done \/ (i < Len(stack) /\ m = stack[i + 1].n)

Sorted ==
    /\ \A i, j \in DOMAIN order : i # j => order[i] # order[j]
    /\ \A i \in DOMAIN order : \A m \in sort_deps(units, order[i]) \cap DOMAIN units :
         \E j \in 1..(i - 1) : order[j] = m

\* n is deeper than what it depends on.
Deeper(n) == \A d \in depth_deps(units, n) \cap DOMAIN depths : depths[d] < depths[n]

\* A pass that has changed nothing so far leaves the right depths behind it.
Depths ==
    /\ DOMAIN depths \subseteq InOrder
    /\ \E b \in Nat : \A n \in DOMAIN depths : depths[n] <= b
    /\ phase = "depth" /\ ~changed =>
         \A j \in DOMAIN order : j < di => order[j] \in DOMAIN depths /\ Deeper(order[j])
    /\ phase \in Starting =>
         InOrder \subseteq DOMAIN depths /\ \A n \in InOrder : Deeper(n)

\* The results are those of the layers below.
Layers ==
    /\ phase \in Starting =>
         /\ DOMAIN started \subseteq InOrder
         /\ \A i \in DOMAIN services : services[i] \in DOMAIN started
    /\ phase = "check" => \A n \in InOrder : n \in DOMAIN started <=> depths[n] < layer
    /\ phase = "start" =>
         /\ DOMAIN thread \subseteq InOrder
         /\ \A n \in InOrder : n \in DOMAIN started \cup DOMAIN thread <=> depths[n] <= layer
         /\ \A n \in DOMAIN thread : depths[n] = layer /\ n \notin DOMAIN started
    /\ phase = "detect" => \A n \in InOrder : n \in DOMAIN started <=> depths[n] <= layer

Instanced(n) == \E i \in DOMAIN services : services[i] = n
Idle(n) == units[n].type = "target" \/ units[n].exec = "none" \/ ~units[n].cond

\* n was started: it is so still, or was seen to fail once it was an instance.
Reached(n) == n \in DOMAIN started /\ (started[n] \/ Instanced(n))
RequiredReached(n) == \A d \in units[n].requires \cap DOMAIN units : Reached(d)

Requirements ==
    /\ phase \in Starting =>
         \A n \in DOMAIN started : Reached(n) =>
            (Idle(n) \/ Instanced(n)) /\ RequiredReached(n)
    /\ phase = "start" =>
         \A n \in DOMAIN thread : RequiredReached(n) /\ (thread[n] = "ok" => Idle(n))
    /\ phase = "main" => Root \in DOMAIN started /\ started[Root]

\* The units with a process that rescue mode has to stop: the main process, or a
\* daemon in a cgroup that can be killed.
Alive == {n \in DOMAIN child : child[n] = "run"} \cup {n \in daemon : units[n].kill = "cgroup"}

\* n belongs to an instance or to a start thread.
Owned(n) ==
    \/ phase \in Starting \cup {"rescue", "stopping"} /\ Instanced(n)
    \/ phase = "start" /\ n \in DOMAIN thread /\ thread[n] \in {"post", "inst", "stop"}

\* Nothing of n is left to stop: it never forked, or its cgroup was killed.
Halted(n) ==
    \/ phase = "stopping" /\ n = services[Len(services)] /\ units[n].kill = "cgroup"
    \/ /\ phase = "start" /\ n \in DOMAIN thread
       /\ \/ thread[n] = "stop" /\ units[n].kill = "cgroup"
          \/ thread[n] = "post" /\ units[n].exec = "oneshot"

Processes ==
    /\ \A n \in Alive : Owned(n) /\ ~Halted(n)
    /\ \A n \in daemon : units[n].exec = "forking"
    /\ phase = "stopping" => services # <<>>

Inv == Shape /\ Fresh /\ Search /\ Sorted /\ Depths /\ Layers /\ Requirements /\ Processes

(***************************************************************************)
(* Maps and numbers                                                        *)
(***************************************************************************)

LEMMA OverFacts ==
    ASSUME NEW g, NEW f
    PROVE  /\ DOMAIN Over(g, f) = DOMAIN g \cup DOMAIN f
           /\ \A x \in DOMAIN g : Over(g, f)[x] = g[x]
           /\ \A x \in DOMAIN f \ DOMAIN g : Over(g, f)[x] = f[x]
           /\ Over(g, f) = [x \in DOMAIN Over(g, f) |-> Over(g, f)[x]]
BY DEF Over

LEMMA PutFacts ==
    ASSUME NEW f, NEW n, NEW v
    PROVE  /\ DOMAIN Put(f, n, v) = DOMAIN f \cup {n}
           /\ Put(f, n, v)[n] = v
           /\ \A x \in DOMAIN f \ {n} : Put(f, n, v)[x] = f[x]
           /\ Put(f, n, v) = [x \in DOMAIN Put(f, n, v) |-> Put(f, n, v)[x]]
BY DEF Put

\* The least number principle for a set, from the well-foundedness of <.
LEMMA Least ==
    ASSUME NEW T \in SUBSET Nat, T # {}
    PROVE  \E x \in T : \A y \in T : x <= y
<1>1. IsWellFoundedOn(OpToRel(<, Nat), Nat)
  BY NatLessThanWellFounded
<1>2. PICK x \in T : \A y \in T : ~(<<y, x>> \in OpToRel(<, Nat))
  BY <1>1, WFMin
<1>3. \A y \in T : ~(y < x)
  BY <1>2 DEF OpToRel
<1>4. QED
  BY <1>3

\* A bounded set of numbers has a greatest one, which CHOOSE finds.
LEMMA Greatest ==
    ASSUME NEW T \in SUBSET Nat, T # {}, NEW b \in Nat, \A x \in T : x <= b
    PROVE  LET m == CHOOSE x \in T : \A k \in T : k <= x
           IN  m \in T /\ \A k \in T : k <= m
<1> DEFINE gap == {k \in Nat : \E x \in T : k = b - x}
<1>1. gap # {}
  <2>1. PICK x \in T : TRUE
    OBVIOUS
  <2>2. b - x \in gap
    BY <2>1
  <2>3. QED
    BY <2>2
<1>2. PICK g \in gap : \A y \in gap : g <= y
  BY <1>1, Least
<1>3. PICK x \in T : g = b - x
  OBVIOUS
<1>4. \A k \in T : b - k \in gap
  OBVIOUS
<1> HIDE DEF gap
<1>5. ASSUME NEW k \in T PROVE k <= x
  <2>1. b - x <= b - k
    BY <1>2, <1>3, <1>4
  <2>2. QED
    BY <2>1
<1>6. QED
  BY <1>5

\* The units of the start order are finitely many.
LEMMA InOrderFinite ==
    ASSUME order \in Seq(DOMAIN units)
    PROVE  IsFiniteSet(InOrder)
<1>1. IsFiniteSet(1..Len(order))
  BY FS_Interval
<1>2. order \in Surjection(1..Len(order), InOrder)
  BY DEF InOrder, Surjection
<1>3. QED
  BY <1>1, <1>2, FS_Surjection

(***************************************************************************)
(* Steps that start and order nothing                                      *)
(***************************************************************************)

LEMMA InitInv == Init => Inv
<1> SUFFICES ASSUME Init PROVE Inv
  OBVIOUS
<1>0. /\ phase = "early" /\ stack = <<>> /\ order = <<>> /\ services = <<>>
      /\ depths = <<>> /\ started = <<>> /\ thread = <<>>
      /\ di \in Nat \ {0} /\ layer \in Nat
  BY DEF Init
<1>1. changed \in BOOLEAN
  BY Zenon DEF Init
<1>2. Shape
  BY <1>0, <1>1 DEF Shape, Loading
<1> USE DEF Init
<1>3. Fresh
  BY DEF Fresh
<1>4. Search /\ Sorted
  <2>1. InOrder = {}
    BY DEF InOrder
  <2>2. QED
    BY <2>1 DEF Search, Sorted
<1>5. Depths
  BY DEF Depths, Starting
<1>6. Layers /\ Requirements /\ Processes
  BY DEF Layers, Requirements, Processes, Alive, Starting
<1>7. QED
  BY <1>2, <1>3, <1>4, <1>5, <1>6 DEF Inv

LEMMA SearchKept ==
    ASSUME Search, Sorted, UNCHANGED <<units, orderVars>>
    PROVE  Search' /\ Sorted'
BY DEF Search, Sorted, orderVars, sort_deps, InOrder

\* Only phase moves.
Drift ==
    /\ UNCHANGED <<units, orderVars, depthVars, startVars>>
    /\ \/ phase' = phase
       \/ phase = "early" /\ phase' = "mode"
       \/ phase = "mode" /\ phase' \in {"load", "emergency"}
       \/ phase = "cycle" /\ phase' = "emergency"
       \/ phase = "complete" /\ phase' = "rescue"
       \/ phase = "complete" /\ phase' = "main" /\ Root \in DOMAIN started /\ started[Root]
       \/ phase = "emergency" /\ phase' = "off"

LEMMA DriftInv == Inv /\ Drift => Inv'
<1> SUFFICES ASSUME Inv, Drift PROVE Inv'
  OBVIOUS
<1> USE DEF Inv, Drift, orderVars, depthVars, startVars
<1>1. Shape'
  BY DEF Shape, Frame, Known, sort_deps, Loading, Ordering, Starting, Ending
<1>2. Fresh'
  BY DEF Fresh, Loading, Ordering
<1>3. Search' /\ Sorted'
  BY SearchKept
<1>4. Depths'
  BY DEF Depths, Deeper, depth_deps, sort_deps, InOrder, Starting
<1>5. Layers'
  BY DEF Layers, InOrder, Starting
<1>6. Requirements'
  BY DEF Requirements, RequiredReached, Reached, Instanced, Idle, Starting
<1>7. Processes'
  BY DEF Processes, Alive, Owned, Halted, Fresh, Instanced, Starting, Loading, Ordering
<1>8. QED
  BY <1>1, <1>2, <1>3, <1>4, <1>5, <1>6, <1>7

LEMMA DriftSteps ==
    ASSUME Signal \/ ShellExits \/ EarlyRoot \/ BootMode \/ LoadDir \/ CycleFound
             \/ Complete \/ EmergencyTop \/ EmergencyPoll \/ UNCHANGED vars
    PROVE  Drift
BY DEF Signal, ShellExits, EarlyRoot, BootMode, LoadDir, CycleFound, Complete,
       EmergencyTop, EmergencyPoll, vars, loadVars, Drift

\* While the files are read only the table of units changes.
LEMMA LoadEntryInv == Inv /\ LoadEntry => Inv'
<1> SUFFICES ASSUME Inv, LoadEntry PROVE Inv'
  OBVIOUS
<1>1. /\ phase = "load" /\ phase' = "load"
      /\ UNCHANGED <<orderVars, depthVars, startVars>>
  BY DEF LoadEntry
<1>2. /\ stack' = <<>> /\ open' = {} /\ done' = {} /\ order' = <<>> /\ depths' = <<>>
      /\ started' = <<>> /\ thread' = <<>> /\ child' = <<>> /\ daemon' = {} /\ services' = <<>>
      /\ di' \in Nat \ {0} /\ changed' \in BOOLEAN /\ layer' \in Nat
  BY <1>1 DEF Inv, Fresh, Shape, orderVars, depthVars, startVars, Loading
<1>3. InOrder' = {}
  BY <1>2 DEF InOrder
<1>4. Shape'
  BY <1>1, <1>2 DEF Shape, Loading
<1>5. Fresh' /\ Layers' /\ Requirements' /\ Processes'
  BY <1>1, <1>2 DEF Fresh, Layers, Requirements, Processes, Alive, Starting
<1>6. Search' /\ Sorted'
  BY <1>2, <1>3 DEF Search, Sorted
<1>7. Depths'
  BY <1>1, <1>2 DEF Depths, Starting
<1>8. QED
  BY <1>4, <1>5, <1>6, <1>7 DEF Inv

\* The search begins.
LEMMA LoadDoneInv == Inv /\ LoadDone => Inv'
<1> SUFFICES ASSUME Inv, LoadDone PROVE Inv'
  OBVIOUS
<1>1. /\ phase = "load" /\ phase' = "order" /\ order' = <<>>
      /\ UNCHANGED <<depthVars, startVars>>
  BY DEF LoadDone
<1>2. /\ depths' = <<>>
      /\ started' = <<>> /\ thread' = <<>> /\ child' = <<>> /\ daemon' = {} /\ services' = <<>>
      /\ di' \in Nat \ {0} /\ changed' \in BOOLEAN /\ layer' \in Nat
  BY <1>1 DEF Inv, Fresh, Shape, depthVars, startVars, Loading
<1>3. InOrder' = {}
  BY <1>1 DEF InOrder
<1>4. Fresh' /\ Layers' /\ Requirements' /\ Processes'
  BY <1>1, <1>2 DEF Fresh, Layers, Requirements, Processes, Alive, Starting, Loading
<1>5. Depths'
  BY <1>1, <1>2 DEF Depths, Starting
<1>6. Sorted'
  BY <1>1 DEF Sorted
<1>7. Shape' /\ Search'
  <2>1. CASE Root \in DOMAIN units'
    <3> DEFINE fr == [n |-> Root, deps |-> sort_deps(units', Root)]
    <3>1. stack' = <<fr>> /\ open' = {Root} /\ done' = {}
      BY <2>1 DEF LoadDone
    <3>2. fr \in Frame'
      BY <2>1 DEF Frame, Known
    <3>3. Shape'
      BY <1>1, <1>2, <3>1, <3>2 DEF Shape, Ordering
    <3>4. Search'
      BY <1>3, <3>1 DEF Search
    <3>5. QED
      BY <3>3, <3>4
  <2>2. CASE Root \notin DOMAIN units'
    <3>1. stack' = <<>> /\ open' = {} /\ done' = {Root}
      BY <2>2 DEF LoadDone
    <3>2. Shape' /\ Search'
      BY <1>1, <1>2, <1>3, <2>2, <3>1 DEF Shape, Search, Ordering
    <3>3. QED
      BY <3>2
  <2>3. QED
    BY <2>1, <2>2
<1>8. QED
  BY <1>4, <1>5, <1>6, <1>7 DEF Inv

(***************************************************************************)
(* compute_start_order                                                     *)
(***************************************************************************)

\* A step of the search leaves depths and results empty, as they were.
LEMMA OrderingFrame ==
    ASSUME Inv, phase = "order", phase' \in {"order", "cycle"},
           UNCHANGED <<depthVars, startVars>>
    PROVE  /\ Fresh' /\ Depths' /\ Layers' /\ Requirements' /\ Processes'
           /\ stack' \in Seq(Frame)' /\ order' \in Seq(DOMAIN units)' => Shape'
<1>1. /\ depths' = <<>>
      /\ started' = <<>> /\ thread' = <<>> /\ child' = <<>> /\ daemon' = {} /\ services' = <<>>
      /\ di' \in Nat \ {0} /\ changed' \in BOOLEAN /\ layer' \in Nat
  BY DEF Inv, Fresh, Shape, depthVars, startVars, Ordering
<1>2. Fresh' /\ Layers' /\ Requirements' /\ Processes'
  BY <1>1 DEF Fresh, Layers, Requirements, Processes, Alive, Starting, Loading
<1>3. Depths'
  BY <1>1 DEF Depths, Starting
<1>4. stack' \in Seq(Frame)' /\ order' \in Seq(DOMAIN units)' => Shape'
  BY <1>1 DEF Shape, Ordering
<1>5. QED
  BY <1>2, <1>3, <1>4

\* The frame on top with d taken from its dependencies.
LEMMA RestFacts ==
    ASSUME NEW F, NEW N, F = [n : N, deps : SUBSET Known],
           stack \in Seq(F), stack # <<>>, NEW d, NEW rest,
           rest = [stack EXCEPT ![Len(stack)].deps = @ \ {d}]
    PROVE  /\ rest \in Seq(F) /\ Len(rest) = Len(stack) /\ DOMAIN rest = DOMAIN stack
           /\ Len(stack) \in DOMAIN stack
           /\ \A i \in DOMAIN stack : rest[i].n = stack[i].n
           /\ \A i \in DOMAIN stack \ {Len(stack)} : rest[i] = stack[i]
           /\ rest[Len(stack)].deps = stack[Len(stack)].deps \ {d}
<1> DEFINE k == Len(stack)
           top == [stack[k] EXCEPT !.deps = @ \ {d}]
<1>1. k \in DOMAIN stack /\ k \in Nat /\ stack[k] \in F
  <2>1. stack \in Seq(F) /\ stack # <<>>
    OBVIOUS
  <2>2. k \in Nat /\ k # 0 /\ DOMAIN stack = 1..k
    BY <2>1
  <2>3. k \in 1..Len(stack)
    BY <2>2
  <2>4. stack[k] \in F
    BY <2>1, <2>3, ElementOfSeq
  <2>5. QED
    BY <2>2, <2>4
<1>2. rest = [stack EXCEPT ![k] = top]
  BY <1>1
<1>3. top \in F /\ top.n = stack[k].n /\ top.deps = stack[k].deps \ {d}
  BY <1>1
<1> HIDE DEF top
<1>4. rest \in Seq(F) /\ Len(rest) = k /\ DOMAIN rest = DOMAIN stack
  BY <1>1, <1>2, <1>3
<1>5. \A i \in DOMAIN stack : rest[i] = IF i = k THEN top ELSE stack[i]
  BY <1>1, <1>2
<1>6. QED
  BY <1>1, <1>3, <1>4, <1>5

LEMMA VisitInv == Inv /\ Visit => Inv'
<1> SUFFICES ASSUME Inv, Visit PROVE Inv'
  OBVIOUS
<1>1. /\ phase = "order" /\ stack # <<>> /\ phase' \in {"order", "cycle"}
      /\ UNCHANGED <<units, order, depthVars, startVars>>
  BY DEF Visit, loadVars
<1>2. Sorted'
  BY <1>1 DEF Inv, Sorted, sort_deps
<1>3. order' \in Seq(DOMAIN units)' /\ Frame' = Frame /\ InOrder' = InOrder
  BY <1>1 DEF Inv, Shape, Frame, Known, sort_deps, InOrder
<1> DEFINE k == Len(stack)
<1>4. PICK d \in stack[k].deps :
         LET rest == [stack EXCEPT ![Len(stack)].deps = @ \ {d}]
         IN  \/ d \in done /\ stack' = rest /\ UNCHANGED <<phase, open, done>>
             \/ d \in open /\ phase' = "cycle" /\ UNCHANGED <<stack, open, done>>
             \/ /\ d \notin done \cup open /\ d \notin DOMAIN units
                /\ stack' = rest /\ done' = done \cup {d}
                /\ UNCHANGED <<phase, open>>
             \/ /\ d \notin done \cup open /\ d \in DOMAIN units
                /\ stack' = Append(rest, [n |-> d, deps |-> sort_deps(units, d)])
                /\ open' = open \cup {d} /\ UNCHANGED <<phase, done>>
  BY DEF Visit, Top
<1> DEFINE rest == [stack EXCEPT ![Len(stack)].deps = @ \ {d}]
<1>5. /\ rest \in Seq(Frame) /\ Len(rest) = k /\ DOMAIN rest = DOMAIN stack
      /\ k \in DOMAIN stack
      /\ \A i \in DOMAIN stack : rest[i].n = stack[i].n
      /\ \A i \in DOMAIN stack \ {k} : rest[i] = stack[i]
      /\ rest[k].deps = stack[k].deps \ {d}
  <2>1. stack \in Seq(Frame)
    BY DEF Inv, Shape
  <2>2. QED
    BY <1>1, <2>1, RestFacts DEF Frame
<1>6. k \in Nat /\ DOMAIN stack = 1..k /\ stack \in Seq(Frame)
  BY DEF Inv, Shape
<1>s. Search
  BY DEF Inv
<1>7. sort_deps(units', d) = sort_deps(units, d)
      /\ \A n : sort_deps(units', n) = sort_deps(units, n)
  BY <1>1
<1> HIDE DEF rest, k
<1>8. CASE d \in done /\ stack' = rest /\ UNCHANGED <<phase, open, done>>
  <2>1. \A i, j \in DOMAIN stack' : i # j => stack'[i].n # stack'[j].n
    BY <1>5, <1>8, <1>s DEF Search
  <2>2. open' = {stack'[i].n : i \in DOMAIN stack'}
    BY <1>5, <1>8, <1>s DEF Search
  <2>3. open' \cap done' = {} /\ done' \cap DOMAIN units' = InOrder'
    BY <1>1, <1>3, <1>8, <1>s DEF Search
  <2>4. ASSUME NEW i \in DOMAIN stack', NEW m \in sort_deps(units', stack'[i].n)
        PROVE  m \in stack'[i].deps \cup done' \/ (i < Len(stack') /\ m = stack'[i + 1].n)
    BY <1>5, <1>6, <1>7, <1>8, <1>s DEF Search
  <2>5. Search'
    BY <2>1, <2>2, <2>3, <2>4 DEF Search
  <2>6. QED
    BY <1>1, <1>2, <1>3, <1>5, <1>8, <2>5, OrderingFrame DEF Inv
<1>9. CASE d \in open /\ phase' = "cycle" /\ UNCHANGED <<stack, open, done>>
  <2>1. Search' /\ Sorted'
    BY <1>1, <1>9, SearchKept DEF orderVars, Inv
  <2>2. QED
    BY <1>1, <1>3, <1>6, <1>9, <2>1, OrderingFrame DEF Inv
<1>10. CASE /\ d \notin done \cup open /\ d \notin DOMAIN units
            /\ stack' = rest /\ done' = done \cup {d} /\ UNCHANGED <<phase, open>>
  <2>1. Search'
    BY <1>1, <1>3, <1>5, <1>6, <1>7, <1>10, <1>s DEF Search
  <2>2. QED
    BY <1>1, <1>2, <1>3, <1>5, <1>10, <2>1, OrderingFrame DEF Inv
<1>11. CASE /\ d \notin done \cup open /\ d \in DOMAIN units
            /\ stack' = Append(rest, [n |-> d, deps |-> sort_deps(units, d)])
            /\ open' = open \cup {d} /\ UNCHANGED <<phase, done>>
  <2> DEFINE fr == [n |-> d, deps |-> sort_deps(units, d)]
  <2>1. fr \in Frame
    BY <1>11 DEF Frame, Known
  <2>2. /\ stack' \in Seq(Frame) /\ Len(stack') = k + 1 /\ DOMAIN stack' = 1..(k + 1)
        /\ stack'[k + 1] = fr /\ \A i \in 1..k : stack'[i] = rest[i]
    BY <1>5, <1>6, <1>11, <2>1
  <2>3. fr.n = d /\ fr.deps = sort_deps(units, d)
    OBVIOUS
  <2> HIDE DEF fr
  <2>4. \A i, j \in DOMAIN stack' : i # j => stack'[i].n # stack'[j].n
    BY <1>5, <1>6, <1>11, <2>2, <2>3, <1>s DEF Search
  <2>5. open' = {stack'[i].n : i \in DOMAIN stack'}
    BY <1>5, <1>6, <1>11, <2>2, <2>3, <1>s DEF Search
  <2>6. open' \cap done' = {} /\ done' \cap DOMAIN units' = InOrder'
    BY <1>1, <1>3, <1>11, <1>s DEF Search
  <2>7. ASSUME NEW i \in DOMAIN stack', NEW m \in sort_deps(units', stack'[i].n)
        PROVE  m \in stack'[i].deps \cup done' \/ (i < Len(stack') /\ m = stack'[i + 1].n)
    <3>1. CASE i = k + 1
      BY <1>7, <2>2, <2>3, <3>1
    <3>2. CASE i = k
      BY <1>5, <1>6, <1>7, <1>11, <2>2, <2>3, <3>2, <1>s DEF Search
    <3>3. CASE i \in 1..(k - 1)
      BY <1>5, <1>6, <1>7, <1>11, <2>2, <3>3, <1>s DEF Search
    <3>4. QED
      BY <1>6, <2>2, <3>1, <3>2, <3>3
  <2>8. Search'
    BY <2>4, <2>5, <2>6, <2>7 DEF Search
  <2>9. QED
    BY <1>1, <1>2, <1>3, <1>11, <2>2, <2>8, OrderingFrame DEF Inv
<1>12. QED
  BY <1>4, <1>8, <1>9, <1>10, <1>11 DEF rest

LEMMA VisitedInv == Inv /\ Visited => Inv'
<1> SUFFICES ASSUME Inv, Visited PROVE Inv'
  OBVIOUS
<1> DEFINE k == Len(stack)
           o == Len(order)
           top == stack[k].n
<1>1. /\ phase = "order" /\ stack # <<>> /\ phase' = "order" /\ stack[k].deps = {}
      /\ order' = Append(order, top) /\ done' = done \cup {top} /\ open' = open \ {top}
      /\ stack' = SubSeq(stack, 1, k - 1)
      /\ UNCHANGED <<units, depthVars, startVars>>
  BY DEF Visited, loadVars, Top
<1>2. /\ stack \in Seq(Frame) /\ order \in Seq(DOMAIN units)
      /\ Search /\ Sorted
  BY DEF Inv, Shape
<1>3. k \in Nat /\ k # 0 /\ DOMAIN stack = 1..k /\ o \in Nat /\ DOMAIN order = 1..o
  BY <1>1, <1>2
<1>4. stack[k] \in Frame /\ top \in DOMAIN units
  <2>1. k \in 1..Len(stack)
    BY <1>3
  <2>2. stack[k] \in Frame
    BY <1>2, <2>1, ElementOfSeq
  <2>3. QED
    BY <2>2 DEF Frame
<1>5. Frame' = Frame /\ \A n : sort_deps(units', n) = sort_deps(units, n)
  BY <1>1 DEF Frame, Known
<1>6. /\ stack' \in Seq(Frame) /\ Len(stack') = k - 1 /\ DOMAIN stack' = 1..(k - 1)
      /\ \A i \in 1..(k - 1) : stack'[i] = stack[i]
  BY <1>1, <1>2, <1>3
<1>7. /\ order' \in Seq(DOMAIN units) /\ Len(order') = o + 1 /\ DOMAIN order' = 1..(o + 1)
      /\ order'[o + 1] = top /\ \A i \in 1..o : order'[i] = order[i]
  BY <1>1, <1>2, <1>3, <1>4
<1>8. top \in open /\ top \notin done
  BY <1>2, <1>3 DEF Search
<1> HIDE DEF k, o, top
<1>9. InOrder' = InOrder \cup {top} /\ InOrder = done \cap DOMAIN units
  BY <1>2, <1>3, <1>7 DEF InOrder, Search
<1>10. Search'
  <2>1. \A i, j \in DOMAIN stack' : i # j => stack'[i].n # stack'[j].n
    BY <1>2, <1>3, <1>6 DEF Search
  <2>2. open' = {stack'[i].n : i \in DOMAIN stack'}
    <3>1. \A i \in 1..(k - 1) : stack[i].n # top
      BY <1>2, <1>3 DEF Search, top
    <3>2. \A i \in 1..k : i = k \/ i \in 1..(k - 1)
      BY <1>3
    <3>3. open = {stack[i].n : i \in 1..k} /\ top = stack[k].n
      BY <1>2, <1>3 DEF Search, top
    <3>4. open' = {stack[i].n : i \in 1..(k - 1)}
      BY <1>1, <1>3, <3>1, <3>2, <3>3
    <3>5. QED
      BY <1>6, <3>4
  <2>3. open' \cap done' = {} /\ done' \cap DOMAIN units' = InOrder'
    BY <1>1, <1>2, <1>4, <1>9 DEF Search
  <2>4. ASSUME NEW i \in DOMAIN stack', NEW m \in sort_deps(units', stack'[i].n)
        PROVE  m \in stack'[i].deps \cup done' \/ (i < Len(stack') /\ m = stack'[i + 1].n)
    <3>1. m \in stack[i].deps \cup done \/ m = stack[i + 1].n
      BY <1>2, <1>3, <1>5, <1>6 DEF Search
    <3>2. CASE i = k - 1
      BY <1>1, <1>3, <1>6, <3>1, <3>2 DEF top
    <3>3. CASE i # k - 1
      BY <1>1, <1>3, <1>6, <3>1, <3>3
    <3>4. QED
      BY <3>2, <3>3
  <2>5. QED
    BY <2>1, <2>2, <2>3, <2>4 DEF Search
<1>11. Sorted'
  <2>1. \A i \in 1..o : order[i] # top
    BY <1>3, <1>8, <1>9 DEF InOrder
  <2>2. \A i, j \in DOMAIN order' : i # j => order'[i] # order'[j]
    BY <1>2, <1>3, <1>7, <2>1 DEF Sorted
  <2>3. ASSUME NEW i \in DOMAIN order',
               NEW m \in sort_deps(units', order'[i]) \cap DOMAIN units'
        PROVE  \E j \in 1..(i - 1) : order'[j] = m
    <3>1. CASE i = o + 1
      <4>1. m \in sort_deps(units, top) /\ m \in DOMAIN units
        BY <1>1, <1>5, <1>7, <3>1
      <4>2. m \in done
        <5>1. m \in stack[k].deps \cup done \/ k < Len(stack)
          BY <1>2, <1>3, <4>1 DEF Search, top
        <5>2. QED
          BY <1>1, <1>3, <5>1 DEF k
      <4>3. PICK j \in 1..o : order[j] = m
        BY <1>3, <1>9, <4>1, <4>2 DEF InOrder
      <4>4. QED
        BY <1>3, <1>7, <3>1, <4>3
    <3>2. CASE i \in 1..o
      <4>1. PICK j \in 1..(i - 1) : order[j] = m
        BY <1>1, <1>2, <1>3, <1>5, <1>7, <3>2 DEF Sorted
      <4>2. QED
        BY <1>3, <1>7, <3>2, <4>1
    <3>3. QED
      BY <1>3, <1>7, <3>1, <3>2
  <2>4. QED
    BY <2>2, <2>3 DEF Sorted
<1>12. QED
  BY <1>1, <1>5, <1>6, <1>7, <1>10, <1>11, OrderingFrame DEF Inv

LEMMA OrderedInv == Inv /\ Ordered => Inv'
<1> SUFFICES ASSUME Inv, Ordered PROVE Inv'
  OBVIOUS
<1>1. /\ phase = "order" /\ phase' = "depth" /\ di' = 1 /\ depths' = <<>>
      /\ UNCHANGED <<units, orderVars, startVars>>
  BY DEF Ordered, loadVars
<1>2. changed' \in BOOLEAN
  BY Zenon DEF Ordered
<1>3. /\ started' = <<>> /\ thread' = <<>> /\ child' = <<>> /\ daemon' = {} /\ services' = <<>>
      /\ layer' \in Nat
  BY <1>1 DEF Inv, Fresh, Shape, startVars, Ordering
<1>4. Shape'
  BY <1>1, <1>2, <1>3 DEF Inv, Shape, Frame, Known, orderVars
<1>5. Fresh' /\ Layers' /\ Requirements' /\ Processes'
  BY <1>1, <1>3 DEF Fresh, Layers, Requirements, Processes, Alive, Starting, Loading, Ordering
<1>6. Depths'
  <2>1. order' \in Seq(DOMAIN units')
    BY <1>4 DEF Shape
  <2>2. \A j \in DOMAIN order' : ~(j < di')
    BY <1>1, <2>1
  <2>3. QED
    BY <1>1, <2>2 DEF Depths, Starting
<1>7. Search' /\ Sorted'
  BY <1>1, SearchKept DEF Inv
<1>8. QED
  BY <1>4, <1>5, <1>6, <1>7 DEF Inv

(***************************************************************************)
(* compute_depths                                                          *)
(***************************************************************************)

\* A new depth is above the depths it is computed from, and by one at most.
LEMMA NewDepthFacts ==
    ASSUME depths \in [DOMAIN depths -> Nat], NEW b \in Nat, NEW n,
           \A m \in DOMAIN depths : depths[m] <= b
    PROVE  /\ NewDepth(n) \in 0..(b + 1)
           /\ \A d \in depth_deps(units, n) \cap DOMAIN depths : depths[d] < NewDepth(n)
<1> DEFINE known == {depths[d] : d \in depth_deps(units, n) \cap DOMAIN depths}
<1>1. known \in SUBSET Nat /\ \A x \in known : x <= b
  OBVIOUS
<1>2. CASE known = {}
  <2>1. NewDepth(n) = 0
    BY <1>2 DEF NewDepth
  <2>2. QED
    BY <1>2, <2>1
<1>3. CASE known # {}
  <2> DEFINE m == CHOOSE x \in known : \A k \in known : k <= x
  <2>1. NewDepth(n) = 1 + m
    BY <1>3 DEF NewDepth
  <2>2. m \in known /\ \A k \in known : k <= m
    BY <1>1, <1>3, Greatest
  <2>3. \A d \in depth_deps(units, n) \cap DOMAIN depths : depths[d] \in known
    OBVIOUS
  <2> HIDE DEF m, known
  <2>4. QED
    BY <1>1, <2>1, <2>2, <2>3
<1>4. QED
  BY <1>2, <1>3

\* The steps of compute_depths leave the rest as it was.
LEMMA DepthFrame ==
    ASSUME Inv, phase = "depth", phase' \in {"depth", "check"},
           UNCHANGED <<units, orderVars, started, thread, child, daemon, services>>
    PROVE  /\ Fresh' /\ Search' /\ Sorted' /\ Requirements' /\ Processes'
           /\ started' = <<>> /\ services' = <<>>
           /\ depths' \in [DOMAIN depths' -> Nat] /\ di' \in Nat \ {0}
                /\ changed' \in BOOLEAN /\ layer' \in Nat => Shape'
<1>1. started' = <<>> /\ thread' = <<>> /\ child' = <<>> /\ daemon' = {} /\ services' = <<>>
  BY DEF Inv, Fresh
<1>2. Fresh' /\ Requirements' /\ Processes'
  BY <1>1 DEF Fresh, Requirements, Processes, Alive, Loading, Ordering
<1>3. Search' /\ Sorted'
  BY SearchKept DEF Inv
<1>4. ASSUME depths' \in [DOMAIN depths' -> Nat], di' \in Nat \ {0},
             changed' \in BOOLEAN, layer' \in Nat
      PROVE  Shape'
  BY <1>1, <1>4 DEF Inv, Shape, Frame, Known, orderVars, Starting
<1>5. QED
  BY <1>1, <1>2, <1>3, <1>4

LEMMA DepthStepInv == Inv /\ DepthStep => Inv'
<1> SUFFICES ASSUME Inv, DepthStep PROVE Inv'
  OBVIOUS
<1> DEFINE n == order[di]
           v == NewDepth(n)
<1>1. /\ phase = "depth" /\ phase' = "depth" /\ di' = di + 1 /\ di <= Len(order)
      /\ depths' = Put(depths, n, v)
      /\ UNCHANGED <<units, orderVars, startVars>>
  BY DEF DepthStep, loadVars
<1>2. changed' = (changed \/ n \notin DOMAIN depths \/ depths[n] # v)
  BY DEF DepthStep
<1>3. changed' \in BOOLEAN
  BY Zenon, <1>2
<1>4. /\ depths \in [DOMAIN depths -> Nat] /\ di \in Nat \ {0} /\ order \in Seq(DOMAIN units)
      /\ layer' \in Nat /\ Depths
  BY <1>1 DEF Inv, Shape, startVars
<1>5. PICK b \in Nat : \A m \in DOMAIN depths : depths[m] <= b
  BY <1>4 DEF Depths
<1>6. /\ v \in 0..(b + 1)
      /\ \A d \in depth_deps(units, n) \cap DOMAIN depths : depths[d] < v
  BY <1>4, <1>5, NewDepthFacts
<1> HIDE DEF v, n
<1>7. /\ depths' \in [DOMAIN depths' -> Nat]
      /\ \A m \in DOMAIN depths' : depths'[m] <= b + 1
  BY <1>1, <1>4, <1>5, <1>6 DEF Put
<1>8. ASSUME ~changed', NEW j \in DOMAIN order', j < di'
      PROVE  order'[j] \in DOMAIN depths' /\ Deeper(order[j])'
  <2>1. ~changed /\ n \in DOMAIN depths /\ depths[n] = v
    BY <1>2, <1>8
  <2>2. depths' = depths
    BY <1>1, <1>4, <2>1 DEF Put
  <2>3. CASE j < di
    BY <1>1, <1>4, <1>8, <2>1, <2>2, <2>3 DEF Depths, Deeper, orderVars
  <2>4. CASE j = di
    BY <1>1, <1>6, <2>1, <2>2, <2>4 DEF Deeper, orderVars, n
  <2>5. QED
    BY <1>1, <1>4, <1>8, <2>3, <2>4 DEF orderVars
<1>9. Depths'
  <2>1. b + 1 \in Nat
    OBVIOUS
  <2>2. n \in InOrder
    BY <1>1, <1>4 DEF InOrder, n
  <2>3. DOMAIN depths' \subseteq InOrder'
    BY <1>1, <1>4, <2>2 DEF Depths, Put, InOrder, orderVars
  <2>4. QED
    BY <1>1, <1>7, <1>8, <2>1, <2>3 DEF Depths, Starting
<1>10. Layers'
  BY <1>1 DEF Layers, Starting
<1>11. di' \in Nat \ {0}
  BY <1>1, <1>4
<1>12. QED
  BY <1>1, <1>3, <1>4, <1>7, <1>9, <1>10, <1>11, DepthFrame DEF Inv, startVars

LEMMA DepthPassInv == Inv /\ DepthPass => Inv'
<1> SUFFICES ASSUME Inv, DepthPass PROVE Inv'
  OBVIOUS
<1>1. /\ phase = "depth" /\ phase' \in {"depth", "check"} /\ di > Len(order)
      /\ UNCHANGED <<units, depths, orderVars, started, thread, child, daemon, services>>
  BY DEF DepthPass, loadVars, depthVars
<1>2. changed \in BOOLEAN /\ changed' \in BOOLEAN
  <2>1. changed \in BOOLEAN
    BY DEF Inv, Shape
  <2>2. changed' = FALSE \/ changed' = changed
    BY DEF DepthPass, depthVars
  <2>3. QED
    BY Zenon, <2>1, <2>2
<1>3. /\ depths \in [DOMAIN depths -> Nat] /\ di \in Nat \ {0} /\ order \in Seq(DOMAIN units)
      /\ layer \in Nat /\ Depths
  BY DEF Inv, Shape
<1>4. di' \in Nat \ {0} /\ layer' \in Nat
  BY <1>3 DEF DepthPass, depthVars
<1>5. depths' \in [DOMAIN depths' -> Nat]
  BY <1>1, <1>3
<1>6. started' = <<>> /\ services' = <<>>
  BY <1>1, DepthFrame
<1>7. CASE changed
  <2>1. phase' = "depth" /\ di' = 1
    BY <1>7 DEF DepthPass
  <2>2. Layers'
    BY <2>1 DEF Layers, Starting
  <2>3. \A j \in DOMAIN order' : ~(j < di')
    BY <1>1, <1>3, <2>1 DEF orderVars
  <2>4. Depths'
    BY <1>1, <1>3, <2>1, <2>3 DEF Depths, Starting, InOrder, orderVars
  <2>5. QED
    BY <1>1, <1>2, <1>4, <1>5, <2>2, <2>4, DepthFrame DEF Inv
<1>8. CASE ~changed
  <2>1. phase' = "check" /\ layer' = 0
    BY <1>8 DEF DepthPass
  <2>2. \A j \in DOMAIN order : j < di
    BY <1>1, <1>3
  <2>3. \A m \in InOrder : m \in DOMAIN depths /\ Deeper(m)
    BY <1>1, <1>3, <1>8, <2>2 DEF Depths, InOrder
  <2>4. DOMAIN depths = InOrder
    <3>1. DOMAIN depths \subseteq InOrder
      BY <1>3 DEF Depths
    <3>2. QED
      BY <2>3, <3>1
  <2>5. Depths'
    BY <1>1, <1>3, <2>1, <2>3, <2>4 DEF Depths, Deeper, orderVars, InOrder
  <2>6. Layers'
    BY <1>1, <1>3, <1>6, <2>1, <2>4 DEF Layers, orderVars, InOrder
  <2>7. QED
    BY <1>1, <1>2, <1>4, <1>5, <2>5, <2>6, DepthFrame DEF Inv
<1>9. QED
  BY <1>7, <1>8

(***************************************************************************)
(* The layers                                                              *)
(***************************************************************************)

\* Starting units touches neither the order nor the depths.
LEMMA StartFrame ==
    ASSUME Inv, UNCHANGED <<units, orderVars, depthVars>>,
           phase \in Starting \cup {"rescue", "stopping"},
           phase' \in Starting \cup {"rescue", "stopping", "emergency"},
           phase' \in Starting => phase \in Starting
    PROVE  /\ Fresh' /\ Search' /\ Sorted' /\ Depths' /\ InOrder' = InOrder
           /\ layer' \in Nat /\ services' \in Seq(DOMAIN units)
                /\ started' \in [DOMAIN started' -> BOOLEAN]
                /\ thread' \in [DOMAIN thread' ->
                                  Pc]
              => Shape'
<1>1. Fresh'
  BY DEF Fresh, Loading, Ordering, Starting
<1>2. Search' /\ Sorted'
  BY SearchKept DEF Inv
<1>3. InOrder' = InOrder
  BY DEF InOrder, orderVars
<1>4. Depths'
  BY <1>3 DEF Inv, Depths, Deeper, depthVars, Starting
<1>5. ASSUME layer' \in Nat, services' \in Seq(DOMAIN units),
             started' \in [DOMAIN started' -> BOOLEAN],
             thread' \in [DOMAIN thread' -> Pc]
      PROVE  Shape'
  <2>1. stack' \in Seq(Frame)' /\ order' \in Seq(DOMAIN units)'
    BY DEF Inv, Shape, Frame, Known, orderVars
  <2>2. QED
    BY <1>5, <2>1 DEF Inv, Shape, depthVars, Ending
<1>6. QED
  BY <1>1, <1>2, <1>3, <1>4, <1>5

\* In the check of a layer, the results of all that n depends on are known.
LEMMA Settled ==
    ASSUME Inv, phase \in {"check", "start"}, NEW n \in InOrder, depths[n] = layer,
           NEW d \in InOrder, d \in depth_deps(units, n)
    PROVE  d \in DOMAIN started
<1>1. d \in DOMAIN depths /\ depths[d] < depths[n]
  BY DEF Inv, Depths, Deeper, Starting
<1>2. /\ depths[d] \in Nat /\ depths[n] \in Nat
  BY <1>1 DEF Inv, Shape, Depths, Starting
<1>3. CASE phase = "check"
  BY <1>1, <1>3 DEF Inv, Layers
<1>4. CASE phase = "start"
  <2>1. d \in DOMAIN started \cup DOMAIN thread
    BY <1>1, <1>2, <1>4 DEF Inv, Layers
  <2>2. d \notin DOMAIN thread
    BY <1>1, <1>2, <1>4 DEF Inv, Layers
  <2>3. QED
    BY <2>1, <2>2
<1>5. QED
  BY <1>3, <1>4

\* What a unit of the order requires is in the order, if there is such a unit.
LEMMA RequiredInOrder ==
    ASSUME Inv, NEW n \in InOrder, NEW d \in units[n].requires \cap DOMAIN units
    PROVE  d \in InOrder /\ d \in depth_deps(units, n)
<1>1. PICK i \in DOMAIN order : order[i] = n
  BY DEF InOrder
<1>2. d \in sort_deps(units, n)
  BY DEF sort_deps
<1>3. PICK j \in 1..(i - 1) : order[j] = d
  BY <1>1, <1>2 DEF Inv, Sorted
<1>4. j \in DOMAIN order
  BY <1>1, <1>3 DEF Inv, Shape
<1>5. QED
  BY <1>2, <1>3, <1>4 DEF InOrder, depth_deps

LEMMA CheckedRequired ==
    ASSUME Inv, phase = "check", NEW n \in Layer, ~failed_required_dep(n)
    PROVE  RequiredReached(n)
<1> SUFFICES ASSUME NEW d \in units[n].requires \cap DOMAIN units
             PROVE  Reached(d)
  BY DEF RequiredReached
<1>1. n \in InOrder /\ depths[n] = layer
  BY DEF Layer
<1>2. d \in InOrder /\ d \in depth_deps(units, n)
  BY <1>1, RequiredInOrder
<1>3. d \in DOMAIN started
  BY <1>1, <1>2, Settled
<1>4. started[d]
  BY <1>3 DEF failed_required_dep, Failed
<1>5. QED
  BY <1>3, <1>4 DEF Reached

LEMMA CheckLayerInv == Inv /\ CheckLayer => Inv'
<1> SUFFICES ASSUME Inv, CheckLayer PROVE Inv'
  OBVIOUS
<1> DEFINE skipped == {n \in Layer : Skipped(n)}
           targets == {n \in Layer \ skipped : units[n].type = "target"}
           news == [n \in skipped \cup targets |-> n \in targets]
<1>1. /\ phase = "check" /\ phase' = "start"
      /\ started' = Over(news, started)
      /\ thread' = [n \in Layer \ (skipped \cup targets) |-> "begin"]
      /\ UNCHANGED <<units, orderVars, depthVars, layer, child, daemon, services>>
  BY DEF CheckLayer, loadVars
<1>2. /\ started \in [DOMAIN started -> BOOLEAN] /\ layer \in Nat
      /\ depths \in [DOMAIN depths -> Nat] /\ InOrder \subseteq DOMAIN depths
      /\ services \in Seq(DOMAIN units) /\ Layers
  BY <1>1 DEF Inv, Shape, Depths, Starting
<1>3. \A n \in Layer : n \in InOrder /\ n \notin DOMAIN started /\ depths[n] = layer
  BY <1>1, <1>2 DEF Layers, Layer
<1>4. skipped \cup targets \subseteq Layer
  OBVIOUS
<1>5. \A n \in Layer \ skipped : RequiredReached(n)
  <2>1. \A n \in Layer \ skipped : ~failed_required_dep(n)
    BY DEF Skipped
  <2>2. QED
    BY <1>1, <2>1, CheckedRequired
<1>6. \A n \in targets : Idle(n) /\ n \notin skipped
  BY DEF Idle
<1> HIDE DEF skipped, targets
<1>7. news \in [skipped \cup targets -> BOOLEAN]
  <2>1. \A n : (n \in targets) \in BOOLEAN
    OBVIOUS
  <2>2. QED
    BY <2>1
<1>8. /\ DOMAIN started' = DOMAIN started \cup skipped \cup targets
      /\ \A n \in DOMAIN started : started'[n] = started[n]
      /\ \A n \in skipped \cup targets : started'[n] = (n \in targets)
  BY <1>1, <1>3, <1>4 DEF Over
<1>9. started' \in [DOMAIN started' -> BOOLEAN]
  BY <1>1, <1>2, <1>7 DEF Over
<1> HIDE DEF news
<1>10. InOrder' = InOrder /\ Fresh' /\ Search' /\ Sorted' /\ Depths' /\ Shape'
  <2>1. thread' \in [DOMAIN thread' -> Pc]
    BY <1>1 DEF Pc
  <2>2. QED
    BY <1>1, <1>2, <1>9, <2>1, StartFrame DEF Starting
<1>11. Layers'
  <2>1. /\ DOMAIN started' \subseteq InOrder'
        /\ \A i \in DOMAIN services' : services'[i] \in DOMAIN started'
    BY <1>1, <1>2, <1>3, <1>4, <1>8, <1>10 DEF Layers, Starting
  <2>2. DOMAIN thread' = Layer \ (skipped \cup targets)
    BY <1>1
  <2>3. \A n \in InOrder : n \in Layer <=> depths[n] = layer
    BY DEF Layer
  <2>4. \A n \in InOrder : depths[n] <= layer <=> (depths[n] < layer \/ depths[n] = layer)
    BY <1>2
  <2>5. \A n \in InOrder : n \in DOMAIN started' \cup DOMAIN thread' <=> depths[n] <= layer
    BY <1>1, <1>2, <1>3, <1>4, <1>8, <2>2, <2>3, <2>4 DEF Layers
  <2>6. \A n \in DOMAIN thread' : n \in InOrder /\ depths[n] = layer /\ n \notin DOMAIN started'
    BY <1>3, <1>8, <2>2
  <2>7. QED
    BY <1>1, <1>10, <2>1, <2>5, <2>6 DEF Layers, depthVars
<1>12. \A n : Instanced(n)' <=> Instanced(n)
  BY <1>1 DEF Instanced
<1>13. /\ \A n \in DOMAIN started : Reached(n)' <=> Reached(n)
       /\ \A n : RequiredReached(n) => RequiredReached(n)'
  <2>1. \A n : Reached(n) => Reached(n)'
    BY <1>8, <1>12 DEF Reached
  <2>2. \A n \in DOMAIN started : Reached(n)' => Reached(n)
    BY <1>8, <1>12 DEF Reached
  <2>3. QED
    BY <1>1, <2>1, <2>2 DEF RequiredReached
<1>14. Requirements'
  <2>1. ASSUME NEW n \in DOMAIN started', Reached(n)'
        PROVE  (Idle(n)' \/ Instanced(n)') /\ RequiredReached(n)'
    <3>1. CASE n \in DOMAIN started
      <4>1. (Idle(n) \/ Instanced(n)) /\ RequiredReached(n)
        BY <1>1, <1>13, <2>1, <3>1 DEF Inv, Requirements, Starting
      <4>2. QED
        BY <1>1, <1>12, <1>13, <4>1 DEF Idle
    <3>2. CASE n \notin DOMAIN started
      <4>1. ~Instanced(n)
        BY <1>1, <1>2, <3>2 DEF Layers, Instanced, Starting
      <4>2. n \in targets
        BY <1>8, <1>12, <2>1, <3>2, <4>1 DEF Reached
      <4>3. QED
        BY <1>1, <1>4, <1>5, <1>6, <1>13, <4>2 DEF Idle
    <3>3. QED
      BY <3>1, <3>2
  <2>2. \A n \in DOMAIN thread' : RequiredReached(n)' /\ thread'[n] # "ok"
    BY <1>1, <1>5, <1>13
  <2>3. QED
    BY <1>1, <2>1, <2>2 DEF Requirements
<1>15. Processes'
  <2>1. Alive' = Alive
    BY <1>1 DEF Alive
  <2>2. \A n \in Alive : Instanced(n)
    BY <1>1 DEF Inv, Processes, Owned
  <2>3. \A n \in DOMAIN thread' : thread'[n] = "begin"
    BY <1>1
  <2>4. \A n \in Alive' : Owned(n)' /\ ~Halted(n)'
    BY <1>1, <1>12, <2>1, <2>2, <2>3 DEF Owned, Halted, Starting
  <2>5. QED
    BY <1>1, <2>4 DEF Inv, Processes
<1>16. QED
  BY <1>10, <1>11, <1>14, <1>15 DEF Inv

\* A start thread moves to pc, which is "ok" only for a unit with nothing to
\* start, and leaves no process that is not its own.
LEMMA StepInv ==
    ASSUME Inv, NEW n \in DOMAIN thread, NEW pc, phase = "start", Step(n, pc),
           pc \in Pc,
           pc = "ok" => Idle(n), Processes'
    PROVE  Inv'
<1>1. /\ phase' = "start" /\ thread' = [thread EXCEPT ![n] = pc]
      /\ UNCHANGED <<units, orderVars, depthVars, layer, started, services>>
  BY DEF Step, loadVars
<1>2. /\ DOMAIN thread' = DOMAIN thread
      /\ \A m \in DOMAIN thread : thread'[m] = IF m = n THEN pc ELSE thread[m]
      /\ thread' \in [DOMAIN thread' -> Pc]
  BY <1>1 DEF Inv, Shape
<1>3. /\ started \in [DOMAIN started -> BOOLEAN] /\ layer \in Nat
      /\ services \in Seq(DOMAIN units)
  BY DEF Inv, Shape
<1>4. InOrder' = InOrder /\ Fresh' /\ Search' /\ Sorted' /\ Depths' /\ Shape'
  BY <1>1, <1>2, <1>3, StartFrame DEF Starting
<1>5. Layers'
  BY <1>1, <1>2, <1>4 DEF Inv, Layers, depthVars, Starting
<1>6. Requirements'
  <2>1. \A m : /\ Reached(m)' <=> Reached(m)
               /\ RequiredReached(m)' <=> RequiredReached(m)
               /\ Idle(m)' <=> Idle(m)
               /\ Instanced(m)' <=> Instanced(m)
    BY <1>1 DEF Reached, RequiredReached, Idle, Instanced
  <2>2. QED
    BY <1>1, <1>2, <2>1 DEF Inv, Requirements, Starting
<1>7. QED
  BY <1>4, <1>5, <1>6 DEF Inv

\* The processes other than those of n are as they were, and n has none that it
\* does not account for.
LEMMA StepProcesses ==
    ASSUME Inv, NEW n \in DOMAIN thread, NEW pc, phase = "start", Step(n, pc),
           Alive' \subseteq Alive \cup {n}, daemon' \subseteq daemon,
           n \in Alive' => /\ Instanced(n) \/ pc \in {"post", "inst", "stop"}
                          /\ ~(pc = "stop" /\ units[n].kill = "cgroup")
                          /\ ~(pc = "post" /\ units[n].exec = "oneshot")
    PROVE  Processes'
<1>1. /\ phase' = phase /\ services' = services /\ units' = units
      /\ DOMAIN thread' = DOMAIN thread
      /\ thread'[n] = pc /\ \A m \in DOMAIN thread \ {n} : thread'[m] = thread[m]
  BY DEF Step, loadVars, Inv, Shape
<1>2. ASSUME NEW m \in Alive', m # n
      PROVE  Owned(m)' /\ ~Halted(m)'
  <2>1. Owned(m) /\ ~Halted(m)
    BY <1>2 DEF Inv, Processes
  <2>2. QED
    BY <1>1, <1>2, <2>1 DEF Owned, Halted, Instanced
<1>3. ASSUME n \in Alive'
      PROVE  Owned(n)' /\ ~Halted(n)'
  BY <1>1, <1>3 DEF Owned, Halted, Instanced, Starting
<1>4. QED
  BY <1>1, <1>2, <1>3 DEF Inv, Processes

\* StopBegins and StopTimeout only end processes, StopBegins all of a unit with
\* a cgroup; StopEnds finds the main process ended.
LEMMA StopFacts ==
    ASSUME NEW n, units' = units
    PROVE  /\ StopBegins(n) => /\ Alive' \subseteq Alive /\ daemon' \subseteq daemon
                               /\ units[n].kill = "cgroup" => n \notin Alive'
           /\ StopTimeout(n) => Alive' \subseteq Alive /\ daemon' = daemon
           /\ StopEnds(n) => /\ Alive' \subseteq Alive /\ daemon' = daemon
                             /\ (units[n].kill = "cgroup" => n \notin Alive) => n \notin Alive'
<1>1. ASSUME StopBegins(n), units[n].kill = "cgroup"
      PROVE  Alive' \subseteq Alive /\ daemon' \subseteq daemon /\ n \notin Alive'
  <2>1. /\ child' = [child EXCEPT ![n] = IF @ = "run" THEN "bad" ELSE @]
        /\ daemon' = daemon \ {n}
    BY <1>1 DEF StopBegins
  <2>2. DOMAIN child' = DOMAIN child
    BY <2>1
  <2>3. \A m \in DOMAIN child : child'[m] = "run" => child[m] = "run" /\ m # n
    BY <2>1
  <2>4. QED
    BY <2>1, <2>2, <2>3 DEF Alive
<1>2. ASSUME StopBegins(n), units[n].kill # "cgroup"
      PROVE  Alive' \subseteq Alive /\ daemon' \subseteq daemon
  BY <1>2 DEF StopBegins, Alive
<1>3. ASSUME StopTimeout(n)
      PROVE  Alive' \subseteq Alive /\ daemon' = daemon
  <2>1. child' = [child EXCEPT ![n] = "bad"] /\ daemon' = daemon
    BY <1>3 DEF StopTimeout
  <2>2. DOMAIN child' = DOMAIN child /\ \A m \in DOMAIN child : child'[m] = "run" => child[m] = "run"
    BY <2>1
  <2>3. QED
    BY <2>1, <2>2 DEF Alive
<1>4. ASSUME StopEnds(n)
      PROVE  /\ Alive' \subseteq Alive /\ daemon' = daemon
             /\ (units[n].kill = "cgroup" => n \notin Alive) => n \notin Alive'
  <2>1. child' = [child EXCEPT ![n] = "none"] /\ daemon' = daemon
    BY <1>4 DEF StopEnds
  <2>2. /\ DOMAIN child' = DOMAIN child
        /\ \A m \in DOMAIN child : child'[m] = "run" => child[m] = "run" /\ m # n
    BY <2>1
  <2>3. QED
    BY <2>1, <2>2 DEF Alive
<1>5. QED
  BY <1>1, <1>2, <1>3, <1>4

LEMMA ThreadInv ==
    ASSUME Inv, NEW n \in DOMAIN thread, ThreadStep(n)
    PROVE  Inv'
<1>0. /\ n \in Alive => Owned(n) /\ ~Halted(n)
      /\ units' = units
  BY DEF Inv, Processes, ThreadStep, StartPre, StartMain, StartPost, StartStop, Step, loadVars
<1>1. CASE StartPre(n)
  <2>1. PICK pc \in {"ok", "main", "failed"} :
           /\ phase = "start" /\ Step(n, pc) /\ child' = child /\ daemon' = daemon
           /\ thread[n] = "begin" /\ (pc = "ok" => Idle(n))
    BY <1>1 DEF StartPre, Idle
  <2>2. Alive' = Alive
    BY <1>0, <2>1 DEF Alive
  <2>3. Processes'
    BY <1>0, <2>1, <2>2, StepProcesses DEF Owned
  <2>4. QED
    BY <2>1, <2>3, StepInv DEF Pc
<1>2. CASE StartMain(n)
  <2>1. PICK pc \in {"post", "failed"} :
           /\ phase = "start" /\ Step(n, pc) /\ thread[n] = "main" /\ daemon' = daemon
           /\ \/ pc = "failed" /\ child' = child
              \/ pc = "post" /\ child' = Put(child, n, IF units[n].exec = "oneshot"
                                                       THEN "none" ELSE "run")
    BY <1>2 DEF StartMain
  <2>2. Alive' \subseteq Alive \cup {n}
    BY <1>0, <2>1 DEF Alive, Put
  <2>3. CASE pc = "failed"
    <3>1. Alive' = Alive
      BY <1>0, <2>1, <2>3 DEF Alive
    <3>2. Processes'
      BY <1>0, <2>1, <2>3, <3>1, StepProcesses DEF Owned
    <3>3. QED
      BY <2>1, <2>3, <3>2, StepInv DEF Pc
  <2>4. CASE pc = "post"
    <3>1. units[n].exec = "oneshot" => n \notin Alive'
      <4>1. ASSUME units[n].exec = "oneshot"
            PROVE  n \notin Alive'
        <5>1. child'[n] = "none"
          BY <2>1, <2>4, <4>1 DEF Put
        <5>2. n \notin daemon'
          BY <2>1, <4>1 DEF Inv, Processes
        <5>3. QED
          BY <5>1, <5>2 DEF Alive
      <4>2. QED
        BY <4>1
    <3>2. Processes'
      BY <2>1, <2>2, <2>4, <3>1, StepProcesses
    <3>3. QED
      BY <2>1, <2>4, <3>2, StepInv DEF Pc
  <2>5. QED
    BY <2>1, <2>3, <2>4
<1>3. CASE StartPost(n)
  <2>1. PICK pc \in {"inst", "failed", "stop"} :
           /\ phase = "start" /\ Step(n, pc) /\ thread[n] = "post"
           /\ \/ pc = "inst" /\ child' = child /\ daemon' = daemon
              \/ /\ pc = "failed" /\ units[n].exec = "oneshot"
                 /\ child' = child /\ daemon' = daemon
              \/ pc = "stop" /\ StopBegins(n)
    BY <1>3 DEF StartPost
  <2>2. Alive' \subseteq Alive /\ daemon' \subseteq daemon
    <3>1. ASSUME child' = child, daemon' = daemon
          PROVE  Alive' = Alive
      BY <1>0, <3>1 DEF Alive
    <3>2. QED
      BY <1>0, <2>1, <3>1, StopFacts
  <2>3. pc = "stop" /\ units[n].kill = "cgroup" => n \notin Alive'
    BY <1>0, <2>1, StopFacts
  <2>4. pc = "failed" => n \notin Alive
    BY <1>0, <2>1 DEF Halted
  <2>5. Processes'
    BY <2>1, <2>2, <2>3, <2>4, StepProcesses
  <2>6. QED
    BY <2>1, <2>5, StepInv DEF Pc
<1>4. CASE StartStop(n)
  <2>1. PICK pc \in {"failed", "stop"} :
           /\ phase = "start" /\ Step(n, pc) /\ thread[n] = "stop"
           /\ \/ pc = "stop" /\ StopTimeout(n)
              \/ pc = "failed" /\ StopEnds(n)
    BY <1>4 DEF StartStop
  <2>2. Alive' \subseteq Alive /\ daemon' = daemon
    BY <1>0, <2>1, StopFacts
  <2>3. units[n].kill = "cgroup" => n \notin Alive
    BY <1>0, <2>1 DEF Halted
  <2>4. pc = "failed" => n \notin Alive'
    BY <1>0, <2>1, <2>3, StopFacts
  <2>5. Processes'
    BY <2>1, <2>2, <2>3, <2>4, StepProcesses
  <2>6. QED
    BY <2>1, <2>5, StepInv DEF Pc
<1>5. QED
  BY <1>1, <1>2, <1>3, <1>4 DEF ThreadStep

\* The instances that Joined adds.
LEMMA JoinedServices ==
    ASSUME Inv, phase = "start",
           NEW s \in [1..Cardinality(Instances) -> Instances], LayerInstances(s),
           services' = services \o s
    PROVE  /\ services' \in Seq(DOMAIN units)
           /\ \A n : (\E i \in DOMAIN services' : services'[i] = n)
                        <=> Instanced(n) \/ n \in Instances
<1>1. order \in Seq(DOMAIN units) /\ services \in Seq(DOMAIN units)
      /\ DOMAIN thread \subseteq InOrder
  BY DEF Inv, Shape, Layers
<1>2. Instances \subseteq InOrder /\ InOrder \subseteq DOMAIN units
  BY <1>1 DEF Instances, InOrder
<1>3. Cardinality(Instances) \in Nat
  BY <1>1, <1>2, InOrderFinite, FS_Subset, FS_CardinalityType
<1>4. s \in Seq(DOMAIN units) /\ DOMAIN s = 1..Len(s) /\ Len(s) \in Nat
  BY <1>2, <1>3
<1>5. {s[i] : i \in DOMAIN s} = Instances
  BY DEF LayerInstances
<1>6. /\ services' \in Seq(DOMAIN units) /\ Len(services') = Len(services) + Len(s)
      /\ DOMAIN services' = 1..(Len(services) + Len(s))
      /\ DOMAIN services = 1..Len(services) /\ Len(services) \in Nat
      /\ \A i \in 1..Len(services) : services'[i] = services[i]
      /\ \A i \in 1..Len(s) : services'[Len(services) + i] = s[i]
  BY <1>1, <1>4
<1>7. ASSUME NEW n
      PROVE  (\E i \in DOMAIN services' : services'[i] = n)
                <=> Instanced(n) \/ n \in Instances
  <2>1. ASSUME NEW i \in DOMAIN services', services'[i] = n
        PROVE  Instanced(n) \/ n \in Instances
    <3>1. CASE i \in 1..Len(services)
      BY <1>6, <2>1, <3>1 DEF Instanced
    <3>2. CASE i > Len(services)
      <4>1. i - Len(services) \in 1..Len(s)
        BY <1>4, <1>6, <2>1, <3>2
      <4>2. services'[i] = s[i - Len(services)]
        BY <1>4, <1>6, <4>1
      <4>3. QED
        BY <1>4, <1>5, <2>1, <4>1, <4>2
    <3>3. QED
      BY <1>6, <3>1, <3>2
  <2>2. ASSUME Instanced(n)
        PROVE  \E i \in DOMAIN services' : services'[i] = n
    BY <1>4, <1>6, <2>2 DEF Instanced
  <2>3. ASSUME n \in Instances
        PROVE  \E i \in DOMAIN services' : services'[i] = n
    <3>1. PICK i \in 1..Len(s) : s[i] = n
      BY <1>4, <1>5, <2>3
    <3>2. Len(services) + i \in DOMAIN services'
      BY <1>4, <1>6
    <3>3. QED
      BY <1>6, <3>1, <3>2
  <2>4. QED
    BY <2>1, <2>2, <2>3
<1>8. QED
  BY <1>6, <1>7

LEMMA JoinedInv == Inv /\ Joined => Inv'
<1> SUFFICES ASSUME Inv, Joined PROVE Inv'
  OBVIOUS
<1> DEFINE news == [n \in DOMAIN thread |-> thread[n] \in Started]
<1>1. /\ phase = "start" /\ phase' = "detect"
      /\ \A n \in DOMAIN thread : thread[n] \in Started \cup {"failed"}
      /\ started' = Over(news, started)
      /\ UNCHANGED <<units, orderVars, depthVars, layer, thread, child, daemon>>
  BY DEF Joined, loadVars
<1>2. PICK s \in [1..Cardinality(Instances) -> Instances] :
         LayerInstances(s) /\ services' = services \o s
  BY DEF Joined
<1>3. /\ services' \in Seq(DOMAIN units)
      /\ \A n : Instanced(n)' <=> Instanced(n) \/ n \in Instances
  BY <1>1, <1>2, JoinedServices DEF Instanced
<1>4. /\ started \in [DOMAIN started -> BOOLEAN] /\ layer \in Nat
      /\ thread \in [DOMAIN thread -> Pc]
      /\ \A n \in DOMAIN thread : n \in InOrder /\ n \notin DOMAIN started
  BY <1>1 DEF Inv, Shape, Layers
<1>5. news \in [DOMAIN thread -> BOOLEAN]
  <2>1. \A n : (thread[n] \in Started) \in BOOLEAN
    OBVIOUS
  <2>2. QED
    BY <2>1
<1>6. /\ DOMAIN started' = DOMAIN started \cup DOMAIN thread
      /\ \A n \in DOMAIN started : started'[n] = started[n]
      /\ \A n \in DOMAIN thread : started'[n] = (thread[n] \in Started)
  BY <1>1, <1>4 DEF Over
<1>7. started' \in [DOMAIN started' -> BOOLEAN]
  BY <1>1, <1>4, <1>5 DEF Over
<1> HIDE DEF news
<1>8. InOrder' = InOrder /\ Fresh' /\ Search' /\ Sorted' /\ Depths' /\ Shape'
  BY <1>1, <1>3, <1>4, <1>7, StartFrame DEF Starting
<1>9. Layers'
  <2>1. /\ DOMAIN started' \subseteq InOrder'
        /\ \A n \in InOrder : n \in DOMAIN started' <=> depths[n] <= layer
    BY <1>1, <1>4, <1>6, <1>8 DEF Inv, Layers, Starting
  <2>2. ASSUME NEW i \in DOMAIN services'
        PROVE  services'[i] \in DOMAIN started'
    <3>1. Instanced(services'[i]) \/ services'[i] \in Instances
      BY <1>3 DEF Instanced
    <3>2. QED
      BY <1>1, <1>6, <3>1 DEF Instanced, Instances, Inv, Layers, Starting
  <2>3. QED
    BY <1>1, <1>8, <2>1, <2>2 DEF Layers, depthVars
<1>10. \A n : Reached(n) => Reached(n)'
  BY <1>3, <1>6 DEF Reached
<1>11. \A n : RequiredReached(n) => RequiredReached(n)'
  BY <1>1, <1>10 DEF RequiredReached
<1>12. Requirements'
  <2>1. ASSUME NEW n \in DOMAIN started', Reached(n)'
        PROVE  (Idle(n)' \/ Instanced(n)') /\ RequiredReached(n)'
    <3>1. CASE n \in DOMAIN started
      <4>1. n \notin Instances
        BY <1>4, <3>1 DEF Instances
      <4>2. Reached(n)
        BY <1>3, <1>6, <2>1, <3>1, <4>1 DEF Reached
      <4>3. (Idle(n) \/ Instanced(n)) /\ RequiredReached(n)
        BY <1>1, <3>1, <4>2 DEF Inv, Requirements, Starting
      <4>4. QED
        BY <1>1, <1>3, <1>11, <4>3 DEF Idle
    <3>2. CASE n \in DOMAIN thread
      <4>1. ~Instanced(n)
        BY <1>1, <1>4, <3>2 DEF Instanced, Inv, Layers, Starting
      <4>2. thread[n] \in Started
        BY <1>3, <1>6, <2>1, <3>2, <4>1 DEF Reached, Instances, Started
      <4>3. RequiredReached(n) /\ (thread[n] = "ok" => Idle(n))
        BY <1>1, <3>2 DEF Inv, Requirements
      <4>4. Idle(n) \/ n \in Instances
        BY <3>2, <4>2, <4>3 DEF Started, Instances
      <4>5. QED
        BY <1>1, <1>3, <1>11, <4>3, <4>4 DEF Idle
    <3>3. QED
      BY <1>6, <3>1, <3>2
  <2>2. QED
    BY <1>1, <2>1 DEF Requirements
<1>13. Processes'
  <2>1. Alive' = Alive
    BY <1>1 DEF Alive
  <2>2. ASSUME NEW n \in Alive
        PROVE  Instanced(n)'
    <3>1. Instanced(n) \/ (n \in DOMAIN thread /\ thread[n] \in {"post", "inst", "stop"})
      BY <2>2 DEF Inv, Processes, Owned
    <3>2. QED
      BY <1>1, <1>3, <3>1 DEF Instances, Started
  <2>3. QED
    BY <1>1, <2>1, <2>2 DEF Inv, Processes, Owned, Halted, Starting
<1>14. QED
  BY <1>8, <1>9, <1>12, <1>13 DEF Inv

LEMMA DetectInv == Inv /\ Detect => Inv'
<1> SUFFICES ASSUME Inv, Detect PROVE Inv'
  OBVIOUS
<1> DEFINE gone == {n \in Watched : child[n] # "run"}
           bad == {m \in gone : child[m] = "bad"}
<1>1. /\ phase = "detect"
      /\ child' = Over([n \in gone |-> "none"], child)
      /\ started' = Over([n \in bad |-> FALSE], started)
      /\ \/ phase' = "detect" /\ layer' = layer
         \/ phase' = "check" /\ layer' = layer + 1
         \/ phase' = "complete" /\ layer' = layer
      /\ UNCHANGED <<units, orderVars, depthVars, thread, daemon, services>>
  BY DEF Detect, loadVars
<1>2. \A n \in gone : Instanced(n)
  BY DEF Watched, Instanced
<1>3. /\ started \in [DOMAIN started -> BOOLEAN] /\ layer \in Nat
      /\ thread \in [DOMAIN thread -> Pc]
      /\ depths \in [DOMAIN depths -> Nat] /\ InOrder \subseteq DOMAIN depths
      /\ services \in Seq(DOMAIN units) /\ Layers
  BY <1>1 DEF Inv, Shape, Depths, Starting
<1>4. bad \subseteq gone /\ gone \subseteq DOMAIN started
  BY <1>1, <1>2, <1>3 DEF Layers, Instanced, Starting
<1> HIDE DEF gone, bad
<1>5. /\ DOMAIN started' = DOMAIN started
      /\ \A n \in DOMAIN started \ bad : started'[n] = started[n]
  BY <1>1, <1>4 DEF Over
<1>6. started' \in [DOMAIN started' -> BOOLEAN]
  BY <1>1, <1>3 DEF Over
<1>7. \A n \in DOMAIN child' : child'[n] = "run" => n \in DOMAIN child /\ child[n] = "run"
  BY <1>1 DEF Over
<1>8. InOrder' = InOrder /\ Fresh' /\ Search' /\ Sorted' /\ Depths' /\ Shape'
  <2>1. layer' \in Nat
    BY <1>1, <1>3
  <2>2. QED
    BY <1>1, <1>3, <1>6, <2>1, StartFrame DEF Starting
<1>9. \A n : /\ Instanced(n)' <=> Instanced(n)
             /\ Reached(n)' <=> Reached(n)
             /\ RequiredReached(n)' <=> RequiredReached(n)
             /\ Idle(n)' <=> Idle(n)
  <2>1. \A n : Instanced(n)' <=> Instanced(n)
    BY <1>1 DEF Instanced
  <2>2. \A n : Reached(n)' <=> Reached(n)
    BY <1>2, <1>4, <1>5, <2>1 DEF Reached
  <2>3. QED
    BY <1>1, <2>1, <2>2 DEF RequiredReached, Idle
<1>10. Layers'
  <2>1. /\ DOMAIN started' \subseteq InOrder'
        /\ \A i \in DOMAIN services' : services'[i] \in DOMAIN started'
    BY <1>1, <1>3, <1>5, <1>8 DEF Layers, Starting
  <2>2. \A n \in InOrder : n \in DOMAIN started' <=> depths[n] <= layer
    BY <1>1, <1>3, <1>5 DEF Layers
  <2>3. \A n \in InOrder : depths[n] <= layer <=> depths[n] < layer + 1
    BY <1>3
  <2>4. QED
    BY <1>1, <1>8, <2>1, <2>2, <2>3 DEF Layers, depthVars
<1>11. Requirements'
  BY <1>1, <1>5, <1>9 DEF Inv, Requirements, Starting
<1>12. Processes'
  <2>1. Alive' \subseteq Alive
    BY <1>1, <1>7 DEF Alive
  <2>2. \A n \in Alive' : Instanced(n)'
    BY <1>1, <1>9, <2>1 DEF Inv, Processes, Owned
  <2>3. \A n \in Alive' : Owned(n)' /\ ~Halted(n)'
    BY <1>1, <2>2 DEF Owned, Halted, Starting
  <2>4. QED
    BY <1>1, <2>3 DEF Inv, Processes
<1>13. QED
  BY <1>8, <1>10, <1>11, <1>12 DEF Inv

LEMMA RescueStopInv == Inv /\ RescueStop => Inv'
<1> SUFFICES ASSUME Inv, RescueStop PROVE Inv'
  OBVIOUS
<1>1. /\ phase = "rescue" /\ phase' \in {"stopping", "emergency"}
      /\ UNCHANGED <<units, orderVars, depthVars, layer, started, thread, services>>
  BY DEF RescueStop, loadVars
<1>2. /\ started \in [DOMAIN started -> BOOLEAN] /\ layer \in Nat
      /\ thread \in [DOMAIN thread -> Pc]
      /\ services \in Seq(DOMAIN units)
  BY DEF Inv, Shape
<1>3. Layers' /\ Requirements'
  BY <1>1 DEF Layers, Requirements, Starting
<1>4. \A n \in Alive : Instanced(n)
  BY <1>1 DEF Inv, Processes, Owned
<1>5. Processes'
  <2>1. CASE services = <<>>
    <3>1. child' = child /\ daemon' = daemon /\ phase' = "emergency"
      BY <2>1 DEF RescueStop
    <3>2. Alive' = {}
      BY <1>1, <1>4, <2>1, <3>1 DEF Alive, Instanced
    <3>3. QED
      BY <1>1, <3>1, <3>2 DEF Inv, Processes
  <2>2. CASE services # <<>>
    <3> DEFINE last == services[Len(services)]
    <3>1. StopBegins(last) /\ phase' = "stopping"
      BY <2>2 DEF RescueStop
    <3>2. /\ Alive' \subseteq Alive /\ daemon' \subseteq daemon
          /\ units[last].kill = "cgroup" => last \notin Alive'
      BY <1>1, <3>1, StopFacts
    <3>3. ASSUME NEW n \in Alive'
          PROVE  Owned(n)' /\ ~Halted(n)'
      <4>1. Instanced(n)'
        BY <1>1, <1>4, <3>2 DEF Instanced
      <4>2. QED
        BY <1>1, <3>1, <3>2, <4>1 DEF Owned, Halted
    <3>4. QED
      BY <1>1, <2>2, <3>2, <3>3 DEF Inv, Processes
  <2>3. QED
    BY <2>1, <2>2
<1>6. Fresh' /\ Search' /\ Sorted' /\ Depths' /\ Shape'
  BY <1>1, <1>2, StartFrame DEF Starting
<1>7. QED
  BY <1>3, <1>5, <1>6 DEF Inv

LEMMA RescueWaitInv == Inv /\ RescueWait => Inv'
<1> SUFFICES ASSUME Inv, RescueWait PROVE Inv'
  OBVIOUS
<1> DEFINE k == Len(services)
<1>1. /\ phase = "stopping" /\ phase' \in {"stopping", "rescue"}
      /\ UNCHANGED <<units, orderVars, depthVars, layer, started, thread>>
  BY DEF RescueWait, loadVars
<1>2. /\ started \in [DOMAIN started -> BOOLEAN] /\ layer \in Nat
      /\ thread \in [DOMAIN thread -> Pc]
      /\ services \in Seq(DOMAIN units) /\ services # <<>>
  BY <1>1 DEF Inv, Shape, Processes
<1>3. Layers' /\ Requirements'
  BY <1>1 DEF Layers, Requirements, Starting
<1>4. k \in Nat /\ k # 0 /\ DOMAIN services = 1..k
  BY <1>2
<1>5. \A n \in Alive : Instanced(n) /\ ~Halted(n)
  BY <1>1 DEF Inv, Processes, Owned
<1>6. services' \in Seq(DOMAIN units) /\ Processes'
  <2>1. CASE StopTimeout(services[k]) /\ phase' = phase /\ services' = services
    <3>1. Alive' \subseteq Alive /\ daemon' = daemon
      BY <1>1, <2>1, StopFacts
    <3>2. \A n \in Alive' : Owned(n)' /\ ~Halted(n)'
      BY <1>1, <1>5, <2>1, <3>1 DEF Owned, Halted, Instanced
    <3>3. QED
      BY <1>1, <1>2, <2>1, <3>1, <3>2 DEF Inv, Processes
  <2>2. CASE /\ StopEnds(services[k]) /\ services' = SubSeq(services, 1, k - 1)
             /\ phase' = "rescue"
    <3>1. units[services[k]].kill = "cgroup" => services[k] \notin Alive
      BY <1>1, <1>5 DEF Halted
    <3>2. Alive' \subseteq Alive /\ daemon' = daemon /\ services[k] \notin Alive'
      BY <1>1, <2>2, <3>1, StopFacts
    <3>3. /\ services' \in Seq(DOMAIN units) /\ DOMAIN services' = 1..(k - 1)
          /\ \A i \in 1..(k - 1) : services'[i] = services[i]
      BY <1>2, <1>4, <2>2
    <3> HIDE DEF k
    <3>4. ASSUME NEW n \in Alive'
          PROVE  Instanced(n)'
      <4>1. PICK i \in 1..k : services[i] = n
        BY <1>4, <1>5, <3>2 DEF Instanced
      <4>2. i \in 1..(k - 1)
        BY <1>4, <3>2, <4>1
      <4>3. QED
        BY <3>3, <4>1, <4>2 DEF Instanced
    <3>5. \A n \in Alive' : Owned(n)' /\ ~Halted(n)'
      BY <2>2, <3>4 DEF Owned, Halted
    <3>6. QED
      BY <1>1, <2>2, <3>2, <3>3, <3>5 DEF Inv, Processes
  <2>3. QED
    BY <2>1, <2>2 DEF RescueWait
<1>7. Fresh' /\ Search' /\ Sorted' /\ Depths' /\ Shape'
  BY <1>1, <1>2, <1>6, StartFrame DEF Starting
<1>8. QED
  BY <1>3, <1>6, <1>7 DEF Inv

\* The environment ends processes and forks daemons of units that run.
LEMMA ProcessInv ==
    ASSUME Inv, NEW n \in DOMAIN child,
           Daemonizes(n) \/ \E code \in {"good", "bad"} : ChildExits(n, code)
    PROVE  Inv'
<1>1. /\ UNCHANGED <<phase, units, orderVars, depthVars, layer, started, thread, services>>
      /\ child # <<>>
  BY DEF ChildExits, Daemonizes, loadVars
<1>2. phase \notin Loading \cup Ordering \cup {"depth"}
  BY <1>1 DEF Inv, Fresh
<1>3. Search' /\ Sorted'
  BY <1>1, SearchKept DEF Inv
<1>4. Shape'
  BY <1>1 DEF Inv, Shape, Frame, Known, orderVars, depthVars
<1>5. Fresh'
  BY <1>1, <1>2 DEF Fresh
<1>6. Depths'
  BY <1>1 DEF Inv, Depths, Deeper, depthVars, orderVars, InOrder
<1>7. Layers' /\ Requirements'
  BY <1>1 DEF Inv, Layers, Requirements, RequiredReached, Reached, Instanced, Idle,
              InOrder, orderVars, depthVars
<1>8. Alive' \subseteq Alive /\ \A m \in daemon' : units[m].exec = "forking"
  <2>1. CASE Daemonizes(n)
    BY <1>1, <2>1 DEF Daemonizes, Alive, Inv, Processes
  <2>2. CASE \E code \in {"good", "bad"} : ChildExits(n, code)
    <3>1. PICK code \in {"good", "bad"} :
             child' = [child EXCEPT ![n] = code] /\ daemon' = daemon
      BY <2>2 DEF ChildExits
    <3>2. /\ DOMAIN child' = DOMAIN child
          /\ \A m \in DOMAIN child : child'[m] = "run" => child[m] = "run"
      BY <3>1
    <3>3. QED
      BY <1>1, <3>1, <3>2 DEF Alive, Inv, Processes
  <2>3. QED
    BY <2>1, <2>2
<1>9. Processes'
  <2>1. \A m \in Alive' : Owned(m)' /\ ~Halted(m)'
    BY <1>1, <1>8 DEF Inv, Processes, Owned, Halted, Instanced
  <2>2. QED
    BY <1>1, <1>8, <2>1 DEF Inv, Processes
<1>10. QED
  BY <1>3, <1>4, <1>5, <1>6, <1>7, <1>9 DEF Inv

LEMMA NextInv == Inv /\ [Next]_vars => Inv'
<1> SUFFICES ASSUME Inv, [Next]_vars PROVE Inv'
  OBVIOUS
<1>1. CASE Signal \/ ShellExits \/ EarlyRoot \/ BootMode \/ LoadDir \/ CycleFound
             \/ Complete \/ EmergencyTop \/ EmergencyPoll \/ UNCHANGED vars
  BY <1>1, DriftSteps, DriftInv
<1>2. CASE LoadEntry \/ LoadDone
  BY <1>2, LoadEntryInv, LoadDoneInv
<1>3. CASE Visit \/ Visited \/ Ordered
  BY <1>3, VisitInv, VisitedInv, OrderedInv
<1>4. CASE DepthStep \/ DepthPass
  BY <1>4, DepthStepInv, DepthPassInv
<1>5. CASE CheckLayer \/ Joined \/ Detect \/ RescueStop \/ RescueWait
  BY <1>5, CheckLayerInv, JoinedInv, DetectInv, RescueStopInv, RescueWaitInv
<1>6. CASE \E n \in DOMAIN thread : ThreadStep(n)
  BY <1>6, ThreadInv
<1>7. CASE \E n \in DOMAIN child : \/ \E code \in {"good", "bad"} : ChildExits(n, code)
                                 \/ Daemonizes(n)
  BY <1>7, ProcessInv
<1>8. QED
  BY <1>1, <1>2, <1>3, <1>4, <1>5, <1>6, <1>7 DEF Next, BootStep, Environment

LEMMA InvHolds == Spec => []Inv
BY InitInv, NextInv, PTL DEF Spec

(***************************************************************************)
(* The theorems                                                            *)
(***************************************************************************)

\* compute_start_order returns each unit once and after all units that have
\* to be started before it, whatever the files say, or reports a cycle.
THEOREM OrderIsTopological == Spec => []OrderTopological
<1>1. Inv => OrderTopological
  <2> SUFFICES ASSUME Inv, NEW i \in DOMAIN order, NEW m \in DOMAIN units, Edge(m, order[i])
               PROVE  \E j \in 1..(i - 1) : order[j] = m
    BY DEF Inv, Sorted, OrderTopological
  <2>1. m \in sort_deps(units, order[i])
    BY DEF Edge, sort_deps
  <2>2. QED
    BY <2>1 DEF Inv, Sorted
<1>2. QED
  BY <1>1, InvHolds, PTL

\* The layers of compute_depths put every unit behind those it depends on: when
\* start_unit runs for a unit their results are known.
THEOREM ResultsAreSettled == Spec => []DepsSettledAtStart
<1>1. Inv => DepsSettledAtStart
  <2> SUFFICES ASSUME Inv, phase = "start", NEW n \in DOMAIN thread, NEW m \in InOrder,
                      Edge(m, n) \/ m \in units[n].requisite
               PROVE  m \in DOMAIN started
    BY DEF DepsSettledAtStart
  <2>1. n \in InOrder /\ depths[n] = layer
    BY DEF Inv, Layers
  <2>2. m \in DOMAIN units
    BY DEF Inv, Shape, InOrder
  <2>3. m \in depth_deps(units, n)
    BY <2>2 DEF Edge, depth_deps, sort_deps
  <2>4. QED
    BY <2>1, <2>3, Settled
<1>2. QED
  BY <1>1, InvHolds, PTL

\* Entering the main loop means that the boot target's services were started.
THEOREM MainMeansRequired == Spec => []TargetMeansRequired
<1>1. Inv => TargetMeansRequired
  <2> SUFFICES ASSUME Inv, phase = "main", NEW n \in RequiredByRoot
               PROVE  Idle(n) \/ Instanced(n)
    BY DEF TargetMeansRequired, Idle, Instanced
  <2> DEFINE S == {m \in DOMAIN units : Reached(m)}
  <2>1. Reached(Root)
    BY DEF Inv, Requirements, Reached
  <2>2. \A m \in S : m \in DOMAIN started /\ RequiredReached(m) /\ (Idle(m) \/ Instanced(m))
    BY DEF Inv, Requirements, Reached, Starting
  <2>3. \A m \in S : units[m].requires \cap DOMAIN units \subseteq S
    BY <2>2 DEF RequiredReached
  <2>4. {Root} \cap DOMAIN units \subseteq S
    BY <2>1
  <2>5. n \in S
    BY <2>3, <2>4 DEF RequiredByRoot
  <2>6. QED
    BY <2>2, <2>5
<1>2. QED
  BY <1>1, InvHolds, PTL

\* The emergency shell never runs beside a main process that the boot has
\* started, or beside a daemon in a cgroup it could kill: each belongs to an
\* instance, which rescue mode stops, or to a start thread, which stops it when
\* ExecStartPost= fails.  A daemon without such a cgroup does survive.
THEOREM RescueStopsAll == Spec => []RescueStopsServices
<1>1. Inv => RescueStopsServices
  BY DEF Inv, Processes, Alive, Owned, RescueStopsServices, Starting
<1>2. QED
  BY <1>1, InvHolds, PTL
=============================================================================
