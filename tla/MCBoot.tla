------------------------------- MODULE MCBoot --------------------------------
(* Small machines for Boot.                                                 *)
EXTENDS Boot

N(p) == <<p, NoInst>>
MCRoot == N("root")

Plain == [ requires |-> {}, after |-> {}, wants |-> {}, requisite |-> {},
           before |-> {}, wantedBy |-> {}, linked |-> {}, exec |-> "none", cond |-> TRUE,
           pre |-> FALSE, post |-> FALSE, restart |-> FALSE, kill |-> "signal" ]

Svc(n, decl) == [ stem |-> n, kind |-> "unit", type |-> "service", name |-> NoName,
                  decl |-> decl, drop |-> <<>> ]
Target(n, decl) == [Svc(n, decl) EXCEPT !.type = "target"]
Mask(n) == [Svc(n, Plain) EXCEPT !.kind = "mask"]

\* root requires b; b requires a; c waits for b with Requisite= and comes before
\* the oneshot d that root wants.
Chain ==
    << {Target(N("root"), [Plain EXCEPT !.requires = {N("b")}, !.wants = {N("d")}]),
        Svc(N("b"), [Plain EXCEPT !.requires = {N("a")}, !.exec = "simple", !.post = TRUE]),
        Svc(N("a"), [Plain EXCEPT !.exec = "simple", !.pre = TRUE])},
       {},
       {Svc(N("c"), [Plain EXCEPT !.requisite = {N("b")}, !.before = {N("d")},
                                  !.exec = "simple", !.restart = TRUE]),
        Svc(N("d"), [Plain EXCEPT !.exec = "oneshot"])} >>

\* Two services that come after each other.
Cycle ==
    << {Target(N("root"), [Plain EXCEPT !.wants = {N("a"), N("c")}]),
        Svc(N("a"), [Plain EXCEPT !.after = {N("b"), N("c")}]),
        Svc(N("b"), [Plain EXCEPT !.after = {N("a")}]),
        Svc(N("c"), Plain)}, {}, {} >>

\* A diamond without a cycle, a missing unit, a unit whose condition fails.
Diamond ==
    << {Target(N("root"), [Plain EXCEPT !.requires = {N("a"), N("b"), N("x")}]),
        Svc(N("a"), [Plain EXCEPT !.after = {N("c")}, !.cond = FALSE, !.exec = "forking"]),
        Svc(N("b"), [Plain EXCEPT !.wants = {N("c")}, !.exec = "forking"]),
        Svc(N("c"), [Plain EXCEPT !.requisite = {N("d")}]),
        Svc(N("d"), [Plain EXCEPT !.wantedBy = {N("root")}, !.exec = "oneshot",
                                  !.post = TRUE])}, {}, {} >>

\* A template, instantiated through WantedBy= and Wants=; a masked unit; a unit
\* redefined with drop-ins in a higher directory, under another name; a bad file.
Templates ==
    << {Target(N("root"), [Plain EXCEPT !.wants = {<<"g", "1">>}]),
        Svc(N("a"), [Plain EXCEPT !.wantedBy = {N("root")}]),
        Svc(N("d"), [Plain EXCEPT !.wantedBy = {N("root")}, !.linked = {<<"g", "1">>}])},
       {Svc(<<"g", "">>, [Plain EXCEPT !.exec = "simple", !.after = {<<"c", "%i">>}]),
        Mask(N("a"))},
       {[Svc(N("x"), [Plain EXCEPT !.after = {N("b")}]) EXCEPT
            !.name = N("d"), !.drop = <<[exec |-> "oneshot"], [exec |-> "none"]>>],
        [Svc(N("b"), Plain) EXCEPT !.kind = "bad"]} >>

\* No default target.
Empty == << {}, {}, {Svc(N("a"), Plain)} >>

\* A target that is not reached: two daemons, one whose cgroup can be killed and
\* one whose cannot, a service that may only be asked to stop and one that fails.
Stubborn ==
    << {Target(N("root"), [Plain EXCEPT !.requires = {N("x")}]),
        Svc(N("a"), [Plain EXCEPT !.exec = "forking", !.kill = "cgroup", !.post = TRUE]),
        Svc(N("b"), [Plain EXCEPT !.exec = "forking"]),
        Svc(N("x"), [Plain EXCEPT !.after = {N("a"), N("b")}, !.exec = "simple",
                                  !.post = TRUE, !.kill = "ask"])}, {}, {} >>

MCTrees == {Chain, Cycle, Diamond, Templates, Empty, Stubborn}
MCPrefix == {"root", "a", "b", "c", "d", "g", "x"}
MCInst == {NoInst, "", "%i", "1"}
=============================================================================
