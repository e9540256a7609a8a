------------------------------ MODULE UnitFiles ------------------------------
(***************************************************************************)
(* Loading the unit files (init/units.rs): the three directories in order  *)
(* of priority, masking, drop-ins, the Name= key, specifiers, templates,   *)
(* and the dependencies that order the start.                              *)
(*                                                                         *)
(* A unit name is a pair <<prefix, instance>>: <<"db", NoInst>> has no @,  *)
(* <<"getty", "">> is the template getty@, and the instance "%i" stands    *)
(* for a name written with that specifier.                                 *)
(***************************************************************************)
EXTENDS Naturals, Sequences, FiniteSets

CONSTANTS Prefix, Inst,    \* the two halves of the unit names
          NoName,          \* no Name= key
          NoInst           \* the instance of a name without @

ASSUME NameAssumption == {NoInst, "", "%i"} \subseteq Inst /\ NoName \notin Prefix \X Inst

Name == Prefix \X Inst

\* A map with the entries of g, and those of f for the other keys.
Over(g, f) == [x \in DOMAIN g \cup DOMAIN f |-> IF x \in DOMAIN g THEN g[x] ELSE f[x]]
\* insert.
Put(f, n, v) == [x \in DOMAIN f \cup {n} |-> IF x = n THEN v ELSE f[x]]

\* The lists of a unit that hold names of other units; linked stands for
\* Conflicts=, PartOf=, OnFailure= and OnSuccess=, which do not order the start.
RefField == {"requires", "after", "wants", "requisite", "before", "wantedBy", "linked"}

\* What a unit file declares: the lists, what ExecStart= runs, whether the
\* conditions hold, the hooks, whether Restart= brings the service back after a
\* failure, and what a stop may do: kill the unit's cgroup, send signals up to
\* SIGKILL, or only ask (SendSIGKILL=no, KillMode=none).
Decl == [ requires : SUBSET Name, after : SUBSET Name, wants : SUBSET Name,
          requisite : SUBSET Name, before : SUBSET Name, wantedBy : SUBSET Name,
          linked : SUBSET Name,
          exec : {"none", "oneshot", "simple", "forking"}, cond : BOOLEAN,
          pre : BOOLEAN, post : BOOLEAN, restart : BOOLEAN,
          kill : {"cgroup", "signal", "ask"} ]

\* A file of a unit directory is a record with its stem (a name), its kind (a
\* "mask", that is a link to /dev/null, a "bad" file that cannot be read or
\* parsed, or a "unit"), the type its suffix gives it, its Name= key, its
\* declaration, and the drop-ins in order, each the keys it replaces.

\* apply_dropins and merge_toml: later drop-ins replace the keys of earlier
\* ones, and all of them those of the file.
apply_dropins(f) ==
    LET merged[k \in 0..Len(f.drop)] ==
            IF k = 0 THEN f.decl ELSE Over(f.drop[k], merged[k - 1])
    IN  merged[Len(f.drop)]

resolve_unit_name(f) == IF f.name = NoName THEN f.stem ELSE f.name

is_template(f) == f.stem[2] # NoInst

\* expand_specifiers on one name: %i is the instance.
expand_specifiers(n, instance) == IF n[2] = "%i" THEN <<n[1], instance>> ELSE n

\* expand_unit_specifiers: every list of names.
expand_unit_specifiers(u, instance) ==
    [k \in DOMAIN u |-> IF k \in RefField
                        THEN {expand_specifiers(n, instance) : n \in u[k]}
                        ELSE u[k]]

\* A parsed file.  A unit that is no template has its specifiers expanded
\* before its name is known, that is with an empty instance.
parsed(f) ==
    LET u == Over([type |-> f.type, template |-> is_template(f)], apply_dropins(f))
    IN  IF u.template THEN u ELSE expand_unit_specifiers(u, "")

\* One entry of load_dir_into.
load_file(units, f) ==
    CASE f.kind = "mask" -> [n \in DOMAIN units \ {f.stem} |-> units[n]]
      [] f.kind = "bad"  -> units
      [] f.kind = "unit" -> Put(units, resolve_unit_name(f), parsed(f))

\* instantiate_template.
instantiate_template(t, n) ==
    [expand_unit_specifiers(t, n[2]) EXCEPT !.template = FALSE]

\* The names that some unit refers to, that are not units, and for which there
\* is a template.
instantiable(units) ==
    {n \in UNION {units[u][k] : u \in DOMAIN units, k \in RefField} :
        /\ n \notin DOMAIN units /\ n[2] \notin {NoInst, ""}
        /\ <<n[1], "">> \in DOMAIN units /\ units[<<n[1], "">>].template}

\* instantiate_referenced_templates: one pass.
instantiate_referenced_templates(units) ==
    Over([n \in instantiable(units) |-> instantiate_template(units[<<n[1], "">>], n)],
         units)

-----------------------------------------------------------------------------
(* The order of the start.                                                  *)

\* Mutant of sort_deps: Before= of other units is not looked at.
sort_deps_forward(units, n) ==
    units[n].requires \cup units[n].after \cup units[n].wants
      \cup {m \in DOMAIN units : units[n].type = "target" /\ n \in units[m].wantedBy}

\* sort_deps: what has to be started before n.
sort_deps(units, n) ==
    units[n].requires \cup units[n].after \cup units[n].wants
      \cup {m \in DOMAIN units : n \in units[m].before}
      \cup {m \in DOMAIN units : units[n].type = "target" /\ n \in units[m].wantedBy}

\* Mutant of depth_deps: After= and Wants= do not count.
depth_deps_hard(units, n) == units[n].requires \cup units[n].requisite

\* What compute_depths counts: the Requisite= units as well.
depth_deps(units, n) == sort_deps(units, n) \cup units[n].requisite
=============================================================================
