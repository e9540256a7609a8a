---------------------------- MODULE LoginProofs ----------------------------
(***************************************************************************)
(* Proofs about Login, for any lines typed, any account files, timeouts    *)
(* and limits: the prompt is clean, a shell runs as the user whose         *)
(* password was typed, and the chain implements Terminal.                  *)
(***************************************************************************)
EXTENDS Login, TLAPS

(***************************************************************************)
(* The inductive invariant                                                 *)
(***************************************************************************)

\* Between two logins the getty has no child.
Between == pc \in {"prompt", "read", "fork", "sleep"} => child = NoChild

\* A child is a record with the fields of NoChild.
Child(st, who, password, entry, ids, saved, time, code) ==
    [st |-> st, user |-> who, password |-> password, entry |-> entry,
     ids |-> ids, saved |-> saved, clock |-> time, code |-> code]
IdsOf(uid, gid, groups) == [uid |-> uid, gid |-> gid, groups |-> groups]

Shaped(c) ==
    /\ c = Child(c.st, c.user, c.password, c.entry, c.ids, c.saved, c.clock, c.code)
    /\ c.ids = IdsOf(c.ids.uid, c.ids.gid, c.ids.groups)

AfterPassword == {"initgroups", "setgid", "setuid", "notify", "exec", "shell"}

\* Each step of login_shell finds done what the steps before it do.
Dropping ==
    /\ child.st \in AfterPassword =>
         /\ child.entry = authenticate(child.user, child.password)
         /\ child.entry # NoEntry
    /\ child.st \in AfterPassword \ {"initgroups"} =>
         child.ids.groups = child.entry.gid
    /\ child.st \in AfterPassword \ {"initgroups", "setgid"} =>
         child.ids.gid = child.entry.gid
    /\ child.st \in {"notify", "exec", "shell"} =>
         child.ids.uid = child.entry.uid

Inv == Between /\ Shaped(child) /\ Dropping

(***************************************************************************)
(* Accounts                                                                *)
(***************************************************************************)

\* What find_passwd_entry finds is a line of the file, an account and of
\* that name.
LEMMA EntryFound ==
    ASSUME NEW name, find_passwd_entry(name) # NoEntry
    PROVE  \E k \in DOMAIN PasswdFile :
             /\ PasswdFile[k] = find_passwd_entry(name)
             /\ PasswdFile[k].ok /\ PasswdFile[k].name = name
<1> DEFINE first(k) ==
      /\ PasswdFile[k].ok /\ PasswdFile[k].name = name
      /\ \A j \in 1..(k - 1) : ~(PasswdFile[j].ok /\ PasswdFile[j].name = name)
<1>1. find_passwd_entry(name) =
        IF \E k \in DOMAIN PasswdFile : first(k)
        THEN PasswdFile[CHOOSE k \in DOMAIN PasswdFile : first(k)] ELSE NoEntry
  BY DEF find_passwd_entry, First
<1> HIDE DEF first
<1>2. \E k \in DOMAIN PasswdFile : first(k)
  BY <1>1
<1>3. LET k == CHOOSE k \in DOMAIN PasswdFile : first(k)
      IN  k \in DOMAIN PasswdFile /\ first(k)
  BY <1>2
<1> QED
  BY <1>1, <1>2, <1>3 DEF first

\* The same of a line of the shadow file.
LEMMA ShadowFound ==
    ASSUME NEW name, shadow_password_of(name) # NoEntry
    PROVE  \E k \in DOMAIN ShadowFile :
             /\ ShadowFile[k] = shadow_password_of(name)
             /\ ShadowFile[k].name = name
<1> DEFINE first(k) ==
      /\ ShadowFile[k].name = name
      /\ \A j \in 1..(k - 1) : ~(ShadowFile[j].name = name)
<1>1. shadow_password_of(name) =
        IF \E k \in DOMAIN ShadowFile : first(k)
        THEN ShadowFile[CHOOSE k \in DOMAIN ShadowFile : first(k)] ELSE NoEntry
  BY DEF shadow_password_of, First
<1> HIDE DEF first
<1>2. \E k \in DOMAIN ShadowFile : first(k)
  BY <1>1
<1>3. LET k == CHOOSE k \in DOMAIN ShadowFile : first(k)
      IN  k \in DOMAIN ShadowFile /\ first(k)
  BY <1>2
<1> QED
  BY <1>1, <1>2, <1>3 DEF first

\* An account that authenticate returns is one of the file, and its password
\* field, or the shadow line it refers to, admits what was typed.
LEMMA Authentic ==
    ASSUME NEW name, NEW password,
           authenticate(name, password) # NoEntry
    PROVE  \E k \in DOMAIN PasswdFile :
             LET e == PasswdFile[k]
                 shadows == {s \in ToSet(ShadowFile) : s.name = e.name}
                 fields == IF e.passwd.kind = "x" THEN {s.passwd : s \in shadows}
                           ELSE {e.passwd}
             IN  /\ e = authenticate(name, password)
                 /\ e.ok /\ e.name = name
                 /\ \E f \in fields :
                      \/ f.kind = "empty"
                      \/ f.kind \in {"crypt", "plain"} /\ f.secret = password
<1> DEFINE e == find_passwd_entry(name)
           sh == shadow_password_of(name)
<1>1. /\ e # NoEntry
      /\ password_matches(e.passwd, sh, password)
      /\ authenticate(name, password) = e
  BY DEF authenticate
<1>2. PICK k \in DOMAIN PasswdFile :
        PasswdFile[k] = e /\ PasswdFile[k].ok /\ PasswdFile[k].name = name
  BY <1>1, EntryFound
<1>3. CASE e.passwd.kind = "x"
  <2>1. sh # NoEntry
    BY <1>1, <1>3 DEF password_matches
  <2>2. PICK j \in DOMAIN ShadowFile : ShadowFile[j] = sh /\ ShadowFile[j].name = name
    BY <2>1, ShadowFound
  <2>3. sh \in ToSet(ShadowFile)
    BY <2>2 DEF ToSet
  <2>4. \/ sh.passwd.kind = "empty"
        \/ sh.passwd.kind \in {"crypt", "plain"} /\ sh.passwd.secret = password
    BY <1>1, <1>3 DEF password_matches, crypt_verify
  <2> HIDE DEF e, sh
  <2> QED
    BY <1>1, <1>2, <1>3, <2>2, <2>3, <2>4
<1>4. CASE e.passwd.kind # "x"
  <2>1. \/ e.passwd.kind = "empty"
        \/ e.passwd.kind \in {"crypt", "plain"} /\ e.passwd.secret = password
    BY <1>1, <1>4 DEF password_matches, crypt_verify
  <2> HIDE DEF e, sh
  <2> QED
    BY <1>1, <1>2, <1>4, <2>1
<1> QED
  BY <1>3, <1>4

(***************************************************************************)
(* What the updates of a child make of it                                  *)
(***************************************************************************)

\* The fields of a child written out.
LEMMA ChildFields ==
    ASSUME NEW st, NEW who, NEW password, NEW entry, NEW uid, NEW gid, NEW groups,
           NEW saved, NEW time, NEW code
    PROVE  LET ids == IdsOf(uid, gid, groups)
               c == Child(st, who, password, entry, ids, saved, time, code)
           IN  /\ Shaped(c)
               /\ c.st = st /\ c.user = who /\ c.password = password
               /\ c.entry = entry /\ c.ids = ids /\ c.saved = saved
               /\ c.ids.uid = uid /\ c.ids.gid = gid /\ c.ids.groups = groups
BY DEF Child, IdsOf, Shaped

\* A step on, and nothing else.
LEMMA StepShape ==
    ASSUME NEW c, NEW st, Shaped(c)
    PROVE  [c EXCEPT !.st = st] =
           Child(st, c.user, c.password, c.entry, c.ids, c.saved, c.clock, c.code)
BY DEF Shaped, Child

\* The end of a child.
LEMMA ExitsShape ==
    ASSUME NEW c, NEW code, Shaped(c)
    PROVE  Exits(c, code) =
           Child("dead", c.user, c.password, c.entry, c.ids, c.saved, c.clock, code)
<1> DEFINE d == [c EXCEPT !.st = "dead"]
<1>1. d = Child("dead", c.user, c.password, c.entry, c.ids, c.saved, c.clock, c.code)
  BY DEF Shaped, Child
<1>2. Exits(c, code) = [d EXCEPT !.code = code]
  BY DEF Exits
<1> HIDE DEF d
<1>3. [d EXCEPT !.code = code] =
      Child("dead", c.user, c.password, c.entry, c.ids, c.saved, c.clock, code)
  BY <1>1 DEF Child
<1> QED
  BY <1>2, <1>3

\* The mode is remembered.
LEMMA SavedShape ==
    ASSUME NEW c, NEW st, NEW mode, Shaped(c)
    PROVE  [c EXCEPT !.st = st, !.saved = mode] =
           Child(st, c.user, c.password, c.entry, c.ids, mode, c.clock, c.code)
<1> DEFINE d == [c EXCEPT !.st = st]
<1>1. d = Child(st, c.user, c.password, c.entry, c.ids, c.saved, c.clock, c.code)
  BY DEF Shaped, Child
<1>2. [c EXCEPT !.st = st, !.saved = mode] = [d EXCEPT !.saved = mode]
  OBVIOUS
<1> HIDE DEF d
<1>3. [d EXCEPT !.saved = mode] =
      Child(st, c.user, c.password, c.entry, c.ids, mode, c.clock, c.code)
  BY <1>1 DEF Child
<1> QED
  BY <1>2, <1>3

\* The password is accepted.
LEMMA AcceptedShape ==
    ASSUME NEW c, NEW st, NEW password, NEW entry, Shaped(c)
    PROVE  [c EXCEPT !.st = st, !.password = password, !.entry = entry] =
           Child(st, c.user, password, entry, c.ids, c.saved, c.clock, c.code)
<1> DEFINE d == [c EXCEPT !.st = st]
           f == [d EXCEPT !.password = password]
<1>1. d = Child(st, c.user, c.password, c.entry, c.ids, c.saved, c.clock, c.code)
  BY DEF Shaped, Child
<1>2. [c EXCEPT !.st = st, !.password = password, !.entry = entry] =
      [f EXCEPT !.entry = entry]
  OBVIOUS
<1> HIDE DEF d
<1>3. f = Child(st, c.user, password, c.entry, c.ids, c.saved, c.clock, c.code)
  BY <1>1 DEF Child
<1> HIDE DEF f
<1>4. [f EXCEPT !.entry = entry] =
      Child(st, c.user, password, entry, c.ids, c.saved, c.clock, c.code)
  BY <1>3 DEF Child
<1> QED
  BY <1>2, <1>4

\* Time at the password.
LEMMA TimeShape ==
    ASSUME NEW c, NEW time, Shaped(c)
    PROVE  [c EXCEPT !.clock = time] =
           Child(c.st, c.user, c.password, c.entry, c.ids, c.saved, time, c.code)
BY DEF Shaped, Child

\* The child of a fork.
LEMMA ForkedShape ==
    ASSUME NEW who
    PROVE  [NoChild EXCEPT !.st = "forked", !.user = who] =
           Child("forked", who, <<>>, NoEntry, IdsOf(0, 0, 0), Cooked, 0, 0)
<1> DEFINE d == [NoChild EXCEPT !.st = "forked"]
<1>1. d = Child("forked", <<>>, <<>>, NoEntry, IdsOf(0, 0, 0), Cooked, 0, 0)
  BY DEF NoChild, Root, Child, IdsOf
<1>2. [NoChild EXCEPT !.st = "forked", !.user = who] = [d EXCEPT !.user = who]
  OBVIOUS
<1> HIDE DEF d
<1>3. [d EXCEPT !.user = who] =
      Child("forked", who, <<>>, NoEntry, IdsOf(0, 0, 0), Cooked, 0, 0)
  BY <1>1 DEF Child
<1> QED
  BY <1>2, <1>3

\* One id is changed; the others stay.
LEMMA GroupsShape ==
    ASSUME NEW c, NEW st, NEW id, Shaped(c)
    PROVE  [c EXCEPT !.st = st, !.ids["groups"] = id] =
           Child(st, c.user, c.password, c.entry, IdsOf(c.ids.uid, c.ids.gid, id),
                 c.saved, c.clock, c.code)
<1> DEFINE d == [c EXCEPT !.st = st]
           new == IdsOf(c.ids.uid, c.ids.gid, id)
<1>1. d = Child(st, c.user, c.password, c.entry, c.ids, c.saved, c.clock, c.code)
  BY DEF Shaped, Child
<1>2. d.ids = c.ids
  BY <1>1 DEF Child
<1>3. [c.ids EXCEPT !["groups"] = id] = new
  BY DEF Shaped, IdsOf
<1>4. [c EXCEPT !.st = st, !.ids["groups"] = id] = [d EXCEPT !.ids["groups"] = id]
  OBVIOUS
<1> HIDE DEF d
<1>5. [d EXCEPT !.ids["groups"] = id] = [d EXCEPT !.ids = [c.ids EXCEPT !["groups"] = id]]
  BY <1>2
<1> HIDE DEF new
<1>6. [d EXCEPT !.ids = new] =
      Child(st, c.user, c.password, c.entry, new, c.saved, c.clock, c.code)
  BY <1>1 DEF Child
<1> QED
  BY <1>3, <1>4, <1>5, <1>6 DEF new

\* The same of the group id.
LEMMA GidShape ==
    ASSUME NEW c, NEW st, NEW id, Shaped(c)
    PROVE  [c EXCEPT !.st = st, !.ids["gid"] = id] =
           Child(st, c.user, c.password, c.entry, IdsOf(c.ids.uid, id, c.ids.groups),
                 c.saved, c.clock, c.code)
<1> DEFINE d == [c EXCEPT !.st = st]
           new == IdsOf(c.ids.uid, id, c.ids.groups)
<1>1. d = Child(st, c.user, c.password, c.entry, c.ids, c.saved, c.clock, c.code)
  BY DEF Shaped, Child
<1>2. d.ids = c.ids
  BY <1>1 DEF Child
<1>3. [c.ids EXCEPT !["gid"] = id] = new
  BY DEF Shaped, IdsOf
<1>4. [c EXCEPT !.st = st, !.ids["gid"] = id] = [d EXCEPT !.ids["gid"] = id]
  OBVIOUS
<1> HIDE DEF d
<1>5. [d EXCEPT !.ids["gid"] = id] = [d EXCEPT !.ids = [c.ids EXCEPT !["gid"] = id]]
  BY <1>2
<1> HIDE DEF new
<1>6. [d EXCEPT !.ids = new] =
      Child(st, c.user, c.password, c.entry, new, c.saved, c.clock, c.code)
  BY <1>1 DEF Child
<1> QED
  BY <1>3, <1>4, <1>5, <1>6 DEF new

\* The same of the user id.
LEMMA UidShape ==
    ASSUME NEW c, NEW st, NEW id, Shaped(c)
    PROVE  [c EXCEPT !.st = st, !.ids["uid"] = id] =
           Child(st, c.user, c.password, c.entry, IdsOf(id, c.ids.gid, c.ids.groups),
                 c.saved, c.clock, c.code)
<1> DEFINE d == [c EXCEPT !.st = st]
           new == IdsOf(id, c.ids.gid, c.ids.groups)
<1>1. d = Child(st, c.user, c.password, c.entry, c.ids, c.saved, c.clock, c.code)
  BY DEF Shaped, Child
<1>2. d.ids = c.ids
  BY <1>1 DEF Child
<1>3. [c.ids EXCEPT !["uid"] = id] = new
  BY DEF Shaped, IdsOf
<1>4. [c EXCEPT !.st = st, !.ids["uid"] = id] = [d EXCEPT !.ids["uid"] = id]
  OBVIOUS
<1> HIDE DEF d
<1>5. [d EXCEPT !.ids["uid"] = id] = [d EXCEPT !.ids = [c.ids EXCEPT !["uid"] = id]]
  BY <1>2
<1> HIDE DEF new
<1>6. [d EXCEPT !.ids = new] =
      Child(st, c.user, c.password, c.entry, new, c.saved, c.clock, c.code)
  BY <1>1 DEF Child
<1> QED
  BY <1>3, <1>4, <1>5, <1>6 DEF new

(***************************************************************************)
(* The invariant is inductive                                              *)
(***************************************************************************)

LEMMA NoChildShape == NoChild = Child("none", <<>>, <<>>, NoEntry, IdsOf(0, 0, 0), Cooked, 0, 0)
BY DEF NoChild, Root, Child, IdsOf

\* A child before the password or after its end claims nothing.
LEMMA InvOutside ==
    ASSUME Between', Shaped(child)', child'.st \notin AfterPassword
    PROVE  Inv'
BY DEF Inv, Dropping, AfterPassword

LEMMA NoChildInv == ASSUME Between', child' = NoChild PROVE Inv'
<1>1. Shaped(child)' /\ child'.st = "none"
  BY NoChildShape, ChildFields
<1> QED
  BY <1>1, InvOutside DEF AfterPassword

LEMMA InvInit == Init => Inv
<1> SUFFICES ASSUME Init PROVE Inv
  OBVIOUS
<1>1. Shaped(child) /\ child.st = "none"
  BY NoChildShape, ChildFields DEF Init
<1> QED
  BY <1>1 DEF Init, Inv, Between, Dropping, AfterPassword, At

\* A child that ends.
LEMMA ExitInv ==
    ASSUME Inv, NEW code, child' = Exits(child, code), Between'
    PROVE  Inv'
<1>1. Shaped(child)' /\ child'.st = "dead"
  <2>1. child' = Child("dead", child.user, child.password, child.entry,
                       IdsOf(child.ids.uid, child.ids.gid, child.ids.groups),
                       child.saved, child.clock, code)
    BY ExitsShape DEF Inv, Shaped
  <2> QED
    BY <2>1, ChildFields
<1> QED
  BY <1>1, InvOutside DEF AfterPassword

\* While there is a child the getty is not between two logins, and no step
\* of the child moves it.
LEMMA BetweenKept ==
    ASSUME Inv, child.st # "none", pc' = pc
    PROVE  Between'
<1>1. child # NoChild
  BY DEF NoChild
<1> QED
  BY <1>1 DEF Inv, Between, At

LEMMA InvRlogin == Inv /\ Rlogin => Inv'
<1> SUFFICES ASSUME Inv, Rlogin PROVE Inv'
  OBVIOUS
<1> DEFINE ids == IdsOf(child.ids.uid, child.ids.gid, child.ids.groups)
<1>0. /\ child.st # "none" /\ pc' = pc
      /\ Shaped(child) /\ child.ids = ids
  BY DEF Inv, Shaped, Rlogin, StartLogin, ReadPassword, PasswordTimesOut, InitGroups,
         SetGid, SetUid, Become, notify_getty_ready, ExecShell, RloginOnly, getty
<1>b. Between'
  BY <1>0, BetweenKept
<1>1. CASE StartLogin
  <2>1. CASE child' = Exits(child, 127)
    BY <1>b, <2>1, ExitInv
  <2>2. CASE child' = [child EXCEPT !.st = "password", !.saved = term]
    <3>1. child' = Child("password", child.user, child.password, child.entry, ids,
                         term, child.clock, child.code)
      BY <1>0, <2>2, SavedShape
    <3>2. Shaped(child)' /\ child'.st = "password"
      BY <3>1, ChildFields
    <3> QED
      BY <1>b, <3>2, InvOutside DEF AfterPassword
  <2> QED
    BY <1>1, <2>1, <2>2 DEF StartLogin
<1>2. CASE ReadPassword
  <2> DEFINE read == ReadKeys(Head(tty))
             entry == authenticate(child.user, read.kept)
  <2>1. CASE child' = Exits(child, 1)
    BY <1>b, <2>1, ExitInv
  <2>2. CASE /\ entry # NoEntry
             /\ child' = [child EXCEPT !.st = "initgroups",
                                       !.password = read.kept, !.entry = entry]
    <3> HIDE DEF read
    <3>1. child' = Child("initgroups", child.user, read.kept, entry, ids,
                         child.saved, child.clock, child.code)
      BY <1>0, <2>2, AcceptedShape
    <3>2. /\ Shaped(child)' /\ child'.st = "initgroups" /\ child'.user = child.user
          /\ child'.password = read.kept /\ child'.entry = entry
      BY <3>1, ChildFields
    <3> QED
      BY <1>b, <2>2, <3>2 DEF Inv, Dropping, AfterPassword
  <2> QED
    BY <1>2, <2>1, <2>2 DEF ReadPassword
<1>3. CASE PasswordTimesOut
  BY <1>3, <1>b, ExitInv DEF PasswordTimesOut
<1>4. CASE InitGroups
  <2>1. CASE child' = Exits(child, 1)
    BY <1>b, <2>1, ExitInv
  <2>2. CASE child' = [child EXCEPT !.st = "setgid", !.ids["groups"] = child.entry.gid]
    <3>1. child' = Child("setgid", child.user, child.password, child.entry,
                         IdsOf(child.ids.uid, child.ids.gid, child.entry.gid),
                         child.saved, child.clock, child.code)
      BY <1>0, <2>2, GroupsShape
    <3>2. /\ Shaped(child)' /\ child'.st = "setgid" /\ child'.user = child.user
          /\ child'.password = child.password /\ child'.entry = child.entry
          /\ child'.ids.groups = child.entry.gid
      BY <3>1, ChildFields
    <3> QED
      BY <1>4, <1>b, <3>2 DEF Inv, Dropping, AfterPassword, InitGroups, Become
  <2> QED
    BY <1>4, <2>1, <2>2 DEF InitGroups, Become
<1>5. CASE SetGid
  <2>1. CASE child' = Exits(child, 1)
    BY <1>b, <2>1, ExitInv
  <2>2. CASE child' = [child EXCEPT !.st = "setuid", !.ids["gid"] = child.entry.gid]
    <3>1. child' = Child("setuid", child.user, child.password, child.entry,
                         IdsOf(child.ids.uid, child.entry.gid, child.ids.groups),
                         child.saved, child.clock, child.code)
      BY <1>0, <2>2, GidShape
    <3>2. /\ Shaped(child)' /\ child'.st = "setuid" /\ child'.user = child.user
          /\ child'.password = child.password /\ child'.entry = child.entry
          /\ child'.ids.groups = child.ids.groups /\ child'.ids.gid = child.entry.gid
      BY <3>1, ChildFields
    <3> QED
      BY <1>5, <1>b, <3>2 DEF Inv, Dropping, AfterPassword, SetGid, Become
  <2> QED
    BY <1>5, <2>1, <2>2 DEF SetGid, Become
<1>6. CASE SetUid
  <2>1. CASE child' = Exits(child, 1)
    BY <1>b, <2>1, ExitInv
  <2>2. CASE child' = [child EXCEPT !.st = "notify", !.ids["uid"] = child.entry.uid]
    <3>1. child' = Child("notify", child.user, child.password, child.entry,
                         IdsOf(child.entry.uid, child.ids.gid, child.ids.groups),
                         child.saved, child.clock, child.code)
      BY <1>0, <2>2, UidShape
    <3>2. /\ Shaped(child)' /\ child'.st = "notify" /\ child'.user = child.user
          /\ child'.password = child.password /\ child'.entry = child.entry
          /\ child'.ids.groups = child.ids.groups /\ child'.ids.gid = child.ids.gid
          /\ child'.ids.uid = child.entry.uid
      BY <3>1, ChildFields
    <3> QED
      BY <1>6, <1>b, <3>2 DEF Inv, Dropping, AfterPassword, SetUid, Become
  <2> QED
    BY <1>6, <2>1, <2>2 DEF SetUid, Become
<1>7. ASSUME NEW st \in {"exec", "shell"}, child.st \in {"notify", "exec"},
             child' = [child EXCEPT !.st = st]
      PROVE  Inv'
  <2>1. child' = Child(st, child.user, child.password, child.entry, ids,
                       child.saved, child.clock, child.code)
    BY <1>0, <1>7, StepShape
  <2>2. /\ Shaped(child)' /\ child'.st = st /\ child'.user = child.user
        /\ child'.password = child.password /\ child'.entry = child.entry
        /\ child'.ids = child.ids
    BY <1>0, <2>1, ChildFields
  <2> QED
    BY <1>7, <1>b, <2>2 DEF Inv, Dropping, AfterPassword
<1>8. CASE notify_getty_ready
  BY <1>7, <1>8 DEF notify_getty_ready
<1>9. CASE ExecShell
  <2>1. CASE child' = Exits(child, 1)
    BY <1>b, <2>1, ExitInv
  <2> QED
    BY <1>7, <1>9, <2>1 DEF ExecShell
<1> QED
  BY <1>1, <1>2, <1>3, <1>4, <1>5, <1>6, <1>8, <1>9 DEF Rlogin

LEMMA InvGetty == Inv /\ Getty => Inv'
<1> SUFFICES ASSUME Inv, Getty PROVE Inv'
  OBVIOUS
<1> USE DEF At, Goes
<1>1. CASE Prompt
  BY <1>1 DEF Inv, Between, Dropping, Prompt, reset_terminal
<1>2. CASE read_username
  BY <1>2 DEF Inv, Between, Dropping, read_username
<1>3. CASE run_login
  <2>1. CASE UNCHANGED child /\ pc' = "sleep"
    BY <1>3, <2>1 DEF Inv, Between, Dropping, run_login
  <2>2. CASE /\ child' = [NoChild EXCEPT !.st = "forked", !.user = user]
             /\ pc' \in {"wait", "login", "idle"}
    <3>0. child' = Child("forked", user, <<>>, NoEntry, IdsOf(0, 0, 0), Cooked, 0, 0)
      BY <2>2, ForkedShape
    <3>1. Shaped(child)' /\ child'.st = "forked"
      BY <3>0, ChildFields
    <3> QED
      BY <2>2, <3>1, InvOutside DEF Between, AfterPassword
  <2> QED
    BY <1>3, <2>1, <2>2 DEF run_login
<1>4. CASE wait_child_exit
  BY <1>4, NoChildInv DEF wait_child_exit, Ended, Between
<1>5. CASE LoginNotified
  BY <1>5 DEF Inv, Between, Dropping, LoginNotified
<1>6. CASE InputSeen
  BY <1>6 DEF Inv, Between, Dropping, InputSeen
<1>7. CASE IdleExpires
  <2>1. Between'
    BY <1>7 DEF IdleExpires, Between
  <2>2. CASE child' = Exits(child, 1)
    BY <2>1, <2>2, ExitInv
  <2>3. CASE UNCHANGED child
    BY <2>1, <2>3 DEF Inv, Dropping
  <2> QED
    BY <1>7, <2>2, <2>3 DEF IdleExpires
<1>8. CASE SessionKilled
  BY <1>8, NoChildInv DEF SessionKilled, Between
<1>9. CASE Slept
  BY <1>9 DEF Inv, Between, Dropping, Slept
<1> QED
  BY <1>1, <1>2, <1>3, <1>4, <1>5, <1>6, <1>7, <1>8, <1>9 DEF Getty

LEMMA InvStep == Inv /\ [Next]_vars => Inv'
<1> SUFFICES ASSUME Inv, [Next]_vars PROVE Inv'
  OBVIOUS
<1>1. CASE Rlogin
  BY <1>1, InvRlogin
<1>2. CASE Getty
  BY <1>2, InvGetty
<1>3. CASE Shell
  <2>1. Between'
    BY <1>3, BetweenKept DEF Shell, RloginOnly, getty
  <2>2. CASE UNCHANGED child
    BY <2>1, <2>2 DEF Inv, Dropping
  <2>3. CASE \E code \in {0, 1} : child' = Exits(child, code)
    BY <2>1, <2>3, ExitInv
  <2> QED
    BY <1>3, <2>2, <2>3 DEF Shell
<1>4. CASE Type
  BY <1>4 DEF Inv, Between, Dropping, Type, getty, At
<1>5. CASE Tick
  <2>1. CASE UNCHANGED child
    BY <1>5, <2>1 DEF Inv, Between, Dropping, Tick, At
  <2>2. CASE child.st = "password" /\ child' = [child EXCEPT !.clock = @ + 1]
    <3>1. Between'
      BY <1>5, <2>2, BetweenKept DEF Tick
    <3>2. child' = Child("password", child.user, child.password, child.entry,
                         IdsOf(child.ids.uid, child.ids.gid, child.ids.groups),
                         child.saved, child.clock + 1, child.code)
      <4>1. [child EXCEPT !.clock = child.clock + 1] =
            Child(child.st, child.user, child.password, child.entry, child.ids,
                  child.saved, child.clock + 1, child.code)
        BY TimeShape DEF Inv
      <4>2. child' = [child EXCEPT !.clock = child.clock + 1]
        BY <2>2
      <4> QED
        BY <2>2, <4>1, <4>2 DEF Inv, Shaped
    <3>3. Shaped(child)' /\ child'.st = "password"
      BY <3>2, ChildFields
    <3> QED
      BY <3>1, <3>3, InvOutside DEF AfterPassword
  <2> QED
    BY <1>5, <2>1, <2>2 DEF Tick
<1>6. CASE SpawnJob \/ Job
  BY <1>6 DEF Inv, Between, Dropping, SpawnJob, Job, getty
<1>7. CASE UNCHANGED vars
  BY <1>7 DEF Inv, Between, Dropping, vars, getty, At
<1> QED
  BY <1>1, <1>2, <1>3, <1>4, <1>5, <1>6, <1>7 DEF Next

LEMMA Invariant == Spec => []Inv
BY InvInit, InvStep, PTL DEF Spec

(***************************************************************************)
(* The theorems                                                            *)
(***************************************************************************)

\* A step into or within the asking finds the terminal as the prompt left it.
LEMMA PromptStep ==
    ASSUME Inv, [Next]_vars, At("read")'
    PROVE  term' = Cooked \/ Job \/ (At("read") /\ UNCHANGED term)
<1> USE DEF At
<1>1. CASE Prompt
  BY <1>1 DEF Prompt, reset_terminal
<1>2. CASE Getty /\ ~Prompt
  BY <1>2 DEF Getty, Goes, read_username, run_login, wait_child_exit, Ended,
              LoginNotified, InputSeen, IdleExpires, SessionKilled, Slept
<1>3. CASE Rlogin \/ Shell
  <2>1. pc = "read" /\ child.st # "none"
    BY <1>3 DEF Shell, Rlogin, StartLogin, ReadPassword, PasswordTimesOut, InitGroups,
                SetGid, SetUid, Become, notify_getty_ready, ExecShell, RloginOnly, getty
  <2> QED
    BY <2>1 DEF Inv, Between, NoChild
<1>4. CASE SpawnJob \/ Type \/ Tick
  BY <1>4 DEF SpawnJob, Type, Tick, getty
<1>5. CASE UNCHANGED vars
  BY <1>5 DEF vars, getty
<1> QED
  BY <1>1, <1>2, <1>3, <1>4, <1>5 DEF Next, Getty

\* run_getty begins to ask for a name on a terminal that echoes and edits
\* lines, asks without a login process, and only a job that outlived its
\* login changes the terminal meanwhile, for any timeouts, limits and lines.
THEOREM PromptClean == Spec => PromptIsClean
<1> DEFINE Clean == At("read")' =>
                      /\ child' = NoChild
                      /\ term' = Cooked \/ Job \/ (At("read") /\ UNCHANGED term)
<1>1. Inv /\ Inv' /\ [Next]_vars => Clean
  <2> SUFFICES ASSUME Inv, Inv', [Next]_vars, At("read")' PROVE Clean
    OBVIOUS
  <2>1. child' = NoChild
    BY DEF Inv, Between, At
  <2> QED
    BY <2>1, PromptStep
<1>2. Inv /\ Inv' /\ [Next]_vars => [Clean]_vars
  BY <1>1
<1>3. Spec => [][Clean]_vars
  BY <1>2, Invariant, PTL DEF Spec
<1> QED
  BY <1>3 DEF PromptIsClean

\* A shell runs only with the whole identity of an account that the typed
\* password opens, for any account files (authenticate, login_shell).
THEOREM ShellIsUsers == Spec => []ShellRunsAsUser
<1>1. Inv => ShellRunsAsUser
  <2> SUFFICES ASSUME Inv, child.st = "shell" PROVE ShellRunsAsUser
    BY DEF ShellRunsAsUser
  <2>1. /\ child.entry = authenticate(child.user, child.password)
        /\ child.entry # NoEntry
        /\ child.ids = Ids(child.entry)
    BY DEF Inv, Shaped, IdsOf, Dropping, AfterPassword, Ids
  <2> QED
    BY <2>1, Authentic DEF ShellRunsAsUser
<1> QED
  BY <1>1, Invariant, PTL

\* The four stages of a session.
LEMMA SessionStages ==
    /\ child.st = "none" => Session = Abstract!Closed
    /\ child.st = "dead" => Session = Abstract!At("over")
    /\ child.st = "shell" => Session = [st |-> "open", as |-> child.ids]
    /\ child.st \notin {"none", "dead", "shell"} => Session = Abstract!At("login")
BY DEF Session, Abstract!Closed, Abstract!At

\* An open session has the identity of an account.
LEMMA OpenAsAccount ==
    ASSUME Inv, child.st = "shell" PROVE child.ids \in Accounts /\ Session \in Abstract!Open
<1>1. /\ child.entry = authenticate(child.user, child.password)
      /\ child.entry # NoEntry
      /\ child.ids = Ids(child.entry)
  BY DEF Inv, Shaped, IdsOf, Dropping, AfterPassword, Ids
<1>2. PICK k \in DOMAIN PasswdFile : PasswdFile[k] = child.entry /\ PasswdFile[k].ok
  BY <1>1, Authentic
<1>3. child.ids \in Accounts
  BY <1>1, <1>2 DEF Accounts
<1> QED
  BY <1>3, SessionStages DEF Abstract!Open, Accounts

LEMMA RefinesInit == Init => Abstract!Init
<1> SUFFICES ASSUME Init PROVE Abstract!Init
  OBVIOUS
<1>1. child.st = "none"
  BY DEF Init, NoChild
<1> QED
  BY <1>1, SessionStages DEF Init, Abstract!Init, At

\* A child that ends, or was dead already, ends the session.
LEMMA RefinesExit ==
    ASSUME Inv, child.st \notin {"none", "dead"}, child'.st = "dead", At("read")' = At("read")
    PROVE  Abstract!End
<1>1. Session = Abstract!At("login") \/ Session \in Abstract!Open
  BY SessionStages, OpenAsAccount
<1>2. Session' = Abstract!At("over")
  BY SessionStages DEF Session, Abstract!At
<1> QED
  BY <1>1, <1>2 DEF Abstract!End

\* What ends a child leaves it dead.
LEMMA ExitsDead ==
    ASSUME Shaped(child), NEW code, child' = Exits(child, code) PROVE child'.st = "dead"
BY ExitsShape DEF Child

\* Steps that keep the child on the same side of the password and of the
\* shell are invisible.
LEMMA RefinesStutter ==
    ASSUME At("read")' = At("read"),
           \/ child' = child
           \/ /\ child.st \notin {"none", "dead", "shell"}
              /\ child'.st \notin {"none", "dead", "shell"}
    PROVE  UNCHANGED Abstract!vars
<1>1. Session' = Session
  BY DEF Session
<1> QED
  BY <1>1 DEF Abstract!vars

\* No step of rlogin makes the child disappear.
LEMMA RloginStage == ASSUME Inv, Rlogin PROVE child'.st # "none"
<1>0. Shaped(child)
  BY DEF Inv
<1>1. ASSUME NEW code, child' = Exits(child, code) PROVE child'.st # "none"
  BY <1>0, <1>1, ExitsDead
<1>2. CASE child' = [child EXCEPT !.st = "password", !.saved = term]
  <2>1. child' = Child("password", child.user, child.password, child.entry, child.ids,
                       term, child.clock, child.code)
    BY <1>0, <1>2, SavedShape
  <2> QED
    BY <2>1 DEF Child
<1>3. ASSUME NEW key, NEW entry,
             child' = [child EXCEPT !.st = "initgroups", !.password = key, !.entry = entry]
      PROVE  child'.st # "none"
  <2>1. child' = Child("initgroups", child.user, key, entry, child.ids,
                       child.saved, child.clock, child.code)
    BY <1>0, <1>3, AcceptedShape
  <2> QED
    BY <2>1 DEF Child
<1>4. CASE child' = [child EXCEPT !.st = "setgid", !.ids["groups"] = child.entry.gid]
  BY <1>0, <1>4, GroupsShape DEF Child
<1>5. CASE child' = [child EXCEPT !.st = "setuid", !.ids["gid"] = child.entry.gid]
  BY <1>0, <1>5, GidShape DEF Child
<1>6. CASE child' = [child EXCEPT !.st = "notify", !.ids["uid"] = child.entry.uid]
  BY <1>0, <1>6, UidShape DEF Child
<1>7. ASSUME NEW st \in {"exec", "shell"}, child' = [child EXCEPT !.st = st]
      PROVE  child'.st # "none"
  <2>1. child' = Child(st, child.user, child.password, child.entry, child.ids,
                       child.saved, child.clock, child.code)
    BY <1>0, <1>7, StepShape
  <2> QED
    BY <1>7, <2>1 DEF Child
<1>a. CASE StartLogin
  BY <1>a, <1>1, <1>2 DEF StartLogin
<1>b. CASE ReadPassword
  BY <1>b, <1>1, <1>3 DEF ReadPassword
<1>c. CASE PasswordTimesOut
  BY <1>c, <1>1 DEF PasswordTimesOut
<1>d. CASE InitGroups
  BY <1>d, <1>1, <1>4 DEF InitGroups, Become
<1>e. CASE SetGid
  BY <1>e, <1>1, <1>5 DEF SetGid, Become
<1>f. CASE SetUid
  BY <1>f, <1>1, <1>6 DEF SetUid, Become
<1>g. CASE notify_getty_ready
  BY <1>g, <1>7 DEF notify_getty_ready
<1>h. CASE ExecShell
  BY <1>h, <1>1, <1>7 DEF ExecShell
<1> QED
  BY <1>a, <1>b, <1>c, <1>d, <1>e, <1>f, <1>g, <1>h DEF Rlogin

LEMMA RefinesRlogin == Inv /\ Inv' /\ Rlogin => [Abstract!Next]_(Abstract!vars)
<1> SUFFICES ASSUME Inv, Inv', Rlogin PROVE [Abstract!Next]_(Abstract!vars)
  OBVIOUS
<1>0. At("read")' = At("read") /\ Shaped(child)
  BY DEF Inv, Rlogin, StartLogin, ReadPassword, PasswordTimesOut, InitGroups,
         SetGid, SetUid, Become, notify_getty_ready, ExecShell, RloginOnly, getty, At
<1>1. child.st \notin {"none", "dead", "shell"}
  BY DEF Rlogin, StartLogin, ReadPassword, PasswordTimesOut, InitGroups,
         SetGid, SetUid, Become, notify_getty_ready, ExecShell
<1>2. CASE child'.st = "dead"
  BY <1>0, <1>1, <1>2, RefinesExit DEF Abstract!Next
<1>3. CASE child'.st \notin {"none", "dead", "shell"}
  BY <1>0, <1>1, <1>3, RefinesStutter
<1>4. CASE child'.st = "shell"
  <2>1. Session = Abstract!At("login")
    BY <1>1, SessionStages
  <2>2. Session' \in Abstract!Open
    <3>1. (Inv /\ child.st = "shell" => Session \in Abstract!Open)'
      BY OpenAsAccount, PTL
    <3> QED
      BY <1>4, <3>1
  <2> QED
    BY <1>0, <2>1, <2>2 DEF Abstract!Next, Abstract!Admit
<1>5. child'.st # "none"
  BY RloginStage
<1> QED
  BY <1>2, <1>3, <1>4, <1>5

LEMMA RefinesGetty == Inv /\ Inv' /\ Getty => [Abstract!Next]_(Abstract!vars)
<1> SUFFICES ASSUME Inv, Inv', Getty PROVE [Abstract!Next]_(Abstract!vars)
  OBVIOUS
<1> USE DEF At, Goes
<1>0. NoChild.st = "none" /\ Shaped(child)
  BY DEF Inv, NoChild
<1>1. CASE Prompt
  <2>1. child.st = "none" /\ Session' = Session
    BY <1>0, <1>1 DEF Inv, Between, Prompt, Session
  <2>2. Session = Abstract!Closed
    BY <2>1, SessionStages
  <2> QED
    BY <1>1, <2>1, <2>2 DEF Prompt, Abstract!Next, Abstract!Ask
<1>2. CASE read_username
  <2>1. Session' = Session /\ pc' # "read"
    BY <1>2 DEF read_username, Session
  <2> QED
    BY <1>2, <2>1 DEF read_username, Abstract!Next, Abstract!Answer
<1>3. CASE run_login
  <2>1. CASE UNCHANGED child /\ pc' = "sleep"
    BY <1>3, <2>1, RefinesStutter DEF run_login
  <2>2. CASE /\ child' = [NoChild EXCEPT !.st = "forked", !.user = user]
             /\ pc' \in {"wait", "login", "idle"}
    <3>1. child.st = "none"
      BY <1>0, <1>3 DEF Inv, Between, run_login
    <3>2. child' = Child("forked", user, <<>>, NoEntry, IdsOf(0, 0, 0), Cooked, 0, 0)
      BY <2>2, ForkedShape
    <3>3. child'.st = "forked"
      BY <3>2 DEF Child
    <3>4. Session = Abstract!Closed
      BY <3>1, SessionStages
    <3>5. Session' = Abstract!At("login")
      BY <3>3 DEF Session, Abstract!At
    <3> QED
      BY <1>3, <2>2, <3>4, <3>5 DEF run_login, Abstract!Next, Abstract!Begin
  <2> QED
    BY <1>3, <2>1, <2>2 DEF run_login
<1>c. ASSUME child' = NoChild, pc # "read", pc' # "read"
      PROVE  Abstract!Collect
  <2>1. Session' = Abstract!Closed
    BY <1>0, <1>c DEF Session, Abstract!Closed, Abstract!At
  <2> QED
    BY <1>c, <2>1 DEF Abstract!Collect
<1>4. CASE wait_child_exit
  BY <1>4, <1>c DEF wait_child_exit, Ended, Abstract!Next
<1>5. CASE LoginNotified
  BY <1>5, RefinesStutter DEF LoginNotified
<1>6. CASE InputSeen
  BY <1>6, RefinesStutter DEF InputSeen
<1>7. CASE IdleExpires
  <2>1. CASE Alive /\ child' = Exits(child, 1)
    <3>1. child'.st = "dead"
      BY <1>0, <2>1, ExitsDead
    <3> QED
      BY <1>7, <2>1, <3>1, RefinesExit DEF IdleExpires, Alive, Abstract!Next
  <2>2. CASE UNCHANGED child
    BY <1>7, <2>2, RefinesStutter DEF IdleExpires
  <2> QED
    BY <1>7, <2>1, <2>2 DEF IdleExpires
<1>8. CASE SessionKilled
  BY <1>8, <1>c DEF SessionKilled, Abstract!Next
<1>9. CASE Slept
  BY <1>9, RefinesStutter DEF Slept
<1> QED
  BY <1>1, <1>2, <1>3, <1>4, <1>5, <1>6, <1>7, <1>8, <1>9 DEF Getty

LEMMA RefinesStep == Inv /\ Inv' /\ [Next]_vars => [Abstract!Next]_(Abstract!vars)
<1> SUFFICES ASSUME Inv, Inv', [Next]_vars PROVE [Abstract!Next]_(Abstract!vars)
  OBVIOUS
<1>0. Shaped(child)
  BY DEF Inv
<1>1. CASE Rlogin
  BY <1>1, RefinesRlogin
<1>2. CASE Getty
  BY <1>2, RefinesGetty
<1>3. CASE Shell
  <2>1. At("read")' = At("read") /\ child.st = "shell"
    BY <1>3 DEF Shell, RloginOnly, getty, At
  <2>2. CASE UNCHANGED child
    BY <2>1, <2>2, RefinesStutter
  <2>3. CASE \E code \in {0, 1} : child' = Exits(child, code)
    <3>1. child'.st = "dead"
      BY <1>0, <2>3, ExitsDead
    <3> QED
      BY <2>1, <3>1, RefinesExit DEF Abstract!Next
  <2> QED
    BY <1>3, <2>2, <2>3 DEF Shell
<1>4. CASE Type
  BY <1>4, RefinesStutter DEF Type, getty, At
<1>5. CASE Tick
  <2>1. At("read")' = At("read")
    BY <1>5 DEF Tick, At
  <2>2. CASE UNCHANGED child
    BY <2>1, <2>2, RefinesStutter
  <2>3. CASE child.st = "password" /\ child' = [child EXCEPT !.clock = @ + 1]
    <3>1. child'.st = "password"
      <4>1. [child EXCEPT !.clock = child.clock + 1] =
            Child(child.st, child.user, child.password, child.entry, child.ids,
                  child.saved, child.clock + 1, child.code)
        BY <1>0, TimeShape
      <4>2. child' = [child EXCEPT !.clock = child.clock + 1]
        BY <2>3
      <4> QED
        BY <2>3, <4>1, <4>2 DEF Child
    <3> QED
      BY <2>1, <2>3, <3>1, RefinesStutter
  <2> QED
    BY <1>5, <2>2, <2>3 DEF Tick
<1>6. CASE SpawnJob \/ Job
  BY <1>6, RefinesStutter DEF SpawnJob, Job, getty, At
<1>7. CASE UNCHANGED vars
  BY <1>7, RefinesStutter DEF vars, getty, At
<1> QED
  BY <1>1, <1>2, <1>3, <1>4, <1>5, <1>6, <1>7 DEF Next

\* rgetty and rlogin implement Terminal: sessions come one after another, a
\* name is asked for only between them, and each is opened as one account
\* and stays so, whatever fails and whenever the timers fire.
THEOREM LoginImplementsTerminal == Spec => ImplementsTerminal
<1>1. Init => Abstract!Init
  BY RefinesInit
<1>2. Inv /\ Inv' /\ [Next]_vars => [Abstract!Next]_(Abstract!vars)
  BY RefinesStep
<1> QED
  BY <1>1, <1>2, Invariant, PTL DEF Spec, ImplementsTerminal, Abstract!Spec

=============================================================================
