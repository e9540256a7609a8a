------------------------------ MODULE MCLogin ------------------------------
(***************************************************************************)
(* Accounts for Login: a line that does not parse, a user with a hash in   *)
(* the shadow file, a locked one, one without a password and one whose     *)
(* shadow line is missing; a line longer than a password may be, one with  *)
(* a backspace, a blank one.                                               *)
(***************************************************************************)
EXTENDS Login

Field(kind, secret) == [kind |-> kind, secret |-> secret]
Account(name, passwd, id) ==
    [ok |-> TRUE, name |-> <<name>>, passwd |-> passwd, uid |-> id, gid |-> id]

MCPasswd ==
    << [ok |-> FALSE, name |-> <<"u">>, passwd |-> Field("empty", <<>>), uid |-> 0, gid |-> 0],
       Account("u", Field("x", <<>>), 1),
       Account("l", Field("locked", <<>>), 2),
       Account("n", Field("empty", <<>>), 3),
       Account("m", Field("x", <<>>), 4) >>
MCShadow == << [name |-> <<"u">>, passwd |-> Field("crypt", <<"p", "q">>)] >>

MCLine == { <<" ", "u", " ">>, <<"n">>, <<"l">>, <<"m">>, <<" ">>,
            <<"p", "x", "bs", "q">>, <<"p", "q", "n", "n">> }
=============================================================================
