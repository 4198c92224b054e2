------------------------------ MODULE Account ------------------------------
(***************************************************************************)
(* The accounts: registration, login and change of password.  Sessions     *)
(* meet in the table `user`; a registration also makes the user's home     *)
(* directory.  Each SQL statement is a step, and between two of them may   *)
(* lie a round trip to the client, who encrypts the password with the salt *)
(* the session sends.                                                      *)
(*                                                                         *)
(*   server/src/UserFunc.c       UserFunc, LoginOrSignin, RePassWd         *)
(*   server/src/SystemFunc.c     GetRandomStr                              *)
(*   client/src/userlogin.c      UserLogin, UseChoose                      *)
(*                                                                         *)
(* A salt is what crypt uses of it.  GetRandomStr starts from the time in  *)
(* seconds: a salt may be any, also one used before.                       *)
(***************************************************************************)
EXTENDS Integers, Sequences

CONSTANTS
    Sessions,       \* the workers that serve a client
    Passwords,      \* what users type
    Salts,
    RegNames(_),    \* the usernames that the client of a session may register
    Resets,         \* whether recv may fail while a password is awaited
    MaxOps          \* bound: registrations, logins and password changes

Names == UNION {RegNames(s) : s \in Sessions}

ASSUME BoundsAssumption == Resets \in BOOLEAN /\ MaxOps \in Nat
\* No two clients register one name at a time (LoginOrSignin looks, then inserts).
ASSUME NamesAssumption ==
    \A s, t \in Sessions : s # t => RegNames(s) \cap RegNames(t) = {}

VARIABLES
    users,      \* table user: [id -> [name, salt, pw]], and the password itself (history)
    nextId,     \* the id of the next insertion
    homes,      \* the user ids of the directories below the root, as inserted
    ss,         \* each session: its place and the locals of its dialogue
    seen,       \* history: the rows the username of a login had during it
    cut,        \* history: the accounts whose registration an exit cut
    ops

table == <<users, nextId>>
vars == <<users, nextId, homes, ss, seen, cut, ops>>

\* crypt, on the client: different passwords or salts give different texts.  (The function
\* used looks at eight characters of a password: passwords are what it tells apart.)
Crypt(p, salt) == <<p, salt>>

\* What recv leaves in new_password: the text, or nothing.
Received(p, salt) == {Crypt(p, salt)} \cup (IF Resets THEN {<<>>} ELSE {})

New == [pc |-> "account", name |-> "none", typed |-> "none", salt |-> "none",
        pw |-> <<>>, id |-> 0, out |-> "none"]

Init ==
    /\ users = [i \in {} |-> New] /\ nextId = 1
    /\ homes = <<>>
    /\ ss = [s \in Sessions |-> New]
    /\ seen = [s \in Sessions |-> {}]
    /\ cut = {} /\ ops = 0

-----------------------------------------------------------------------------
IdsOf(n)  == {i \in DOMAIN users : users[i].name = n}
RowsOf(n) == {users[i] : i \in IdsOf(n)}

At(s, place) == ss[s].pc = place

LoggingIn(s) == ss[s].pc \in {"salt", "check"}

Go(s, r) == ss' = [ss EXCEPT ![s] = r]

\* The rows of a username while somebody logs in with it.
Watch == seen' = [s \in Sessions |->
                    IF LoggingIn(s) THEN seen[s] \cup {users'[i] : i \in IdsOf(ss[s].name)'}
                    ELSE seen[s]]

Count == ops < MaxOps /\ ops' = ops + 1

\* The process ends between two statements, and is started again.
Exit ==
    /\ ss' = [s \in Sessions |-> New]
    /\ cut' = cut \cup {ss[s].id : s \in {t \in Sessions : At(t, "home")}}
                  \cup UNION {IdsOf(ss[s].name) : s \in {t \in Sessions : At(t, "getid")}}
    /\ UNCHANGED <<table, homes, seen, ops>>

-----------------------------------------------------------------------------
(***************************************************************************)
(* Registration.                                                           *)
(***************************************************************************)
\* Faulty: the username is not looked for.
SigninAlways(s) ==
    /\ At(s, "account") /\ Count
    /\ \E n \in RegNames(s), p \in Passwords, salt \in Salts :
          Go(s, [New EXCEPT !.pc = "insert", !.name = n, !.typed = p, !.salt = salt])
    /\ UNCHANGED <<table, homes, seen, cut>>

\* A username that is taken is refused; else the session sends a salt.
Signin(s) ==
    /\ At(s, "account") /\ Count
    /\ \E n \in RegNames(s), p \in Passwords, salt \in Salts :
          \/ IdsOf(n) # {} /\ Go(s, New)
          \/ /\ IdsOf(n) = {}
             /\ Go(s, [New EXCEPT !.pc = "insert", !.name = n, !.typed = p, !.salt = salt])
    /\ UNCHANGED <<table, homes, seen, cut>>

NewRow(s, pw) == [name |-> ss[s].name, salt |-> ss[s].salt, pw |-> pw, word |-> ss[s].typed]

\* Faulty: the id is used again.
InsertUserSameId(s) ==
    /\ At(s, "insert")
    /\ \E pw \in Received(ss[s].typed, ss[s].salt) :
          /\ users' = [i \in DOMAIN users \cup {nextId} |->
                          IF i = nextId THEN NewRow(s, pw)
                          ELSE users[i]]
          /\ Go(s, [ss[s] EXCEPT !.pc = "getid", !.pw = pw])
    /\ Watch
    /\ UNCHANGED <<nextId, homes, cut, ops>>

\* The encrypted password has come: the row is inserted.
InsertUser(s) ==
    /\ At(s, "insert")
    /\ \E pw \in Received(ss[s].typed, ss[s].salt) :
          /\ users' = [i \in DOMAIN users \cup {nextId} |->
                          IF i = nextId THEN NewRow(s, pw)
                          ELSE users[i]]
          /\ Go(s, [ss[s] EXCEPT !.pc = "getid", !.pw = pw])
    /\ nextId' = nextId + 1
    /\ Watch
    /\ UNCHANGED <<homes, cut, ops>>

\* Faulty: the id is looked up by the password alone.
GetIdByPassword(s) ==
    /\ At(s, "getid")
    /\ \E i \in {k \in DOMAIN users : users[k].pw = ss[s].pw} :
          Go(s, [ss[s] EXCEPT !.pc = "home", !.id = i])
    /\ UNCHANGED <<table, homes, seen, cut, ops>>

\* The id, by username and password; some row of them, if there are several.  Somebody may
\* have logged in and changed the password already: a null row ends the process.
GetId(s) ==
    /\ At(s, "getid")
    /\ LET found == {i \in IdsOf(ss[s].name) : users[i].pw = ss[s].pw}
       IN  IF found = {} THEN Exit
           ELSE /\ \E i \in found : Go(s, [ss[s] EXCEPT !.pc = "home", !.id = i])
                /\ UNCHANGED <<table, homes, seen, cut, ops>>

\* The home directory, and the user is in.
InsertHome(s) ==
    /\ At(s, "home")
    /\ homes' = Append(homes, ss[s].id)
    /\ Go(s, [ss[s] EXCEPT !.pc = "in"])
    /\ UNCHANGED <<table, seen, cut, ops>>

-----------------------------------------------------------------------------
(***************************************************************************)
(* Login.                                                                  *)
(***************************************************************************)
Login(s) ==
    /\ At(s, "account") /\ Count
    /\ \E n \in Names, p \in Passwords :
          \/ IdsOf(n) = {} /\ Go(s, New) /\ UNCHANGED seen
          \/ /\ IdsOf(n) # {}
             /\ Go(s, [New EXCEPT !.pc = "salt", !.name = n, !.typed = p])
             /\ seen' = [seen EXCEPT ![s] = RowsOf(n)]
    /\ UNCHANGED <<table, homes, cut>>

\* The salt of a row of the username goes to the client.
ReadSalt(s) ==
    /\ At(s, "salt")
    /\ \E r \in RowsOf(ss[s].name) : Go(s, [ss[s] EXCEPT !.pc = "check", !.salt = r.salt])
    /\ UNCHANGED <<table, homes, seen, cut, ops>>

\* The encrypted password has come: a row with it and the username, or a refusal.
CheckPassword(s) ==
    /\ At(s, "check")
    /\ \E pw \in Received(ss[s].typed, ss[s].salt) :
          LET found == {i \in IdsOf(ss[s].name) : users[i].pw = pw}
          IN  \/ found = {} /\ Go(s, [ss[s] EXCEPT !.pc = "account", !.out = "refused"])
              \/ \E i \in found : Go(s, [ss[s] EXCEPT !.pc = "in", !.id = i, !.out = "accepted"])
    /\ UNCHANGED <<table, homes, seen, cut, ops>>

-----------------------------------------------------------------------------
(***************************************************************************)
(* Change of password, and the ends of a session.                          *)
(***************************************************************************)
\* rp: a new salt goes to the client.
RePassWd(s) ==
    /\ At(s, "in") /\ Count
    /\ \E p \in Passwords, salt \in Salts :
          Go(s, [ss[s] EXCEPT !.pc = "update", !.typed = p, !.salt = salt, !.out = "none"])
    /\ UNCHANGED <<table, homes, seen, cut>>

\* Faulty: the new salt is not stored with the password.
UpdatePasswordOnly(s) ==
    /\ At(s, "update")
    /\ \E pw \in Received(ss[s].typed, ss[s].salt) :
          users' = [users EXCEPT ![ss[s].id] = [NewRow(s, pw) EXCEPT !.name = users[ss[s].id].name,
                                                                     !.salt = users[ss[s].id].salt]]
    /\ Go(s, New)
    /\ Watch
    /\ UNCHANGED <<nextId, homes, cut, ops>>

\* Salt and password in one statement; the session is at the login again.
UpdateUser(s) ==
    /\ At(s, "update")
    /\ \E pw \in Received(ss[s].typed, ss[s].salt) :
          users' = [users EXCEPT ![ss[s].id] = [NewRow(s, pw) EXCEPT !.name = users[ss[s].id].name]]
    /\ Go(s, New)
    /\ Watch
    /\ UNCHANGED <<nextId, homes, cut, ops>>

\* The client goes: noticed where the session reads.  The worker serves another one.
Leave(s) ==
    /\ ss[s].pc \in {"account", "insert", "check", "in", "update"} /\ ss[s] # New
    /\ Go(s, New)
    /\ UNCHANGED <<table, homes, seen, cut, ops>>

Step(s) ==
    \/ Signin(s) \/ InsertUser(s) \/ GetId(s) \/ InsertHome(s)
    \/ Login(s) \/ ReadSalt(s) \/ CheckPassword(s)
    \/ RePassWd(s) \/ UpdateUser(s) \/ Leave(s)

Next == Exit \/ \E s \in Sessions : Step(s)

Spec == Init /\ [][Next]_vars

-----------------------------------------------------------------------------
(***************************************************************************)
(* Properties.                                                             *)
(***************************************************************************)
Texts == (Passwords \X Salts) \cup {<<>>}
Rows  == [name : Names, salt : Salts, pw : Texts, word : Passwords]
Places == {"account", "insert", "getid", "home", "salt", "check", "in", "update"}

\* Every variable holds a value of its type, and no id is used twice.
TypeOK ==
    /\ nextId \in Nat \ {0} /\ users \in [1..(nextId - 1) -> Rows]
    /\ homes \in Seq(DOMAIN users)
    /\ ss \in [Sessions -> [pc : Places, name : Names \cup {"none"},
                            typed : Passwords \cup {"none"}, salt : Salts \cup {"none"},
                            pw : Texts, id : DOMAIN users \cup {0},
                            out : {"none", "accepted", "refused"}]]
    /\ seen \in [Sessions -> SUBSET Rows]
    /\ cut \subseteq DOMAIN users /\ ops \in Nat

\* A username has one account: nothing a client does while its own registration is underway,
\* no exit and no change of password, makes a second (NamesAssumption: two clients that
\* register one name at a time both find it free).
UniqueNames ==
    \A i, j \in DOMAIN users : users[i].name = users[j].name => i = j

HomesOf(i) == {h \in DOMAIN homes : homes[h] = i}

Underway(i) ==
    \E s \in Sessions : ss[s].pc \in {"getid", "home"} /\ ss[s].name = users[i].name

\* An account has one home directory of its own as soon as its registration is over, also
\* when two users choose one password and get one salt, and unless the process ended inside.
HomeForEach ==
    \A i \in DOMAIN users :
        IF Underway(i) THEN HomesOf(i) = {}
        ELSE \/ \E h \in DOMAIN homes : HomesOf(i) = {h}
             \/ HomesOf(i) = {} /\ i \in cut

\* A login reads the salt and compares the password in two statements, and the password may
\* change in between: it is accepted only if what was typed was the password at some moment of
\* the login, and it is refused only if what was typed was wrong at some moment or the
\* password was changed in the meantime.
LoginRight ==
    \A s \in Sessions :
        /\ ss[s].out = "accepted" => \E r \in seen[s] : r.word = ss[s].typed
        /\ ss[s].out = "refused"  => ~ \E r \in seen[s] : seen[s] = {r} /\ r.word = ss[s].typed
=============================================================================
