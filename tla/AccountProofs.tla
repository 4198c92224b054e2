--------------------------- MODULE AccountProofs ---------------------------
(***************************************************************************)
(* What holds of Account for any sessions, usernames, passwords and salts. *)
(***************************************************************************)
EXTENDS Account, TLAPS

(***************************************************************************)
(* The inductive invariant.                                                *)
(***************************************************************************)
\* What a session's place says about its locals.
Locals ==
    \A s \in Sessions :
        /\ ss[s].pc \in {"insert", "update"} =>
              ss[s].typed \in Passwords /\ ss[s].salt \in Salts
        /\ ss[s].pc \in {"home", "in", "update"} => ss[s].id \in DOMAIN users
        /\ ss[s].pc = "home" => users[ss[s].id].name = ss[s].name
        /\ ss[s].out # "none" => ss[s].pc \in {"account", "in"}

\* Between its look at the username and the end, a registration has the name for itself.
Registering ==
    \A s \in Sessions :
        /\ ss[s].pc \in {"insert", "getid", "home"} => ss[s].name \in RegNames(s)
        /\ ss[s].pc = "insert" => \A i \in DOMAIN users : users[i].name # ss[s].name

IInv == TypeOK /\ Locals /\ Registering /\ UniqueNames /\ HomeForEach

LEMMA InitInv == Init => IInv
<1> SUFFICES ASSUME Init PROVE IInv
    OBVIOUS
<1>1. users = [i \in {} |-> New] /\ DOMAIN users = {} /\ nextId = 1
    BY DEF Init
<1>2. TypeOK
  <2>1. users \in [1..(nextId - 1) -> Rows]
    BY <1>1
  <2>2. <<>> \in Seq(DOMAIN users)
    OBVIOUS
  <2>. QED
    BY <1>1, <2>1, <2>2 DEF Init, TypeOK, New, Texts, Places
<1>. QED
    BY <1>1, <1>2 DEF Init, IInv, Locals, Registering, UniqueNames, HomeForEach, New

(***************************************************************************)
(* Types.                                                                  *)
(***************************************************************************)
Local == [pc : Places, name : Names \cup {"none"}, typed : Passwords \cup {"none"},
          salt : Salts \cup {"none"}, pw : Texts, id : DOMAIN users \cup {0},
          out : {"none", "accepted", "refused"}]

LEMMA NewTyped == New \in Local
BY DEF New, Local, Texts, Places

\* The locals after a step that does not touch the tables.
LEMMA GoTyped ==
    ASSUME TypeOK, NEW s \in Sessions, NEW r \in Local, Go(s, r),
           UNCHANGED <<table, homes, cut>>, seen' \in [Sessions -> SUBSET Rows], ops' \in Nat
    PROVE  TypeOK'
BY DEF TypeOK, Go, Local, table

LEMMA ReceivedTyped ==
    ASSUME NEW p \in Passwords, NEW salt \in Salts, NEW pw \in Received(p, salt)
    PROVE  pw \in Texts
BY DEF Received, Crypt, Texts

LEMMA CountTyped == TypeOK /\ Count => ops' \in Nat
BY DEF TypeOK, Count

(***************************************************************************)
(* Steps that leave the tables alone and move one session.                 *)
(***************************************************************************)
\* The session may hold r: what IInv says of one session.
Allowed(s, r) ==
    /\ r \in Local
    /\ r.pc \in {"insert", "update"} => r.typed \in Passwords /\ r.salt \in Salts
    /\ r.pc \in {"home", "in", "update"} => r.id \in DOMAIN users
    /\ r.pc = "home" => users[r.id].name = r.name
    /\ r.out # "none" => r.pc \in {"account", "in"}
    /\ r.pc \in {"insert", "getid", "home"} => r.name \in RegNames(s)
    /\ r.pc = "insert" => \A i \in DOMAIN users : users[i].name # r.name

AtHome(pc) == pc \in {"getid", "home"}

LEMMA QuietStep ==
    ASSUME IInv, NEW s \in Sessions, NEW r, Allowed(s, r), Go(s, r),
           AtHome(r.pc) <=> AtHome(ss[s].pc), AtHome(r.pc) => r.name = ss[s].name,
           UNCHANGED <<table, homes, cut>>, seen' \in [Sessions -> SUBSET Rows], ops' \in Nat
    PROVE  IInv'
<1>1. TypeOK'
    BY GoTyped DEF IInv, Allowed
<1>2. ss' = [ss EXCEPT ![s] = r] /\ users' = users /\ homes' = homes /\ cut' = cut /\ ss \in [Sessions -> Local]
    BY DEF Go, table, IInv, TypeOK, Local
<1>3. Locals'
    BY <1>2 DEF IInv, Locals, Allowed
<1>4. Registering'
    BY <1>2 DEF IInv, Registering, Allowed
<1>5. UniqueNames'
    BY <1>2 DEF IInv, UniqueNames
<1>6. \A i \in DOMAIN users : Underway(i)' <=> Underway(i)
    BY <1>2 DEF Underway, AtHome
<1>7. HomeForEach'
    BY <1>2, <1>6 DEF IInv, HomeForEach, HomesOf
<1>. QED
    BY <1>1, <1>3, <1>4, <1>5, <1>7 DEF IInv

LEMMA NewAllowed == ASSUME NEW s \in Sessions PROVE Allowed(s, New)
BY NewTyped DEF Allowed, New

LEMMA LocalsTyped == TypeOK => ss \in [Sessions -> Local]
BY DEF TypeOK, Local

LEMMA RowsTyped == TypeOK => \A i \in DOMAIN users : users[i] \in Rows
BY DEF TypeOK

LEMMA SigninInv == ASSUME IInv, NEW s \in Sessions, Signin(s) PROVE IInv'
<1>1. PICK n \in RegNames(s), p \in Passwords, salt \in Salts :
          \/ Go(s, New)
          \/ IdsOf(n) = {} /\ Go(s, [New EXCEPT !.pc = "insert", !.name = n, !.typed = p, !.salt = salt])
    BY DEF Signin
<1>2. /\ ss[s].pc = "account" /\ ops' \in Nat /\ UNCHANGED <<table, homes, cut>>
      /\ seen' \in [Sessions -> SUBSET Rows]
    BY CountTyped DEF Signin, At, IInv, TypeOK
<1>3. CASE Go(s, New)
    BY <1>2, <1>3, QuietStep, NewAllowed DEF New, AtHome
<1>4. CASE IdsOf(n) = {} /\ Go(s, [New EXCEPT !.pc = "insert", !.name = n, !.typed = p, !.salt = salt])
  <2>. DEFINE r == [New EXCEPT !.pc = "insert", !.name = n, !.typed = p, !.salt = salt]
  <2>1. n \in Names /\ \A i \in DOMAIN users : users[i].name # n
    BY <1>4 DEF IdsOf, Names
  <2>2. Allowed(s, r)
    BY <2>1 DEF Allowed, New, Local, Places, Texts
  <2>. QED
    BY <1>2, <1>4, <2>2, QuietStep DEF New, AtHome
<1>. QED
    BY <1>1, <1>3, <1>4

LEMMA LoginInv == ASSUME IInv, NEW s \in Sessions, Login(s) PROVE IInv'
<1>1. PICK n \in Names, p \in Passwords :
          \/ Go(s, New) /\ UNCHANGED seen
          \/ /\ Go(s, [New EXCEPT !.pc = "salt", !.name = n, !.typed = p])
             /\ seen' = [seen EXCEPT ![s] = RowsOf(n)]
    BY DEF Login
<1>2. ss[s].pc = "account" /\ ops' \in Nat /\ UNCHANGED <<table, homes, cut>>
    BY CountTyped DEF Login, At, IInv
<1>3. seen' \in [Sessions -> SUBSET Rows]
    BY <1>1, RowsTyped DEF IInv, TypeOK, RowsOf, IdsOf
<1>4. CASE Go(s, New)
    BY <1>2, <1>3, <1>4, QuietStep, NewAllowed DEF New, AtHome
<1>5. CASE Go(s, [New EXCEPT !.pc = "salt", !.name = n, !.typed = p])
  <2>. DEFINE r == [New EXCEPT !.pc = "salt", !.name = n, !.typed = p]
  <2>1. Allowed(s, r)
    BY DEF Allowed, New, Local, Places, Texts
  <2>. QED
    BY <1>2, <1>3, <1>5, <2>1, QuietStep DEF New, AtHome
<1>. QED
    BY <1>1, <1>4, <1>5

LEMMA ReadSaltInv == ASSUME IInv, NEW s \in Sessions, ReadSalt(s) PROVE IInv'
<1>1. PICK row \in RowsOf(ss[s].name) : Go(s, [ss[s] EXCEPT !.pc = "check", !.salt = row.salt])
    BY DEF ReadSalt
<1>. DEFINE r == [ss[s] EXCEPT !.pc = "check", !.salt = row.salt]
<1>2. /\ ss[s].pc = "salt" /\ ops' \in Nat /\ UNCHANGED <<table, homes, cut>>
      /\ seen' \in [Sessions -> SUBSET Rows]
    BY DEF ReadSalt, At, IInv, TypeOK
<1>3. row.salt \in Salts
    BY RowsTyped DEF RowsOf, IdsOf, IInv, Rows
<1>4. r \in Local
    BY <1>3, LocalsTyped DEF IInv, Local, Places
<1>5. ss[s].out = "none"
    BY <1>2 DEF IInv, Locals
<1>6. Allowed(s, r)
    BY <1>2, <1>4, <1>5, LocalsTyped DEF Allowed, IInv, Local
<1>. QED
    BY <1>1, <1>2, <1>6, QuietStep, LocalsTyped DEF AtHome, IInv, Local

LEMMA CheckPasswordInv == ASSUME IInv, NEW s \in Sessions, CheckPassword(s) PROVE IInv'
<1>1. \/ Go(s, [ss[s] EXCEPT !.pc = "account", !.out = "refused"])
      \/ \E i \in DOMAIN users : Go(s, [ss[s] EXCEPT !.pc = "in", !.id = i, !.out = "accepted"])
    BY DEF CheckPassword, IdsOf
<1>2. /\ ss[s].pc = "check" /\ ops' \in Nat /\ UNCHANGED <<table, homes, cut>>
      /\ seen' \in [Sessions -> SUBSET Rows]
    BY DEF CheckPassword, At, IInv, TypeOK
<1>3. ss[s] \in Local
    BY LocalsTyped DEF IInv
<1>4. CASE Go(s, [ss[s] EXCEPT !.pc = "account", !.out = "refused"])
  <2>. DEFINE r == [ss[s] EXCEPT !.pc = "account", !.out = "refused"]
  <2>1. Allowed(s, r) /\ ~AtHome(r.pc)
    BY <1>3 DEF Allowed, Local, Places, AtHome
  <2>. QED
    BY <1>2, <1>4, <2>1, QuietStep DEF AtHome
<1>5. ASSUME NEW i \in DOMAIN users, Go(s, [ss[s] EXCEPT !.pc = "in", !.id = i, !.out = "accepted"])
      PROVE  IInv'
  <2>. DEFINE r == [ss[s] EXCEPT !.pc = "in", !.id = i, !.out = "accepted"]
  <2>1. Allowed(s, r) /\ ~AtHome(r.pc)
    BY <1>3 DEF Allowed, Local, Places, AtHome
  <2>. QED
    BY <1>2, <1>5, <2>1, QuietStep DEF AtHome
<1>. QED
    BY <1>1, <1>4, <1>5

LEMMA RePassWdInv == ASSUME IInv, NEW s \in Sessions, RePassWd(s) PROVE IInv'
<1>1. PICK p \in Passwords, salt \in Salts :
          Go(s, [ss[s] EXCEPT !.pc = "update", !.typed = p, !.salt = salt, !.out = "none"])
    BY DEF RePassWd
<1>. DEFINE r == [ss[s] EXCEPT !.pc = "update", !.typed = p, !.salt = salt, !.out = "none"]
<1>2. /\ ss[s].pc = "in" /\ ops' \in Nat /\ UNCHANGED <<table, homes, cut>>
      /\ seen' \in [Sessions -> SUBSET Rows]
    BY CountTyped DEF RePassWd, At, IInv, TypeOK
<1>3. ss[s] \in Local /\ ss[s].id \in DOMAIN users
    BY <1>2, LocalsTyped DEF IInv, Locals
<1>4. Allowed(s, r) /\ ~AtHome(r.pc)
    BY <1>3 DEF Allowed, Local, Places, AtHome
<1>. QED
    BY <1>1, <1>2, <1>4, QuietStep DEF AtHome

LEMMA LeaveInv == ASSUME IInv, NEW s \in Sessions, Leave(s) PROVE IInv'
<1>1. /\ Go(s, New) /\ ss[s].pc \in {"account", "insert", "check", "in", "update"}
      /\ ops' \in Nat /\ UNCHANGED <<table, homes, cut>>
      /\ seen' \in [Sessions -> SUBSET Rows]
    BY DEF Leave, IInv, TypeOK
<1>. QED
    BY <1>1, NewAllowed, QuietStep DEF AtHome, New

(***************************************************************************)
(* Steps that write the tables, and the end of the process.                *)
(***************************************************************************)
LEMMA ExitInv == ASSUME IInv, Exit PROVE IInv'
<1>1. /\ ss' = [s \in Sessions |-> New] /\ UNCHANGED <<users, nextId, homes, seen, ops>>
      /\ cut' = cut \cup {ss[s].id : s \in {t \in Sessions : At(t, "home")}}
                    \cup UNION {IdsOf(ss[s].name) : s \in {t \in Sessions : At(t, "getid")}}
    BY DEF Exit, table
<1>2. TypeOK'
  <2>1. cut' \subseteq DOMAIN users
    BY <1>1 DEF IInv, TypeOK, Locals, At, IdsOf
  <2>2. ss' \in [Sessions -> Local]
    BY <1>1, NewTyped
  <2>. QED
    BY <1>1, <2>1, <2>2 DEF IInv, TypeOK, Local
<1>3. Locals' /\ Registering' /\ UniqueNames'
    BY <1>1 DEF IInv, Locals, Registering, UniqueNames, New
<1>4. HomeForEach'
  <2>. SUFFICES ASSUME NEW i \in DOMAIN users
                PROVE  \/ \E h \in DOMAIN homes : HomesOf(i) = {h}
                       \/ HomesOf(i) = {} /\ i \in cut'
    BY <1>1 DEF HomeForEach, HomesOf, Underway, New
  <2>1. CASE Underway(i)
    <3>1. PICK s \in Sessions : ss[s].pc \in {"getid", "home"} /\ ss[s].name = users[i].name
        BY <2>1 DEF Underway
    <3>2. ss[s].pc = "home" => ss[s].id = i
        BY <3>1 DEF IInv, Locals, UniqueNames
    <3>3. i \in cut'
        BY <1>1, <3>1, <3>2 DEF At, IdsOf
    <3>. QED
        BY <2>1, <3>3 DEF IInv, HomeForEach
  <2>2. CASE ~Underway(i)
    BY <1>1, <2>2 DEF IInv, HomeForEach
  <2>. QED
    BY <2>1, <2>2
<1>. QED
    BY <1>2, <1>3, <1>4 DEF IInv

LEMMA GetIdInv == ASSUME IInv, NEW s \in Sessions, GetId(s) PROVE IInv'
<1>1. CASE Exit
    BY <1>1, ExitInv
<1>2. ASSUME NEW i \in IdsOf(ss[s].name), Go(s, [ss[s] EXCEPT !.pc = "home", !.id = i]),
             UNCHANGED <<table, homes, seen, cut, ops>>
      PROVE  IInv'
  <2>. DEFINE r == [ss[s] EXCEPT !.pc = "home", !.id = i]
  <2>1. ss[s].pc = "getid" /\ ss[s] \in Local
    BY LocalsTyped DEF GetId, At, IInv
  <2>2. i \in DOMAIN users /\ users[i].name = ss[s].name /\ ss[s].out = "none"
    BY <2>1 DEF IdsOf, IInv, Locals
  <2>3. r \in Local /\ r.pc = "home" /\ r.id = i /\ r.name = ss[s].name /\ r.out = "none"
    BY <2>1, <2>2 DEF Local, Places
  <2>4. r.name \in RegNames(s)
    BY <2>1, <2>3 DEF IInv, Registering
  <2>5. Allowed(s, r)
    BY <2>2, <2>3, <2>4 DEF Allowed
  <2>6. seen' \in [Sessions -> SUBSET Rows] /\ ops' \in Nat
    BY <1>2 DEF IInv, TypeOK
  <2>. QED
    BY <1>2, <2>1, <2>3, <2>5, <2>6, QuietStep DEF AtHome
<1>. QED
    BY <1>1, <1>2 DEF GetId

LEMMA InsertHomeInv == ASSUME IInv, NEW s \in Sessions, InsertHome(s) PROVE IInv'
<1>. DEFINE r == [ss[s] EXCEPT !.pc = "in"]
<1>1. /\ ss[s].pc = "home" /\ ss' = [ss EXCEPT ![s] = r] /\ homes' = Append(homes, ss[s].id)
      /\ UNCHANGED <<users, nextId, seen, cut, ops>>
    BY DEF InsertHome, At, Go, table
<1>2. /\ ss \in [Sessions -> Local] /\ ss[s] \in Local
      /\ ss[s].id \in DOMAIN users /\ users[ss[s].id].name = ss[s].name
      /\ ss[s].name \in RegNames(s) /\ homes \in Seq(DOMAIN users)
    BY <1>1, LocalsTyped DEF IInv, Locals, Registering, TypeOK
<1>3. r \in Local /\ r.pc = "in" /\ r.id = ss[s].id /\ r.out = ss[s].out /\ r.name = ss[s].name
    BY <1>2 DEF Local, Places
<1>4. TypeOK'
  <2>1. homes' \in Seq(DOMAIN users)
    BY <1>1, <1>2
  <2>2. ss' \in [Sessions -> Local]
    BY <1>1, <1>2, <1>3
  <2>. QED
    BY <1>1, <2>1, <2>2 DEF IInv, TypeOK, Local
<1>5. Locals' /\ Registering' /\ UniqueNames'
    BY <1>1, <1>2, <1>3 DEF IInv, Locals, Registering, UniqueNames
<1>6. HomeForEach'
  <2>. SUFFICES ASSUME NEW i \in DOMAIN users
                PROVE  IF Underway(i)' THEN HomesOf(i)' = {}
                       ELSE \/ \E h \in DOMAIN homes' : HomesOf(i)' = {h}
                            \/ HomesOf(i)' = {} /\ i \in cut'
    BY <1>1 DEF HomeForEach
  <2>1. CASE i = ss[s].id
    <3>1. Underway(i) /\ HomesOf(i) = {}
        BY <1>1, <1>2, <2>1 DEF Underway, IInv, HomeForEach
    <3>2. ~Underway(i)'
      <4>. SUFFICES ASSUME NEW t \in Sessions, t # s, ss[t].pc \in {"getid", "home"},
                           ss[t].name = users[i].name
                    PROVE  FALSE
        BY <1>1, <1>2, <1>3 DEF Underway
      <4>1. ss[t].name \in RegNames(t)
        BY DEF IInv, Registering
      <4>. QED
        BY <1>2, <2>1, <4>1, NamesAssumption
    <3>3. /\ Len(homes) \in Nat /\ DOMAIN homes' = 1..(Len(homes) + 1)
          /\ \A h \in 1..Len(homes) : homes'[h] = homes[h]
          /\ homes'[Len(homes) + 1] = i /\ DOMAIN homes = 1..Len(homes)
        BY <1>1, <1>2, <2>1
    <3>4. HomesOf(i)' = {Len(homes) + 1}
        BY <3>1, <3>3 DEF HomesOf
    <3>. QED
        BY <3>2, <3>3, <3>4
  <2>2. CASE i # ss[s].id
    <3>1. users[i].name # ss[s].name
        BY <1>2, <2>2 DEF IInv, UniqueNames
    <3>2. Underway(i)' <=> Underway(i)
        BY <1>1, <1>2, <1>3, <3>1 DEF Underway
    <3>3. /\ Len(homes) \in Nat /\ DOMAIN homes' = 1..(Len(homes) + 1)
          /\ \A h \in 1..Len(homes) : homes'[h] = homes[h]
          /\ homes'[Len(homes) + 1] # i /\ DOMAIN homes = 1..Len(homes)
        BY <1>1, <1>2, <2>2
    <3>4. HomesOf(i)' = HomesOf(i)
        BY <3>3 DEF HomesOf
    <3>5. IF Underway(i) THEN HomesOf(i) = {}
          ELSE (\E h \in DOMAIN homes : HomesOf(i) = {h}) \/ (HomesOf(i) = {} /\ i \in cut)
        BY DEF IInv, HomeForEach
    <3>6. DOMAIN homes \subseteq DOMAIN homes' /\ cut' = cut
        BY <1>1, <3>3
    <3>. QED
        BY <3>2, <3>4, <3>5, <3>6
  <2>. QED
    BY <2>1, <2>2
<1>. QED
    BY <1>4, <1>5, <1>6 DEF IInv

\* The rows that logins are watched for have a type.
LEMMA WatchTyped ==
    ASSUME TypeOK, users' \in [DOMAIN users' -> Rows], Watch
    PROVE  seen' \in [Sessions -> SUBSET Rows]
BY DEF TypeOK, Watch, IdsOf

LEMMA InsertUserInv == ASSUME IInv, NEW s \in Sessions, InsertUser(s) PROVE IInv'
<1>1. PICK pw \in Received(ss[s].typed, ss[s].salt) :
         /\ users' = [i \in DOMAIN users \cup {nextId} |->
                         IF i = nextId THEN NewRow(s, pw) ELSE users[i]]
         /\ ss' = [ss EXCEPT ![s] = [ss[s] EXCEPT !.pc = "getid", !.pw = pw]]
    BY DEF InsertUser, Go
<1>. DEFINE r == [ss[s] EXCEPT !.pc = "getid", !.pw = pw]
<1>2. /\ ss[s].pc = "insert" /\ nextId' = nextId + 1 /\ Watch
      /\ UNCHANGED <<homes, cut, ops>>
    BY DEF InsertUser, At
<1>3. /\ ss \in [Sessions -> Local] /\ ss[s] \in Local /\ ss[s].out = "none"
      /\ ss[s].typed \in Passwords /\ ss[s].salt \in Salts
      /\ ss[s].name \in RegNames(s) /\ \A i \in DOMAIN users : users[i].name # ss[s].name
    BY <1>2, LocalsTyped DEF IInv, Locals, Registering
<1>4. /\ nextId \in Nat \ {0} /\ DOMAIN users = 1..(nextId - 1) /\ nextId \notin DOMAIN users
      /\ DOMAIN users' = DOMAIN users \cup {nextId} /\ DOMAIN users' = 1..(nextId' - 1)
      /\ \A i \in DOMAIN users : users'[i] = users[i]
      /\ users'[nextId].name = ss[s].name
    BY <1>1, <1>2 DEF IInv, TypeOK, NewRow
<1>5. /\ pw \in Texts /\ r \in Local /\ r.pc = "getid" /\ r.name = ss[s].name /\ r.out = "none"
    BY <1>3, ReceivedTyped DEF Local, Places
<1>6. users' \in [1..(nextId' - 1) -> Rows]
  <2>1. NewRow(s, pw) \in Rows
    BY <1>3, <1>5 DEF NewRow, Rows, Names
  <2>. QED
    BY <1>1, <1>4, <2>1 DEF IInv, TypeOK
<1>7. TypeOK'
  <2>1. homes' \in Seq(DOMAIN users') /\ cut' \subseteq DOMAIN users'
    BY <1>2, <1>4 DEF IInv, TypeOK
  <2>2. ss' \in [Sessions -> Local']
    BY <1>1, <1>3, <1>4, <1>5 DEF Local
  <2>3. seen' \in [Sessions -> SUBSET Rows]
    BY <1>2, <1>6, WatchTyped DEF IInv
  <2>. QED
    BY <1>2, <1>4, <1>6, <2>1, <2>2, <2>3 DEF IInv, TypeOK, Local
<1>8. Locals'
    BY <1>1, <1>3, <1>4, <1>5 DEF IInv, Locals
<1>9. Registering'
  <2>. SUFFICES ASSUME NEW t \in Sessions, t # s, ss[t].pc = "insert"
                PROVE  ss[t].name # ss[s].name
    BY <1>1, <1>3, <1>4, <1>5 DEF IInv, Registering
  <2>1. ss[t].name \in RegNames(t)
    BY DEF IInv, Registering
  <2>. QED
    BY <1>3, <2>1, NamesAssumption
<1>10. UniqueNames'
    BY <1>3, <1>4 DEF IInv, UniqueNames
<1>11. HomeForEach'
  <2>. SUFFICES ASSUME NEW i \in DOMAIN users'
                PROVE  IF Underway(i)' THEN HomesOf(i)' = {}
                       ELSE \/ \E h \in DOMAIN homes' : HomesOf(i)' = {h}
                            \/ HomesOf(i)' = {} /\ i \in cut'
    BY DEF HomeForEach
  <2>1. CASE i = nextId
    <3>1. Underway(i)'
        BY <1>1, <1>3, <1>4, <1>5, <2>1 DEF Underway
    <3>2. HomesOf(i)' = {}
        BY <1>2, <1>4, <2>1 DEF IInv, TypeOK, HomesOf
    <3>. QED
        BY <3>1, <3>2
  <2>2. CASE i \in DOMAIN users
    <3>1. Underway(i)' <=> Underway(i)
        BY <1>1, <1>2, <1>3, <1>4, <1>5, <2>2 DEF Underway
    <3>2. IF Underway(i) THEN HomesOf(i) = {}
          ELSE (\E h \in DOMAIN homes : HomesOf(i) = {h}) \/ (HomesOf(i) = {} /\ i \in cut)
        BY <2>2 DEF IInv, HomeForEach
    <3>3. HomesOf(i)' = HomesOf(i) /\ DOMAIN homes' = DOMAIN homes /\ cut' = cut
        BY <1>2 DEF HomesOf
    <3>. QED
        BY <3>1, <3>2, <3>3
  <2>. QED
    BY <1>4, <2>1, <2>2
<1>. QED
    BY <1>7, <1>8, <1>9, <1>10, <1>11 DEF IInv

LEMMA UpdateUserInv == ASSUME IInv, NEW s \in Sessions, UpdateUser(s) PROVE IInv'
<1>1. PICK pw \in Received(ss[s].typed, ss[s].salt) :
         users' = [users EXCEPT ![ss[s].id] = [NewRow(s, pw) EXCEPT !.name = users[ss[s].id].name]]
    BY DEF UpdateUser
<1>2. /\ ss[s].pc = "update" /\ ss' = [ss EXCEPT ![s] = New] /\ Watch
      /\ UNCHANGED <<nextId, homes, cut, ops>>
    BY DEF UpdateUser, At, Go
<1>3. /\ ss \in [Sessions -> Local] /\ ss[s].typed \in Passwords /\ ss[s].salt \in Salts
      /\ ss[s].id \in DOMAIN users
    BY <1>2, LocalsTyped DEF IInv, Locals
<1>4. /\ DOMAIN users' = DOMAIN users /\ \A i \in DOMAIN users : users'[i].name = users[i].name
    BY <1>1, <1>3 DEF IInv, TypeOK, NewRow
<1>5. users' \in [1..(nextId' - 1) -> Rows]
  <2>1. pw \in Texts /\ users[ss[s].id].name \in Names
    BY <1>3, ReceivedTyped, RowsTyped DEF IInv, Rows
  <2>2. [NewRow(s, pw) EXCEPT !.name = users[ss[s].id].name] \in Rows
    BY <1>3, <2>1 DEF NewRow, Rows
  <2>. QED
    BY <1>1, <1>2, <2>2 DEF IInv, TypeOK
<1>6. TypeOK'
  <2>1. ss' \in [Sessions -> Local]
    BY <1>2, <1>3, NewTyped
  <2>2. seen' \in [Sessions -> SUBSET Rows]
    BY <1>2, <1>5, WatchTyped DEF IInv
  <2>. QED
    BY <1>2, <1>4, <1>5, <2>1, <2>2 DEF IInv, TypeOK, Local
<1>7. Locals' /\ Registering'
    BY <1>2, <1>4 DEF IInv, Locals, Registering, New
<1>8. UniqueNames'
    BY <1>4 DEF IInv, UniqueNames
<1>9. \A i \in DOMAIN users : Underway(i)' <=> Underway(i)
    BY <1>2, <1>4 DEF Underway, New
<1>10. HomeForEach'
    BY <1>2, <1>4, <1>9 DEF IInv, HomeForEach, HomesOf
<1>. QED
    BY <1>6, <1>7, <1>8, <1>10 DEF IInv

(***************************************************************************)
(* Theorems.                                                               *)
(***************************************************************************)
\* IInv is an invariant: LoginOrSignin and RePassWd keep it statement by statement.
THEOREM Inductive == Spec => []IInv
<1>1. IInv /\ [Next]_vars => IInv'
  <2>. SUFFICES ASSUME IInv, [Next]_vars PROVE IInv'
    OBVIOUS
  <2>1. CASE UNCHANGED vars
    BY <2>1 DEF vars, table, IInv, TypeOK, Locals, Registering, UniqueNames, HomeForEach, HomesOf,
                Underway
  <2>2. CASE Exit
    BY <2>2, ExitInv
  <2>3. ASSUME NEW s \in Sessions, Step(s) PROVE IInv'
    BY <2>3, SigninInv, InsertUserInv, GetIdInv, InsertHomeInv, LoginInv, ReadSaltInv,
       CheckPasswordInv, RePassWdInv, UpdateUserInv, LeaveInv DEF Step
  <2>. QED
    BY <2>1, <2>2, <2>3 DEF Next
<1>. QED
    BY <1>1, InitInv, PTL DEF Spec

\* Every variable keeps its type, and ids are not used twice.
THEOREM TypeCorrect == Spec => []TypeOK
<1>1. IInv => TypeOK
    BY DEF IInv
<1>. QED
    BY <1>1, Inductive, PTL

\* A username has one account, if no two clients register one name: LoginOrSignin's look and
\* its insert need nothing more, whatever happens between them.
THEOREM NamesUnique == Spec => []UniqueNames
<1>1. IInv => UniqueNames
    BY DEF IInv
<1>. QED
    BY <1>1, Inductive, PTL

\* Each account has its own home directory, exactly one, from the end of its registration
\* on; only an exit of the process inside LoginOrSignin leaves an account without.
THEOREM HomeOwned == Spec => []HomeForEach
<1>1. IInv => HomeForEach
    BY DEF IInv
<1>. QED
    BY <1>1, Inductive, PTL

(***************************************************************************)
(* Logins.                                                                 *)
(***************************************************************************)
\* A login knows the rows its username has, and its salt is of a row it has met.
Watched ==
    \A s \in Sessions : LoggingIn(s) =>
        /\ IdsOf(ss[s].name) # {} /\ RowsOf(ss[s].name) \subseteq seen[s]
        /\ ss[s].pc = "check" => \E r \in seen[s] : r.salt = ss[s].salt

Pair(r) == r.pw = Crypt(r.word, r.salt)

\* A row's text is that of its password and its salt.
Paired ==
    /\ \A i \in DOMAIN users : Pair(users[i])
    /\ \A s \in Sessions : \A r \in seen[s] : Pair(r)

LInv == Watched /\ Paired /\ LoginRight

\* The answer to session s is none that LoginRight forbids.
Right(s) ==
    /\ ss[s].out = "accepted" => \E r \in seen[s] : r.word = ss[s].typed
    /\ ss[s].out = "refused"  => ~ \E r \in seen[s] : seen[s] = {r} /\ r.word = ss[s].typed

\* A step of one session that leaves the table and what was seen alone.
LEMMA LoginQuiet ==
    ASSUME IInv, LInv, NEW s \in Sessions, NEW r, Go(s, r), UNCHANGED <<users, seen>>,
           r.pc = "salt" => LoggingIn(s) /\ r.name = ss[s].name,
           r.pc = "check" => /\ LoggingIn(s) /\ r.name = ss[s].name
                             /\ \E row \in seen[s] : row.salt = r.salt,
           r.out = "accepted" => \E row \in seen[s] : row.word = r.typed,
           r.out = "refused" => ~ \E row \in seen[s] : seen[s] = {row} /\ row.word = r.typed
    PROVE  LInv'
<1>1. ss' = [ss EXCEPT ![s] = r] /\ ss \in [Sessions -> Local]
    BY LocalsTyped DEF Go, IInv
<1>2. ss'[s] = r /\ \A t \in Sessions : t # s => ss'[t] = ss[t]
    BY <1>1
<1>3. Watched'
    BY <1>2 DEF LInv, Watched, LoggingIn, IdsOf, RowsOf
<1>4. Paired' /\ LoginRight'
    BY <1>2 DEF LInv, Paired, LoginRight, Pair
<1>. QED
    BY <1>3, <1>4 DEF LInv

\* A step that writes the table and ends a dialogue of session s, watched by the logins.
LEMMA LoginWatch ==
    ASSUME IInv, LInv, NEW s \in Sessions, NEW r, Go(s, r), Watch,
           r.pc \notin {"salt", "check"}, r.out = "none", ~LoggingIn(s),
           DOMAIN users \subseteq DOMAIN users',
           \A i \in DOMAIN users : users'[i].name = users[i].name,
           \A i \in DOMAIN users' : Pair(users'[i])
    PROVE  LInv'
<1>1. ss' = [ss EXCEPT ![s] = r] /\ ss \in [Sessions -> Local] /\ seen \in [Sessions -> SUBSET Rows]
    BY LocalsTyped DEF Go, IInv, TypeOK
<1>2. ss'[s] = r /\ \A t \in Sessions : t # s => ss'[t] = ss[t]
    BY <1>1
<1>3. \A t \in Sessions :
         /\ LoggingIn(t) => seen'[t] = seen[t] \cup {users'[i] : i \in IdsOf(ss[t].name)'}
         /\ ~LoggingIn(t) => seen'[t] = seen[t]
    BY <1>1 DEF Watch
<1>4. \A t \in Sessions : LoggingIn(t)' => t # s /\ LoggingIn(t)
    BY <1>2 DEF LoggingIn
<1>5. Watched'
  <2>. SUFFICES ASSUME NEW t \in Sessions, LoggingIn(t)'
                PROVE  /\ IdsOf(ss[t].name)' # {} /\ RowsOf(ss[t].name)' \subseteq seen'[t]
                       /\ ss'[t].pc = "check" => \E row \in seen'[t] : row.salt = ss'[t].salt
    BY DEF Watched
  <2>1. LoggingIn(t) /\ ss'[t] = ss[t]
    BY <1>2, <1>4
  <2>2. IdsOf(ss[t].name)' # {}
    BY <2>1 DEF LInv, Watched, IdsOf
  <2>3. RowsOf(ss[t].name)' \subseteq seen'[t]
    BY <1>3, <2>1 DEF RowsOf, IdsOf
  <2>4. ss'[t].pc = "check" => \E row \in seen'[t] : row.salt = ss'[t].salt
    BY <1>3, <2>1 DEF LInv, Watched
  <2>. QED
    BY <2>2, <2>3, <2>4
<1>6. Paired'
    BY <1>3 DEF LInv, Paired, IdsOf, Pair
<1>7. LoginRight'
  <2>. SUFFICES ASSUME NEW t \in Sessions, t # s PROVE Right(t)'
    BY <1>2 DEF LoginRight, Right
  <2>1. CASE ss[t].out = "none"
    BY <1>2, <2>1 DEF Right
  <2>2. CASE ss[t].out # "none"
    <3>1. ~LoggingIn(t)
        BY <2>2 DEF IInv, Locals, LoggingIn
    <3>. QED
        BY <1>2, <1>3, <3>1 DEF Right, LInv, LoginRight
  <2>. QED
    BY <2>1, <2>2
<1>. QED
    BY <1>5, <1>6, <1>7 DEF LInv

LEMMA LoginInit == Init => LInv
BY DEF Init, LInv, Watched, Paired, LoginRight, LoggingIn, New

LEMMA LoginExit == ASSUME IInv, LInv, Exit PROVE LInv'
<1>1. ss' = [s \in Sessions |-> New] /\ UNCHANGED <<users, seen>>
    BY DEF Exit, table
<1>. QED
    BY <1>1 DEF LInv, Watched, Paired, LoginRight, LoggingIn, New, Pair

LEMMA LoginBegins == ASSUME IInv, LInv, NEW s \in Sessions, Login(s) PROVE LInv'
<1>1. PICK n \in Names, p \in Passwords :
          \/ Go(s, New) /\ UNCHANGED seen
          \/ /\ IdsOf(n) # {}
             /\ Go(s, [New EXCEPT !.pc = "salt", !.name = n, !.typed = p])
             /\ seen' = [seen EXCEPT ![s] = RowsOf(n)]
    BY DEF Login
<1>2. users' = users
    BY DEF Login, table
<1>3. CASE Go(s, New) /\ UNCHANGED seen
    BY <1>2, <1>3, LoginQuiet DEF New
<1>4. CASE /\ IdsOf(n) # {}
           /\ Go(s, [New EXCEPT !.pc = "salt", !.name = n, !.typed = p])
           /\ seen' = [seen EXCEPT ![s] = RowsOf(n)]
  <2>. DEFINE r == [New EXCEPT !.pc = "salt", !.name = n, !.typed = p]
  <2>1. ss \in [Sessions -> Local] /\ seen \in [Sessions -> SUBSET Rows]
    BY LocalsTyped DEF IInv, TypeOK
  <2>2. /\ ss'[s] = r /\ seen'[s] = RowsOf(n)
        /\ \A t \in Sessions : t # s => ss'[t] = ss[t] /\ seen'[t] = seen[t]
    BY <1>4, <2>1 DEF Go
  <2>3. ss'[s].pc = "salt" /\ ss'[s].name = n /\ ss'[s].out = "none"
    BY <2>2 DEF New
  <2>4. Paired'
    BY <1>2, <2>2 DEF LInv, Paired, RowsOf, IdsOf, Pair
  <2>5. Watched'
    <3>. SUFFICES ASSUME NEW t \in Sessions, LoggingIn(t)'
                  PROVE  /\ IdsOf(ss[t].name)' # {} /\ RowsOf(ss[t].name)' \subseteq seen'[t]
                         /\ ss'[t].pc = "check" => \E row \in seen'[t] : row.salt = ss'[t].salt
        BY DEF Watched
    <3>1. CASE t = s
      <4>1. IdsOf(ss[t].name)' = IdsOf(n)
        BY <1>2, <2>3, <3>1 DEF IdsOf
      <4>2. RowsOf(ss[t].name)' = RowsOf(n)
        BY <1>2, <4>1 DEF RowsOf
      <4>. QED
        BY <1>4, <2>2, <2>3, <3>1, <4>1, <4>2
    <3>2. CASE t # s
        BY <1>2, <2>2, <3>2 DEF LInv, Watched, LoggingIn, IdsOf, RowsOf
    <3>. QED
        BY <3>1, <3>2
  <2>6. LoginRight'
    <3>. SUFFICES ASSUME NEW t \in Sessions PROVE Right(t)'
        BY DEF LoginRight, Right
    <3>1. CASE t = s
        BY <2>3, <3>1 DEF Right
    <3>2. CASE t # s
        BY <2>2, <3>2 DEF LInv, LoginRight, Right
    <3>. QED
        BY <3>1, <3>2
  <2>. QED
    BY <2>4, <2>5, <2>6 DEF LInv
<1>. QED
    BY <1>1, <1>3, <1>4

LEMMA LoginReadsSalt == ASSUME IInv, LInv, NEW s \in Sessions, ReadSalt(s) PROVE LInv'
<1>1. PICK row \in RowsOf(ss[s].name) : Go(s, [ss[s] EXCEPT !.pc = "check", !.salt = row.salt])
    BY DEF ReadSalt
<1>. DEFINE r == [ss[s] EXCEPT !.pc = "check", !.salt = row.salt]
<1>2. ss[s] \in Local /\ LoggingIn(s) /\ ss[s].out = "none" /\ UNCHANGED <<users, seen>>
    BY LocalsTyped DEF ReadSalt, At, LoggingIn, IInv, Locals, table
<1>3. row \in seen[s]
    BY <1>2 DEF LInv, Watched
<1>4. r.pc = "check" /\ r.name = ss[s].name /\ r.salt = row.salt /\ r.out = "none"
    BY <1>2 DEF Local
<1>. QED
    BY <1>1, <1>2, <1>3, <1>4, LoginQuiet

LEMMA LoginChecks ==
    ASSUME Resets = FALSE, IInv, LInv, NEW s \in Sessions, CheckPassword(s) PROVE LInv'
<1>. DEFINE pw == Crypt(ss[s].typed, ss[s].salt)
            found == {i \in IdsOf(ss[s].name) : users[i].pw = pw}
<1>1. \/ found = {} /\ Go(s, [ss[s] EXCEPT !.pc = "account", !.out = "refused"])
      \/ \E i \in found : Go(s, [ss[s] EXCEPT !.pc = "in", !.id = i, !.out = "accepted"])
    BY DEF CheckPassword, Received
<1>2. /\ ss[s] \in Local /\ ss[s].pc = "check" /\ LoggingIn(s) /\ UNCHANGED <<users, seen>>
      /\ IdsOf(ss[s].name) # {} /\ RowsOf(ss[s].name) \subseteq seen[s]
      /\ \E row \in seen[s] : row.salt = ss[s].salt
    BY LocalsTyped DEF CheckPassword, At, LoggingIn, IInv, LInv, Watched, table
<1>3. CASE found = {} /\ Go(s, [ss[s] EXCEPT !.pc = "account", !.out = "refused"])
  <2>. DEFINE r == [ss[s] EXCEPT !.pc = "account", !.out = "refused"]
  <2>1. r.pc = "account" /\ r.out = "refused" /\ r.typed = ss[s].typed
    BY <1>2 DEF Local
  <2>2. ASSUME NEW row \in seen[s], seen[s] = {row}, row.word = ss[s].typed PROVE FALSE
    <3>1. PICK i \in IdsOf(ss[s].name) : users[i] = row
        BY <1>2, <2>2 DEF RowsOf
    <3>2. row.salt = ss[s].salt /\ Pair(row)
        BY <1>2, <2>2 DEF LInv, Paired
    <3>3. users[i].pw = pw
        BY <2>2, <3>1, <3>2 DEF Pair, Crypt
    <3>. QED
        BY <1>3, <3>1, <3>3
  <2>3. ~ \E row \in seen[s] : seen[s] = {row} /\ row.word = r.typed
    BY <2>1, <2>2
  <2>. QED
    BY <1>2, <1>3, <2>1, <2>3, LoginQuiet
<1>4. ASSUME NEW i \in found, Go(s, [ss[s] EXCEPT !.pc = "in", !.id = i, !.out = "accepted"])
      PROVE  LInv'
  <2>. DEFINE r == [ss[s] EXCEPT !.pc = "in", !.id = i, !.out = "accepted"]
  <2>1. r.pc = "in" /\ r.out = "accepted" /\ r.typed = ss[s].typed
    BY <1>2 DEF Local
  <2>2. users[i] \in seen[s] /\ users[i].pw = pw /\ Pair(users[i])
    BY <1>2 DEF RowsOf, IdsOf, LInv, Paired
  <2>3. users[i].word = ss[s].typed
    BY <2>2 DEF Pair, Crypt
  <2>. QED
    BY <1>2, <1>4, <2>1, <2>2, <2>3, LoginQuiet
<1>. QED
    BY <1>1, <1>3, <1>4

\* The other steps that leave the table alone.
LEMMA LoginElsewhere ==
    ASSUME IInv, LInv, NEW s \in Sessions,
           Signin(s) \/ GetId(s) \/ InsertHome(s) \/ RePassWd(s) \/ Leave(s)
    PROVE  LInv'
<1>0. ss[s] \in Local
    BY LocalsTyped DEF IInv
<1>1. CASE Signin(s)
  <2>1. PICK n \in RegNames(s), p \in Passwords, salt \in Salts :
            \/ Go(s, New)
            \/ Go(s, [New EXCEPT !.pc = "insert", !.name = n, !.typed = p, !.salt = salt])
    BY <1>1 DEF Signin
  <2>2. UNCHANGED <<users, seen>>
    BY <1>1 DEF Signin, table
  <2>3. CASE Go(s, New)
    BY <2>2, <2>3, LoginQuiet DEF New
  <2>4. CASE Go(s, [New EXCEPT !.pc = "insert", !.name = n, !.typed = p, !.salt = salt])
    BY <2>2, <2>4, LoginQuiet DEF New
  <2>. QED
    BY <2>1, <2>3, <2>4
<1>2. CASE GetId(s)
  <2>1. CASE Exit
    BY <2>1, LoginExit
  <2>2. ASSUME NEW i, Go(s, [ss[s] EXCEPT !.pc = "home", !.id = i]), UNCHANGED <<users, seen>>
        PROVE  LInv'
    <3>. DEFINE r == [ss[s] EXCEPT !.pc = "home", !.id = i]
    <3>1. ss[s].out = "none"
        BY <1>2 DEF GetId, At, IInv, Locals
    <3>2. r.pc = "home" /\ r.out = "none"
        BY <1>0, <3>1 DEF Local
    <3>. QED
        BY <2>2, <3>2, LoginQuiet
  <2>. QED
    BY <1>2, <2>1, <2>2 DEF GetId, table
<1>3. CASE InsertHome(s)
  <2>. DEFINE r == [ss[s] EXCEPT !.pc = "in"]
  <2>1. Go(s, r) /\ UNCHANGED <<users, seen>> /\ ss[s].out = "none"
    BY <1>3 DEF InsertHome, table, At, IInv, Locals
  <2>2. r.pc = "in" /\ r.out = "none"
    BY <1>0, <2>1 DEF Local
  <2>. QED
    BY <2>1, <2>2, LoginQuiet
<1>4. CASE RePassWd(s)
  <2>1. PICK p \in Passwords, salt \in Salts :
            Go(s, [ss[s] EXCEPT !.pc = "update", !.typed = p, !.salt = salt, !.out = "none"])
    BY <1>4 DEF RePassWd
  <2>. DEFINE r == [ss[s] EXCEPT !.pc = "update", !.typed = p, !.salt = salt, !.out = "none"]
  <2>2. UNCHANGED <<users, seen>> /\ r.pc = "update" /\ r.out = "none"
    BY <1>0, <1>4 DEF RePassWd, table, Local
  <2>. QED
    BY <2>1, <2>2, LoginQuiet
<1>5. CASE Leave(s)
  <2>1. Go(s, New) /\ UNCHANGED <<users, seen>>
    BY <1>5 DEF Leave, table
  <2>. QED
    BY <2>1, LoginQuiet DEF New
<1>. QED
    BY <1>1, <1>2, <1>3, <1>4, <1>5

LEMMA LoginInserts ==
    ASSUME Resets = FALSE, IInv, LInv, NEW s \in Sessions, InsertUser(s) PROVE LInv'
<1>. DEFINE pw == Crypt(ss[s].typed, ss[s].salt)
            r  == [ss[s] EXCEPT !.pc = "getid", !.pw = pw]
<1>1. /\ users' = [i \in DOMAIN users \cup {nextId} |->
                      IF i = nextId THEN NewRow(s, pw) ELSE users[i]]
      /\ Go(s, r) /\ Watch /\ ss[s].pc = "insert"
    BY DEF InsertUser, Received, At
<1>2. ss[s] \in Local /\ ss[s].out = "none" /\ ~LoggingIn(s)
    BY <1>1, LocalsTyped DEF IInv, Locals, LoggingIn
<1>3. r.pc = "getid" /\ r.out = "none"
    BY <1>2 DEF Local
<1>4. /\ nextId \notin DOMAIN users /\ DOMAIN users' = DOMAIN users \cup {nextId}
      /\ \A i \in DOMAIN users : users'[i] = users[i]
      /\ users'[nextId] = NewRow(s, pw)
    BY <1>1 DEF IInv, TypeOK
<1>5. Pair(NewRow(s, pw))
    BY DEF NewRow, Pair
<1>6. \A i \in DOMAIN users' : Pair(users'[i])
    BY <1>4, <1>5 DEF LInv, Paired
<1>. QED
    BY <1>1, <1>2, <1>3, <1>4, <1>6, LoginWatch

LEMMA LoginUpdates ==
    ASSUME Resets = FALSE, IInv, LInv, NEW s \in Sessions, UpdateUser(s) PROVE LInv'
<1>. DEFINE pw  == Crypt(ss[s].typed, ss[s].salt)
            row == [NewRow(s, pw) EXCEPT !.name = users[ss[s].id].name]
<1>1. /\ users' = [users EXCEPT ![ss[s].id] = row]
      /\ Go(s, New) /\ Watch /\ ss[s].pc = "update"
    BY DEF UpdateUser, Received, At
<1>2. ~LoggingIn(s) /\ ss[s].id \in DOMAIN users
    BY <1>1 DEF IInv, Locals, LoggingIn
<1>3. Pair(row) /\ row.name = users[ss[s].id].name
    BY DEF NewRow, Pair
<1>4. /\ DOMAIN users' = DOMAIN users /\ users'[ss[s].id] = row
      /\ \A i \in DOMAIN users : i # ss[s].id => users'[i] = users[i]
    BY <1>1, <1>2 DEF IInv, TypeOK
<1>5. \A i \in DOMAIN users' : Pair(users'[i]) /\ users'[i].name = users[i].name
    BY <1>3, <1>4 DEF LInv, Paired
<1>6. New.pc = "account" /\ New.out = "none"
    BY DEF New
<1>. QED
    BY <1>1, <1>2, <1>4, <1>5, <1>6, LoginWatch

\* A login is answered rightly: the salt and the password are read in two statements, and
\* whatever the other sessions change in between, nobody gets in with what never was the
\* password during the login.  A recv that fails would store an empty password.
THEOREM LoginsRight == Resets = FALSE /\ Spec => []LoginRight
<1>. SUFFICES ASSUME Resets = FALSE PROVE Spec => []LoginRight
    OBVIOUS
<1>1. IInv /\ LInv /\ [Next]_vars => LInv'
  <2>. SUFFICES ASSUME IInv, LInv, [Next]_vars PROVE LInv'
    OBVIOUS
  <2>1. CASE UNCHANGED vars
    BY <2>1 DEF vars, table, LInv, Watched, Paired, LoginRight, LoggingIn, IdsOf, RowsOf, Pair
  <2>2. CASE Exit
    BY <2>2, LoginExit
  <2>3. ASSUME NEW s \in Sessions, Step(s) PROVE LInv'
    BY <2>3, LoginBegins, LoginReadsSalt, LoginChecks, LoginElsewhere, LoginInserts,
       LoginUpdates DEF Step
  <2>. QED
    BY <2>1, <2>2, <2>3 DEF Next
<1>2. LInv => LoginRight
    BY DEF LInv
<1>. QED
    BY <1>1, <1>2, LoginInit, Inductive, PTL DEF Spec
=============================================================================
