--------------------------- MODULE FileTreeProofs ---------------------------
(***************************************************************************)
(* Proofs about FileTree, for any sessions, users, paths and trees: the    *)
(* ids a session holds, whether it found them along a path, keeps them     *)
(* from its last getpwd or has them still to remove, are never the id of   *)
(* another user's entry, and no id of an entry that is gone comes back.    *)
(* Then the types: what the paths in user.pwd and in the locals are, with  *)
(* what Normal makes of any path; that no two entries of a user get one    *)
(* name, with what FileId finds along any path; that the father id a       *)
(* session keeps is that of its working directory, with the ways of rows   *)
(* that no step cuts; and that every entry hangs below the root, with the  *)
(* rings of entries that no step makes.                                    *)
(***************************************************************************)
EXTENDS FileTree, FiniteSetTheorems, SequenceTheorems, WellFoundedInduction, TLAPS

\* The ids that may not lead a session of user u astray: not yet given to any row,
\* they never will be, and the row they have, if any, is u's.
OwnIds(u) == {i \in Int \cup {Null} : /\ ~(i \in Nat /\ i >= nextId)
                                      /\ i \in DOMAIN rows => rows[i].user = u}

Fields    == {"cmd", "src", "dst", "moves", "cur", "path", "id", "dir", "work"}
RowFields == {"father", "name", "type", "user"}

\* r holds no id of another user.
Clean(r, u) ==
    /\ DOMAIN r = Fields
    /\ r.cur \in OwnIds(u) /\ r.id \in OwnIds(u) /\ r.dir \in OwnIds(u)
    /\ r.work \in Seq(SUBSET OwnIds(u))

\* A row's father is an id of its user.
RowClean(i) ==
    /\ rows[i] = [x \in RowFields |-> rows[i][x]]
    /\ rows[i].type \in {"d", "f"}
    /\ rows[i].father \in OwnIds(rows[i].user)

RowsClean ==
    /\ nextId \in Nat \ {0}
    /\ rows = [i \in DOMAIN rows |-> rows[i]]
    /\ DOMAIN rows \subseteq 1..(nextId - 1)
    /\ \A i \in DOMAIN rows : RowClean(i)

FathersClean ==
    /\ father = [s \in Sessions |-> father[s]]
    /\ \A s \in Sessions : father[s] \in OwnIds(UserOf(s))

LocalsClean ==
    /\ reg = [s \in Sessions |-> reg[s]]
    /\ \A s \in Sessions : Clean(reg[s], UserOf(s))

Steps == todo \in [Sessions -> Seq(Ops)]

IInv == RowsClean /\ FathersClean /\ LocalsClean /\ Steps

\* What belongs to a user goes on doing so.
Kept == \A u : OwnIds(u) \subseteq OwnIds(u)'

-----------------------------------------------------------------------------
(***************************************************************************)
(* How locals and steps change.                                            *)
(***************************************************************************)
LEMMA CleanKept ==
    ASSUME Kept, NEW r, NEW u, Clean(r, u)
    PROVE  Clean(r, u)'
<1>1. OwnIds(u) \subseteq OwnIds(u)' BY DEF Kept
<1>2. r.work \in Seq(SUBSET OwnIds(u)')
  <2>1. SUBSET OwnIds(u) \subseteq SUBSET OwnIds(u)' BY <1>1
  <2>2. QED BY <2>1, SeqMonotonic DEF Clean
<1>3. QED BY <1>1, <1>2 DEF Clean

LEMMA Unmoved ==
    ASSUME UNCHANGED <<rows, nextId>>
    PROVE  Kept
BY DEF Kept, OwnIds

\* 0, the root, and -1, not found, belong to everybody.
LEMMA CommonIds ==
    ASSUME RowsClean
    PROVE  \A u : 0 \in OwnIds(u) /\ -1 \in OwnIds(u)
BY DEF RowsClean, OwnIds

LEMMA WalkClean ==
    ASSUME RowsClean, NEW r, NEW u, Clean(r, u), NEW p
    PROVE  Clean(Walk(r, p), u)
BY CommonIds DEF Clean, Walk, Fields

\* A session that takes steps with clean locals leaves all locals clean.
LEMMA SessionMoves ==
    ASSUME LocalsClean, Steps, Kept, NEW s \in Sessions, NEW rest \in Seq(Ops), NEW r,
           Clean(r, UserOf(s)), todo' = [todo EXCEPT ![s] = rest], reg' = [reg EXCEPT ![s] = r]
    PROVE  LocalsClean' /\ Steps'
<1>1. Steps' BY DEF Steps
<1>2. reg' = [t \in Sessions |-> IF t = s THEN r ELSE reg[t]]
  BY DEF LocalsClean
<1>3. ASSUME NEW t \in Sessions
      PROVE  Clean(reg[t], UserOf(t))'
  <2>1. CASE t = s
    <3>1. Clean(r, UserOf(s))' BY CleanKept
    <3>2. QED BY <1>2, <2>1, <3>1 DEF Clean
  <2>2. CASE t # s
    <3>1. Clean(reg[t], UserOf(t)) BY DEF LocalsClean
    <3>2. ASSUME NEW c, c = reg[t]
          PROVE  Clean(c, UserOf(t))'
      BY <3>1, <3>2, CleanKept
    <3>3. reg'[t] = reg[t] BY <1>2, <2>2
    <3>4. QED BY <3>2, <3>3 DEF Clean
  <2>3. QED BY <2>1, <2>2
<1>4. QED BY <1>1, <1>2, <1>3 DEF LocalsClean

LEMMA NoRegClean ==
    ASSUME RowsClean, NEW u
    PROVE  Clean(NoReg, u)
<1>1. <<>> \in Seq(SUBSET OwnIds(u)) BY EmptySeq
<1>2. QED BY <1>1, CommonIds DEF Clean, NoReg, Fields

LEMMA AnswerMoves ==
    ASSUME RowsClean, LocalsClean, Steps, Kept, NEW s \in Sessions, NEW i, NEW a, Answer(s, i, a)
    PROVE  LocalsClean' /\ Steps'
<1>1. <<>> \in Seq(Ops) BY EmptySeq
<1>2. Clean(NoReg, UserOf(s)) BY NoRegClean
<1>3. QED BY <1>1, <1>2, SessionMoves DEF Answer

LEMMA ThenMoves ==
    ASSUME LocalsClean, Steps, Kept, NEW s \in Sessions, todo[s] # <<>>, NEW r,
           Clean(r, UserOf(s)), Then(s, r)
    PROVE  LocalsClean' /\ Steps'
<1>1. Tail(todo[s]) \in Seq(Ops) BY HeadTailProperties DEF Steps
<1>2. QED BY <1>1, SessionMoves DEF Then, GoOn

-----------------------------------------------------------------------------
(***************************************************************************)
(* The rows.                                                               *)
(***************************************************************************)
\* A component leads from a user's id to a user's id, or nowhere.
LEMMA NextOwn ==
    ASSUME RowsClean, NEW u, NEW i \in OwnIds(u), NEW n
    PROVE  NextFileId(u, i, n) \subseteq OwnIds(u)
<1>1. CASE n = "." BY <1>1 DEF NextFileId
<1>2. CASE n # "." /\ n = ".."
  <2>1. CASE i \in DOMAIN rows
    <3>1. rows[i].father \in OwnIds(u) BY <2>1 DEF RowsClean, RowClean, OwnIds
    <3>2. QED BY <1>2, <2>1, <3>1 DEF NextFileId
  <2>2. CASE i \notin DOMAIN rows
    BY <1>2, <2>2, CommonIds DEF NextFileId
  <2>3. QED BY <2>1, <2>2
<1>3. CASE n # "." /\ n # ".."
  <2>1. {k \in DOMAIN rows : rows[k].father = i /\ rows[k].name = n /\ rows[k].user = u}
           \subseteq OwnIds(u)
    BY DEF RowsClean, OwnIds
  <2>2. QED BY <1>3, <2>1, CommonIds DEF NextFileId
<1>4. QED BY <1>1, <1>2, <1>3

\* A new row has an id nobody holds and a father of its user.
LEMMA InsertKeeps ==
    ASSUME RowsClean, NEW u, NEW f \in OwnIds(u), NEW n, NEW t \in {"d", "f"}, Insert(f, n, t, u)
    PROVE  RowsClean' /\ Kept
<1>1. /\ DOMAIN rows' = DOMAIN rows \cup {nextId} /\ nextId \notin DOMAIN rows
      /\ rows'[nextId] = [father |-> f, name |-> n, type |-> t, user |-> u]
      /\ \A i \in DOMAIN rows : rows'[i] = rows[i]
      /\ rows' = [i \in DOMAIN rows' |-> rows'[i]]
      /\ nextId' = nextId + 1
  BY DEF RowsClean, Insert
<1>2. Kept
  <2>1. ASSUME NEW w, NEW i \in OwnIds(w)
        PROVE  i \in OwnIds(w)'
    BY <1>1 DEF OwnIds, RowsClean
  <2>2. QED BY <2>1 DEF Kept
<1>3. nextId' \in Nat \ {0} /\ DOMAIN rows' \subseteq 1..(nextId' - 1)
  BY <1>1 DEF RowsClean
<1>4. ASSUME NEW i \in DOMAIN rows'
      PROVE  RowClean(i)'
  <2>1. CASE i = nextId BY <1>1, <1>2, <2>1 DEF Kept, RowClean, RowFields
  <2>2. CASE i \in DOMAIN rows BY <1>1, <1>2, <2>2 DEF Kept, RowsClean, RowClean
  <2>3. QED BY <1>1, <2>1, <2>2
<1>5. QED BY <1>1, <1>2, <1>3, <1>4 DEF RowsClean

\* A row that goes is nobody's any more.
LEMMA DeleteKeeps ==
    ASSUME RowsClean, NEW k, rows' = [i \in DOMAIN rows \ {k} |-> rows[i]], UNCHANGED nextId
    PROVE  RowsClean' /\ Kept
<1>1. Kept BY DEF Kept, OwnIds
<1>2. QED BY <1>1 DEF RowsClean, RowClean, Kept

\* A row keeps its user and type, and gets a father of its user.
LEMMA UpdateKeeps ==
    ASSUME RowsClean, NEW k \in DOMAIN rows, NEW row,
           row = [x \in RowFields |-> row[x]], row.type = rows[k].type,
           row.user = rows[k].user, row.father \in OwnIds(row.user),
           rows' = [rows EXCEPT ![k] = row], UNCHANGED nextId
    PROVE  RowsClean' /\ Kept
<1>1. /\ DOMAIN rows' = DOMAIN rows /\ rows'[k] = row
      /\ \A i \in DOMAIN rows : i # k => rows'[i] = rows[i]
      /\ rows' = [i \in DOMAIN rows' |-> rows'[i]]
  BY DEF RowsClean
<1>2. Kept BY <1>1 DEF Kept, OwnIds
<1>3. ASSUME NEW i \in DOMAIN rows'
      PROVE  RowClean(i)'
  <2>1. CASE i = k BY <1>1, <1>2, <2>1 DEF Kept, RowsClean, RowClean
  <2>2. CASE i # k BY <1>1, <1>2, <2>2 DEF Kept, RowsClean, RowClean
  <2>3. QED BY <2>1, <2>2
<1>4. QED BY <1>1, <1>2, <1>3 DEF RowsClean

-----------------------------------------------------------------------------
(***************************************************************************)
(* The steps.                                                              *)
(***************************************************************************)
\* The steps that write table file.
Writes(s) == InsertDir(s) \/ RmDelete(s) \/ MvMove(s) \/ MvRename(s) \/ Store(s)

\* rm leaves all the rows, or all but one; only a file's may stay.
LEMMA DeleteRows ==
    ASSUME NEW s, RmDelete(s)
    PROVE  /\ nextId' = nextId
           /\ \/ rows' = [i \in DOMAIN rows \ {reg[s].dir} |-> rows[i]] /\ lost' = lost
              \/ rows' = rows /\ TypeOf(reg[s].dir) = "f" /\ lost' = lost \cup {reg[s].dir}
           /\ \A k \in DOMAIN rows' : k \in DOMAIN rows /\ rows'[k] = rows[k]
BY DEF RmDelete

LEMMA OnlyRmLeaves ==
    ASSUME NEW s \in Sessions, Step(s), ~RmDelete(s)
    PROVE  lost' = lost
BY DEF Step, counters, Login, Leave, CmdAnalyse, GetNextFileId, CheckNames, InsertDir, RmFound,
       RmType, RmList, MvSource, MvTarget, MvSameName, MvMove, MvRename, CdIsDir, CdSamePwd,
       CdSetPwd, GetPwd, Cache, Enter, Present, Store

\* What such a step does to the rows.
LEMMA WriteKeepsRows ==
    ASSUME IInv, NEW s \in Sessions, Writes(s)
    PROVE  RowsClean' /\ Kept
<1> DEFINE u == UserOf(s)
<1> USE DEF IInv
<1>1. /\ reg[s].cur \in OwnIds(u) /\ reg[s].id \in OwnIds(u) /\ reg[s].dir \in OwnIds(u)
      /\ father[s] \in OwnIds(u)
  BY DEF LocalsClean, FathersClean, Clean
<1>2. CASE InsertDir(s)
  BY <1>1, <1>2, InsertKeeps DEF InsertDir
<1>3. CASE Store(s)
  BY <1>1, <1>3, InsertKeeps DEF Store
<1>4. CASE RmDelete(s)
  <2>1. CASE rows' = rows /\ nextId' = nextId BY <2>1, Unmoved DEF RowsClean, RowClean, OwnIds
  <2>2. CASE rows' = [i \in DOMAIN rows \ {reg[s].dir} |-> rows[i]] /\ nextId' = nextId
    BY <2>2, DeleteKeeps
  <2>3. QED BY <1>4, <2>1, <2>2, DeleteRows
<1>5. ASSUME NEW row, Update(s, row),
             reg[s].id \in DOMAIN rows =>
                /\ row = [x \in RowFields |-> row[x]] /\ row.type = rows[reg[s].id].type
                /\ row.user = rows[reg[s].id].user /\ row.father \in OwnIds(row.user),
             UNCHANGED nextId
      PROVE  RowsClean' /\ Kept
  <2>1. CASE rows' = rows BY <2>1, <1>5, Unmoved DEF RowsClean, RowClean, OwnIds
  <2>2. CASE reg[s].id \in DOMAIN rows /\ rows' = [rows EXCEPT ![reg[s].id] = row]
    BY <2>2, <1>5, UpdateKeeps
  <2>3. QED BY <1>5, <2>1, <2>2 DEF Update
<1>6. reg[s].id \in DOMAIN rows => rows[reg[s].id].user = u /\ RowClean(reg[s].id)
  BY <1>1 DEF OwnIds, RowsClean
<1>7. CASE MvMove(s)
  <2> DEFINE row == [rows[reg[s].id] EXCEPT !.father = reg[s].dir]
  <2>1. reg[s].id \in DOMAIN rows =>
           /\ row = [x \in RowFields |-> row[x]] /\ row.type = rows[reg[s].id].type
           /\ row.user = rows[reg[s].id].user /\ row.father \in OwnIds(row.user)
    BY <1>1, <1>6 DEF RowClean, RowFields
  <2>2. QED BY <1>5, <1>7, <2>1 DEF MvMove
<1>8. CASE MvRename(s)
  <2> DEFINE row == [rows[reg[s].id] EXCEPT !.name = Last(Normal(reg[s].dst)),
                                            !.father = IF reg[s].moves THEN reg[s].cur ELSE @]
  <2>1. reg[s].id \in DOMAIN rows =>
           /\ row = [x \in RowFields |-> row[x]] /\ row.type = rows[reg[s].id].type
           /\ row.user = rows[reg[s].id].user /\ row.father \in OwnIds(row.user)
    BY <1>1, <1>6 DEF RowClean, RowFields
  <2>2. QED BY <1>5, <1>8, <2>1 DEF MvRename
<1>9. QED BY <1>2, <1>3, <1>4, <1>7, <1>8 DEF Writes

\* The other steps leave the rows alone.
LEMMA OthersKeepRows ==
    ASSUME IInv, NEW s \in Sessions, Step(s), ~Writes(s)
    PROVE  UNCHANGED <<rows, nextId>> /\ RowsClean' /\ Kept
<1>1. UNCHANGED <<rows, nextId>>
  BY DEF Step, Writes, Login, Leave, CmdAnalyse, GetNextFileId, CheckNames, RmFound, RmType,
         RmList, MvSource, MvTarget, MvSameName, CdIsDir, CdSamePwd, CdSetPwd, GetPwd, Cache,
         Enter, Present
<1>2. QED BY <1>1, Unmoved DEF IInv, RowsClean, RowClean, OwnIds

LEMMA RowsKept ==
    ASSUME IInv, NEW s \in Sessions, Step(s)
    PROVE  RowsClean' /\ Kept
BY WriteKeepsRows, OthersKeepRows

\* A session's father id is 0, -1 or found along the user's path.
LEMMA FathersKept ==
    ASSUME IInv, NEW s \in Sessions, Step(s)
    PROVE  FathersClean'
<1> USE DEF IInv
<1>1. RowsClean' /\ Kept BY RowsKept
<1>2. \/ UNCHANGED father
      \/ father' = [father EXCEPT ![s] = Null]
      \/ father' = [father EXCEPT ![s] = reg[s].cur]
  BY DEF Step, Login, Leave, CmdAnalyse, GetNextFileId, CheckNames, InsertDir, RmFound, RmType,
         RmDelete, RmList, MvSource, MvTarget, MvSameName, MvMove, MvRename, CdIsDir, CdSamePwd,
         CdSetPwd, GetPwd, Cache, Enter, Present, Store
<1>3. Null \in OwnIds(UserOf(s)) /\ reg[s].cur \in OwnIds(UserOf(s))
  <2>1. Null \notin Nat /\ Null \notin DOMAIN rows BY NamesAssumption DEF RowsClean
  <2>2. QED BY <2>1 DEF OwnIds, LocalsClean, Clean
<1>4. /\ father' = [t \in Sessions |-> father'[t]]
      /\ \A t \in Sessions : father'[t] \in OwnIds(UserOf(t))
  BY <1>2, <1>3 DEF FathersClean
<1>5. QED BY <1>1, <1>4 DEF Kept, FathersClean

\* What rm has still to visit is the user's.
LEMMA WorkClean ==
    ASSUME IInv, NEW s \in Sessions, RmType(s) \/ RmFound(s) \/ RmList(s)
    PROVE  LocalsClean' /\ Steps'
<1> USE DEF IInv
<1> DEFINE u == UserOf(s)  own == SUBSET OwnIds(u)  work == reg[s].work
<1>1. Kept /\ RowsClean' /\ Clean(reg[s], u)
  <2>1. Step(s) BY DEF Step
  <2>2. QED BY <2>1, RowsKept DEF LocalsClean
<1>2. work \in Seq(own) /\ <<>> \in Seq(own) /\ <<>> \in Seq(Ops)
  BY <1>1, EmptySeq DEF Clean
<1>3. CASE RmFound(s)
  <2>1. CASE reg[s].cur = -1
    BY <1>1, <1>3, <2>1, AnswerMoves DEF RmFound, Finish
  <2>2. CASE reg[s].cur # -1
    <3> DEFINE r == [reg[s] EXCEPT !.id = reg[s].cur, !.work = <<{reg[s].cur}>>]
    <3>1. <<{reg[s].cur}>> \in Seq(own) BY <1>1 DEF Clean
    <3>2. Clean(r, u) BY <1>1, <3>1 DEF Clean, Fields
    <3>3. QED BY <1>1, <1>3, <2>2, <3>2, ThenMoves DEF RmFound, At
  <2>3. QED BY <2>1, <2>2
<1>4. CASE RmList(s)
  <2> DEFINE children == {i \in DOMAIN rows : rows[i].father = reg[s].dir /\ rows[i].user = u}
             first == IF children = {} THEN <<>> ELSE <<children>>
             r == [reg[s] EXCEPT !.work = first \o @]
  <2>1. children \in own BY DEF RowsClean, OwnIds
  <2>2. first \in Seq(own)
    <3>1. <<children>> \in Seq(own) BY <2>1
    <3>2. QED BY <1>2, <3>1
  <2>3. first \o work \in Seq(own) BY <1>2, <2>2, ConcatProperties
  <2>4. Clean(r, u) BY <1>1, <2>3 DEF Clean, Fields
  <2>5. QED BY <1>1, <1>4, <2>4, ThenMoves DEF RmList, At
<1>5. CASE RmType(s)
  <2>1. CASE work = <<>>
    BY <1>1, <1>5, <2>1, AnswerMoves DEF RmType, Finish
  <2>2. CASE work # <<>>
    <3>1. Head(work) \in own /\ Tail(work) \in Seq(own)
      BY <1>2, <2>2, HeadTailProperties
    <3> DEFINE rest(i) == IF Head(work) = {i} THEN Tail(work)
                          ELSE <<Head(work) \ {i}>> \o Tail(work)
               steps(i) == CASE TypeOf(i) = "d"    -> <<"delete", "list", "remove">>
                             [] TypeOf(i) = "f"    -> <<"delete", "remove">>
                             [] TypeOf(i) = "none" -> <<"remove">>
               r(i) == [reg[s] EXCEPT !.dir = i, !.work = rest(i)]
    <3>2. PICK i \in Head(work) : GoOn(s, steps(i), r(i))
      BY <1>5, <2>2 DEF RmType
    <3>3. TypeOf(i) \in {"d", "f", "none"} BY DEF TypeOf, RowsClean, RowClean
    <3>4. steps(i) \in Seq(Ops)
      <4>1. /\ <<"delete", "list", "remove">> \in Seq(Ops) /\ <<"delete", "remove">> \in Seq(Ops)
            /\ <<"remove">> \in Seq(Ops)
        BY DEF Ops
      <4>2. QED BY <3>3, <4>1
    <3>5. <<Head(work) \ {i}>> \in Seq(own) BY <3>1
    <3>6. rest(i) \in Seq(own) BY <3>1, <3>5, ConcatProperties
    <3>7. i \in OwnIds(u) BY <3>1
    <3>8. Clean(r(i), u) BY <1>1, <3>6, <3>7 DEF Clean, Fields
    <3>9. QED BY <1>1, <3>2, <3>4, <3>8, SessionMoves DEF GoOn
  <2>3. QED BY <2>1, <2>2
<1>6. QED BY <1>3, <1>4, <1>5

\* A command begins at the root, with nothing in hand.
LEMMA BeginMoves ==
    ASSUME RowsClean, LocalsClean, Steps, Kept, NEW s \in Sessions, NEW r, NEW steps \in Seq(Ops),
           Clean(r, UserOf(s)), Begin(s, r, steps)
    PROVE  LocalsClean' /\ Steps'
BY SessionMoves DEF Begin

LEMMA CommandMoves ==
    ASSUME IInv, Kept, NEW s \in Sessions, NEW c \in Commands(s), Command(s, c)
    PROVE  LocalsClean' /\ Steps'
<1> USE DEF IInv
<1> DEFINE u == UserOf(s)
           r == [NoReg EXCEPT !.cmd = c.cmd]
           src == FullPath(u, c.src)
           dst == FullPath(u, c.dst)
<1>1. \A p, q, m : Clean([r EXCEPT !.src = p, !.dst = q, !.moves = m], u)
  BY NoRegClean DEF Clean, Fields
<1>2. \A p : Clean([r EXCEPT !.src = p], u) /\ Clean([r EXCEPT !.dst = p], u) /\ Clean(r, u)
  BY NoRegClean DEF Clean, Fields
<1>3. c.cmd \in {"mkdir", "rm", "mv", "cd", "pwd", "upload"}
  BY CommandsAssumption
<1>4. CASE c.cmd = "mkdir"
  <2>1. Clean(Walk([r EXCEPT !.src = c.src.parts], ParentPath(u, c.src)), u) BY <1>2, WalkClean
  <2>2. <<"names", "insert">> \in Seq(Ops) BY DEF Ops
  <2>3. QED BY <1>4, <2>1, <2>2, BeginMoves DEF Command
<1>5. CASE c.cmd = "rm"
  <2>1. Clean(Walk(r, src), u) BY <1>2, WalkClean
  <2>2. <<"found", "remove">> \in Seq(Ops) BY DEF Ops
  <2>3. QED BY <1>5, <2>1, <2>2, BeginMoves DEF Command
<1>6. CASE c.cmd = "mv"
  <2> DEFINE moves == \/ c.dst.abs \/ Len(c.dst.parts) > 1
                      \/ c.dst.parts[1] \notin Names \ Dotted
             q == [r EXCEPT !.src = src, !.dst = dst, !.moves = moves]
  <2>1. Clean(Walk(q, src), u) BY <1>1, WalkClean
  <2>2. <<"source", "target">> \in Seq(Ops) BY DEF Ops
  <2>3. Begin(s, Walk(q, src), <<"source", "target">>) BY <1>6 DEF Command
  <2>4. QED BY <2>1, <2>2, <2>3, BeginMoves
<1>7. CASE c.cmd = "cd"
  <2>1. Clean(Walk([r EXCEPT !.dst = Normal(src)], Normal(src)), u) BY <1>2, WalkClean
  <2>2. <<"isdir", "samepwd", "setpwd", "getpwd", "cache">> \in Seq(Ops) BY DEF Ops
  <2>3. QED BY <1>7, <2>1, <2>2, BeginMoves DEF Command
<1>8. CASE c.cmd = "pwd"
  <2>1. <<"getpwd", "cache">> \in Seq(Ops) BY DEF Ops
  <2>2. QED BY <1>2, <1>8, <2>1, BeginMoves DEF Command
<1>9. CASE c.cmd = "upload"
  <2>1. <<"present", "store">> \in Seq(Ops) BY DEF Ops
  <2>2. QED BY <1>2, <1>9, <2>1, BeginMoves DEF Command
<1>10. QED BY <1>3, <1>4, <1>5, <1>6, <1>7, <1>8, <1>9

\* Along a path a session meets the user's ids only.
LEMMA SessionKept ==
    ASSUME IInv, NEW s \in Sessions, Step(s)
    PROVE  LocalsClean' /\ Steps'
<1> USE DEF IInv
<1> DEFINE u == UserOf(s)
<1>1. Kept /\ RowsClean /\ Clean(reg[s], u) BY RowsKept DEF LocalsClean
<1>2. CASE Login(s)
  <2>1. Clean([NoReg EXCEPT !.cmd = "login"], u) BY NoRegClean DEF Clean, Fields
  <2>2. <<"getpwd", "enter">> \in Seq(Ops) BY DEF Ops
  <2>3. QED BY <1>1, <1>2, <2>1, <2>2, BeginMoves DEF Login
<1>3. CASE Leave(s)
  BY <1>1, <1>3, CleanKept DEF Leave, LocalsClean, Steps, Clean, Kept
<1>4. CASE CmdAnalyse(s)
  BY <1>1, <1>4, CommandMoves DEF CmdAnalyse
<1>5. CASE GetNextFileId(s)
  <2>1. PICK i \in NextFileId(u, reg[s].cur, Head(reg[s].path)) :
           GoOn(s, todo[s], [reg[s] EXCEPT !.cur = i, !.path = Tail(@)])
    BY <1>5 DEF GetNextFileId
  <2>2. i \in OwnIds(u) BY <1>1, NextOwn DEF Clean
  <2>3. Clean([reg[s] EXCEPT !.cur = i, !.path = Tail(@)], u) BY <1>1, <2>2 DEF Clean, Fields
  <2>4. todo[s] \in Seq(Ops) BY DEF Steps
  <2>5. QED BY <1>1, <2>1, <2>3, <2>4, SessionMoves DEF GoOn
<1>6. CASE RmFound(s) \/ RmType(s) \/ RmList(s)
  BY <1>6, WorkClean
<1>7. CASE CheckNames(s) \/ CdIsDir(s) \/ CdSetPwd(s) \/ MvSameName(s) \/ Present(s) \/ RmDelete(s)
  <2>1. (\E a : Answer(s, reg[s].id, a)) \/ (todo[s] # <<>> /\ Then(s, reg[s]))
    BY <1>7 DEF CheckNames, CdIsDir, CdSetPwd, MvSameName, Present, RmDelete, Finish, At
  <2>2. QED BY <1>1, <2>1, AnswerMoves, ThenMoves
<1>8. CASE InsertDir(s) \/ Store(s) \/ MvMove(s) \/ MvRename(s) \/ Cache(s) \/ Enter(s)
  <2>1. \E i, a : Answer(s, i, a)
    BY <1>8 DEF InsertDir, Store, MvMove, MvRename, Update, Cache, Enter, Finish
  <2>2. QED BY <1>1, <2>1, AnswerMoves
<1>9. CASE MvSource(s)
  <2> DEFINE r == [reg[s] EXCEPT !.id = reg[s].cur]
  <2>1. Clean(r, u) BY <1>1 DEF Clean, Fields
  <2>2. Clean(Walk(r, reg[s].dst), u) BY <1>1, <2>1, WalkClean
  <2>3. QED BY <1>1, <1>9, <2>2, ThenMoves DEF MvSource, At
<1>10. CASE MvTarget(s)
  <2> DEFINE r == [reg[s] EXCEPT !.dir = reg[s].cur]
             into == Append(Normal(reg[s].dst), Last(Normal(reg[s].src)))
             up == Front(Normal(reg[s].dst))
  <2>1. Clean(r, u) BY <1>1 DEF Clean, Fields
  <2>2. Clean(Walk(r, into), u) /\ Clean(Walk(reg[s], up), u) BY <1>1, <2>1, WalkClean
  <2>3. <<"samename", "move">> \in Seq(Ops) /\ <<"rename">> \in Seq(Ops) BY DEF Ops
  <2>4. \/ Finish(s, "fail")
        \/ GoOn(s, <<"samename", "move">>, Walk(r, into))
        \/ GoOn(s, <<"rename">>, Walk(reg[s], up))
    BY <1>10 DEF MvTarget
  <2>5. CASE Finish(s, "fail") BY <1>1, <2>5, AnswerMoves DEF Finish
  <2>6. CASE GoOn(s, <<"samename", "move">>, Walk(r, into))
    BY <1>1, <2>2, <2>3, <2>6, SessionMoves DEF GoOn
  <2>7. CASE GoOn(s, <<"rename">>, Walk(reg[s], up))
    BY <1>1, <2>2, <2>3, <2>7, SessionMoves DEF GoOn
  <2>8. QED BY <2>4, <2>5, <2>6, <2>7
<1>11. CASE CdSamePwd(s)
  <2> DEFINE rest == IF pwd[u] = reg[s].dst THEN <<"getpwd", "cache">> ELSE Tail(todo[s])
  <2>1. <<"getpwd", "cache">> \in Seq(Ops) BY DEF Ops
  <2>2. Tail(todo[s]) \in Seq(Ops) BY <1>11, HeadTailProperties DEF CdSamePwd, At, Steps
  <2>3. rest \in Seq(Ops) BY <2>1, <2>2
  <2>4. GoOn(s, rest, reg[s]) BY <1>11 DEF CdSamePwd
  <2>5. QED BY <1>1, <2>3, <2>4, SessionMoves DEF GoOn
<1>12. CASE GetPwd(s)
  <2>1. Clean(Walk(reg[s], pwd[u]), u) BY <1>1, WalkClean
  <2>2. QED BY <1>1, <1>12, <2>1, ThenMoves DEF GetPwd, At
<1>13. QED
  BY <1>2, <1>3, <1>4, <1>5, <1>6, <1>7, <1>8, <1>9, <1>10, <1>11, <1>12 DEF Step

-----------------------------------------------------------------------------
(***************************************************************************)
(* The theorems.                                                           *)
(***************************************************************************)
LEMMA Initially ==
    ASSUME Init
    PROVE  IInv
<1>1. /\ Len(InitRows) \in Nat /\ DOMAIN InitRows = 1..Len(InitRows)
      /\ \A i \in 1..Len(InitRows) :
            InitRows[i] \in [father : Nat, name : Names, type : {"d", "f"}, user : Users]
  BY RowsAssumption, LenProperties, ElementOfSeq
<1>2. /\ DOMAIN rows = DOMAIN InitRows /\ \A i \in DOMAIN rows : rows[i] = InitRows[i]
      /\ rows = [i \in DOMAIN rows |-> rows[i]] /\ nextId = Len(InitRows) + 1
  BY DEF Init
<1>3. ASSUME NEW i \in DOMAIN rows
      PROVE  RowClean(i)
  <2>1. rows[i].father \in OwnIds(rows[i].user)
    BY <1>1, <1>2, RowsAssumption DEF OwnIds
  <2>2. QED BY <1>1, <1>2, <2>1 DEF RowClean, RowFields
<1>4. RowsClean BY <1>1, <1>2, <1>3 DEF RowsClean
<1>5. FathersClean
  <2>1. Null \notin Nat /\ Null \notin DOMAIN rows BY <1>1, <1>2, NamesAssumption
  <2>2. QED BY <2>1 DEF FathersClean, OwnIds, Init
<1>6. LocalsClean BY <1>4, NoRegClean DEF LocalsClean, Init
<1>7. Steps BY EmptySeq DEF Steps, Init
<1>8. QED BY <1>4, <1>5, <1>6, <1>7 DEF IInv

LEMMA Inductive ==
    ASSUME IInv, [Next]_vars
    PROVE  IInv'
<1>1. CASE UNCHANGED vars
  BY <1>1 DEF vars, session, IInv, RowsClean, RowClean, FathersClean, LocalsClean, Steps, Clean,
              OwnIds
<1>2. ASSUME NEW s \in Sessions, Step(s)
      PROVE  IInv'
  BY <1>2, RowsKept, FathersKept, SessionKept DEF IInv
<1>3. QED BY <1>1, <1>2 DEF Next

\* What sessions hold never belongs to another user, in any execution.
THEOREM IdsStayApart == Spec => []IInv
<1>1. Init => IInv BY Initially
<1>2. IInv /\ [Next]_vars => IInv' BY Inductive
<1>3. QED BY <1>1, <1>2, PTL DEF Spec

\* A step that writes rows takes a step of its session's command.
LEMMA WriteAdvances ==
    ASSUME IInv, NEW s \in Sessions, Writes(s)
    PROVE  todo'[s] # todo[s]
<1>1. DOMAIN todo = Sessions /\ todo[s] \in Seq(Ops) BY DEF IInv, Steps
<1>2. todo[s] # <<>> BY DEF Writes, InsertDir, RmDelete, MvMove, MvRename, Store, At
<1>3. todo' = [todo EXCEPT ![s] = <<>>] \/ todo' = [todo EXCEPT ![s] = Tail(todo[s])]
  BY DEF Writes, InsertDir, RmDelete, MvMove, MvRename, Store, Update, Finish, Answer, Then, GoOn
<1>4. Tail(todo[s]) # todo[s]
  <2>1. Len(Tail(todo[s])) = Len(todo[s]) - 1 BY <1>1, <1>2, HeadTailProperties
  <2>2. Len(todo[s]) \in Nat BY <1>1, LenProperties
  <2> DEFINE n == Len(todo[s])
  <2>3. SUFFICES ASSUME Tail(todo[s]) = todo[s] PROVE FALSE OBVIOUS
  <2>4. n = n - 1 BY <2>1, <2>3
  <2> HIDE DEF n
  <2>5. n \in Nat BY <2>2 DEF n
  <2>6. QED BY <2>4, <2>5
<1>5. QED BY <1>1, <1>2, <1>3, <1>4

\* What a session writes are rows of its user.
LEMMA WritesOwn ==
    ASSUME IInv, NEW s \in Sessions, Writes(s), NEW u, u # UserOf(s)
    PROVE  RowsOf(u)' = RowsOf(u)
<1> USE DEF IInv
<1>1. reg[s].id \in OwnIds(UserOf(s)) /\ reg[s].dir \in OwnIds(UserOf(s))
  BY DEF LocalsClean, Clean
<1>2. ASSUME NEW f, NEW n, NEW t, Insert(f, n, t, UserOf(s))
      PROVE  RowsOf(u)' = RowsOf(u)
  <2>1. /\ DOMAIN rows' = DOMAIN rows \cup {nextId} /\ nextId \notin DOMAIN rows
        /\ rows'[nextId].user = UserOf(s)
        /\ \A i \in DOMAIN rows : rows'[i] = rows[i]
    BY <1>2 DEF Insert, RowsClean
  <2>2. QED BY <2>1 DEF RowsOf
<1>3. CASE InsertDir(s) BY <1>2, <1>3 DEF InsertDir
<1>4. CASE Store(s) BY <1>2, <1>4 DEF Store
<1>5. CASE RmDelete(s)
  <2>1. reg[s].dir \in DOMAIN rows => rows[reg[s].dir].user # u BY <1>1 DEF OwnIds
  <2>2. QED BY <1>5, <2>1 DEF RmDelete, RowsOf
<1>6. CASE MvMove(s) \/ MvRename(s)
  <2> DEFINE k == reg[s].id
  <2>1. k \in DOMAIN rows => rows[k].user # u /\ RowClean(k) BY <1>1 DEF OwnIds, RowsClean
  <2>2. \/ rows' = rows
        \/ k \in DOMAIN rows /\ \E row : row.user = rows[k].user /\ rows' = [rows EXCEPT ![k] = row]
    <3>1. CASE MvMove(s) BY <2>1, <3>1 DEF MvMove, Update, RowClean, RowFields
    <3>2. CASE MvRename(s) BY <2>1, <3>2 DEF MvRename, Update, RowClean, RowFields
    <3>3. QED BY <1>6, <3>1, <3>2
  <2>3. QED BY <2>1, <2>2 DEF RowsOf, RowsClean
<1>7. QED BY <1>3, <1>4, <1>5, <1>6 DEF Writes

LEMMA StepIsolated ==
    ASSUME IInv, NEW s \in Sessions, Step(s), NEW u \in Users, RowsOf(u)' # RowsOf(u)
    PROVE  SessionOf(u)' # SessionOf(u)
<1>1. Writes(s)
  <2>1. SUFFICES ASSUME ~Writes(s) PROVE FALSE OBVIOUS
  <2>2. QED BY <2>1, OthersKeepRows DEF RowsOf
<1>2. u = UserOf(s) BY <1>1, WritesOwn
<1>3. SessionOf(u)'[s] # SessionOf(u)[s] BY <1>1, <1>2, WriteAdvances DEF SessionOf
<1>4. QED BY <1>3

\* getFileId and the commands keep users apart: no step of a session changes a row of
\* another user, whatever paths the clients send and however their commands interleave.
THEOREM UsersApart == Spec => Isolation
<1>1. IInv /\ [Next]_vars =>
         [\A u \in Users : RowsOf(u)' # RowsOf(u) => SessionOf(u)' # SessionOf(u)]_vars
  BY StepIsolated DEF Next
<1>2. QED BY <1>1, IdsStayApart, PTL DEF Spec, Isolation

-----------------------------------------------------------------------------
(***************************************************************************)
(* Paths.                                                                  *)
(***************************************************************************)
\* Induction up to N, for a set of numbers.
LEMMA UpTo ==
    ASSUME NEW N \in Nat, NEW A, 0 \in A, \A n \in 1..N : n - 1 \in A => n \in A
    PROVE  \A n \in 0..N : n \in A
<1> DEFINE T == {n \in 0..N : n \notin A}
<1>1. SUFFICES ASSUME T # {} PROVE FALSE OBVIOUS
<1> DEFINE R == OpToRel(<, Nat)
<1>2. \A k, m \in Nat : k < m => <<k, m>> \in R BY DEF OpToRel
<1>3. IsWellFoundedOn(R, Nat) BY NatLessThanWellFounded
<1> HIDE DEF R
<1>4. PICK n \in T : \A k \in T : ~(<<k, n>> \in R)
  <2>1. T \subseteq Nat OBVIOUS
  <2> HIDE DEF T
  <2>2. QED BY <1>1, <1>3, <2>1, WFMin
<1>5. \A k \in T : ~(k < n)
  <2>1. T \subseteq Nat OBVIOUS
  <2>2. QED BY <1>2, <1>4, <2>1
<1>6. n # 0 /\ n \in 1..N BY <1>4
<1>7. n - 1 \notin T
  <2>1. n - 1 < n BY <1>6
  <2>2. QED BY <1>5, <2>1
<1>8. QED BY <1>4, <1>6, <1>7

Components == Names \cup {".", ".."}

\* What component c makes of the path q before it.
After(q, c) == CASE c = "."  -> q
                 [] c = ".." -> IF q = <<>> THEN <<>> ELSE Front(q)
                 [] OTHER    -> Append(q, c)

LEMMA AfterNames ==
    ASSUME NEW q \in Seq(Names), NEW c \in Components
    PROVE  After(q, c) \in Seq(Names)
<1>1. CASE q # <<>> /\ c = ".."
  <2>1. Len(q) \in Nat /\ Len(q) # 0 BY <1>1, LenProperties, EmptySeq
  <2>2. Front(q) \in Seq(Names)
    <3>1. \A i \in 1..(Len(q) - 1) : q[i] \in Names BY <2>1, ElementOfSeq
    <3>2. QED BY <2>1, <3>1, SubSeqProperties DEF Front
  <2>3. QED BY <1>1, <2>2 DEF After
<1>2. CASE ~(q # <<>> /\ c = "..")
  BY <1>2, AppendProperties DEF After, Components
<1>3. QED BY <1>1, <1>2

LEMMA NormExists ==
    ASSUME NEW p \in Seq(Components)
    PROVE  \E f : f = [n \in 0..Len(p) |-> IF n = 0 THEN <<>> ELSE After(f[n - 1], p[n])]
<1> DEFINE N == Len(p)
           Up(n, f) == f = [k \in 0..n |-> IF k = 0 THEN <<>> ELSE After(f[k - 1], p[k])]
           A == {n \in 0..N : \E f : Up(n, f)}
<1>1. N \in Nat BY LenProperties
<1>2. 0 \in A
  <2>1. Up(0, [k \in 0..0 |-> <<>>]) OBVIOUS
  <2> HIDE DEF Up
  <2>2. QED BY <1>1, <2>1
<1>3. ASSUME NEW n \in 1..N, n - 1 \in A
      PROVE  n \in A
  <2>1. PICK f : Up(n - 1, f) BY <1>3
  <2> DEFINE g == [k \in 0..n |-> IF k = n THEN After(f[n - 1], p[n]) ELSE f[k]]
  <2>2. \A k \in 0..(n - 1) : g[k] = f[k] BY <1>1
  <2>3. \A k \in 0..n : g[k] = IF k = 0 THEN <<>> ELSE After(g[k - 1], p[k])
    <3>1. SUFFICES ASSUME NEW k \in 0..n
                   PROVE  g[k] = IF k = 0 THEN <<>> ELSE After(g[k - 1], p[k])
      OBVIOUS
    <3>2. CASE k = n
      <4>1. g[n - 1] = f[n - 1] /\ n # 0 BY <1>1, <2>2
      <4>2. QED BY <3>2, <4>1
    <3>3. CASE k # n /\ k = 0 BY <2>1, <3>3
    <3>4. CASE k # n /\ k # 0
      <4>1. k \in 0..(n - 1) /\ k - 1 \in 0..(n - 1) BY <1>1, <3>4
      <4>2. f[k] = After(f[k - 1], p[k]) BY <2>1, <3>4, <4>1
      <4>3. g[k] = f[k] /\ g[k - 1] = f[k - 1] BY <2>2, <4>1
      <4>4. QED BY <3>4, <4>2, <4>3
    <3>5. QED BY <3>2, <3>3, <3>4
  <2>4. Up(n, g)
    <3>1. g = [k \in 0..n |-> g[k]] OBVIOUS
    <3> HIDE DEF g
    <3>2. QED BY <2>3, <3>1
  <2> HIDE DEF Up, g
  <2>5. QED BY <1>1, <2>4
<1>4. N \in A
  <2> HIDE DEF A, N
  <2>1. \A n \in 1..N : n - 1 \in A => n \in A BY <1>3
  <2>2. \A n \in 0..N : n \in A BY <1>1, <1>2, <2>1, UpTo
  <2>3. QED BY <1>1, <2>2
<1>5. QED BY <1>4

\* Normal leaves neither "." nor ".." in a path.
LEMMA NormalNames ==
    ASSUME NEW p \in Seq(Components)
    PROVE  Normal(p) \in Seq(Names)
<1> DEFINE N == Len(p)
           f == CHOOSE g : g = [n \in 0..N |-> IF n = 0 THEN <<>> ELSE After(g[n - 1], p[n])]
           A == {n \in 0..N : f[n] \in Seq(Names)}
<1>1. N \in Nat BY LenProperties
<1>2. f = [n \in 0..N |-> IF n = 0 THEN <<>> ELSE After(f[n - 1], p[n])] BY NormExists
<1>3. Normal(p) = f[N] BY DEF Normal, After
<1> HIDE DEF f
<1>4. 0 \in A BY <1>1, <1>2, EmptySeq
<1>5. ASSUME NEW n \in 1..N, n - 1 \in A
      PROVE  n \in A
  <2>1. f[n] = After(f[n - 1], p[n]) BY <1>1, <1>2
  <2>2. p[n] \in Components BY ElementOfSeq
  <2>3. QED BY <1>5, <2>1, <2>2, AfterNames
<1>6. N \in A
  <2> HIDE DEF A, N
  <2>1. \A n \in 1..N : n - 1 \in A => n \in A BY <1>5
  <2>2. \A n \in 0..N : n \in A BY <1>1, <1>4, <2>1, UpTo
  <2>3. QED BY <1>1, <2>2
<1>7. QED BY <1>3, <1>6

-----------------------------------------------------------------------------
(***************************************************************************)
(* The types.                                                              *)
(***************************************************************************)
\* What mkdir and upload are asked to make has a name of its own.  makedir does not look:
\* "mkdir .." makes a row named ".." that no path leads to.
Named == \A s \in Sessions : \A c \in Commands(s) :
            c.cmd \in {"mkdir", "upload"} => Last(c.src.parts) \in Names

Locals == [cmd : Cmds, src : Seq(Components), dst : Seq(Components), moves : BOOLEAN, cur : Ids,
           path : Seq(Components), id : Ids, dir : Ids, work : Seq(SUBSET Ids)]
Replies == [cmd : Cmds, id : Ids, answer : {"none", "ok", "existing", "fail"}]
Entries == [father : Ids, name : Names, type : {"d", "f"}, user : Users]

\* The steps that may be left of a command with the locals r and the father id f.
Left(r, f) ==
    {op \in Ops : /\ op \in {"insert", "store"} => Last(r.src) \in Names
                  /\ op = "store" => f # Null
                  /\ op = "rename" => Normal(r.dst) # <<>>
                  /\ op = "setpwd" => r.dst \in Seq(Names)}

RowsTyped ==
    /\ nextId \in Nat \ {0} /\ DOMAIN rows \subseteq 1..(nextId - 1)
    /\ \A i \in DOMAIN rows : rows[i] \in Entries

SharedTyped == pwd \in [Users -> Seq(Names)] /\ father \in [Sessions -> Ids \cup {Null}]

SessionsTyped ==
    /\ todo = [s \in Sessions |-> todo[s]] /\ reg \in [Sessions -> Locals]
    /\ reply \in [Sessions -> Replies]
    /\ \A s \in Sessions : todo[s] \in Seq(Left(reg[s], father[s]))

LostTyped == lost \subseteq Ids

TInv == RowsTyped /\ SharedTyped /\ SessionsTyped /\ LostTyped

LEMMA TypesFollow ==
    ASSUME TInv
    PROVE  TypeOK
<1> USE DEF TInv, RowsTyped, SharedTyped, SessionsTyped, LostTyped
<1>1. todo \in [Sessions -> Seq(Ops)]
  <2>1. ASSUME NEW s \in Sessions
        PROVE  todo[s] \in Seq(Ops)
    <3>1. Left(reg[s], father[s]) \subseteq Ops BY DEF Left
    <3>2. QED BY <3>1, SeqMonotonic
  <2>2. QED BY <2>1
<1>2. \A i \in DOMAIN rows :
         rows[i] \in [father : Ids, name : Names, type : {"d", "f"}, user : Users]
  BY DEF Entries
<1>3. \A s \in Sessions :
         reg[s] \in [cmd : Cmds, src : Seq(Names \cup {".", ".."}),
                     dst : Seq(Names \cup {".", ".."}), moves : BOOLEAN, cur : Ids,
                     path : Seq(Names \cup {".", ".."}), id : Ids, dir : Ids,
                     work : Seq(SUBSET Ids)]
  BY DEF Locals, Components
<1>4. QED BY <1>1, <1>2, <1>3 DEF TypeOK, Replies

\* The steps left depend on four things; an id stays an id.
LEMMA LeftSame ==
    ASSUME NEW r, NEW q, NEW f, q.src = r.src, q.dst = r.dst
    PROVE  Left(q, f) = Left(r, f)
BY DEF Left

LEMMA LocalsKept ==
    ASSUME Ids \subseteq Ids'
    PROVE  Locals \subseteq Locals' /\ Replies \subseteq Replies' /\ Entries \subseteq Entries'
<1>1. Seq(SUBSET Ids) \subseteq Seq(SUBSET Ids)'
  <2>1. SUBSET Ids \subseteq SUBSET Ids' OBVIOUS
  <2>2. QED BY <2>1, SeqMonotonic
<1>2. Locals \subseteq Locals' BY <1>1 DEF Locals, Components
<1>3. QED BY <1>2 DEF Replies, Entries

LEMMA SessionTyped ==
    ASSUME SessionsTyped, Ids \subseteq Ids', NEW s \in Sessions, NEW r \in Locals, NEW rest,
           rest \in Seq(Left(r, father'[s])), NEW a, a \in Replies',
           todo' = [todo EXCEPT ![s] = rest], reg' = [reg EXCEPT ![s] = r],
           reply' = [reply EXCEPT ![s] = a],
           \A t \in Sessions \ {s} : father'[t] = father[t]
    PROVE  SessionsTyped'
<1> USE DEF SessionsTyped
<1>1. Locals \subseteq Locals' /\ Replies \subseteq Replies' BY LocalsKept
<1>2. reg' \in [Sessions -> Locals'] /\ reply' \in [Sessions -> Replies'] BY <1>1
<1>3. ASSUME NEW t \in Sessions
      PROVE  todo'[t] \in Seq(Left(reg'[t], father'[t]))
  <2>1. CASE t = s BY <2>1
  <2>2. CASE t # s BY <2>2
  <2>3. QED BY <2>1, <2>2
<1>4. todo' = [t \in Sessions |-> todo'[t]] OBVIOUS
<1>5. QED BY <1>2, <1>3, <1>4 DEF Left, Normal

LEMMA NothingTyped ==
    ASSUME RowsTyped
    PROVE  0 \in Ids /\ -1 \in Ids /\ NoReg \in Locals /\ NoReply \in Replies
<1>1. 0 \in Ids /\ -1 \in Ids BY DEF RowsTyped, Ids
<1>2. <<>> \in Seq(Components) /\ <<>> \in Seq(SUBSET Ids) BY EmptySeq
<1>3. QED BY <1>1, <1>2 DEF NoReg, Locals, Cmds, NoReply, Replies

LEMMA AnswerTyped ==
    ASSUME RowsTyped, SessionsTyped, Ids \subseteq Ids', NEW s \in Sessions, NEW i, i \in Ids',
           NEW a \in {"ok", "existing", "fail"}, Answer(s, i, a),
           \A t \in Sessions \ {s} : father'[t] = father[t]
    PROVE  SessionsTyped'
<1>1. NoReg \in Locals BY NothingTyped
<1>2. <<>> \in Seq(Left(NoReg, father'[s])) BY EmptySeq
<1>3. [cmd |-> reg[s].cmd, id |-> i, answer |-> a] \in Replies'
  BY DEF SessionsTyped, Locals, Replies
<1>4. QED BY <1>1, <1>2, <1>3, SessionTyped DEF Answer

LEMMA GoOnTyped ==
    ASSUME SessionsTyped, Ids \subseteq Ids', NEW s \in Sessions, NEW r \in Locals,
           NEW rest \in Seq(Left(r, father[s])), GoOn(s, rest, r), UNCHANGED father
    PROVE  SessionsTyped'
<1>1. reply[s] \in Replies' /\ reply' = [reply EXCEPT ![s] = reply[s]]
  BY LocalsKept DEF SessionsTyped, GoOn
<1>2. QED BY <1>1, SessionTyped DEF GoOn

LEMMA ThenTyped ==
    ASSUME SessionsTyped, Ids \subseteq Ids', NEW s \in Sessions, todo[s] # <<>>,
           NEW r \in Locals, r.src = reg[s].src, r.dst = reg[s].dst, Then(s, r), UNCHANGED father
    PROVE  SessionsTyped'
<1>1. Tail(todo[s]) \in Seq(Left(reg[s], father[s])) BY HeadTailProperties DEF SessionsTyped
<1>2. Left(r, father[s]) = Left(reg[s], father[s]) BY LeftSame
<1>3. QED BY <1>1, <1>2, GoOnTyped DEF Then

LEMMA BeginTyped ==
    ASSUME RowsTyped, SessionsTyped, Ids \subseteq Ids', NEW s \in Sessions, NEW r \in Locals,
           NEW steps \in Seq(Left(r, father[s])), Begin(s, r, steps), UNCHANGED father
    PROVE  SessionsTyped'
<1>1. NoReply \in Replies' BY NothingTyped, LocalsKept
<1>2. QED BY <1>1, SessionTyped DEF Begin

\* What the next step needs of the locals it has.
LEMMA HeadLeft ==
    ASSUME SessionsTyped, NEW s \in Sessions, todo[s] # <<>>
    PROVE  Head(todo[s]) \in Left(reg[s], father[s]) /\ reg[s] \in Locals
BY HeadTailProperties DEF SessionsTyped

LEMMA NextTyped ==
    ASSUME RowsTyped, NEW u, NEW i \in Ids, NEW n
    PROVE  NextFileId(u, i, n) \subseteq Ids
<1>1. DOMAIN rows \subseteq Ids /\ \A k \in DOMAIN rows : rows[k].father \in Ids
  BY DEF RowsTyped, Ids, Entries
<1>2. QED BY <1>1, NothingTyped DEF NextFileId

LEMMA LastIn ==
    ASSUME NEW S, NEW q \in Seq(S), q # <<>>
    PROVE  Last(q) \in S /\ Front(q) \in Seq(S)
<1>1. Len(q) \in Nat /\ Len(q) # 0 BY LenProperties, EmptySeq
<1>2. \A i \in 1..Len(q) : q[i] \in S BY ElementOfSeq
<1>3. Front(q) \in Seq(S) BY <1>1, <1>2, SubSeqProperties DEF Front
<1>4. QED BY <1>1, <1>2, <1>3 DEF Last

-----------------------------------------------------------------------------
(***************************************************************************)
(* Types of the rows.                                                      *)
(***************************************************************************)
LEMMA InsertTyped ==
    ASSUME RowsTyped, NEW f \in Ids, NEW n \in Names, NEW t \in {"d", "f"}, NEW u \in Users,
           Insert(f, n, t, u)
    PROVE  RowsTyped' /\ Ids \subseteq Ids' /\ nextId \in Ids'
<1>1. nextId \in Nat \ {0} /\ nextId' = nextId + 1 BY DEF RowsTyped, Insert
<1>2. Ids \subseteq Ids' /\ nextId \in Ids' BY <1>1 DEF Ids
<1>3. Entries \subseteq Entries' BY <1>2, LocalsKept
<1>4. [father |-> f, name |-> n, type |-> t, user |-> u] \in Entries BY DEF Entries
<1>5. /\ DOMAIN rows' = DOMAIN rows \cup {nextId}
      /\ \A i \in DOMAIN rows' : rows'[i] \in Entries
  BY <1>4 DEF Insert, RowsTyped
<1>6. DOMAIN rows' \subseteq 1..(nextId' - 1) BY <1>1, <1>5 DEF RowsTyped
<1>7. QED BY <1>1, <1>2, <1>3, <1>5, <1>6 DEF RowsTyped

LEMMA RowsTypedKept ==
    ASSUME TInv, NEW s \in Sessions, Step(s)
    PROVE  RowsTyped' /\ Ids \subseteq Ids' /\ (InsertDir(s) \/ Store(s) => nextId \in Ids')
<1> USE DEF TInv
<1>1. UserOf(s) \in Users BY CommandsAssumption
<1>2. reg[s] \in Locals BY DEF SessionsTyped
<1>3. ASSUME nextId' = nextId, DOMAIN rows' \subseteq DOMAIN rows,
             \A i \in DOMAIN rows' : rows'[i] \in Entries
      PROVE  RowsTyped' /\ Ids \subseteq Ids'
  BY <1>3 DEF RowsTyped, Ids, Entries
<1>4. CASE ~Writes(s)
  <2>1. UNCHANGED <<rows, nextId>>
    BY <1>4 DEF Step, Writes, Login, Leave, CmdAnalyse, GetNextFileId, CheckNames, RmFound, RmType,
         RmList, MvSource, MvTarget, MvSameName, CdIsDir, CdSamePwd, CdSetPwd, GetPwd, Cache,
         Enter, Present
  <2>2. RowsTyped' /\ Ids \subseteq Ids' BY <1>3, <2>1 DEF RowsTyped
  <2>3. QED BY <1>4, <2>2 DEF Writes
<1>5. CASE InsertDir(s)
  <2>1. "insert" \in Left(reg[s], father[s]) BY <1>5, HeadLeft DEF InsertDir, At
  <2>2. Last(reg[s].src) \in Names /\ reg[s].cur \in Ids BY <1>2, <2>1 DEF Left, Locals
  <2>3. Insert(reg[s].cur, Last(reg[s].src), "d", UserOf(s)) BY <1>5 DEF InsertDir
  <2>4. QED BY <1>1, <2>2, <2>3, InsertTyped
<1>6. CASE Store(s)
  <2>1. "store" \in Left(reg[s], father[s]) BY <1>6, HeadLeft DEF Store, At
  <2>2. Last(reg[s].src) \in Names /\ father[s] \in Ids BY <2>1 DEF Left, SharedTyped
  <2>3. Insert(father[s], Last(reg[s].src), "f", UserOf(s)) BY <1>6 DEF Store
  <2>4. QED BY <1>1, <2>2, <2>3, InsertTyped
<1>7. CASE RmDelete(s)
  <2>1. nextId' = nextId /\ \A k \in DOMAIN rows' : k \in DOMAIN rows /\ rows'[k] = rows[k]
    BY <1>7, DeleteRows
  <2>2. RowsTyped' /\ Ids \subseteq Ids' BY <1>3, <2>1 DEF RowsTyped
  <2>3. ~InsertDir(s) /\ ~Store(s) BY <1>7 DEF RmDelete, InsertDir, Store, At
  <2>4. QED BY <2>2, <2>3
<1>8. ASSUME NEW row, Update(s, row), reg[s].id \in DOMAIN rows => row \in Entries, nextId' = nextId
      PROVE  RowsTyped' /\ Ids \subseteq Ids'
  <2>1. rows' = rows \/ (reg[s].id \in DOMAIN rows /\ rows' = [rows EXCEPT ![reg[s].id] = row])
    BY <1>8 DEF Update
  <2>2. DOMAIN rows' = DOMAIN rows /\ \A i \in DOMAIN rows' : rows'[i] \in Entries
    BY <1>8, <2>1 DEF RowsTyped
  <2>3. QED BY <1>3, <1>8, <2>2
<1>9. CASE MvMove(s)
  <2> DEFINE row == [rows[reg[s].id] EXCEPT !.father = reg[s].dir]
  <2>1. reg[s].id \in DOMAIN rows => row \in Entries BY <1>2 DEF RowsTyped, Entries, Locals
  <2>2. Update(s, row) /\ nextId' = nextId BY <1>9 DEF MvMove
  <2> HIDE DEF row
  <2>3. RowsTyped' /\ Ids \subseteq Ids' BY <1>8, <2>1, <2>2
  <2>4. ~InsertDir(s) /\ ~Store(s) BY <1>9 DEF MvMove, InsertDir, Store, At
  <2>5. QED BY <2>3, <2>4
<1>10. CASE MvRename(s)
  <2> DEFINE n == Last(Normal(reg[s].dst))
             row == [rows[reg[s].id] EXCEPT !.name = n,
                                            !.father = IF reg[s].moves THEN reg[s].cur ELSE @]
  <2>1. n \in Names
    <3>1. "rename" \in Left(reg[s], father[s]) BY <1>10, HeadLeft DEF MvRename, At
    <3>2. Normal(reg[s].dst) # <<>> BY <3>1 DEF Left
    <3>3. reg[s].dst \in Seq(Components) BY <1>2 DEF Locals
    <3>4. QED BY <3>2, <3>3, NormalNames, LastIn
  <2>2. Update(s, row) /\ nextId' = nextId BY <1>10 DEF MvRename
  <2> HIDE DEF n
  <2>3. reg[s].id \in DOMAIN rows => row \in Entries
    BY <1>2, <2>1 DEF RowsTyped, Entries, Locals
  <2> HIDE DEF row
  <2>4. RowsTyped' /\ Ids \subseteq Ids' BY <1>8, <2>2, <2>3
  <2>5. ~InsertDir(s) /\ ~Store(s) BY <1>10 DEF MvRename, InsertDir, Store, At
  <2>6. QED BY <2>4, <2>5
<1>11. QED BY <1>4, <1>5, <1>6, <1>7, <1>9, <1>10 DEF Writes

LEMMA FinishTyped ==
    ASSUME RowsTyped, SessionsTyped, Ids \subseteq Ids', NEW s \in Sessions,
           NEW a \in {"ok", "existing", "fail"}, Finish(s, a),
           \A t \in Sessions \ {s} : father'[t] = father[t]
    PROVE  SessionsTyped'
<1>1. reg[s].id \in Ids' BY DEF SessionsTyped, Locals
<1>2. QED BY <1>1, AnswerTyped DEF Finish

-----------------------------------------------------------------------------
(***************************************************************************)
(* Types of what the users and the sessions keep.                          *)
(***************************************************************************)
LEMMA SharedTypedKept ==
    ASSUME TInv, NEW s \in Sessions, Step(s), Ids \subseteq Ids'
    PROVE  SharedTyped'
<1> USE DEF TInv
<1>1. UserOf(s) \in Users BY CommandsAssumption
<1>2. reg[s].cur \in Ids BY DEF SessionsTyped, Locals
<1>3. CASE UNCHANGED <<pwd, father>> BY <1>3 DEF SharedTyped
<1>4. CASE Login(s)
  <2>1. Home(UserOf(s)) \in Names BY <1>1, NamesAssumption
  <2>2. <<Home(UserOf(s))>> \in Seq(Names) BY <2>1
  <2>3. QED BY <1>4, <2>2 DEF Login, SharedTyped
<1>5. CASE CdSetPwd(s) /\ pwd' # pwd
  <2>1. "setpwd" \in Left(reg[s], father[s]) BY <1>5, HeadLeft DEF CdSetPwd, At
  <2>2. reg[s].dst \in Seq(Names) BY <2>1 DEF Left
  <2>3. pwd' = [pwd EXCEPT ![UserOf(s)] = reg[s].dst] /\ UNCHANGED father BY <1>5 DEF CdSetPwd
  <2>4. QED BY <1>1, <2>2, <2>3 DEF SharedTyped
<1>6. CASE Leave(s) \/ Cache(s) \/ Enter(s)
  <2>1. UNCHANGED pwd /\ \/ UNCHANGED father
                         \/ father' = [father EXCEPT ![s] = Null]
                         \/ father' = [father EXCEPT ![s] = reg[s].cur]
    BY <1>6 DEF Leave, Cache, Enter
  <2>2. QED BY <1>2, <2>1 DEF SharedTyped
<1>7. CASE ~(Login(s) \/ CdSetPwd(s) \/ Leave(s) \/ Cache(s) \/ Enter(s))
  <2>1. UNCHANGED <<pwd, father>>
    BY <1>7 DEF Step, CmdAnalyse, GetNextFileId, CheckNames, InsertDir, RmFound, RmType, RmDelete,
         RmList, MvSource, MvTarget, MvSameName, MvMove, MvRename, CdIsDir, CdSamePwd, GetPwd,
         Present, Store
  <2>2. QED BY <1>3, <2>1
<1>8. CdSetPwd(s) => UNCHANGED father BY DEF CdSetPwd
<1>9. QED BY <1>3, <1>4, <1>5, <1>6, <1>7, <1>8

LEMMA LostTypedKept ==
    ASSUME TInv, NEW s \in Sessions, Step(s), Ids \subseteq Ids'
    PROVE  LostTyped'
<1>1. lost \subseteq Ids BY DEF TInv, LostTyped
<1>2. CASE RmDelete(s)
  <2>1. reg[s].dir \in Ids BY DEF TInv, SessionsTyped, Locals
  <2>2. lost' \subseteq lost \cup {reg[s].dir} BY <1>2, DeleteRows
  <2>3. QED BY <1>1, <2>1, <2>2 DEF LostTyped
<1>3. CASE ~RmDelete(s)
  <2>1. lost' = lost BY <1>3, OnlyRmLeaves
  <2>2. QED BY <1>1, <2>1 DEF LostTyped
<1>4. QED BY <1>2, <1>3

\* The components a command walks.
LEMMA PathsTyped ==
    ASSUME SharedTyped, NEW u \in Users, NEW p \in Paths
    PROVE  p.parts \in Seq(Components) /\ FullPath(u, p) \in Seq(Components)
           /\ ParentPath(u, p) \in Seq(Components)
<1>1. p.parts \in Seq(Components) /\ p.parts # <<>> BY DEF Paths, Components
<1>2. pwd[u] \in Seq(Components)
  <2>1. Names \subseteq Components BY DEF Components
  <2>2. QED BY <2>1, SeqMonotonic DEF SharedTyped
<1>3. \A q \in Seq(Components) : pwd[u] \o q \in Seq(Components) BY <1>2, ConcatProperties
<1>4. Front(p.parts) \in Seq(Components) BY <1>1, LastIn
<1>5. FullPath(u, p) \in Seq(Components) BY <1>1, <1>3 DEF FullPath
<1>6. FullPath(u, [p EXCEPT !.parts = Front(@)]) \in Seq(Components)
  BY <1>3, <1>4 DEF FullPath, Paths
<1>7. <<".">> \in Seq(Components)
  <2>1. "." \in Components BY DEF Components
  <2>2. QED BY <2>1
<1>8. ParentPath(u, p) \in Seq(Components) BY <1>3, <1>6, <1>7 DEF ParentPath
<1>9. QED BY <1>1, <1>5, <1>8

LEMMA CommandTyped ==
    ASSUME Named, RowsTyped, SharedTyped, SessionsTyped, Ids \subseteq Ids', NEW s \in Sessions,
           NEW c \in Commands(s), Command(s, c), father[s] # Null, UNCHANGED father
    PROVE  SessionsTyped'
<1> DEFINE u == UserOf(s)
           r == [NoReg EXCEPT !.cmd = c.cmd]
           src == FullPath(u, c.src)
           dst == FullPath(u, c.dst)
           L(q) == Left(q, father[s])
<1>1. u \in Users /\ c.src \in Paths /\ c.dst \in Paths
      /\ c.cmd \in {"mkdir", "rm", "mv", "cd", "pwd", "upload"}
  BY CommandsAssumption
<1>2. /\ c.src.parts \in Seq(Components) /\ ParentPath(u, c.src) \in Seq(Components)
      /\ src \in Seq(Components) /\ dst \in Seq(Components)
  BY <1>1, PathsTyped
<1>3. r \in Locals /\ 0 \in Ids /\ DOMAIN r = Fields
  BY <1>1, NothingTyped DEF Locals, Cmds, NoReg, Fields
<1>4. Normal(src) \in Seq(Names) BY <1>2, NormalNames
<1>5. Normal(src) \in Seq(Components)
  <2>1. Names \subseteq Components BY DEF Components
  <2>2. QED BY <1>4, <2>1, SeqMonotonic
<1>6. CASE c.cmd = "mkdir"
  <2> DEFINE q == Walk([r EXCEPT !.src = c.src.parts], ParentPath(u, c.src))
  <2>1. q \in Locals BY <1>2, <1>3 DEF Walk, Locals
  <2>2. q.src = c.src.parts BY <1>3 DEF Walk, Fields
  <2>3. Last(q.src) \in Names BY <1>6, <2>2 DEF Named
  <2>4. "names" \in L(q) /\ "insert" \in L(q) BY <2>3 DEF Left, Ops
  <2>5. <<"names", "insert">> \in Seq(L(q)) BY <2>4
  <2>6. Begin(s, q, <<"names", "insert">>) BY <1>6 DEF Command
  <2> HIDE DEF q
  <2>7. QED BY <2>1, <2>5, <2>6, BeginTyped
<1>7. CASE c.cmd = "rm"
  <2> DEFINE q == Walk(r, src)
  <2>1. q \in Locals BY <1>2, <1>3 DEF Walk, Locals
  <2>2. <<"found", "remove">> \in Seq(L(q)) BY DEF Left, Ops
  <2>3. Begin(s, q, <<"found", "remove">>) BY <1>7 DEF Command
  <2> HIDE DEF q
  <2>4. QED BY <2>1, <2>2, <2>3, BeginTyped
<1>8. CASE c.cmd = "mv"
  <2> DEFINE m == \/ c.dst.abs \/ Len(c.dst.parts) > 1 \/ c.dst.parts[1] \notin Names \ Dotted
             q == Walk([r EXCEPT !.src = src, !.dst = dst, !.moves = m], src)
  <2>1. m \in BOOLEAN BY <1>1 DEF Paths
  <2>2. Begin(s, q, <<"source", "target">>) BY <1>8 DEF Command
  <2> HIDE DEF m
  <2>3. q \in Locals BY <1>2, <1>3, <2>1 DEF Walk, Locals
  <2>4. <<"source", "target">> \in Seq(L(q)) BY DEF Left, Ops
  <2> HIDE DEF q
  <2>5. QED BY <2>2, <2>3, <2>4, BeginTyped
<1>9. CASE c.cmd = "cd"
  <2> DEFINE q == Walk([r EXCEPT !.dst = Normal(src)], Normal(src))
             steps == <<"isdir", "samepwd", "setpwd", "getpwd", "cache">>
  <2>1. q \in Locals BY <1>3, <1>5 DEF Walk, Locals
  <2>2. q.dst = Normal(src) BY <1>3 DEF Walk, Fields
  <2>3. \A op \in {"isdir", "samepwd", "setpwd", "getpwd", "cache"} : op \in L(q)
    BY <1>4, <2>2 DEF Left, Ops
  <2>4. steps \in Seq(L(q)) BY <2>3
  <2>5. Begin(s, q, steps) BY <1>9 DEF Command
  <2> HIDE DEF q, steps
  <2>6. QED BY <2>1, <2>4, <2>5, BeginTyped
<1>10. CASE c.cmd = "pwd"
  <2>1. <<"getpwd", "cache">> \in Seq(L(r)) BY DEF Left, Ops
  <2>2. Begin(s, r, <<"getpwd", "cache">>) BY <1>10 DEF Command
  <2> HIDE DEF r
  <2>3. QED BY <1>3, <2>1, <2>2, BeginTyped
<1>11. CASE c.cmd = "upload"
  <2> DEFINE q == [r EXCEPT !.src = c.src.parts]
  <2>1. q \in Locals BY <1>2, <1>3 DEF Locals
  <2>2. q.src = c.src.parts BY <1>3 DEF Fields
  <2>3. Last(q.src) \in Names BY <1>11, <2>2 DEF Named
  <2>4. "present" \in L(q) /\ "store" \in L(q) BY <2>3 DEF Left, Ops
  <2>5. <<"present", "store">> \in Seq(L(q)) BY <2>4
  <2>6. Begin(s, q, <<"present", "store">>) BY <1>11 DEF Command
  <2> HIDE DEF q
  <2>7. QED BY <2>1, <2>5, <2>6, BeginTyped
<1>12. QED BY <1>1, <1>6, <1>7, <1>8, <1>9, <1>10, <1>11

-----------------------------------------------------------------------------
(***************************************************************************)
(* Types of what the sessions keep.                                        *)
(***************************************************************************)
LEMMA MvTyped ==
    ASSUME TInv, Ids \subseteq Ids', NEW s \in Sessions, UNCHANGED father,
           MvSource(s) \/ MvTarget(s) \/ MvSameName(s)
    PROVE  SessionsTyped'
<1> USE DEF TInv
<1>1. reg[s] \in Locals /\ 0 \in Ids BY NothingTyped DEF SessionsTyped
<1>2. CASE MvSource(s)
  <2> DEFINE q == Walk([reg[s] EXCEPT !.id = reg[s].cur], reg[s].dst)
  <2>1. q \in Locals /\ q.src = reg[s].src /\ q.dst = reg[s].dst BY <1>1 DEF Walk, Locals
  <2>2. Then(s, q) /\ todo[s] # <<>> BY <1>2 DEF MvSource, At
  <2> HIDE DEF q
  <2>3. QED BY <2>1, <2>2, ThenTyped
<1>3. CASE MvTarget(s)
  <2> DEFINE r == reg[s]
             src == Normal(r.src)
             dst == Normal(r.dst)
             a == Walk([r EXCEPT !.dir = r.cur], Append(dst, Last(src)))
             b == Walk(r, Front(dst))
  <2>1. src \in Seq(Names) /\ dst \in Seq(Names) BY <1>1, NormalNames DEF Locals
  <2>2. \/ Finish(s, "fail")
        \/ src # <<>> /\ dst # <<>> /\ GoOn(s, <<"samename", "move">>, a)
        \/ src # <<>> /\ dst # <<>> /\ GoOn(s, <<"rename">>, b)
    BY <1>3 DEF MvTarget
  <2>3. CASE Finish(s, "fail") BY <2>3, FinishTyped
  <2>4. CASE src # <<>> /\ dst # <<>> /\ GoOn(s, <<"samename", "move">>, a)
    <3>1. Last(src) \in Names BY <2>1, <2>4, LastIn
    <3>2. Append(dst, Last(src)) \in Seq(Names) BY <2>1, <3>1, AppendProperties
    <3>3. Append(dst, Last(src)) \in Seq(Components)
      <4>1. Names \subseteq Components BY DEF Components
      <4>2. QED BY <3>2, <4>1, SeqMonotonic
    <3>4. a \in Locals
      <4> HIDE DEF dst, src
      <4>1. QED BY <1>1, <3>3 DEF Walk, Locals
    <3>5. <<"samename", "move">> \in Seq(Left(a, father[s])) BY DEF Left, Ops
    <3> HIDE DEF a
    <3>6. QED BY <2>4, <3>4, <3>5, GoOnTyped
  <2>5. CASE src # <<>> /\ dst # <<>> /\ GoOn(s, <<"rename">>, b)
    <3>1. Front(dst) \in Seq(Names) BY <2>1, <2>5, LastIn
    <3>2. Front(dst) \in Seq(Components)
      <4>1. Names \subseteq Components BY DEF Components
      <4>2. QED BY <3>1, <4>1, SeqMonotonic
    <3>3. b \in Locals /\ b.dst = r.dst
      <4> DEFINE p == Front(dst)
      <4>1. b = Walk(r, p) /\ p \in Seq(Components) BY <3>2
      <4> HIDE DEF p, b
      <4>2. QED BY <1>1, <4>1 DEF Walk, Locals
    <3>4. "rename" \in Left(b, father[s]) BY <2>5, <3>3 DEF Left, Ops
    <3>5. <<"rename">> \in Seq(Left(b, father[s])) BY <3>4
    <3> HIDE DEF b
    <3>6. QED BY <2>5, <3>3, <3>5, GoOnTyped
  <2>6. QED BY <2>2, <2>3, <2>4, <2>5
<1>4. CASE MvSameName(s)
  <2>1. Finish(s, "fail") \/ Then(s, reg[s]) BY <1>4 DEF MvSameName
  <2>2. todo[s] # <<>> BY <1>4 DEF MvSameName, At
  <2>3. QED BY <1>1, <2>1, <2>2, FinishTyped, ThenTyped
<1>5. QED BY <1>2, <1>3, <1>4

LEMMA RmTyped ==
    ASSUME TInv, Ids \subseteq Ids', NEW s \in Sessions, UNCHANGED father,
           RmFound(s) \/ RmType(s) \/ RmDelete(s) \/ RmList(s)
    PROVE  SessionsTyped'
<1> USE DEF TInv
<1>1. reg[s] \in Locals BY DEF SessionsTyped
<1>2. todo[s] # <<>> BY DEF RmFound, RmType, RmDelete, RmList, At
<1>3. CASE RmFound(s)
  <2> DEFINE q == [reg[s] EXCEPT !.id = reg[s].cur, !.work = <<{reg[s].cur}>>]
  <2>1. <<{reg[s].cur}>> \in Seq(SUBSET Ids)
    <3>1. {reg[s].cur} \in SUBSET Ids BY <1>1 DEF Locals
    <3>2. QED BY <3>1
  <2>2. q \in Locals /\ q.src = reg[s].src /\ q.dst = reg[s].dst BY <1>1, <2>1 DEF Locals
  <2>3. Finish(s, "fail") \/ Then(s, q) BY <1>3 DEF RmFound
  <2> HIDE DEF q
  <2>4. QED BY <1>2, <2>2, <2>3, FinishTyped, ThenTyped
<1>4. CASE RmType(s)
  <2>1. CASE Finish(s, "ok") BY <2>1, FinishTyped
  <2>2. CASE ~Finish(s, "ok")
    <3>1. PICK i \in Head(reg[s].work) :
             LET work == reg[s].work
                 rest == IF Head(work) = {i} THEN Tail(work)
                         ELSE <<Head(work) \ {i}>> \o Tail(work)
                 steps == CASE TypeOf(i) = "d"    -> <<"delete", "list", "remove">>
                            [] TypeOf(i) = "f"    -> <<"delete", "remove">>
                            [] TypeOf(i) = "none" -> <<"remove">>
             IN  /\ work # <<>>
                 /\ GoOn(s, steps, [reg[s] EXCEPT !.dir = i, !.work = rest])
      BY <1>4, <2>2 DEF RmType
    <3> DEFINE work == reg[s].work
               more == Head(work) \ {i}
               rest == IF Head(work) = {i} THEN Tail(work) ELSE <<more>> \o Tail(work)
               q == [reg[s] EXCEPT !.dir = i, !.work = rest]
    <3>2. work \in Seq(SUBSET Ids) /\ work # <<>> BY <1>1, <3>1 DEF Locals
    <3>3. Head(work) \in SUBSET Ids /\ Tail(work) \in Seq(SUBSET Ids)
      BY <3>2, HeadTailProperties
    <3>4. <<more>> \in Seq(SUBSET Ids) /\ i \in Ids BY <3>3
    <3>5. rest \in Seq(SUBSET Ids)
      <4> HIDE DEF more
      <4>1. <<more>> \o Tail(work) \in Seq(SUBSET Ids) BY <3>3, <3>4, ConcatProperties
      <4>2. QED BY <3>3, <4>1
    <3>6. q \in Locals
      <4> HIDE DEF rest
      <4>1. QED BY <1>1, <3>4, <3>5 DEF Locals
    <3>7. \E steps \in {<<"delete", "list", "remove">>, <<"delete", "remove">>, <<"remove">>} :
             GoOn(s, steps, q)
      <4>1. TypeOf(i) \in {"d", "f", "none"} BY DEF TypeOf, RowsTyped, Entries
      <4>2. QED BY <3>1, <4>1
    <3>8. PICK steps \in {<<"delete", "list", "remove">>, <<"delete", "remove">>, <<"remove">>} :
             GoOn(s, steps, q)
      BY <3>7
    <3>9. {"delete", "list", "remove"} \subseteq Left(q, father[s]) BY DEF Left, Ops
    <3>10. steps \in Seq(Left(q, father[s]))
      <4> DEFINE L == Left(q, father[s])
      <4>1. "delete" \in L /\ "list" \in L /\ "remove" \in L BY <3>9
      <4> HIDE DEF L
      <4>2. /\ <<"delete", "list", "remove">> \in Seq(L) /\ <<"delete", "remove">> \in Seq(L)
            /\ <<"remove">> \in Seq(L)
        BY <4>1
      <4>3. steps \in Seq(L) BY <4>2
      <4>4. QED BY <4>3 DEF L
    <3> HIDE DEF q
    <3>11. QED BY <3>6, <3>8, <3>10, GoOnTyped
  <2>3. QED BY <2>1, <2>2
<1>5. CASE RmDelete(s)
  <2>1. Then(s, reg[s]) BY <1>5 DEF RmDelete
  <2>2. QED BY <1>1, <1>2, <2>1, ThenTyped
<1>6. CASE RmList(s)
  <2> DEFINE children == {i \in DOMAIN rows : /\ rows[i].father = reg[s].dir
                                              /\ rows[i].user = UserOf(s)}
             first == IF children = {} THEN <<>> ELSE <<children>>
             q == [reg[s] EXCEPT !.work = first \o @]
  <2>1. children \in SUBSET Ids BY DEF RowsTyped, Ids
  <2>2. first \in Seq(SUBSET Ids)
    <3> HIDE DEF children
    <3>1. <<children>> \in Seq(SUBSET Ids) BY <2>1
    <3>2. QED BY <3>1, EmptySeq
  <2>3. first \o reg[s].work \in Seq(SUBSET Ids)
    <3> HIDE DEF first
    <3>1. QED BY <1>1, <2>2, ConcatProperties DEF Locals
  <2>4. q \in Locals /\ q.src = reg[s].src /\ q.dst = reg[s].dst
    <3> HIDE DEF first
    <3>1. QED BY <1>1, <2>3 DEF Locals
  <2>5. Then(s, q) BY <1>6 DEF RmList
  <2> HIDE DEF q
  <2>6. QED BY <1>2, <2>4, <2>5, ThenTyped
<1>7. QED BY <1>3, <1>4, <1>5, <1>6

LEMMA CdTyped ==
    ASSUME TInv, Ids \subseteq Ids', NEW s \in Sessions, UNCHANGED father,
           CdIsDir(s) \/ CdSamePwd(s) \/ CdSetPwd(s) \/ GetPwd(s)
    PROVE  SessionsTyped'
<1> USE DEF TInv
<1>1. reg[s] \in Locals BY DEF SessionsTyped
<1>2. todo[s] # <<>> BY DEF CdIsDir, CdSamePwd, CdSetPwd, GetPwd, At
<1>3. CASE CdIsDir(s) \/ CdSetPwd(s)
  <2>1. Finish(s, "fail") \/ Then(s, reg[s]) BY <1>3 DEF CdIsDir, CdSetPwd
  <2>2. QED BY <1>1, <1>2, <2>1, FinishTyped, ThenTyped
<1>4. CASE CdSamePwd(s)
  <2>1. GoOn(s, <<"getpwd", "cache">>, reg[s]) \/ Then(s, reg[s]) BY <1>4 DEF CdSamePwd, Then
  <2>2. <<"getpwd", "cache">> \in Seq(Left(reg[s], father[s])) BY DEF Left, Ops
  <2>3. QED BY <1>1, <1>2, <2>1, <2>2, GoOnTyped, ThenTyped
<1>5. CASE GetPwd(s)
  <2> DEFINE q == Walk(reg[s], pwd[UserOf(s)])
  <2>1. pwd[UserOf(s)] \in Seq(Components)
    <3>1. Names \subseteq Components BY DEF Components
    <3>2. pwd[UserOf(s)] \in Seq(Names) BY CommandsAssumption DEF SharedTyped
    <3>3. QED BY <3>1, <3>2, SeqMonotonic
  <2>2. q \in Locals /\ q.src = reg[s].src /\ q.dst = reg[s].dst
    BY <1>1, <2>1, NothingTyped DEF Walk, Locals
  <2>3. Then(s, q) BY <1>5 DEF GetPwd
  <2> HIDE DEF q
  <2>4. QED BY <1>2, <2>2, <2>3, ThenTyped
<1>6. QED BY <1>3, <1>4, <1>5

LEMMA WalkTyped ==
    ASSUME TInv, Ids \subseteq Ids', NEW s \in Sessions, GetNextFileId(s)
    PROVE  SessionsTyped'
<1> USE DEF TInv
<1>1. reg[s] \in Locals /\ reg[s].path \in Seq(Components) /\ reg[s].path # <<>>
  BY DEF SessionsTyped, Locals, GetNextFileId
<1>2. PICK i \in NextFileId(UserOf(s), reg[s].cur, Head(reg[s].path)) :
         GoOn(s, todo[s], [reg[s] EXCEPT !.cur = i, !.path = Tail(@)])
  BY DEF GetNextFileId
<1> DEFINE q == [reg[s] EXCEPT !.cur = i, !.path = Tail(@)]
<1>3. i \in Ids BY <1>1, <1>2, NextTyped DEF Locals
<1>4. Tail(reg[s].path) \in Seq(Components) BY <1>1, HeadTailProperties
<1>5. q \in Locals /\ q.src = reg[s].src /\ q.dst = reg[s].dst BY <1>1, <1>3, <1>4 DEF Locals
<1>6. GoOn(s, todo[s], q) /\ UNCHANGED father BY <1>2 DEF GetNextFileId
<1> HIDE DEF q
<1>7. todo[s] \in Seq(Left(q, father[s])) BY <1>5, LeftSame DEF SessionsTyped
<1>8. QED BY <1>5, <1>6, <1>7, GoOnTyped

LEMMA SessionsTypedKept ==
    ASSUME Named, TInv, NEW s \in Sessions, Step(s)
    PROVE  SessionsTyped'
<1>1. RowsTyped /\ SharedTyped /\ SessionsTyped BY DEF TInv
<1>2. Ids \subseteq Ids' /\ (InsertDir(s) \/ Store(s) => nextId \in Ids') BY RowsTypedKept
<1>3. reg[s] \in Locals BY <1>1 DEF SessionsTyped
<1>4. CASE Login(s)
  <2> DEFINE q == [NoReg EXCEPT !.cmd = "login"]
  <2>1. q \in Locals BY <1>1, NothingTyped DEF Locals, Cmds
  <2>2. <<"getpwd", "enter">> \in Seq(Left(q, father[s])) BY DEF Left, Ops
  <2>3. Begin(s, q, <<"getpwd", "enter">>) /\ UNCHANGED father BY <1>4 DEF Login
  <2> HIDE DEF q
  <2>4. QED BY <1>1, <1>2, <2>1, <2>2, <2>3, BeginTyped
<1>5. CASE Leave(s)
  <2>1. /\ todo' = [todo EXCEPT ![s] = <<>>] /\ reg' = [reg EXCEPT ![s] = reg[s]]
        /\ reply' = [reply EXCEPT ![s] = NoReply]
        /\ \A t \in Sessions \ {s} : father'[t] = father[t]
    BY <1>1, <1>5 DEF Leave, Idle, SessionsTyped, SharedTyped
  <2>2. <<>> \in Seq(Left(reg[s], father'[s])) BY EmptySeq
  <2>3. NoReply \in Replies' BY <1>1, <1>2, NothingTyped, LocalsKept
  <2>4. QED BY <1>1, <1>2, <1>3, <2>1, <2>2, <2>3, SessionTyped
<1>6. CASE CmdAnalyse(s)
  <2>1. PICK c \in Commands(s) : Command(s, c) BY <1>6 DEF CmdAnalyse
  <2>2. father[s] # Null /\ UNCHANGED father BY <1>6 DEF CmdAnalyse
  <2>3. QED BY <1>1, <1>2, <2>1, <2>2, CommandTyped
<1>7. CASE GetNextFileId(s) BY <1>2, <1>7, WalkTyped
<1>8. CASE CheckNames(s) \/ Present(s)
  <2>1. /\ Finish(s, "fail") \/ Finish(s, "existing") \/ Then(s, reg[s])
        /\ todo[s] # <<>> /\ UNCHANGED father
    BY <1>8 DEF CheckNames, Present, At
  <2>2. QED BY <1>1, <1>2, <1>3, <2>1, FinishTyped, ThenTyped
<1>9. CASE InsertDir(s) \/ Store(s)
  <2>1. Answer(s, nextId, "ok") /\ UNCHANGED father BY <1>9 DEF InsertDir, Store
  <2>2. nextId \in Ids' BY <1>2, <1>9
  <2>3. QED BY <1>1, <1>2, <2>1, <2>2, AnswerTyped
<1>10. CASE RmFound(s) \/ RmType(s) \/ RmDelete(s) \/ RmList(s)
  <2>1. UNCHANGED father BY <1>10 DEF RmFound, RmType, RmDelete, RmList
  <2>2. QED BY <1>2, <1>10, <2>1, RmTyped
<1>11. CASE MvSource(s) \/ MvTarget(s) \/ MvSameName(s)
  <2>1. UNCHANGED father BY <1>11 DEF MvSource, MvTarget, MvSameName
  <2>2. QED BY <1>2, <1>11, <2>1, MvTyped
<1>12. CASE MvMove(s) \/ MvRename(s)
  <2>1. (Finish(s, "ok") \/ Finish(s, "fail")) /\ UNCHANGED father
    BY <1>12 DEF MvMove, MvRename, Update
  <2>2. QED BY <1>1, <1>2, <2>1, FinishTyped
<1>13. CASE CdIsDir(s) \/ CdSamePwd(s) \/ CdSetPwd(s) \/ GetPwd(s)
  <2>1. UNCHANGED father BY <1>13 DEF CdIsDir, CdSamePwd, CdSetPwd, GetPwd
  <2>2. QED BY <1>2, <1>13, <2>1, CdTyped
<1>14. CASE Cache(s) \/ Enter(s)
  <2>1. Finish(s, "ok") \/ Finish(s, "fail") BY <1>14 DEF Cache, Enter
  <2>2. \A t \in Sessions \ {s} : father'[t] = father[t]
    BY <1>1, <1>14 DEF Cache, Enter, SharedTyped
  <2>3. QED BY <1>1, <1>2, <2>1, <2>2, FinishTyped
<1>15. QED
  BY <1>4, <1>5, <1>6, <1>7, <1>8, <1>9, <1>10, <1>11, <1>12, <1>13, <1>14 DEF Step

LEMMA InitTyped ==
    ASSUME Init
    PROVE  TInv
<1>1. Len(InitRows) \in Nat /\ DOMAIN InitRows = 1..Len(InitRows)
  BY RowsAssumption, LenProperties
<1>2. RowsTyped
  <2>1. \A i \in DOMAIN InitRows :
           /\ InitRows[i] \in [father : Nat, name : Names, type : {"d", "f"}, user : Users]
           /\ InitRows[i].father \in 0..Len(InitRows)
    <3>1. \A i \in 1..Len(InitRows) :
             InitRows[i] \in [father : Nat, name : Names, type : {"d", "f"}, user : Users]
      BY <1>1, RowsAssumption, ElementOfSeq
    <3>2. \A i \in DOMAIN InitRows :
             InitRows[i].father = 0 \/ InitRows[i].father \in DOMAIN InitRows
      BY RowsAssumption
    <3>3. QED BY <1>1, <3>1, <3>2
  <2>2. \A i \in DOMAIN rows : rows[i] \in Entries BY <1>1, <2>1 DEF Init, Entries, Ids
  <2>3. QED BY <1>1, <2>2 DEF Init, RowsTyped
<1>3. SharedTyped
  <2>1. \A u \in Users : <<Home(u)>> \in Seq(Names) BY NamesAssumption
  <2>2. QED BY <2>1 DEF Init, SharedTyped
<1>4. SessionsTyped
  <2>1. NoReg \in Locals /\ NoReply \in Replies BY <1>2, NothingTyped
  <2>2. \A s \in Sessions : <<>> \in Seq(Left(reg[s], father[s])) BY EmptySeq
  <2>3. QED BY <2>1, <2>2 DEF Init, SessionsTyped
<1>5. LostTyped BY DEF Init, LostTyped
<1>6. QED BY <1>2, <1>3, <1>4, <1>5 DEF TInv

\* What mkdir and upload are asked to make has a name, as the commands of the client
\* have it: then every variable keeps its type.  In particular no row, session, answer
\* or list of rm ever holds an id that no row had, and the path cd stores in user.pwd,
\* from which all relative paths start, is free of "." and "..".
THEOREM TypeCorrect ==
    ASSUME Named
    PROVE  Spec => []TypeOK
<1>1. Init => TInv BY InitTyped
<1>2. TInv /\ [Next]_vars => TInv'
  <2>1. SUFFICES ASSUME TInv, [Next]_vars PROVE TInv' OBVIOUS
  <2>2. CASE Next
    <3>1. PICK s \in Sessions : Step(s) BY <2>2 DEF Next
    <3>2. RowsTyped' /\ Ids \subseteq Ids' BY <2>1, <3>1, RowsTypedKept
    <3>3. SharedTyped' BY <2>1, <3>1, <3>2, SharedTypedKept
    <3>4. SessionsTyped' BY <2>1, <3>1, SessionsTypedKept
    <3>5. LostTyped' BY <2>1, <3>1, <3>2, LostTypedKept
    <3>6. QED BY <3>2, <3>3, <3>4, <3>5 DEF TInv
  <2>3. CASE UNCHANGED vars
    <3>1. UNCHANGED <<rows, nextId, pwd, father, todo, reg, reply, lost>>
      BY <2>3 DEF vars, session, counters
    <3>2. Ids' = Ids BY <3>1 DEF Ids
    <3>3. RowsTyped' BY <2>1, <3>1, <3>2 DEF TInv, RowsTyped, Entries
    <3>4. SharedTyped' BY <2>1, <3>1, <3>2 DEF TInv, SharedTyped
    <3>5. \A s \in Sessions : Left(reg[s], father[s])' = Left(reg[s], father[s])
      BY <3>1 DEF Left, Normal
    <3>6. SessionsTyped'
      BY <2>1, <3>1, <3>2, <3>5 DEF TInv, SessionsTyped, Locals, Replies, Components
    <3>7. LostTyped' BY <2>1, <3>1, <3>2 DEF TInv, LostTyped
    <3>8. QED BY <3>3, <3>4, <3>6, <3>7 DEF TInv
  <2>4. QED BY <2>1, <2>2, <2>3
<1>3. TInv => TypeOK BY TypesFollow
<1>4. QED BY <1>1, <1>2, <1>3, PTL DEF Spec

-----------------------------------------------------------------------------
(***************************************************************************)
(* What a path resolves to.                                                *)
(***************************************************************************)
\* Induction over sequences, for a set of them.
LEMMA SeqUpTo ==
    ASSUME NEW S, NEW A, <<>> \in A, \A q \in Seq(S) : \A c \in S : q \in A => Append(q, c) \in A
    PROVE  Seq(S) \subseteq A
<1>1. SUFFICES ASSUME NEW p \in Seq(S) PROVE p \in A OBVIOUS
<1> DEFINE N == Len(p)
           cut(n) == SubSeq(p, 1, n)
           B == {n \in 0..N : cut(n) \in A}
<1>2. N \in Nat BY LenProperties
<1>3. cut(0) = <<>> /\ cut(N) = p BY <1>2, ElementOfSeq
<1>4. 0 \in B
  <2> HIDE DEF cut, N
  <2>1. QED BY <1>2, <1>3
<1>5. ASSUME NEW n \in 1..N, n - 1 \in B
      PROVE  n \in B
  <2>1. \A i \in 1..N : p[i] \in S BY ElementOfSeq
  <2>2. cut(n - 1) \in Seq(S) /\ Len(cut(n - 1)) = n - 1 BY <1>2, <2>1, SubSeqProperties
  <2>3. cut(n) = Append(cut(n - 1), p[n]) BY <1>2
  <2>4. cut(n - 1) \in A BY <1>5
  <2>5. p[n] \in S BY <2>1
  <2> HIDE DEF cut
  <2>6. cut(n) \in A BY <2>2, <2>3, <2>4, <2>5
  <2>7. QED BY <1>2, <2>6
<1>6. N \in B
  <2> HIDE DEF B, N
  <2>1. \A n \in 1..N : n - 1 \in B => n \in B BY <1>5
  <2>2. \A n \in 0..N : n \in B BY <1>2, <1>4, <2>1, UpTo
  <2>3. QED BY <1>2, <2>2
<1>7. QED BY <1>3, <1>6

\* The ids component c leads to from the ids X.
Onward(u, X, c) == UNION {NextFileId(u, i, c) : i \in X}

\* f has the ids after each component of p.
Resolves(u, p, f) == f = [n \in 0..Len(p) |-> IF n = 0 THEN {0} ELSE Onward(u, f[n - 1], p[n])]

LEMMA ResolvesMore ==
    ASSUME NEW S, NEW p \in Seq(S), NEW c \in S, NEW u, NEW f, Resolves(u, p, f)
    PROVE  \E g : Resolves(u, Append(p, c), g) /\ g[Len(p) + 1] = Onward(u, f[Len(p)], c)
<1> DEFINE N == Len(p)
           q == Append(p, c)
           last == Onward(u, f[N], c)
           g == [n \in 0..(N + 1) |-> IF n = N + 1 THEN last ELSE f[n]]
<1>1. N \in Nat BY LenProperties
<1>2. Len(q) = N + 1 /\ q[N + 1] = c /\ \A n \in 1..N : q[n] = p[n] BY AppendProperties
<1>3. \A n \in 0..N : f[n] = IF n = 0 THEN {0} ELSE Onward(u, f[n - 1], p[n])
  BY DEF Resolves
<1> HIDE DEF last
<1>4. g[N + 1] = last /\ \A n \in 0..N : g[n] = f[n] BY <1>1
<1> HIDE DEF q
<1>5. ASSUME NEW n \in 0..(N + 1)
      PROVE  g[n] = IF n = 0 THEN {0} ELSE Onward(u, g[n - 1], q[n])
  <2>1. CASE n = N + 1
    <3>1. n # 0 /\ n - 1 = N BY <1>1, <2>1
    <3>2. g[n - 1] = f[N] BY <1>1, <1>4, <3>1
    <3>3. g[n] = Onward(u, g[n - 1], q[n]) BY <1>2, <1>4, <2>1, <3>2 DEF last
    <3>4. QED BY <3>1, <3>3
  <2>2. CASE n = 0 BY <1>1, <1>3, <1>4, <2>2
  <2>3. CASE n # 0 /\ n # N + 1
    <3>1. n \in 0..N /\ n - 1 \in 0..N /\ n \in 1..N BY <1>1, <2>3
    <3>2. g[n] = f[n] /\ g[n - 1] = f[n - 1] /\ q[n] = p[n] BY <1>2, <1>4, <3>1
    <3>3. f[n] = Onward(u, f[n - 1], p[n]) BY <1>3, <2>3, <3>1
    <3>4. QED BY <2>3, <3>2, <3>3
  <2>4. QED BY <2>1, <2>2, <2>3
<1>6. Resolves(u, q, g)
  <2>1. g = [n \in 0..(N + 1) |-> g[n]] OBVIOUS
  <2> HIDE DEF g
  <2>2. g = [n \in 0..(N + 1) |-> IF n = 0 THEN {0} ELSE Onward(u, g[n - 1], q[n])]
    BY <1>5, <2>1
  <2>3. QED BY <1>2, <2>2 DEF Resolves
<1> HIDE DEF g
<1>7. QED BY <1>4, <1>6 DEF q, last

LEMMA ResolvesExists ==
    ASSUME NEW S, NEW p \in Seq(S), NEW u
    PROVE  \E f : Resolves(u, p, f)
<1> DEFINE A == {q \in Seq(S) : \E f : Resolves(u, q, f)}
<1>1. <<>> \in A
  <2>1. Resolves(u, <<>>, [n \in 0..0 |-> {0}]) BY DEF Resolves
  <2>2. QED BY <2>1, EmptySeq
<1>2. ASSUME NEW q \in Seq(S), NEW c \in S, q \in A
      PROVE  Append(q, c) \in A
  <2>1. PICK f : Resolves(u, q, f) BY <1>2
  <2>2. \E g : Resolves(u, Append(q, c), g) BY <2>1, ResolvesMore
  <2>3. QED BY <2>2, AppendProperties
<1> HIDE DEF A
<1>3. Seq(S) \subseteq A BY <1>1, <1>2, SeqUpTo
<1>4. QED BY <1>3 DEF A

\* There is one such function.
LEMMA ResolvesOnce ==
    ASSUME NEW S, NEW p \in Seq(S), NEW u, NEW f, NEW g, Resolves(u, p, f), Resolves(u, p, g)
    PROVE  f[Len(p)] = g[Len(p)]
<1> DEFINE N == Len(p)
           A == {n \in 0..N : f[n] = g[n]}
<1>1. N \in Nat BY LenProperties
<1>2. \A n \in 0..N : /\ f[n] = IF n = 0 THEN {0} ELSE Onward(u, f[n - 1], p[n])
                      /\ g[n] = IF n = 0 THEN {0} ELSE Onward(u, g[n - 1], p[n])
  BY DEF Resolves
<1>3. 0 \in A BY <1>1, <1>2
<1>4. ASSUME NEW n \in 1..N, n - 1 \in A
      PROVE  n \in A
  <2>1. f[n - 1] = g[n - 1] BY <1>4
  <2>2. n \in 0..N /\ n # 0 BY <1>1
  <2>3. f[n] = Onward(u, f[n - 1], p[n]) /\ g[n] = Onward(u, g[n - 1], p[n]) BY <1>2, <2>2
  <2>4. QED BY <2>1, <2>2, <2>3
<1>5. N \in A
  <2> HIDE DEF A, N
  <2>1. \A n \in 1..N : n - 1 \in A => n \in A BY <1>4
  <2>2. \A n \in 0..N : n \in A BY <1>1, <1>3, <2>1, UpTo
  <2>3. QED BY <1>1, <2>2
<1>6. QED BY <1>5

LEMMA ResolvesTo ==
    ASSUME NEW S, NEW p \in Seq(S), NEW u, NEW f, Resolves(u, p, f)
    PROVE  FileId(u, p) = f[Len(p)]
<1> DEFINE g == CHOOSE h : Resolves(u, p, h)
<1>1. Resolves(u, p, g) BY ResolvesExists
<1>2. FileId(u, p) = g[Len(p)]
  BY DEF FileId, Resolves, Onward
<1> HIDE DEF g
<1>3. QED BY <1>1, <1>2, ResolvesOnce

\* The path of the root, and a path with one more component.
LEMMA FileIdRoot ==
    ASSUME NEW u
    PROVE  FileId(u, <<>>) = {0}
<1>1. <<>> \in Seq({}) BY EmptySeq
<1>2. Resolves(u, <<>>, [n \in 0..0 |-> {0}]) BY DEF Resolves
<1>3. FileId(u, <<>>) = [n \in 0..0 |-> {0}][Len(<<>>)] BY <1>1, <1>2, ResolvesTo
<1>4. Len(<<>>) = 0 OBVIOUS
<1>5. QED BY <1>3, <1>4

LEMMA FileIdMore ==
    ASSUME NEW S, NEW p \in Seq(S), NEW c \in S, NEW u
    PROVE  FileId(u, Append(p, c)) = Onward(u, FileId(u, p), c)
<1>1. PICK f : Resolves(u, p, f) BY ResolvesExists
<1>2. PICK g : Resolves(u, Append(p, c), g) /\ g[Len(p) + 1] = Onward(u, f[Len(p)], c)
  BY <1>1, ResolvesMore
<1>3. FileId(u, p) = f[Len(p)] BY <1>1, ResolvesTo
<1>4. Append(p, c) \in Seq(S) /\ Len(Append(p, c)) = Len(p) + 1 BY AppendProperties
<1>5. FileId(u, Append(p, c)) = g[Len(p) + 1] BY <1>2, <1>4, ResolvesTo
<1>6. QED BY <1>2, <1>3, <1>5

LEMMA NormalRoot == Normal(<<>>) = <<>>
<1> DEFINE f == CHOOSE g : g = [n \in 0..0 |-> IF n = 0 THEN <<>> ELSE After(g[n - 1], <<>>[n])]
<1>1. Normal(<<>>) = f[0] BY DEF Normal, After
<1>2. \E g : g = [n \in 0..0 |-> IF n = 0 THEN <<>> ELSE After(g[n - 1], <<>>[n])]
  <2>1. [n \in 0..0 |-> <<>>]
           = [n \in 0..0 |-> IF n = 0 THEN <<>> ELSE After([k \in 0..0 |-> <<>>][n - 1], <<>>[n])]
    OBVIOUS
  <2>2. QED BY <2>1
<1>3. f = [n \in 0..0 |-> IF n = 0 THEN <<>> ELSE After(f[n - 1], <<>>[n])] BY <1>2
<1> HIDE DEF f
<1>4. QED BY <1>1, <1>3

LEMMA NormalMore ==
    ASSUME NEW p \in Seq(Components), NEW c \in Components
    PROVE  Normal(Append(p, c)) = After(Normal(p), c)
<1> DEFINE N == Len(p)
           q == Append(p, c)
           f == CHOOSE h : h = [n \in 0..Len(p) |-> IF n = 0 THEN <<>> ELSE After(h[n - 1], p[n])]
           g == CHOOSE h : h = [n \in 0..Len(q) |-> IF n = 0 THEN <<>> ELSE After(h[n - 1], q[n])]
           A == {n \in 0..N : f[n] = g[n]}
<1>1. q \in Seq(Components) /\ Len(q) = N + 1 /\ q[N + 1] = c /\ \A n \in 1..N : q[n] = p[n]
  BY AppendProperties
<1>2. N \in Nat BY LenProperties
<1>3. Normal(p) = f[N] /\ Normal(q) = g[Len(q)]
  <2>1. Normal(p) = f[N] BY DEF Normal, After
  <2> HIDE DEF q
  <2>2. Normal(q) = g[Len(q)] BY DEF Normal, After
  <2>3. QED BY <2>1, <2>2
<1>4. f = [n \in 0..N |-> IF n = 0 THEN <<>> ELSE After(f[n - 1], p[n])] BY NormExists
<1>5. g = [n \in 0..Len(q) |-> IF n = 0 THEN <<>> ELSE After(g[n - 1], q[n])]
  <2> HIDE DEF q
  <2>1. QED BY <1>1, NormExists
<1> HIDE DEF f, g, q
<1>6. 0 \in A BY <1>1, <1>2, <1>4, <1>5
<1>7. ASSUME NEW n \in 1..N, n - 1 \in A
      PROVE  n \in A
  <2>1. f[n - 1] = g[n - 1] /\ q[n] = p[n] BY <1>1, <1>7
  <2>2. n \in 0..N /\ n \in 0..Len(q) /\ n # 0 BY <1>1, <1>2
  <2>3. f[n] = After(f[n - 1], p[n]) BY <1>4, <2>2
  <2>4. g[n] = After(g[n - 1], q[n]) BY <1>5, <2>2
  <2>5. QED BY <2>1, <2>2, <2>3, <2>4
<1>8. N \in A
  <2> HIDE DEF A, N
  <2>1. \A n \in 1..N : n - 1 \in A => n \in A BY <1>7
  <2>2. \A n \in 0..N : n \in A BY <1>2, <1>6, <2>1, UpTo
  <2>3. QED BY <1>2, <2>2
<1>9. g[N + 1] = After(g[N], c)
  <2>1. N + 1 \in 0..Len(q) /\ N + 1 # 0 /\ (N + 1) - 1 = N BY <1>1, <1>2
  <2>2. g[N + 1] = After(g[(N + 1) - 1], q[N + 1]) BY <1>5, <2>1
  <2>3. QED BY <1>1, <2>1, <2>2
<1>10. QED BY <1>1, <1>3, <1>8, <1>9 DEF q

\* Normal brings no name in.
LEMMA NormalIn ==
    ASSUME NEW S, S \subseteq Names, NEW p \in Seq(S \cup {".", ".."})
    PROVE  Normal(p) \in Seq(S)
<1> DEFINE T == S \cup {".", ".."}
           A == {q \in Seq(T) : Normal(q) \in Seq(S)}
<1>1. <<>> \in A BY NormalRoot, EmptySeq
<1>2. ASSUME NEW q \in Seq(T), NEW c \in T, q \in A
      PROVE  Append(q, c) \in A
  <2>1. q \in Seq(Components) /\ c \in Components
    <3>1. T \subseteq Components BY DEF Components
    <3> HIDE DEF T
    <3>2. QED BY <3>1, SeqMonotonic
  <2>2. Normal(Append(q, c)) = After(Normal(q), c) BY <2>1, NormalMore
  <2>3. Append(q, c) \in Seq(T) BY AppendProperties
  <2> DEFINE m == Normal(q)
  <2>4. m \in Seq(S) BY <1>2
  <2> HIDE DEF m
  <2>5. After(m, c) \in Seq(S)
    <3>1. CASE c = "." BY <2>4, <3>1 DEF After
    <3>2. CASE c = ".."
      <4>1. m # <<>> => Front(m) \in Seq(S) BY <2>4, LastIn
      <4>2. QED BY <2>4, <3>2, <4>1 DEF After
    <3>3. CASE c # "." /\ c # ".." BY <2>4, <3>3, AppendProperties DEF After
    <3>4. QED BY <3>1, <3>2, <3>3
  <2>6. QED BY <2>2, <2>3, <2>5 DEF m
<1> HIDE DEF A
<1>3. Seq(T) \subseteq A
  <2> HIDE DEF T
  <2>1. QED BY <1>1, <1>2, SeqUpTo
<1>4. QED BY <1>3 DEF A

\* The components that lead downwards.
Downward == Names \cup {"."}

LEMMA DownwardIs ==
    /\ Downward \subseteq Components /\ Names \subseteq Downward
    /\ \A c \in Downward : c # ".." /\ (c = "." \/ c \in Names)
    /\ \A n \in Names : n # "." /\ n # ".."
BY NamesAssumption DEF Downward, Components

LEMMA OnwardOne ==
    ASSUME NEW u, NEW X
    PROVE  /\ Onward(u, X, ".") = X
           /\ \A i, c : Onward(u, {i}, c) = NextFileId(u, i, c)
BY DEF Onward, NextFileId

\* Without ".." the path that is compared as text is the one the tree has.
LEMMA FileIdNormal ==
    ASSUME NEW p \in Seq(Downward), NEW u
    PROVE  FileId(u, Normal(p)) = FileId(u, p)
<1> DEFINE A == {q \in Seq(Downward) : /\ Normal(q) \in Seq(Names)
                                       /\ FileId(u, Normal(q)) = FileId(u, q)}
<1>1. <<>> \in A BY NormalRoot, EmptySeq
<1>2. ASSUME NEW q \in Seq(Downward), NEW c \in Downward, q \in A
      PROVE  Append(q, c) \in A
  <2>1. q \in Seq(Components) /\ c \in Components BY DownwardIs, SeqMonotonic
  <2>2. Normal(Append(q, c)) = After(Normal(q), c) BY <2>1, NormalMore
  <2>3. FileId(u, Append(q, c)) = Onward(u, FileId(u, q), c) BY FileIdMore
  <2>4. Append(q, c) \in Seq(Downward) BY AppendProperties
  <2>5. CASE c = "."
    <3>1. Normal(Append(q, c)) = Normal(q) BY <2>2, <2>5 DEF After
    <3>2. FileId(u, Append(q, c)) = FileId(u, q) BY <2>3, <2>5, OnwardOne
    <3>3. QED BY <1>2, <2>4, <3>1, <3>2
  <2>6. CASE c \in Names
    <3>1. Normal(Append(q, c)) = Append(Normal(q), c) BY <2>2, <2>6, DownwardIs DEF After
    <3>2. Normal(q) \in Seq(Names) BY <1>2
    <3>3. Append(Normal(q), c) \in Seq(Names) BY <2>6, <3>2, AppendProperties
    <3>4. FileId(u, Append(Normal(q), c)) = Onward(u, FileId(u, Normal(q)), c)
      BY <2>6, <3>2, FileIdMore
    <3>5. QED BY <1>2, <2>3, <2>4, <3>1, <3>3, <3>4
  <2>7. QED BY <2>5, <2>6, DownwardIs
<1> HIDE DEF A
<1>3. Seq(Downward) \subseteq A BY <1>1, <1>2, SeqUpTo
<1>4. QED BY <1>3 DEF A

Mine(u) == {k \in DOMAIN rows : rows[k].user = u}

\* Below f user u has no entry with the name n.
Free(u, f, n) == \A i \in Mine(u) : ~(rows[i].father = f /\ rows[i].name = n)

\* A name leads to the entries that have it, or nowhere if there are none.
LEMMA LedTo ==
    ASSUME RowsClean, NEW p \in Seq(Downward), NEW n \in Names, NEW u,
           NEW k \in FileId(u, Append(p, n))
    PROVE  \/ k \in Mine(u) /\ rows[k].name = n /\ rows[k].father \in FileId(u, p)
           \/ k = -1 /\ \E f \in FileId(u, p) : Free(u, f, n)
<1>1. FileId(u, Append(p, n)) = Onward(u, FileId(u, p), n) BY DownwardIs, FileIdMore
<1>2. PICK f \in FileId(u, p) : k \in NextFileId(u, f, n) BY <1>1 DEF Onward
<1> DEFINE found == {i \in DOMAIN rows : rows[i].father = f /\ rows[i].name = n /\ rows[i].user = u}
<1>3. NextFileId(u, f, n) = IF found = {} THEN {-1} ELSE found BY DownwardIs DEF NextFileId
<1>4. CASE found = {} BY <1>2, <1>3, <1>4 DEF Free, Mine
<1>5. CASE found # {} BY <1>2, <1>3, <1>5 DEF Mine
<1>6. QED BY <1>4, <1>5

-----------------------------------------------------------------------------
(***************************************************************************)
(* No two entries of a user share directory and name.                      *)
(***************************************************************************)
\* The names no upload may bring a second time.
Sure == {n \in Names : ~Uploaded(n)}

\* Siblings of user u, told apart by their names.
Apart(u) == \A i, j \in Mine(u) :
               rows[i].father = rows[j].father /\ rows[i].name = rows[j].name
               /\ ~Uploaded(rows[i].name) => i = j

LEMMA SiblingsApart ==
    /\ SiblingsUnique <=> \A u : Apart(u)
BY DEF SiblingsUnique, Apart, Mine

\* A path of such names leads to one id, or to -1 alone.
LEMMA OneId ==
    ASSUME NEW u, Apart(u), NEW p \in Seq(Sure \cup {"."})
    PROVE  \E i : FileId(u, p) = {i}
<1> DEFINE S == Sure \cup {"."}
           A == {q \in Seq(S) : \E i : FileId(u, q) = {i}}
<1>1. <<>> \in A BY FileIdRoot, EmptySeq
<1>2. ASSUME NEW q \in Seq(S), NEW c \in S, q \in A
      PROVE  Append(q, c) \in A
  <2>1. PICK i : FileId(u, q) = {i} BY <1>2
  <2> HIDE DEF S
  <2>2. FileId(u, Append(q, c)) = Onward(u, {i}, c) BY <2>1, FileIdMore
  <2>3. Append(q, c) \in Seq(S) BY AppendProperties
  <2> USE DEF S
  <2>4. \E k : Onward(u, {i}, c) = {k}
    <3>1. CASE c = "." BY <3>1, OnwardOne
    <3>2. CASE c \in Sure
      <4>1. c \in Names /\ ~Uploaded(c) /\ c # "." /\ c # ".." BY <3>2, DownwardIs DEF Sure
      <4> DEFINE found == {k \in DOMAIN rows : rows[k].father = i /\ rows[k].name = c
                                                /\ rows[k].user = u}
      <4>2. Onward(u, {i}, c) = IF found = {} THEN {-1} ELSE found
        <5>1. Onward(u, {i}, c) = NextFileId(u, i, c) BY OnwardOne
        <5>2. QED BY <4>1, <5>1 DEF NextFileId
      <4>3. \A j, k \in found : j = k BY <4>1 DEF Apart, Mine
      <4> HIDE DEF found
      <4>4. ASSUME found # {} PROVE \E k : found = {k}
        <5>1. PICK k : k \in found BY <4>4
        <5>2. found = {k} BY <4>3, <5>1
        <5>3. QED BY <5>2
      <4>5. QED BY <4>2, <4>4
    <3>3. QED BY <3>1, <3>2
  <2> HIDE DEF S
  <2>5. QED BY <2>2, <2>3, <2>4
<1> HIDE DEF A
<1>3. Seq(S) \subseteq A
  <2> HIDE DEF S
  <2>1. QED BY <1>1, <1>2, SeqUpTo
<1>4. QED BY <1>3 DEF A

\* The rows of u are what they were.
SameRows(u) == Mine(u)' = Mine(u) /\ \A k \in Mine(u) : rows'[k] = rows[k]

LEMMA RowsOfSame ==
    ASSUME NEW u, RowsOf(u)' = RowsOf(u)
    PROVE  SameRows(u)
<1>1. RowsOf(u) = {<<i, rows[i]>> : i \in Mine(u)} BY DEF RowsOf, Mine
<1>2. RowsOf(u)' = {<<i, rows'[i]>> : i \in Mine(u)'} BY DEF RowsOf, Mine
<1>3. \A k \in Mine(u) : k \in Mine(u)' /\ rows'[k] = rows[k]
  <2>1. SUFFICES ASSUME NEW k \in Mine(u) PROVE k \in Mine(u)' /\ rows'[k] = rows[k] OBVIOUS
  <2>2. <<k, rows[k]>> \in RowsOf(u)' BY <1>1
  <2>3. PICK i \in Mine(u)' : <<k, rows[k]>> = <<i, rows'[i]>> BY <1>2, <2>2
  <2>4. QED BY <2>3
<1>4. \A k \in Mine(u)' : k \in Mine(u)
  <2>1. SUFFICES ASSUME NEW k \in Mine(u)' PROVE k \in Mine(u) OBVIOUS
  <2>2. <<k, rows'[k]>> \in RowsOf(u) BY <1>2
  <2>3. PICK i \in Mine(u) : <<k, rows'[k]>> = <<i, rows[i]>> BY <1>1, <2>2
  <2>4. QED BY <2>3
<1>5. QED BY <1>3, <1>4 DEF SameRows

LEMMA UnchangedSame ==
    ASSUME UNCHANGED rows, NEW u
    PROVE  SameRows(u)
BY DEF SameRows, Mine

LEMMA ApartKept ==
    ASSUME NEW u, SameRows(u), Apart(u)
    PROVE  Apart(u)'
<1>1. \A k \in Mine(u)' : k \in Mine(u) /\ rows'[k] = rows[k] BY DEF SameRows
<1>2. QED BY <1>1 DEF Apart, Uploaded

LEMMA FreeKept ==
    ASSUME NEW u, SameRows(u)
    PROVE  \A f, n : Free(u, f, n)' <=> Free(u, f, n)
BY DEF SameRows, Free

LEMMA OnwardKept ==
    ASSUME NEW u, SameRows(u), NEW X, NEW c \in Downward
    PROVE  Onward(u, X, c)' = Onward(u, X, c)
<1>1. CASE c = "." BY <1>1 DEF Onward, NextFileId
<1>2. CASE c \in Names
  <2>1. c # "." /\ c # ".." BY <1>2, DownwardIs
  <2>2. \A i : {k \in DOMAIN rows : rows[k].father = i /\ rows[k].name = c /\ rows[k].user = u}
             = {k \in DOMAIN rows' : rows'[k].father = i /\ rows'[k].name = c /\ rows'[k].user = u}
    BY DEF SameRows, Mine
  <2>3. \A i : NextFileId(u, i, c)' = NextFileId(u, i, c) BY <2>1, <2>2 DEF NextFileId
  <2>4. QED BY <2>3 DEF Onward
<1>3. QED BY <1>1, <1>2, DownwardIs

\* What a path resolves to, one component after the other; in every state.
Stepwise ==
    /\ \A w : FileId(w, <<>>) = {0}
    /\ \A w : \A q \in Seq(Downward) : \A c \in Downward :
          FileId(w, Append(q, c)) = Onward(w, FileId(w, q), c)

LEMMA FileIdSteps == Stepwise
<1>1. \A u : FileId(u, <<>>) = {0} BY FileIdRoot
<1>2. ASSUME NEW u, NEW p \in Seq(Downward), NEW c \in Downward
      PROVE  FileId(u, Append(p, c)) = Onward(u, FileId(u, p), c)
  BY FileIdMore
<1>3. QED BY <1>1, <1>2 DEF Stepwise

\* A path without ".." resolves through the user's rows alone.
LEMMA FileIdKept ==
    ASSUME NEW u, SameRows(u), NEW p \in Seq(Downward)
    PROVE  FileId(u, p)' = FileId(u, p)
<1> DEFINE A == {q \in Seq(Downward) : FileId(u, q)' = FileId(u, q)}
<1>1. Stepwise /\ Stepwise' BY FileIdSteps, PTL
<1>2. <<>> \in A
  <2>1. FileId(u, <<>>) = {0} BY <1>1 DEF Stepwise
  <2>2. FileId(u, <<>>)' = {0} BY <1>1 DEF Stepwise
  <2>3. QED BY <2>1, <2>2, EmptySeq
<1>3. ASSUME NEW q \in Seq(Downward), NEW c \in Downward, q \in A
      PROVE  Append(q, c) \in A
  <2>1. FileId(u, Append(q, c)) = Onward(u, FileId(u, q), c) BY <1>1 DEF Stepwise
  <2>2. FileId(u, Append(q, c))' = Onward(u, FileId(u, q), c)' BY <1>1 DEF Stepwise
  <2>3. FileId(u, q)' = FileId(u, q) BY <1>3
  <2>4. PICK X : X = FileId(u, q) OBVIOUS
  <2>5. Onward(u, X, c)' = Onward(u, X, c) BY OnwardKept
  <2>6. Onward(u, FileId(u, q), c)' = Onward(u, X, c)' BY <2>3, <2>4 DEF Onward
  <2>7. FileId(u, Append(q, c))' = FileId(u, Append(q, c)) BY <2>1, <2>2, <2>4, <2>5, <2>6
  <2>8. QED BY <2>7, AppendProperties
<1> HIDE DEF A
<1>4. Seq(Downward) \subseteq A BY <1>2, <1>3, SeqUpTo
<1>5. QED BY <1>4 DEF A

-----------------------------------------------------------------------------
(***************************************************************************)
(* What a session that serves its user alone knows of the user's tree.     *)
(***************************************************************************)
\* A new name in the place the old one had.
InPlace(src, dst) ==
    \E q \in Seq(Sure) : \E a \in Names : \E b \in Sure : src = Append(q, a) /\ dst = Append(q, b)

\* The walk along p has come to r.cur, and r.path is left of it.
OnWay(u, r, p) ==
    /\ r.path \in Seq(Downward)
    /\ \E done \in Seq(Downward) : done \o r.path = p /\ r.cur \in FileId(u, done)

MvPaths(r) == /\ r.src \in Seq(Downward) /\ r.dst \in Seq(Sure \cup {"."})
              /\ ~r.moves => InPlace(r.src, r.dst)

\* Where mv into a directory puts the source, and where a new name goes.
Into(r) == Append(Normal(r.dst), Last(Normal(r.src)))
Up(r)   == Front(Normal(r.dst))

\* These steps add no entry and give none another place.
Harmless == {"getpwd", "enter", "cache", "found", "remove", "delete", "list"}

KnowsMkdir(u, t, r) ==
    \/ t = <<"names", "insert">>
    \/ t = <<"insert">> /\ r.path = <<>> /\ Free(u, r.cur, Last(r.src))

KnowsPaths(u, t, r) ==
    \/ t = <<"source", "target">> /\ OnWay(u, r, r.src)
    \/ t = <<"target">> /\ r.id \in FileId(u, r.src) /\ OnWay(u, r, r.dst)

KnowsMove(u, t, r) ==
    \/ /\ t = <<"samename", "move">> /\ r.src \in Seq(Downward) /\ r.dst \in Seq(Sure \cup {"."})
       /\ Normal(r.src) # <<>>
       /\ r.dir \in FileId(u, Normal(r.dst)) /\ OnWay(u, r, Into(r))
       /\ r.id \in Mine(u) => rows[r.id].name = Last(Normal(r.src))
    \/ /\ t = <<"move">>
       /\ r.id \in Mine(u) /\ ~Uploaded(rows[r.id].name) => Free(u, r.dir, rows[r.id].name)

KnowsRename(u, t, r) ==
    /\ t = <<"rename">> /\ r.dst \in Seq(Sure \cup {"."}) /\ Normal(r.dst) # <<>>
    /\ -1 \in FileId(u, Normal(r.dst)) /\ OnWay(u, r, Up(r))
    /\ ~r.moves /\ r.id \in Mine(u) => rows[r.id].father \in FileId(u, Up(r))

KnowsUpload(t, r) ==
    /\ t = <<"present", "store">> \/ t = <<"store">>
    /\ Uploaded(Last(r.src))

KnowsCd(t, r) ==
    /\ \/ t = <<"isdir", "samepwd", "setpwd", "getpwd", "cache">>
       \/ t = <<"samepwd", "setpwd", "getpwd", "cache">>
       \/ t = <<"setpwd", "getpwd", "cache">>
    /\ r.dst \in Seq(Sure)

\* With the steps t left and the locals r.
Knows(u, t, r) ==
    \/ t \in Seq(Harmless)
    \/ KnowsMkdir(u, t, r)
    \/ MvPaths(r) /\ KnowsPaths(u, t, r)
    \/ KnowsMove(u, t, r) \/ KnowsRename(u, t, r)
    \/ KnowsUpload(t, r) \/ KnowsCd(t, r)

LEMMA SureIs ==
    /\ Sure \subseteq Names /\ Seq(Sure) \subseteq Seq(Downward)
    /\ Seq(Sure) \subseteq Seq(Sure \cup {"."})
    /\ Seq(Sure \cup {"."}) \subseteq Seq(Downward) /\ Seq(Names) \subseteq Seq(Downward)
    /\ Seq(Downward) \subseteq Seq(Names \cup {".", ".."})
    /\ Seq(Sure \cup {"."}) \subseteq Seq(Sure \cup {".", ".."})
<1>1. /\ Sure \subseteq Names /\ Sure \subseteq Downward /\ Sure \cup {"."} \subseteq Downward
      /\ Names \subseteq Downward /\ Sure \subseteq Sure \cup {"."}
      /\ Downward \subseteq Names \cup {".", ".."}
      /\ Sure \cup {"."} \subseteq Sure \cup {".", ".."}
  BY DEF Sure, Downward
<1>2. QED BY <1>1, SeqMonotonic

\* What the paths of mv are without "." and "..".
LEMMA NormalSure ==
    ASSUME NEW p
    PROVE  /\ p \in Seq(Sure \cup {"."}) => Normal(p) \in Seq(Sure) /\ Normal(p) \in Seq(Downward)
           /\ p \in Seq(Downward) => Normal(p) \in Seq(Names) /\ Normal(p) \in Seq(Downward)
<1>1. p \in Seq(Sure \cup {"."}) => Normal(p) \in Seq(Sure) BY SureIs, NormalIn
<1>2. p \in Seq(Downward) => Normal(p) \in Seq(Names) BY SureIs, NormalIn
<1>3. QED BY <1>1, <1>2, SureIs

LEMMA OnWayKept ==
    ASSUME NEW u, SameRows(u), NEW r, NEW p, OnWay(u, r, p)
    PROVE  OnWay(u, r, p)'
<1>1. PICK done \in Seq(Downward) : done \o r.path = p /\ r.cur \in FileId(u, done) BY DEF OnWay
<1>2. r.cur \in FileId(u, done)' BY <1>1, FileIdKept
<1>3. QED BY <1>1, <1>2 DEF OnWay

\* A session knows as much after a step of another user's session.
LEMMA KnowsKept ==
    ASSUME NEW u, SameRows(u), NEW t, NEW r, Knows(u, t, r)
    PROVE  Knows(u, t, r)'
<1>1. /\ \A p \in Seq(Downward) : FileId(u, p)' = FileId(u, p)
      /\ \A f, n : Free(u, f, n)' <=> Free(u, f, n)
      /\ \A p : OnWay(u, r, p) => OnWay(u, r, p)'
  BY FileIdKept, FreeKept, OnWayKept
<1>2. (r.id \in Mine(u)' <=> r.id \in Mine(u)) /\ (r.id \in Mine(u) => rows'[r.id] = rows[r.id])
  BY DEF SameRows
<1>3. CASE KnowsMkdir(u, t, r) BY <1>1, <1>3 DEF Knows, KnowsMkdir
<1>4. CASE MvPaths(r) /\ KnowsPaths(u, t, r)
  <2>1. r.src \in Seq(Downward) BY <1>4 DEF MvPaths
  <2>2. KnowsPaths(u, t, r)' BY <1>1, <1>4, <2>1 DEF KnowsPaths
  <2>3. QED BY <1>4, <2>2 DEF Knows
<1>5. CASE KnowsMove(u, t, r)
  <2>1. r.dst \in Seq(Sure \cup {"."}) => FileId(u, Normal(r.dst))' = FileId(u, Normal(r.dst))
    BY <1>1, NormalSure
  <2>2. KnowsMove(u, t, r)' BY <1>1, <1>2, <1>5, <2>1 DEF KnowsMove, Uploaded
  <2>3. QED BY <2>2 DEF Knows
<1>6. CASE KnowsRename(u, t, r)
  <2>1. Normal(r.dst) \in Seq(Downward) /\ Normal(r.dst) # <<>> BY <1>6, NormalSure DEF KnowsRename
  <2>2. Up(r) \in Seq(Downward) BY <2>1, LastIn DEF Up
  <2>3. KnowsRename(u, t, r)' BY <1>1, <1>2, <1>6, <2>1, <2>2 DEF KnowsRename
  <2>4. QED BY <2>3 DEF Knows
<1>7. CASE t \in Seq(Harmless) \/ KnowsUpload(t, r) \/ KnowsCd(t, r)
  BY <1>7 DEF Knows, KnowsUpload, KnowsCd, Uploaded
<1>8. QED BY <1>3, <1>4, <1>5, <1>6, <1>7 DEF Knows

-----------------------------------------------------------------------------
LEMMA OverHead ==
    ASSUME NEW S, NEW q \in Seq(S), NEW p \in Seq(S), p # <<>>
    PROVE  Append(q, Head(p)) \o Tail(p) = q \o p
<1>1. Head(p) \in S /\ Tail(p) \in Seq(S) BY HeadTailProperties
<1>2. <<Head(p)>> \in Seq(S) BY <1>1
<1>3. <<Head(p)>> \o Tail(p) = p
  <2>1. Len(p) \in Nat /\ Len(p) # 0 BY LenProperties, EmptySeq
  <2>2. QED BY <2>1
<1>4. Append(q, Head(p)) = q \o <<Head(p)>> BY <1>1, AppendIsConcat
<1>5. (q \o <<Head(p)>>) \o Tail(p) = q \o (<<Head(p)>> \o Tail(p))
  BY <1>1, <1>2, ConcatAssociative
<1>6. QED BY <1>3, <1>4, <1>5

\* A walk: its first component, the next one, the end.
LEMMA OnWayStart ==
    ASSUME NEW u, NEW r, {"cur", "path"} \subseteq DOMAIN r, NEW p \in Seq(Downward)
    PROVE  OnWay(u, Walk(r, p), p)
<1>1. Walk(r, p).path = p /\ Walk(r, p).cur = 0 BY DEF Walk
<1>2. <<>> \o p = p /\ <<>> \in Seq(Downward) BY EmptySeq
<1>3. QED BY <1>1, <1>2, FileIdRoot DEF OnWay

LEMMA OnWayNext ==
    ASSUME NEW u, NEW r, NEW p, OnWay(u, r, p), r.path # <<>>,
           NEW q, q.path = Tail(r.path), q.cur \in NextFileId(u, r.cur, Head(r.path))
    PROVE  OnWay(u, q, p)
<1>1. PICK done \in Seq(Downward) : done \o r.path = p /\ r.cur \in FileId(u, done) BY DEF OnWay
<1>2. Head(r.path) \in Downward /\ Tail(r.path) \in Seq(Downward)
  BY HeadTailProperties DEF OnWay
<1> DEFINE more == Append(done, Head(r.path))
<1>3. more \in Seq(Downward) BY <1>2, AppendProperties
<1>4. FileId(u, more) = Onward(u, FileId(u, done), Head(r.path)) BY <1>2, FileIdMore
<1>5. q.cur \in FileId(u, more) BY <1>1, <1>4 DEF Onward
<1>6. more \o Tail(r.path) = p
  <2>1. r.path \in Seq(Downward) BY DEF OnWay
  <2>2. more \o Tail(r.path) = done \o r.path BY <2>1, OverHead
  <2>3. QED BY <1>1, <2>2
<1> HIDE DEF more
<1>7. QED BY <1>2, <1>3, <1>5, <1>6 DEF OnWay

LEMMA OnWayEnd ==
    ASSUME NEW u, NEW r, NEW p, OnWay(u, r, p), r.path = <<>>
    PROVE  r.cur \in FileId(u, p)
<1>1. PICK done \in Seq(Downward) : done \o r.path = p /\ r.cur \in FileId(u, done) BY DEF OnWay
<1>2. done \o <<>> = done OBVIOUS
<1>3. QED BY <1>1, <1>2

\* Which steps are left and what is known then, by the next one.
LEMMA KnowsNow ==
    ASSUME NEW u, NEW t, t # <<>>, NEW r, Knows(u, t, r)
    PROVE  /\ Head(t) \in Harmless => t \in Seq(Harmless)
           /\ Head(t) \in {"names", "insert"} => KnowsMkdir(u, t, r)
           /\ Head(t) \in {"source", "target"} => MvPaths(r) /\ KnowsPaths(u, t, r)
           /\ Head(t) \in {"samename", "move"} => KnowsMove(u, t, r)
           /\ Head(t) = "rename" => KnowsRename(u, t, r)
           /\ Head(t) \in {"present", "store"} => KnowsUpload(t, r)
           /\ Head(t) \in {"isdir", "samepwd", "setpwd"} => KnowsCd(t, r)
<1>1. CASE t \in Seq(Harmless)
  <2>1. Head(t) \in Harmless BY <1>1, HeadTailProperties
  <2>2. QED BY <1>1, <2>1 DEF Harmless
<1>2. CASE KnowsMkdir(u, t, r)
  <2>1. Head(t) \in {"names", "insert"} BY <1>2 DEF KnowsMkdir
  <2>2. QED BY <1>2, <2>1 DEF Harmless
<1>3. CASE MvPaths(r) /\ KnowsPaths(u, t, r)
  <2>1. Head(t) \in {"source", "target"} BY <1>3 DEF KnowsPaths
  <2>2. QED BY <1>3, <2>1 DEF Harmless
<1>4. CASE KnowsMove(u, t, r)
  <2>1. Head(t) \in {"samename", "move"} BY <1>4 DEF KnowsMove
  <2>2. QED BY <1>4, <2>1 DEF Harmless
<1>5. CASE KnowsRename(u, t, r)
  <2>1. Head(t) = "rename" BY <1>5 DEF KnowsRename
  <2>2. QED BY <1>5, <2>1 DEF Harmless
<1>6. CASE KnowsUpload(t, r)
  <2>1. Head(t) \in {"present", "store"} BY <1>6 DEF KnowsUpload
  <2>2. QED BY <1>6, <2>1 DEF Harmless
<1>7. CASE KnowsCd(t, r)
  <2>1. Head(t) \in {"isdir", "samepwd", "setpwd"} BY <1>7 DEF KnowsCd
  <2>2. QED BY <1>7, <2>1 DEF Harmless
<1>8. QED BY <1>1, <1>2, <1>3, <1>4, <1>5, <1>6, <1>7 DEF Knows

\* Nothing is left: nothing has to be known.
LEMMA KnowsNothing ==
    ASSUME NEW u, NEW r
    PROVE  Knows(u, <<>>, r)
BY EmptySeq DEF Knows

\* What r keeps when it only walks on.
LEMMA KnowsWalk ==
    ASSUME NEW u, NEW t, NEW r, Knows(u, t, r), r.path # <<>>,
           NEW q, q.path = Tail(r.path), q.cur \in NextFileId(u, r.cur, Head(r.path)),
           q.src = r.src, q.dst = r.dst, q.moves = r.moves, q.id = r.id, q.dir = r.dir
    PROVE  Knows(u, t, q)
<1>1. \A p : OnWay(u, r, p) => OnWay(u, q, p) BY OnWayNext
<1>2. CASE KnowsMkdir(u, t, r) BY <1>2 DEF Knows, KnowsMkdir
<1>3. CASE MvPaths(r) /\ KnowsPaths(u, t, r)
  <2>1. MvPaths(q) BY <1>3 DEF MvPaths
  <2>2. KnowsPaths(u, t, q) BY <1>1, <1>3 DEF KnowsPaths
  <2>3. QED BY <2>1, <2>2 DEF Knows
<1>4. CASE KnowsMove(u, t, r) BY <1>1, <1>4 DEF Knows, KnowsMove, Into
<1>5. CASE KnowsRename(u, t, r) BY <1>1, <1>5 DEF Knows, KnowsRename, Up
<1>6. CASE t \in Seq(Harmless) \/ KnowsUpload(t, r) \/ KnowsCd(t, r)
  BY <1>6 DEF Knows, KnowsUpload, KnowsCd
<1>7. QED BY <1>2, <1>3, <1>4, <1>5, <1>6 DEF Knows

-----------------------------------------------------------------------------
(***************************************************************************)
(* What a user does when no two entries are to get one name.               *)
(***************************************************************************)
\* No two sessions serve one user.
Serial == \A s, t \in Sessions : UserOf(s) = UserOf(t) => s = t

\* An upload names its entry by one component; cd, and the destination of mv, go through no
\* entry an upload could have brought twice; mv names neither side with "..", and a new
\* name without a directory, which leaves the entry where it is, comes with a source
\* from the working directory, where mv looks whether the name is taken.
TidyCommand(c) ==
    /\ c.cmd = "upload" => Uploaded(Last(c.src.parts))
    /\ c.cmd = "cd" => c.src.parts \in Seq(Sure \cup {".", ".."})
    /\ c.cmd = "mv" =>
          /\ c.src.parts \in Seq(Downward) /\ c.dst.parts \in Seq(Sure \cup {"."})
          /\ ~c.dst.abs /\ Len(c.dst.parts) = 1 /\ c.dst.parts[1] # "." =>
                ~c.src.abs /\ Len(c.src.parts) = 1 /\ c.src.parts[1] # "."

Tidy ==
    /\ Serial
    /\ \A u \in Users : Home(u) \in Sure
    /\ \A s \in Sessions : \A c \in Commands(s) : TidyCommand(c)
    /\ \A i, j \in DOMAIN InitRows :
          /\ InitRows[i].father = InitRows[j].father /\ InitRows[i].name = InitRows[j].name
          /\ InitRows[i].user = InitRows[j].user /\ ~Uploaded(InitRows[i].name)
          => i = j

\* A path a command takes, completed.
LEMMA FullPathIn ==
    ASSUME NEW u, NEW S, NEW p, p.parts \in Seq(S), pwd[u] \in Seq(S)
    PROVE  FullPath(u, p) \in Seq(S)
BY ConcatProperties DEF FullPath

LEMMA KnowsMv ==
    ASSUME NEW s \in Sessions, NEW c \in Commands(s), c.cmd = "mv", TidyCommand(c),
           NEW u, pwd[u] \in Seq(Sure), NEW r, DOMAIN r = Fields,
           r.src = FullPath(u, c.src), r.dst = FullPath(u, c.dst),
           r.moves = (\/ c.dst.abs \/ Len(c.dst.parts) > 1 \/ c.dst.parts[1] \notin Names \ Dotted)
    PROVE  Knows(u, <<"source", "target">>, Walk(r, r.src))
<1> DEFINE q == Walk(r, r.src)
<1>1. c.src \in Paths /\ c.dst \in Paths BY CommandsAssumption
<1>2. /\ c.src.parts \in Seq(Downward) /\ c.dst.parts \in Seq(Sure \cup {"."})
      /\ c.src.parts # <<>> /\ c.dst.parts # <<>>
      /\ c.src.abs \in BOOLEAN /\ c.dst.abs \in BOOLEAN
  BY <1>1 DEF TidyCommand, Paths
<1>3. r.src \in Seq(Downward) /\ r.dst \in Seq(Sure \cup {"."})
  BY <1>2, FullPathIn, SureIs
<1>4. OnWay(u, q, r.src) BY <1>3, OnWayStart DEF Fields
<1>5. q.src = r.src /\ q.dst = r.dst /\ q.moves = r.moves BY DEF Walk, Fields
<1>6. ASSUME ~r.moves
      PROVE  InPlace(r.src, r.dst)
  <2> DEFINE a == c.src.parts[1]  b == c.dst.parts[1]
  <2>1. /\ ~c.dst.abs /\ Len(c.dst.parts) = 1 /\ b \in Names
    <3>1. Len(c.dst.parts) \in Nat /\ Len(c.dst.parts) # 0 BY <1>2, LenProperties, EmptySeq
    <3>2. ~c.dst.abs /\ ~(Len(c.dst.parts) > 1) /\ b \in Names \ Dotted BY <1>6, Zenon
    <3>3. \A n \in Nat : n # 0 /\ ~(n > 1) => n = 1 OBVIOUS
    <3>4. QED BY <3>1, <3>2, <3>3, Zenon
  <2>2. b # "." BY <2>1, DownwardIs
  <2>3. ~c.src.abs /\ Len(c.src.parts) = 1 /\ a # "." BY <2>1, <2>2 DEF TidyCommand
  <2>4. a \in Downward /\ b \in Sure \cup {"."} BY <1>2, <2>1, <2>3, ElementOfSeq
  <2>5. a \in Names /\ b \in Sure BY <2>2, <2>3, <2>4, DownwardIs
  <2>6. c.src.parts = <<a>> /\ c.dst.parts = <<b>> BY <1>2, <2>1, <2>3
  <2>7. r.src = pwd[u] \o <<a>> /\ r.dst = pwd[u] \o <<b>> BY <2>1, <2>3, <2>6 DEF FullPath
  <2> HIDE DEF a, b
  <2>8. r.src = Append(pwd[u], a) /\ r.dst = Append(pwd[u], b)
    <3>1. pwd[u] \in Seq(Names) BY SureIs, SeqMonotonic
    <3>2. b \in Names BY <2>5, SureIs
    <3>3. QED BY <2>5, <2>7, <3>1, <3>2, AppendIsConcat
  <2>9. QED BY <2>5, <2>8 DEF InPlace
<1> HIDE DEF q
<1>7. MvPaths(q) BY <1>3, <1>5, <1>6 DEF MvPaths
<1>8. KnowsPaths(u, <<"source", "target">>, q) BY <1>4, <1>5 DEF KnowsPaths
<1>9. QED BY <1>7, <1>8 DEF Knows, q

LEMMA KnowsCommand ==
    ASSUME Tidy, IInv, NEW s \in Sessions, NEW c \in Commands(s), Command(s, c),
           pwd[UserOf(s)] \in Seq(Sure)
    PROVE  Knows(UserOf(s), todo'[s], reg'[s])
<1> DEFINE u == UserOf(s)
           r == [NoReg EXCEPT !.cmd = c.cmd]
           src == FullPath(u, c.src)
           dst == FullPath(u, c.dst)
<1>1. s \in DOMAIN todo /\ s \in DOMAIN reg BY DEF IInv, Steps, LocalsClean
<1>2. \A q, steps : Begin(s, q, steps) => todo'[s] = steps /\ reg'[s] = q
  BY <1>1 DEF Begin
<1>3. TidyCommand(c) /\ c.cmd \in {"mkdir", "rm", "mv", "cd", "pwd", "upload"}
  BY CommandsAssumption DEF Tidy
<1>4. DOMAIN r = Fields BY DEF NoReg, Fields
<1>5. CASE c.cmd = "mkdir"
  <2>1. todo'[s] = <<"names", "insert">> BY <1>2, <1>5 DEF Command
  <2>2. QED BY <2>1 DEF Knows, KnowsMkdir
<1>6. CASE c.cmd \in {"rm", "pwd"}
  <2>1. todo'[s] = <<"found", "remove">> \/ todo'[s] = <<"getpwd", "cache">>
    BY <1>2, <1>6 DEF Command
  <2>2. <<"found", "remove">> \in Seq(Harmless) /\ <<"getpwd", "cache">> \in Seq(Harmless)
    BY DEF Harmless
  <2>3. QED BY <2>1, <2>2 DEF Knows
<1>7. CASE c.cmd = "mv"
  <2> DEFINE m == \/ c.dst.abs \/ Len(c.dst.parts) > 1 \/ c.dst.parts[1] \notin Names \ Dotted
             q == [r EXCEPT !.src = src, !.dst = dst, !.moves = m]
  <2>1. Begin(s, Walk(q, src), <<"source", "target">>) BY <1>7 DEF Command
  <2> HIDE DEF m
  <2>2. q.src = src /\ q.dst = dst /\ q.moves = m /\ DOMAIN q = Fields
    BY <1>4 DEF Fields
  <2> HIDE DEF q, src, dst
  <2>3. Knows(u, <<"source", "target">>, Walk(q, q.src))
    BY <1>3, <1>7, <2>2, KnowsMv DEF m, src, dst
  <2>4. QED BY <1>2, <2>1, <2>2, <2>3
<1>8. CASE c.cmd = "cd"
  <2> DEFINE q == Walk([r EXCEPT !.dst = Normal(src)], Normal(src))
             steps == <<"isdir", "samepwd", "setpwd", "getpwd", "cache">>
  <2>1. Begin(s, q, steps) BY <1>8 DEF Command
  <2>2. q.dst = Normal(src) BY <1>4 DEF Walk, Fields
  <2>3. Normal(src) \in Seq(Sure)
    <3>1. c.src.parts \in Seq(Sure \cup {".", ".."}) BY <1>3, <1>8 DEF TidyCommand
    <3>2. pwd[u] \in Seq(Sure \cup {".", ".."}) BY SureIs
    <3>3. src \in Seq(Sure \cup {".", ".."}) BY <3>1, <3>2, FullPathIn
    <3>4. QED BY <3>3, SureIs, NormalIn
  <2> HIDE DEF q
  <2>4. KnowsCd(steps, q) BY <2>2, <2>3 DEF KnowsCd
  <2>5. QED BY <1>2, <2>1, <2>4 DEF Knows
<1>9. CASE c.cmd = "upload"
  <2> DEFINE q == [r EXCEPT !.src = c.src.parts]
  <2>1. Begin(s, q, <<"present", "store">>) BY <1>9 DEF Command
  <2>2. q.src = c.src.parts BY <1>4 DEF Fields
  <2>3. Uploaded(Last(c.src.parts)) BY <1>3, <1>9 DEF TidyCommand
  <2> HIDE DEF q
  <2>4. KnowsUpload(<<"present", "store">>, q) BY <2>2, <2>3 DEF KnowsUpload
  <2>5. QED BY <1>2, <2>1, <2>4 DEF Knows
<1>10. QED BY <1>3, <1>5, <1>6, <1>7, <1>8, <1>9

-----------------------------------------------------------------------------
(***************************************************************************)
(* What a step of its own teaches a session.                               *)
(***************************************************************************)
LEMMA FrontLast ==
    ASSUME NEW S, NEW q \in Seq(S), q # <<>>
    PROVE  q = Append(Front(q), Last(q)) /\ Front(q) \in Seq(S) /\ Last(q) \in S
<1>1. PICK p \in Seq(S), c \in S : q = Append(p, c) BY SequenceEmptyOrAppend
<1>2. Len(q) = Len(p) + 1 /\ q[Len(p) + 1] = c /\ Len(p) \in Nat BY <1>1, AppendProperties, LenProperties
<1>3. Last(q) = c BY <1>2 DEF Last
<1>4. Front(q) = p
  <2>1. Front(q) \in Seq(S) BY LastIn
  <2>2. Front(q) = SubSeq(q, 1, Len(p)) BY <1>2 DEF Front
  <2>3. Len(Front(q)) = Len(p) /\ \A i \in 1..Len(p) : Front(q)[i] = q[i]
    BY <1>2, <2>2
  <2>4. \A i \in 1..Len(p) : q[i] = p[i] BY <1>1, AppendProperties
  <2>5. QED BY <2>1, <2>3, <2>4, SeqEqual
<1>5. QED BY <1>1, <1>3, <1>4

\* What a path leads to whose last component, "." left out, is a name.
LEMMA NamedByPath ==
    ASSUME RowsClean, NEW u, NEW p \in Seq(Downward), Normal(p) # <<>>, NEW k \in FileId(u, p)
    PROVE  /\ k # -1 => /\ k \in Mine(u) /\ rows[k].name = Last(Normal(p))
                        /\ rows[k].father \in FileId(u, Front(Normal(p)))
           /\ k = -1 => \E f \in FileId(u, Front(Normal(p))) : Free(u, f, Last(Normal(p)))
<1> DEFINE q == Normal(p)
<1>1. q \in Seq(Names) BY NormalSure
<1>2. k \in FileId(u, q) BY FileIdNormal
<1>3. q = Append(Front(q), Last(q)) /\ Front(q) \in Seq(Names) /\ Last(q) \in Names
  BY <1>1, FrontLast
<1> HIDE DEF q
<1>4. Front(q) \in Seq(Downward) /\ k \in FileId(u, Append(Front(q), Last(q))) BY <1>2, <1>3, SureIs
<1>5. \/ /\ k \in Mine(u) /\ rows[k].name = Last(q) /\ rows[k].father \in FileId(u, Front(q))
      \/ k = -1 /\ \E f \in FileId(u, Front(q)) : Free(u, f, Last(q))
  BY <1>3, <1>4, LedTo
<1>6. -1 \notin Mine(u) BY DEF Mine, RowsClean
<1>7. QED BY <1>5, <1>6 DEF q

LEMMA TypeOfMine ==
    ASSUME RowsClean, NEW u, NEW k, TypeOf(k) = "none"
    PROVE  k \notin Mine(u)
BY DEF TypeOf, Mine, RowsClean, RowClean

LEMMA KnowsInto ==
    ASSUME RowsClean, NEW u, NEW r, DOMAIN r = Fields, MvPaths(r), r.id \in FileId(u, r.src),
           r.cur \in FileId(u, r.dst), Normal(r.src) # <<>>
    PROVE  Knows(u, <<"samename", "move">>, Walk([r EXCEPT !.dir = r.cur], Into(r)))
<1> DEFINE q == Walk([r EXCEPT !.dir = r.cur], Into(r))
<1>1. /\ q.src = r.src /\ q.dst = r.dst /\ q.moves = r.moves /\ q.dir = r.cur /\ q.id = r.id
      /\ DOMAIN [r EXCEPT !.dir = r.cur] = Fields
  BY DEF Walk, Fields
<1>2. r.src \in Seq(Downward) /\ r.dst \in Seq(Sure \cup {"."}) /\ r.dst \in Seq(Downward)
  BY SureIs DEF MvPaths
<1>3. q.dir \in FileId(u, Normal(r.dst)) BY <1>1, <1>2, FileIdNormal
<1>4. Into(r) \in Seq(Downward)
  <2>1. Last(Normal(r.src)) \in Names BY <1>2, NormalSure, LastIn
  <2>2. Last(Normal(r.src)) \in Downward BY <2>1, DownwardIs
  <2>3. QED BY <1>2, <2>2, NormalSure, AppendProperties DEF Into
<1>5. OnWay(u, q, Into(r)) BY <1>1, <1>4, OnWayStart DEF Fields
<1>6. r.id \in Mine(u) => rows[r.id].name = Last(Normal(r.src))
  <2>1. -1 \notin Mine(u) BY DEF Mine, RowsClean
  <2>2. PICK p \in Seq(Downward) : p = r.src BY <1>2
  <2>3. PICK k \in FileId(u, p) : k = r.id BY <2>2
  <2>4. Normal(p) # <<>> BY <2>2
  <2>5. k = -1 \/ rows[k].name = Last(Normal(p)) BY <2>4, NamedByPath
  <2>6. QED BY <2>1, <2>2, <2>3, <2>5
<1> HIDE DEF q
<1>7. Into(q) = Into(r) BY <1>1 DEF Into
<1>8. KnowsMove(u, <<"samename", "move">>, q)
  BY <1>1, <1>2, <1>3, <1>5, <1>6, <1>7 DEF KnowsMove
<1>9. QED BY <1>8 DEF Knows, q

LEMMA KnowsNewName ==
    ASSUME RowsClean, NEW u, NEW r, DOMAIN r = Fields, MvPaths(r), r.id \in FileId(u, r.src),
           r.cur \in FileId(u, r.dst), TypeOf(r.cur) = "none", Normal(r.dst) # <<>>
    PROVE  Knows(u, <<"rename">>, Walk(r, Up(r)))
<1> DEFINE q == Walk(r, Up(r))
<1>1. q.src = r.src /\ q.dst = r.dst /\ q.moves = r.moves /\ q.id = r.id
  BY DEF Walk, Fields
<1>2. r.src \in Seq(Downward) /\ r.dst \in Seq(Sure \cup {"."}) /\ r.dst \in Seq(Downward)
  BY SureIs DEF MvPaths
<1>3. -1 \in FileId(u, Normal(r.dst))
  <2> DEFINE c == r.cur
  <2>1. c = -1
    <3>1. c \notin Mine(u) BY TypeOfMine
    <3>2. PICK p \in Seq(Downward) : p = r.dst BY <1>2
    <3>3. PICK k \in FileId(u, p) : k = c BY <3>2
    <3>4. Normal(p) # <<>> BY <3>2
    <3>5. k = -1 \/ k \in Mine(u) BY <3>4, NamedByPath
    <3>6. QED BY <3>1, <3>3, <3>5
  <2>2. QED BY <1>2, <2>1, FileIdNormal
<1>4. Up(r) \in Seq(Downward) BY <1>2, NormalSure, LastIn DEF Up
<1>5. OnWay(u, q, Up(r)) BY <1>4, OnWayStart DEF Fields
<1>6. ASSUME ~r.moves, r.id \in Mine(u)
      PROVE  rows[r.id].father \in FileId(u, Up(r))
  <2>1. InPlace(r.src, r.dst) BY <1>6 DEF MvPaths
  <2>2. PICK p \in Seq(Sure) : \E a \in Names : \E b \in Sure :
            r.src = Append(p, a) /\ r.dst = Append(p, b)
    BY <2>1 DEF InPlace
  <2>3. PICK a \in Names : \E b \in Sure : r.src = Append(p, a) /\ r.dst = Append(p, b) BY <2>2
  <2>4. PICK b \in Sure : r.src = Append(p, a) /\ r.dst = Append(p, b) BY <2>3
  <2>5. p \in Seq(Downward) /\ p \in Seq(Components) /\ b \in Components /\ b # "." /\ b # ".."
    BY SureIs, DownwardIs, SeqMonotonic
  <2>6. rows[r.id].father \in FileId(u, p)
    <3>1. -1 \notin Mine(u) BY DEF Mine, RowsClean
    <3>2. r.id \in FileId(u, Append(p, a)) BY <2>4
    <3>3. QED BY <1>6, <2>5, <3>1, <3>2, LedTo
  <2>7. Normal(r.dst) = Append(Normal(p), b) BY <2>4, <2>5, NormalMore DEF After
  <2>8. Front(Normal(r.dst)) = Normal(p)
    <3>1. Normal(p) \in Seq(Names) /\ b \in Names BY <2>5, NormalSure, SureIs
    <3> DEFINE m == Append(Normal(p), b)
    <3>2. m \in Seq(Names) /\ m # <<>> BY <3>1, AppendProperties
    <3>3. m = Append(Front(m), Last(m)) /\ Front(m) \in Seq(Names) /\ Last(m) \in Names
      BY <3>2, FrontLast
    <3>4. Front(m) = Normal(p)
      <4> DEFINE x == Front(m)  y == Last(m)
      <4>1. Append(Normal(p), b) = Append(x, y) /\ x \in Seq(Names) /\ y \in Names BY <3>3
      <4> HIDE DEF x, y
      <4>2. x = Normal(p) BY <3>1, <4>1, AppendInjective
      <4>3. QED BY <4>2 DEF x
    <3>5. QED BY <2>7, <3>4
  <2>9. QED BY <2>5, <2>6, <2>8, FileIdNormal DEF Up
<1> HIDE DEF q
<1>7. Up(q) = Up(r) BY <1>1 DEF Up
<1>8. KnowsRename(u, <<"rename">>, q)
  BY <1>1, <1>2, <1>3, <1>5, <1>6, <1>7 DEF KnowsRename
<1>9. QED BY <1>8 DEF Knows, q

\* The steps and locals a session has after a step.
LEMMA After1 ==
    ASSUME IInv, NEW s \in Sessions
    PROVE  /\ \A rest, r : GoOn(s, rest, r) => todo'[s] = rest /\ reg'[s] = r
           /\ \A rest, r : Begin(s, r, rest) => todo'[s] = rest /\ reg'[s] = r
           /\ \A r : Then(s, r) => todo'[s] = Tail(todo[s]) /\ reg'[s] = r
           /\ \A i, a : Answer(s, i, a) => todo'[s] = <<>>
           /\ \A a : Finish(s, a) => todo'[s] = <<>>
<1>1. s \in DOMAIN todo /\ s \in DOMAIN reg BY DEF IInv, Steps, LocalsClean
<1>2. QED BY <1>1 DEF GoOn, Begin, Then, Answer, Finish

\* The commands that change no place of an entry.
LEMMA HarmlessSteps ==
    ASSUME IInv, NEW s \in Sessions, Knows(UserOf(s), todo[s], reg[s]),
           Login(s) \/ RmFound(s) \/ RmType(s) \/ RmList(s) \/ GetPwd(s) \/ Cache(s) \/ Enter(s)
    PROVE  todo'[s] \in Seq(Harmless)
<1>1. <<>> \in Seq(Harmless) BY EmptySeq
<1>2. CASE Login(s)
  <2>1. todo'[s] = <<"getpwd", "enter">> BY <1>2, After1 DEF Login
  <2>2. <<"getpwd", "enter">> \in Seq(Harmless) BY DEF Harmless
  <2>3. QED BY <2>1, <2>2
<1>3. CASE RmFound(s) \/ RmList(s) \/ GetPwd(s)
  <2>1. todo[s] # <<>> /\ Head(todo[s]) \in Harmless
    BY <1>3 DEF RmFound, RmList, GetPwd, At, Harmless
  <2>2. todo[s] \in Seq(Harmless) BY <2>1, KnowsNow
  <2>3. Tail(todo[s]) \in Seq(Harmless) BY <2>1, <2>2, HeadTailProperties
  <2>4. todo'[s] = Tail(todo[s]) \/ todo'[s] = <<>>
    BY <1>3, After1 DEF RmFound, RmList, GetPwd
  <2>5. QED BY <1>1, <2>3, <2>4
<1>4. CASE RmType(s)
  <2>1. CASE reg[s].work = <<>> BY <1>1, <1>4, <2>1, After1 DEF RmType
  <2>2. CASE reg[s].work # <<>>
    <3>1. PICK i \in Head(reg[s].work) : \E q :
             GoOn(s, CASE TypeOf(i) = "d"    -> <<"delete", "list", "remove">>
                       [] TypeOf(i) = "f"    -> <<"delete", "remove">>
                       [] TypeOf(i) = "none" -> <<"remove">>, q)
      BY <1>4, <2>2, Zenon DEF RmType
    <3>2. TypeOf(i) \in {"d", "f", "none"} BY DEF TypeOf, IInv, RowsClean, RowClean
    <3>3. todo'[s] \in {<<"delete", "list", "remove">>, <<"delete", "remove">>, <<"remove">>}
      BY <3>1, <3>2, After1
    <3>4. /\ <<"delete", "list", "remove">> \in Seq(Harmless)
          /\ <<"delete", "remove">> \in Seq(Harmless) /\ <<"remove">> \in Seq(Harmless)
      BY DEF Harmless
    <3>5. QED BY <3>3, <3>4
  <2>3. QED BY <2>1, <2>2
<1>5. CASE Cache(s) \/ Enter(s) BY <1>1, <1>5, After1 DEF Cache, Enter
<1>6. QED BY <1>2, <1>3, <1>4, <1>5

LEMMA MvSteps ==
    ASSUME IInv, NEW s \in Sessions, NEW u, Apart(u), Knows(u, todo[s], reg[s]),
           MvSource(s) \/ MvTarget(s) \/ MvSameName(s)
    PROVE  Knows(u, todo'[s], reg'[s])
<1> DEFINE t == todo[s]  r == reg[s]
<1>1. RowsClean /\ DOMAIN r = Fields BY DEF IInv, LocalsClean, Clean
<1>2. CASE MvSource(s)
  <2> DEFINE q == Walk([r EXCEPT !.id = r.cur], r.dst)
  <2>1. At(s, "source") /\ Then(s, q) BY <1>2 DEF MvSource
  <2>2. t # <<>> /\ Head(t) = "source" /\ r.path = <<>> BY <2>1 DEF At
  <2>3. MvPaths(r) /\ KnowsPaths(u, t, r) BY <2>2, KnowsNow
  <2>4. t = <<"source", "target">> /\ OnWay(u, r, r.src) BY <2>2, <2>3 DEF KnowsPaths
  <2>5. r.cur \in FileId(u, r.src) BY <2>2, <2>4, OnWayEnd
  <2>6. /\ q.src = r.src /\ q.dst = r.dst /\ q.moves = r.moves /\ q.id = r.cur
        /\ DOMAIN [r EXCEPT !.id = r.cur] = Fields
    BY <1>1 DEF Walk, Fields
  <2>7. r.dst \in Seq(Downward) BY <2>3, SureIs DEF MvPaths
  <2>8. OnWay(u, q, r.dst) BY <2>6, <2>7, OnWayStart DEF Fields
  <2> HIDE DEF q
  <2>9. Tail(t) = <<"target">> BY <2>4
  <2>10. MvPaths(q) /\ KnowsPaths(u, <<"target">>, q)
    BY <2>3, <2>5, <2>6, <2>8 DEF MvPaths, KnowsPaths
  <2>11. todo'[s] = <<"target">> /\ reg'[s] = q BY <2>1, <2>9, After1
  <2>12. QED BY <2>10, <2>11 DEF Knows
<1>3. CASE MvTarget(s)
  <2>1. At(s, "target") BY <1>3 DEF MvTarget
  <2>2. t # <<>> /\ Head(t) = "target" /\ r.path = <<>> BY <2>1 DEF At
  <2>3. MvPaths(r) /\ KnowsPaths(u, t, r) BY <2>2, KnowsNow
  <2>4. r.id \in FileId(u, r.src) /\ OnWay(u, r, r.dst) BY <2>2, <2>3 DEF KnowsPaths
  <2>5. r.cur \in FileId(u, r.dst) BY <2>2, <2>4, OnWayEnd
  <2>6. \/ Finish(s, "fail")
        \/ /\ Normal(r.src) # <<>>
           /\ GoOn(s, <<"samename", "move">>, Walk([r EXCEPT !.dir = r.cur], Into(r)))
        \/ /\ Normal(r.dst) # <<>> /\ TypeOf(r.cur) = "none"
           /\ GoOn(s, <<"rename">>, Walk(r, Up(r)))
    BY <1>3, Zenon DEF MvTarget, Into, Up
  <2>7. CASE Finish(s, "fail") BY <2>7, After1, KnowsNothing
  <2>8. CASE /\ Normal(r.src) # <<>>
             /\ GoOn(s, <<"samename", "move">>, Walk([r EXCEPT !.dir = r.cur], Into(r)))
    <3> DEFINE q == Walk([r EXCEPT !.dir = r.cur], Into(r))
    <3>1. Knows(u, <<"samename", "move">>, q) BY <1>1, <2>3, <2>4, <2>5, <2>8, KnowsInto
    <3> HIDE DEF q
    <3>2. todo'[s] = <<"samename", "move">> /\ reg'[s] = q BY <2>8, After1 DEF q
    <3>3. QED BY <3>1, <3>2
  <2>9. CASE /\ Normal(r.dst) # <<>> /\ TypeOf(r.cur) = "none"
             /\ GoOn(s, <<"rename">>, Walk(r, Up(r)))
    <3> DEFINE q == Walk(r, Up(r))
    <3>1. Knows(u, <<"rename">>, q) BY <1>1, <2>3, <2>4, <2>5, <2>9, KnowsNewName
    <3> HIDE DEF q
    <3>2. todo'[s] = <<"rename">> /\ reg'[s] = q BY <2>9, After1 DEF q
    <3>3. QED BY <3>1, <3>2
  <2>10. QED BY <2>6, <2>7, <2>8, <2>9
<1>4. CASE MvSameName(s)
  <2>1. At(s, "samename") BY <1>4 DEF MvSameName
  <2>2. Finish(s, "fail") \/ (TypeOf(r.cur) = "none" /\ Then(s, r)) BY <1>4 DEF MvSameName
  <2>3. t # <<>> /\ Head(t) = "samename" /\ r.path = <<>> BY <2>1 DEF At
  <2>4. KnowsMove(u, t, r) BY <2>3, KnowsNow
  <2>5. /\ t = <<"samename", "move">> /\ r.src \in Seq(Downward) /\ r.dst \in Seq(Sure \cup {"."})
        /\ Normal(r.src) # <<>> /\ r.dir \in FileId(u, Normal(r.dst)) /\ OnWay(u, r, Into(r))
        /\ r.id \in Mine(u) => rows[r.id].name = Last(Normal(r.src))
    BY <2>3, <2>4 DEF KnowsMove
  <2>6. CASE Finish(s, "fail") BY <2>6, After1, KnowsNothing
  <2>7. CASE TypeOf(r.cur) = "none" /\ Then(s, r)
    <3> DEFINE n == Last(Normal(r.src))  d == Normal(r.dst)
    <3>1. n \in Names /\ d \in Seq(Downward) /\ d \in Seq(Sure)
      BY <2>5, NormalSure, LastIn
    <3>2. r.cur \in FileId(u, Append(d, n)) BY <2>3, <2>5, OnWayEnd DEF Into
    <3>3. \E f \in FileId(u, d) : Free(u, f, n)
      <4>1. r.cur \notin Mine(u) BY <1>1, <2>7, TypeOfMine
      <4> HIDE DEF n, d
      <4>2. \/ r.cur \in Mine(u) /\ rows[r.cur].name = n /\ rows[r.cur].father \in FileId(u, d)
            \/ r.cur = -1 /\ \E f \in FileId(u, d) : Free(u, f, n)
        BY <1>1, <3>1, <3>2, LedTo
      <4>3. QED BY <4>1, <4>2
    <3>4. \E i : FileId(u, d) = {i} BY <3>1, SureIs, OneId
    <3>5. Free(u, r.dir, n) BY <2>5, <3>3, <3>4
    <3>6. Tail(t) = <<"move">> BY <2>5
    <3>7. KnowsMove(u, <<"move">>, r) BY <2>5, <3>5 DEF KnowsMove
    <3>8. todo'[s] = <<"move">> /\ reg'[s] = r BY <2>7, <3>6, After1
    <3>9. QED BY <3>7, <3>8 DEF Knows
  <2>8. QED BY <2>2, <2>6, <2>7
<1>5. QED BY <1>2, <1>3, <1>4

LEMMA CdSteps ==
    ASSUME IInv, NEW s \in Sessions, NEW u, Knows(u, todo[s], reg[s]),
           CdIsDir(s) \/ CdSamePwd(s) \/ CdSetPwd(s)
    PROVE  Knows(u, todo'[s], reg'[s])
<1> DEFINE t == todo[s]  r == reg[s]
<1>1. <<"getpwd", "cache">> \in Seq(Harmless) BY DEF Harmless
<1>2. t # <<>> /\ Head(t) \in {"isdir", "samepwd", "setpwd"} BY DEF CdIsDir, CdSamePwd, CdSetPwd, At
<1>3. KnowsCd(t, r) BY <1>2, KnowsNow
<1>4. \/ Finish(s, "fail") \/ Then(s, r) \/ GoOn(s, <<"getpwd", "cache">>, r)
  BY DEF CdIsDir, CdSamePwd, CdSetPwd, Then
<1>5. CASE Finish(s, "fail") BY <1>5, After1, KnowsNothing
<1>6. CASE Then(s, r)
  <2>1. todo'[s] = Tail(t) /\ reg'[s] = r BY <1>6, After1
  <2>2. \/ Tail(t) = <<"samepwd", "setpwd", "getpwd", "cache">>
        \/ Tail(t) = <<"setpwd", "getpwd", "cache">>
        \/ Tail(t) = <<"getpwd", "cache">>
    <3>1. CASE t = <<"isdir", "samepwd", "setpwd", "getpwd", "cache">> BY <3>1
    <3>2. CASE t = <<"samepwd", "setpwd", "getpwd", "cache">> BY <3>2
    <3>3. CASE t = <<"setpwd", "getpwd", "cache">> BY <3>3
    <3>4. QED BY <1>3, <3>1, <3>2, <3>3, Zenon DEF KnowsCd
  <2>3. CASE Tail(t) = <<"getpwd", "cache">> BY <1>1, <2>1, <2>3 DEF Knows
  <2>4. CASE \/ Tail(t) = <<"samepwd", "setpwd", "getpwd", "cache">>
             \/ Tail(t) = <<"setpwd", "getpwd", "cache">>
    <3>1. KnowsCd(Tail(t), r) BY <1>3, <2>4 DEF KnowsCd
    <3>2. QED BY <2>1, <3>1 DEF Knows
  <2>5. QED BY <2>2, <2>3, <2>4
<1>7. CASE GoOn(s, <<"getpwd", "cache">>, r)
  <2>1. todo'[s] = <<"getpwd", "cache">> BY <1>7, After1
  <2>2. QED BY <1>1, <2>1 DEF Knows
<1>8. QED BY <1>4, <1>5, <1>6, <1>7

\* mkdir has looked at the names, and an upload goes on.
LEMMA MkdirSteps ==
    ASSUME IInv, NEW s \in Sessions, NEW u, Knows(u, todo[s], reg[s]),
           CheckNames(s) \/ Present(s)
    PROVE  Knows(u, todo'[s], reg'[s])
<1> DEFINE t == todo[s]  r == reg[s]
<1>1. CASE CheckNames(s)
  <2>1. At(s, "names") BY <1>1 DEF CheckNames
  <2>2. \/ Finish(s, "fail")
        \/ Then(s, r) /\ \A i \in DOMAIN rows : ~(rows[i].father = r.cur /\ rows[i].name = Last(r.src))
    BY <1>1 DEF CheckNames
  <2>3. t # <<>> /\ Head(t) = "names" /\ r.path = <<>> BY <2>1 DEF At
  <2>4. KnowsMkdir(u, t, r) BY <2>3, KnowsNow
  <2>5. t = <<"names", "insert">> BY <2>3, <2>4 DEF KnowsMkdir
  <2>6. CASE Finish(s, "fail") BY <2>6, After1, KnowsNothing
  <2>7. CASE Then(s, r) /\ \A i \in DOMAIN rows : ~(rows[i].father = r.cur /\ rows[i].name = Last(r.src))
    <3>1. Free(u, r.cur, Last(r.src)) BY <2>7 DEF Free, Mine
    <3>2. KnowsMkdir(u, <<"insert">>, r) BY <2>3, <3>1 DEF KnowsMkdir
    <3>3. Tail(t) = <<"insert">> BY <2>5
    <3>4. todo'[s] = <<"insert">> /\ reg'[s] = r BY <2>7, <3>3, After1
    <3>5. QED BY <3>2, <3>4 DEF Knows
  <2>8. QED BY <2>2, <2>6, <2>7
<1>2. CASE Present(s)
  <2>1. At(s, "present") /\ (Finish(s, "existing") \/ Then(s, r)) BY <1>2 DEF Present
  <2>2. t # <<>> /\ Head(t) = "present" BY <2>1 DEF At
  <2>3. KnowsUpload(t, r) BY <2>2, KnowsNow
  <2>4. t = <<"present", "store">> /\ Uploaded(Last(r.src)) BY <2>2, <2>3 DEF KnowsUpload
  <2>5. CASE Finish(s, "existing") BY <2>5, After1, KnowsNothing
  <2>6. CASE Then(s, r)
    <3>1. Tail(t) = <<"store">> BY <2>4
    <3>2. todo'[s] = <<"store">> /\ reg'[s] = r BY <2>6, <3>1, After1
    <3>3. KnowsUpload(<<"store">>, r) BY <2>4 DEF KnowsUpload
    <3>4. QED BY <3>2, <3>3 DEF Knows
  <2>7. QED BY <2>1, <2>5, <2>6
<1>3. QED BY <1>1, <1>2

LEMMA KnowsSteps ==
    ASSUME Tidy, IInv, NEW s \in Sessions, pwd[UserOf(s)] \in Seq(Sure), Apart(UserOf(s)),
           Knows(UserOf(s), todo[s], reg[s]), Step(s), ~Writes(s)
    PROVE  Knows(UserOf(s), todo'[s], reg'[s])
<1> DEFINE u == UserOf(s)  t == todo[s]  r == reg[s]
<1>1. CASE Login(s) \/ RmFound(s) \/ RmType(s) \/ RmList(s) \/ GetPwd(s) \/ Cache(s) \/ Enter(s)
  BY <1>1, HarmlessSteps DEF Knows
<1>2. CASE Leave(s) BY <1>2 DEF Leave
<1>3. CASE CmdAnalyse(s)
  <2>1. PICK c \in Commands(s) : Command(s, c) BY <1>3 DEF CmdAnalyse
  <2>2. QED BY <2>1, KnowsCommand
<1>4. CASE GetNextFileId(s)
  <2>1. r.path # <<>> BY <1>4 DEF GetNextFileId
  <2>2. PICK i \in NextFileId(u, r.cur, Head(r.path)) :
            GoOn(s, t, [r EXCEPT !.cur = i, !.path = Tail(@)])
    BY <1>4, Zenon DEF GetNextFileId
  <2> DEFINE q == [r EXCEPT !.cur = i, !.path = Tail(@)]
  <2>3. /\ q.path = Tail(r.path) /\ q.cur = i /\ q.src = r.src /\ q.dst = r.dst
        /\ q.moves = r.moves /\ q.id = r.id /\ q.dir = r.dir
    BY DEF IInv, LocalsClean, Clean, Fields
  <2>4. todo'[s] = t /\ reg'[s] = q BY <2>2, After1
  <2> HIDE DEF q
  <2>5. Knows(u, t, q) BY <2>1, <2>2, <2>3, KnowsWalk
  <2>6. QED BY <2>4, <2>5
<1>5. CASE MvSource(s) \/ MvTarget(s) \/ MvSameName(s) BY <1>5, MvSteps
<1>6. CASE CdIsDir(s) \/ CdSamePwd(s) \/ CdSetPwd(s) BY <1>6, CdSteps
<1>7. CASE CheckNames(s) \/ Present(s) BY <1>7, MkdirSteps
<1>8. QED BY <1>1, <1>2, <1>3, <1>4, <1>5, <1>6, <1>7 DEF Step, Writes

-----------------------------------------------------------------------------
(***************************************************************************)
(* The writes.                                                             *)
(***************************************************************************)
LEMMA InsertApart ==
    ASSUME RowsClean, NEW u, Apart(u), NEW f, NEW n, NEW t, Insert(f, n, t, u),
           Free(u, f, n) \/ Uploaded(n)
    PROVE  Apart(u)'
<1>1. /\ DOMAIN rows' = DOMAIN rows \cup {nextId} /\ nextId \notin DOMAIN rows
      /\ rows'[nextId].father = f /\ rows'[nextId].name = n /\ rows'[nextId].user = u
      /\ \A i \in DOMAIN rows : rows'[i] = rows[i]
  BY DEF RowsClean, Insert
<1>2. Mine(u)' = Mine(u) \cup {nextId} /\ \A i \in Mine(u) : rows'[i] = rows[i]
  BY <1>1 DEF Mine
<1>3. Uploaded(n)' <=> Uploaded(n) BY DEF Uploaded
<1>4. SUFFICES ASSUME NEW i \in Mine(u)', NEW j \in Mine(u)',
                      rows'[i].father = rows'[j].father, rows'[i].name = rows'[j].name,
                      ~Uploaded(rows'[i].name)
               PROVE  i = j
  BY DEF Apart, Uploaded
<1>5. CASE i \in Mine(u) /\ j \in Mine(u) BY <1>2, <1>4, <1>5 DEF Apart
<1>6. CASE i \in Mine(u) /\ j = nextId BY <1>1, <1>2, <1>4, <1>6 DEF Free
<1>7. CASE i = nextId /\ j \in Mine(u) BY <1>1, <1>2, <1>4, <1>7 DEF Free
<1>8. QED BY <1>2, <1>5, <1>6, <1>7

LEMMA UpdateApart ==
    ASSUME RowsClean, NEW u, Apart(u), NEW s, NEW row, Update(s, row),
           reg[s].id \in DOMAIN rows => /\ row.user = u /\ rows[reg[s].id].user = u
                                        /\ Free(u, row.father, row.name) \/ Uploaded(row.name)
    PROVE  Apart(u)'
<1> DEFINE k == reg[s].id
<1>1. CASE rows' = rows BY <1>1, ApartKept, UnchangedSame
<1>2. CASE k \in DOMAIN rows /\ rows' = [rows EXCEPT ![k] = row]
  <2>1. /\ DOMAIN rows' = DOMAIN rows /\ rows'[k] = row
        /\ \A i \in DOMAIN rows \ {k} : rows'[i] = rows[i]
    BY <1>2 DEF RowsClean
  <2>2. row.user = u /\ rows[k].user = u BY <1>2
  <2> HIDE DEF k
  <2>3. Mine(u)' = Mine(u) /\ k \in Mine(u) /\ \A i \in Mine(u) \ {k} : rows'[i] = rows[i]
    BY <1>2, <2>1, <2>2 DEF Mine
  <2>4. SUFFICES ASSUME NEW i \in Mine(u), NEW j \in Mine(u),
                        rows'[i].father = rows'[j].father, rows'[i].name = rows'[j].name,
                        ~Uploaded(rows'[i].name)
                 PROVE  i = j
    BY <2>3 DEF Apart, Uploaded
  <2>5. ~Uploaded(row.name) => Free(u, row.father, row.name) BY <1>2 DEF k
  <2>6. CASE i # k /\ j # k BY <2>3, <2>4, <2>6 DEF Apart
  <2>7. CASE i = k /\ j # k BY <2>1, <2>3, <2>4, <2>5, <2>7 DEF Free
  <2>8. CASE i # k /\ j = k BY <2>1, <2>3, <2>4, <2>5, <2>8 DEF Free
  <2>9. QED BY <2>6, <2>7, <2>8
<1>3. QED BY <1>1, <1>2 DEF Update

LEMMA WritesApart ==
    ASSUME IInv, NEW s \in Sessions, Writes(s), Apart(UserOf(s)),
           Knows(UserOf(s), todo[s], reg[s])
    PROVE  Apart(UserOf(s))'
<1> DEFINE u == UserOf(s)  t == todo[s]  r == reg[s]
<1>1. RowsClean /\ (r.id \in DOMAIN rows => rows[r.id].user = u /\ RowClean(r.id))
  BY DEF IInv, RowsClean, LocalsClean, Clean, OwnIds
<1>2. CASE InsertDir(s)
  <2>1. t # <<>> /\ Head(t) = "insert" BY <1>2 DEF InsertDir, At
  <2>2. KnowsMkdir(u, t, r) BY <2>1, KnowsNow
  <2>3. Free(u, r.cur, Last(r.src)) BY <2>1, <2>2 DEF KnowsMkdir
  <2>4. Insert(r.cur, Last(r.src), "d", u) BY <1>2 DEF InsertDir
  <2>5. QED BY <1>1, <2>3, <2>4, InsertApart
<1>3. CASE Store(s)
  <2>1. t # <<>> /\ Head(t) = "store" BY <1>3 DEF Store, At
  <2>2. Uploaded(Last(r.src)) BY <2>1, KnowsNow DEF KnowsUpload
  <2>3. Insert(father[s], Last(r.src), "f", u) BY <1>3 DEF Store
  <2>4. QED BY <1>1, <2>2, <2>3, InsertApart
<1>4. CASE RmDelete(s)
  <2>1. \A i \in DOMAIN rows' : i \in DOMAIN rows /\ rows'[i] = rows[i] BY <1>4, DeleteRows
  <2>2. Mine(u)' \subseteq Mine(u) /\ \A i \in Mine(u)' : rows'[i] = rows[i] BY <2>1 DEF Mine
  <2>3. QED BY <2>2 DEF Apart, Uploaded
<1>5. CASE MvMove(s)
  <2> DEFINE row == [rows[r.id] EXCEPT !.father = r.dir]
  <2>1. t # <<>> /\ Head(t) = "move" BY <1>5 DEF MvMove, At
  <2>2. KnowsMove(u, t, r) BY <2>1, KnowsNow
  <2>3. r.id \in Mine(u) /\ ~Uploaded(rows[r.id].name) => Free(u, r.dir, rows[r.id].name)
    BY <2>1, <2>2 DEF KnowsMove
  <2>4. r.id \in DOMAIN rows => row.user = u /\ row.father = r.dir /\ row.name = rows[r.id].name
    BY <1>1 DEF RowClean, RowFields
  <2>5. Update(s, row) BY <1>5 DEF MvMove
  <2> HIDE DEF row
  <2>6. QED BY <1>1, <2>3, <2>4, <2>5, UpdateApart DEF Mine
<1>6. CASE MvRename(s)
  <2> DEFINE n == Last(Normal(r.dst))
             row == [rows[r.id] EXCEPT !.name = n, !.father = IF r.moves THEN r.cur ELSE @]
  <2>1. t # <<>> /\ Head(t) = "rename" /\ r.path = <<>> BY <1>6 DEF MvRename, At
  <2>2. KnowsRename(u, t, r) BY <2>1, KnowsNow
  <2>3. /\ r.dst \in Seq(Sure \cup {"."}) /\ Normal(r.dst) # <<>>
        /\ -1 \in FileId(u, Normal(r.dst)) /\ OnWay(u, r, Up(r))
        /\ ~r.moves /\ r.id \in Mine(u) => rows[r.id].father \in FileId(u, Up(r))
    BY <2>2 DEF KnowsRename
  <2>4. r.cur \in FileId(u, Up(r)) BY <2>1, <2>3, OnWayEnd
  <2>5. r.dst \in Seq(Downward) /\ -1 \in FileId(u, r.dst) BY <2>3, SureIs, FileIdNormal
  <2>6. \E f \in FileId(u, Up(r)) : Free(u, f, n)
    <3> HIDE DEF n
    <3>1. PICK p \in Seq(Downward) : p = r.dst BY <2>5
    <3>2. PICK k \in FileId(u, p) : k = -1 BY <2>5, <3>1
    <3>3. Normal(p) # <<>> BY <2>3, <3>1
    <3>4. k = -1 => \E f \in FileId(u, Front(Normal(p))) : Free(u, f, Last(Normal(p)))
      BY <1>1, <3>3, NamedByPath
    <3>5. QED BY <3>1, <3>2, <3>4 DEF Up, n
  <2>7. \E i : FileId(u, Up(r)) = {i}
    <3>1. Up(r) \in Seq(Sure) BY <2>3, NormalSure, LastIn DEF Up
    <3>2. QED BY <3>1, SureIs, OneId
  <2> HIDE DEF n
  <2>8. Free(u, r.cur, n) /\ (~r.moves /\ r.id \in Mine(u) => Free(u, rows[r.id].father, n))
    BY <2>3, <2>4, <2>6, <2>7
  <2>9. r.id \in DOMAIN rows => /\ row.user = u /\ row.name = n
                                /\ row.father = IF r.moves THEN r.cur ELSE rows[r.id].father
    BY <1>1 DEF RowClean, RowFields
  <2>10. Update(s, row) BY <1>6 DEF MvRename, n
  <2> HIDE DEF row
  <2>11. r.id \in DOMAIN rows => r.id \in Mine(u) BY <1>1 DEF Mine
  <2>12. QED BY <1>1, <2>8, <2>9, <2>10, <2>11, UpdateApart
<1>7. QED BY <1>2, <1>3, <1>4, <1>5, <1>6 DEF Writes

\* After a write nothing is left to know.
LEMMA WritesKnow ==
    ASSUME IInv, NEW s \in Sessions, Writes(s), Knows(UserOf(s), todo[s], reg[s])
    PROVE  todo'[s] \in Seq(Harmless)
<1>1. CASE RmDelete(s)
  <2>1. At(s, "delete") /\ Then(s, reg[s]) BY <1>1 DEF RmDelete
  <2>2. todo[s] # <<>> /\ Head(todo[s]) \in Harmless BY <2>1 DEF At, Harmless
  <2>3. todo[s] \in Seq(Harmless) BY <2>2, KnowsNow
  <2>4. todo'[s] = Tail(todo[s]) BY <2>1, After1
  <2>5. QED BY <2>2, <2>3, <2>4, HeadTailProperties
<1>2. CASE InsertDir(s) \/ Store(s) \/ MvMove(s) \/ MvRename(s)
  <2>1. \E i, a : Answer(s, i, a) BY <1>2 DEF InsertDir, Store, MvMove, MvRename, Update, Finish
  <2>2. todo'[s] = <<>> BY <2>1, After1
  <2>3. QED BY <2>2, EmptySeq
<1>3. QED BY <1>1, <1>2 DEF Writes

-----------------------------------------------------------------------------
\* (The steps and locals are named for the sake of the prime of Knows.)
UInv ==
    /\ IInv
    /\ \A u : Apart(u)
    /\ \A u \in Users : pwd[u] \in Seq(Sure)
    /\ pwd = [u \in Users |-> pwd[u]]
    /\ \A s \in Sessions : \A t, r : t = todo[s] /\ r = reg[s] => Knows(UserOf(s), t, r)

\* Only login and cd change a working directory.
LEMMA PwdSame ==
    ASSUME NEW s \in Sessions, Step(s), ~Login(s), ~CdSetPwd(s)
    PROVE  UNCHANGED pwd
<1>1. Leave(s) \/ CmdAnalyse(s) \/ GetNextFileId(s) \/ CheckNames(s) \/ InsertDir(s) => UNCHANGED pwd
  BY Zenon DEF Leave, CmdAnalyse, GetNextFileId, CheckNames, InsertDir
<1>2. RmFound(s) \/ RmType(s) \/ RmDelete(s) \/ RmList(s) \/ MvSource(s) => UNCHANGED pwd
  BY Zenon DEF RmFound, RmType, RmDelete, RmList, MvSource
<1>3. MvTarget(s) \/ MvSameName(s) \/ MvMove(s) \/ MvRename(s) \/ CdIsDir(s) => UNCHANGED pwd
  BY Zenon DEF MvTarget, MvSameName, MvMove, MvRename, CdIsDir
<1>4. CdSamePwd(s) \/ GetPwd(s) \/ Cache(s) \/ Enter(s) \/ Present(s) \/ Store(s) => UNCHANGED pwd
  BY Zenon DEF CdSamePwd, GetPwd, Cache, Enter, Present, Store
<1>5. QED BY <1>1, <1>2, <1>3, <1>4 DEF Step

\* The working directories.
LEMMA PwdSure ==
    ASSUME Tidy, UInv, NEW s \in Sessions, Step(s)
    PROVE  pwd' = [u \in Users |-> pwd'[u]] /\ \A u \in Users : pwd'[u] \in Seq(Sure)
<1>1. CASE Login(s)
  <2>1. Home(UserOf(s)) \in Sure BY CommandsAssumption DEF Tidy
  <2>2. <<Home(UserOf(s))>> \in Seq(Sure) BY <2>1
  <2>3. QED BY <1>1, <2>2 DEF Login, UInv
<1>2. CASE CdSetPwd(s)
  <2>1. todo[s] # <<>> /\ Head(todo[s]) = "setpwd" BY <1>2 DEF CdSetPwd, At
  <2>2. KnowsCd(todo[s], reg[s]) BY <2>1, KnowsNow DEF UInv
  <2>3. reg[s].dst \in Seq(Sure) BY <2>2 DEF KnowsCd
  <2>4. pwd' = pwd \/ pwd' = [pwd EXCEPT ![UserOf(s)] = reg[s].dst] BY <1>2 DEF CdSetPwd
  <2>5. QED BY <2>3, <2>4 DEF UInv
<1>3. CASE ~Login(s) /\ ~CdSetPwd(s) BY <1>3, PwdSame DEF UInv
<1>4. QED BY <1>1, <1>2, <1>3

\* The steps and locals of s change, and nobody else's.
Moved(s) == \E q, r : todo' = [todo EXCEPT ![s] = q] /\ reg' = [reg EXCEPT ![s] = r]

LEMMA MovedBy ==
    ASSUME NEW s
    PROVE  /\ \A rest, r : GoOn(s, rest, r) => Moved(s)
           /\ \A rest, r : Begin(s, r, rest) => Moved(s)
           /\ \A r : Then(s, r) => Moved(s)
           /\ \A i, a : Answer(s, i, a) => Moved(s)
           /\ \A a : Finish(s, a) => Moved(s)
BY Zenon DEF Moved, GoOn, Begin, Then, Answer, Finish

LEMMA StepMoves ==
    ASSUME NEW s \in Sessions, Step(s), ~Leave(s)
    PROVE  Moved(s)
<1>1. CASE CmdAnalyse(s)
  <2>1. PICK c \in Commands(s) : Command(s, c) BY <1>1 DEF CmdAnalyse
  <2>2. c.cmd \in {"mkdir", "rm", "mv", "cd", "pwd", "upload"} BY CommandsAssumption
  <2>3. \E q, rest : Begin(s, q, rest)
    <3>1. CASE c.cmd = "mkdir" BY <2>1, <3>1 DEF Command
    <3>2. CASE c.cmd = "rm" BY <2>1, <3>2 DEF Command
    <3>3. CASE c.cmd = "mv" BY <2>1, <3>3 DEF Command
    <3>4. CASE c.cmd = "cd" BY <2>1, <3>4 DEF Command
    <3>5. CASE c.cmd = "pwd" BY <2>1, <3>5 DEF Command
    <3>6. CASE c.cmd = "upload" BY <2>1, <3>6 DEF Command
    <3>7. QED BY <2>2, <3>1, <3>2, <3>3, <3>4, <3>5, <3>6
  <2>4. QED BY <2>3, MovedBy
<1>2. CASE Login(s) \/ GetNextFileId(s)
  BY <1>2, MovedBy, Zenon DEF Login, GetNextFileId
<1>3. CASE CheckNames(s) \/ InsertDir(s) \/ Present(s) \/ Store(s)
  BY <1>3, MovedBy DEF CheckNames, InsertDir, Present, Store
<1>4. CASE RmFound(s) \/ RmDelete(s) \/ RmList(s)
  BY <1>4, MovedBy DEF RmFound, RmDelete, RmList
<1>5. CASE RmType(s)
  <2>1. Finish(s, "ok") \/ \E rest, r : GoOn(s, rest, r) BY <1>5, Zenon DEF RmType
  <2>2. QED BY <2>1, MovedBy
<1>6. CASE MvSource(s) \/ MvTarget(s) \/ MvSameName(s)
  <2>1. \/ Finish(s, "fail") \/ \E rest, r : GoOn(s, rest, r)
        \/ \E r : Then(s, r)
    BY <1>6, Zenon DEF MvSource, MvTarget, MvSameName
  <2>2. QED BY <2>1, MovedBy
<1>7. CASE MvMove(s) \/ MvRename(s)
  <2>1. Finish(s, "ok") \/ Finish(s, "fail") BY <1>7, Zenon DEF MvMove, MvRename, Update
  <2>2. QED BY <2>1, MovedBy
<1>8. CASE CdIsDir(s) \/ CdSamePwd(s) \/ CdSetPwd(s) \/ GetPwd(s)
  BY <1>8, MovedBy DEF CdIsDir, CdSamePwd, CdSetPwd, GetPwd
<1>9. CASE Cache(s) \/ Enter(s)
  BY <1>9, MovedBy DEF Cache, Enter
<1>10. QED
  BY <1>1, <1>2, <1>3, <1>4, <1>5, <1>6, <1>7, <1>8, <1>9 DEF Step

LEMMA FatherMoves ==
    ASSUME NEW s \in Sessions, Step(s)
    PROVE  \/ UNCHANGED father
           \/ father' = [father EXCEPT ![s] = Null]
           \/ father' = [father EXCEPT ![s] = reg[s].cur]
<1>1. Leave(s) \/ Cache(s) \/ Enter(s) =>
         \/ UNCHANGED father
         \/ father' = [father EXCEPT ![s] = Null] \/ father' = [father EXCEPT ![s] = reg[s].cur]
  BY DEF Leave, Cache, Enter
<1>2. Login(s) \/ CmdAnalyse(s) \/ GetNextFileId(s) \/ CheckNames(s) \/ InsertDir(s) => UNCHANGED father
  BY Zenon DEF Login, CmdAnalyse, GetNextFileId, CheckNames, InsertDir
<1>3. RmFound(s) \/ RmType(s) \/ RmDelete(s) \/ RmList(s) \/ MvSource(s) => UNCHANGED father
  BY Zenon DEF RmFound, RmType, RmDelete, RmList, MvSource
<1>4. MvTarget(s) \/ MvSameName(s) \/ MvMove(s) \/ MvRename(s) \/ CdIsDir(s) => UNCHANGED father
  BY Zenon DEF MvTarget, MvSameName, MvMove, MvRename, CdIsDir
<1>5. CdSamePwd(s) \/ CdSetPwd(s) \/ GetPwd(s) \/ Present(s) \/ Store(s) => UNCHANGED father
  BY Zenon DEF CdSamePwd, CdSetPwd, GetPwd, Present, Store
<1>6. QED BY <1>1, <1>2, <1>3, <1>4, <1>5 DEF Step

\* Only the session that takes the step has its steps, locals and father id changed.
LEMMA OthersStay ==
    ASSUME IInv, NEW s \in Sessions, Step(s), NEW v \in Sessions, v # s
    PROVE  todo'[v] = todo[v] /\ reg'[v] = reg[v] /\ father'[v] = father[v]
<1>1. v \in DOMAIN todo /\ v \in DOMAIN reg /\ v \in DOMAIN father
  BY DEF IInv, Steps, LocalsClean, FathersClean
<1>2. todo'[v] = todo[v] /\ reg'[v] = reg[v]
  <2>1. CASE Leave(s) BY <2>1 DEF Leave
  <2>2. CASE Moved(s) BY <1>1, <2>2 DEF Moved
  <2>3. QED BY <2>1, <2>2, StepMoves
<1>3. father'[v] = father[v] BY <1>1, FatherMoves
<1>4. QED BY <1>2, <1>3

LEMMA StepUnique ==
    ASSUME Tidy, UInv, NEW s \in Sessions, Step(s)
    PROVE  UInv'
<1> DEFINE w == UserOf(s)
<1>1. IInv /\ w \in Users /\ Apart(w) /\ pwd[w] \in Seq(Sure) /\ Knows(w, todo[s], reg[s])
  BY CommandsAssumption DEF UInv
<1>2. IInv' BY <1>1, RowsKept, FathersKept, SessionKept DEF IInv
<1>3. ASSUME NEW u, u # w \/ ~Writes(s)
      PROVE  SameRows(u)
  <2>1. CASE Writes(s) BY <1>1, <1>3, <2>1, WritesOwn, RowsOfSame
  <2>2. CASE ~Writes(s) BY <1>1, <2>2, OthersKeepRows, UnchangedSame
  <2>3. QED BY <2>1, <2>2
<1>4. ASSUME NEW u
      PROVE  Apart(u)'
  <2>1. CASE u = w /\ Writes(s)
    <3>1. Apart(w)' BY <1>1, <2>1, WritesApart
    <3>2. QED BY <2>1, <3>1 DEF Apart, Mine
  <2>2. CASE u # w \/ ~Writes(s) BY <1>3, <2>2, ApartKept DEF UInv
  <2>3. QED BY <2>1, <2>2
<1>5. /\ pwd' = [u \in Users |-> pwd'[u]]
      /\ \A u \in Users : pwd'[u] \in Seq(Sure)
  BY PwdSure
<1>6. ASSUME NEW v \in Sessions, NEW t, NEW r, t = todo'[v], r = reg'[v]
      PROVE  Knows(UserOf(v), t, r)'
  <2> DEFINE u == UserOf(v)
  <2>1. CASE v = s /\ Writes(s) BY <1>1, <1>6, <2>1, WritesKnow DEF Knows
  <2>2. CASE v = s /\ ~Writes(s)
    <3>1. Knows(u, t, r) BY <1>1, <1>6, <2>2, KnowsSteps
    <3>2. SameRows(u) BY <1>3, <2>2
    <3>3. QED BY <3>1, <3>2, KnowsKept
  <2>3. CASE v # s
    <3>1. u # w BY <2>3 DEF Tidy, Serial
    <3>2. SameRows(u) BY <1>3, <3>1
    <3>3. t = todo[v] /\ r = reg[v] BY <1>1, <1>6, <2>3, OthersStay
    <3>4. Knows(u, t, r) BY <3>3 DEF UInv
    <3>5. QED BY <3>2, <3>4, KnowsKept
  <2>4. QED BY <2>1, <2>2, <2>3
<1>7. Sure' = Sure BY DEF Sure, Uploaded
<1>8. QED BY <1>2, <1>4, <1>5, <1>6, <1>7 DEF UInv

LEMMA UniqueInductive ==
    ASSUME Tidy, UInv, [Next]_vars
    PROVE  UInv'
<1>1. CASE Next BY <1>1, StepUnique DEF Next
<1>2. CASE UNCHANGED vars
  <2>1. IInv' BY Inductive DEF UInv
  <2>2. UNCHANGED <<rows, pwd, todo, reg>> BY <1>2 DEF vars, session
  <2>3. \A u : SameRows(u) BY <2>2, UnchangedSame
  <2>4. \A u : Apart(u)' BY <2>3, ApartKept DEF UInv
  <2>5. ASSUME NEW v \in Sessions, NEW t, NEW r, t = todo'[v], r = reg'[v]
        PROVE  Knows(UserOf(v), t, r)'
    <3>1. Knows(UserOf(v), t, r) BY <2>2, <2>5 DEF UInv
    <3>2. QED BY <2>3, <3>1, KnowsKept
  <2>6. Sure' = Sure BY DEF Sure, Uploaded
  <2>7. QED BY <2>1, <2>2, <2>4, <2>5, <2>6 DEF UInv
<1>3. QED BY <1>1, <1>2

LEMMA UniqueInit ==
    ASSUME Tidy, Init
    PROVE  UInv
<1>1. IInv BY Initially
<1>2. DOMAIN rows = DOMAIN InitRows /\ \A i \in DOMAIN rows : rows[i] = InitRows[i] BY DEF Init
<1>3. \A u : Apart(u) BY <1>2 DEF Tidy, Apart, Mine
<1>4. \A u \in Users : <<Home(u)>> \in Seq(Sure) BY DEF Tidy
<1>5. \A s \in Sessions : todo[s] = <<>> BY DEF Init
<1>6. QED BY <1>1, <1>3, <1>4, <1>5, KnowsNothing DEF UInv, Init

\* mkdir and mv give no name twice: they look for the name in one statement and write in
\* a later one, and with one session to a user nothing comes between; what the walks of mv
\* find along the two paths is still there when the new name is set, for
\* any tree and any sequence of tidy commands of any number of users.
THEOREM SiblingNamesUnique ==
    ASSUME Tidy
    PROVE  Spec => []SiblingsUnique
<1>1. Init => UInv BY UniqueInit
<1>2. UInv /\ [Next]_vars => UInv' BY UniqueInductive
<1>3. UInv => SiblingsUnique BY SiblingsApart DEF UInv
<1>4. QED BY <1>1, <1>2, <1>3, PTL DEF Spec

-----------------------------------------------------------------------------
(***************************************************************************)
(* Ways of rows: what a walk finds and what has to be there for it.        *)
(***************************************************************************)
\* The names of home directories, and those cd goes through.
Visited ==
    {n \in Names : \/ \E u \in Users : n = Home(u)
                   \/ \E s \in Sessions : \E c \in Commands(s) :
                         c.cmd = "cd" /\ \E i \in DOMAIN c.src.parts : c.src.parts[i] = n}

\* The rows f of user u lead along path p, from the root.
Trail(u, p, f) ==
    /\ f[0] = 0
    /\ \A n \in 1..Len(p) : f[n] \in Mine(u) /\ rows[f[n]].name = p[n] /\ rows[f[n]].father = f[n - 1]

\* The root, or a directory of u.
Parent(u, k) == k = 0 \/ (k \in Mine(u) /\ rows[k].type = "d")

\* Such rows lead along p to id k; and to a directory.
FirmTo(u, p, k) == p \in Seq(Visited) /\ \E f : Trail(u, p, f) /\ f[Len(p)] = k
Firm(u, p)      == \E k : FirmTo(u, p, k) /\ Parent(u, k)

\* The rows of u on such ways.
Held(u) == {k \in Mine(u) : \E p \in Seq(Visited) : FirmTo(u, p, k)}

LEMMA FirmRoot ==
    ASSUME NEW u
    PROVE  \A k : FirmTo(u, <<>>, k) <=> k = 0
<1>1. <<>> \in Seq(Visited) /\ Len(<<>>) = 0 BY EmptySeq
<1>2. Trail(u, <<>>, [n \in {0} |-> 0]) /\ [n \in {0} |-> 0][0] = 0 BY <1>1 DEF Trail
<1>3. QED BY <1>1, <1>2 DEF FirmTo, Trail

\* One component more.
LEMMA FirmMore ==
    ASSUME NEW u, NEW p \in Seq(Visited), NEW c \in Visited, NEW k
    PROVE  FirmTo(u, Append(p, c), k) <=>
              k \in Mine(u) /\ rows[k].name = c /\ FirmTo(u, p, rows[k].father)
<1> DEFINE q == Append(p, c)  N == Len(p)
<1>1. q \in Seq(Visited) /\ Len(q) = N + 1 /\ q[N + 1] = c /\ \A n \in 1..N : q[n] = p[n]
  BY AppendProperties
<1>2. N \in Nat BY LenProperties
<1>3. ASSUME FirmTo(u, q, k)
      PROVE  k \in Mine(u) /\ rows[k].name = c /\ FirmTo(u, p, rows[k].father)
  <2> HIDE DEF q
  <2>1. PICK f : Trail(u, q, f) /\ f[N + 1] = k BY <1>1, <1>3 DEF FirmTo
  <2>2. N + 1 \in 1..Len(q) /\ (N + 1) - 1 = N /\ \A n \in 1..N : n \in 1..Len(q) BY <1>1, <1>2
  <2>3. k \in Mine(u) /\ rows[k].name = c /\ rows[k].father = f[N]
    BY <1>1, <2>1, <2>2 DEF Trail
  <2>4. Trail(u, p, f) BY <1>1, <2>1, <2>2 DEF Trail
  <2>5. QED BY <2>3, <2>4 DEF FirmTo
<1>4. ASSUME k \in Mine(u), rows[k].name = c, FirmTo(u, p, rows[k].father)
      PROVE  FirmTo(u, q, k)
  <2>1. PICK f : Trail(u, p, f) /\ f[N] = rows[k].father BY <1>4 DEF FirmTo
  <2> DEFINE g == [n \in 0..(N + 1) |-> IF n = N + 1 THEN k ELSE f[n]]
  <2>2. g[0] = 0 /\ g[N + 1] = k /\ \A n \in 0..N : g[n] = f[n] BY <1>2, <2>1 DEF Trail
  <2> HIDE DEF g, q
  <2>3. ASSUME NEW n \in 1..(N + 1)
        PROVE  g[n] \in Mine(u) /\ rows[g[n]].name = q[n] /\ rows[g[n]].father = g[n - 1]
    <3>1. CASE n = N + 1
      <4>1. n - 1 = N /\ N \in 0..N BY <1>2, <3>1
      <4>2. QED BY <1>1, <1>4, <2>1, <2>2, <3>1, <4>1
    <3>2. CASE n \in 1..N
      <4>1. n \in 0..N /\ n - 1 \in 0..N BY <1>2, <3>2
      <4>2. QED BY <1>1, <2>1, <2>2, <3>2, <4>1 DEF Trail
    <3>3. QED BY <1>2, <3>1, <3>2
  <2>4. Trail(u, q, g) BY <1>1, <2>2, <2>3 DEF Trail
  <2>5. QED BY <1>1, <2>2, <2>4 DEF FirmTo
<1>5. QED BY <1>3, <1>4

\* FirmRoot and FirmMore, in every state.
FirmGrows ==
    /\ \A w : \A k : FirmTo(w, <<>>, k) <=> k = 0
    /\ \A w : \A q \in Seq(Visited) : \A c \in Visited : \A k :
          FirmTo(w, Append(q, c), k) <=>
             k \in Mine(w) /\ rows[k].name = c /\ FirmTo(w, q, rows[k].father)

LEMMA FirmSteps == FirmGrows
BY FirmRoot, FirmMore DEF FirmGrows

\* The rows on such ways have visited names and hang below the root or another one.
LEMMA HeldIs ==
    ASSUME RowsClean, NEW u, NEW k \in Held(u)
    PROVE  rows[k].name \in Visited /\ (rows[k].father = 0 \/ rows[k].father \in Held(u))
<1>1. k \in Mine(u) /\ k # 0 BY DEF Held, Mine, RowsClean
<1>2. PICK q \in Seq(Visited) : FirmTo(u, q, k) BY DEF Held
<1>3. q # <<>> BY <1>1, <1>2, FirmRoot
<1>4. PICK p \in Seq(Visited), c \in Visited : q = Append(p, c) BY <1>3, SequenceEmptyOrAppend
<1>5. rows[k].name = c /\ FirmTo(u, p, rows[k].father)
  <2>1. FirmTo(u, Append(p, c), k) BY <1>2, <1>4
  <2>2. k \in Mine(u) /\ rows[k].name = c /\ FirmTo(u, p, rows[k].father) BY <2>1, FirmMore
  <2>3. QED BY <2>2
<1>6. CASE p = <<>> BY <1>5, <1>6, FirmRoot
<1>7. CASE p # <<>>
  <2>1. PICK r \in Seq(Visited), d \in Visited : p = Append(r, d) BY <1>7, SequenceEmptyOrAppend
  <2>2. PICK f : f = rows[k].father OBVIOUS
  <2>3. f \in Mine(u) BY <1>5, <2>1, <2>2, FirmMore
  <2>4. QED BY <1>5, <2>2, <2>3 DEF Held
<1>8. QED BY <1>5, <1>6, <1>7

\* What is on a firm way is the root or an entry.
LEMMA FirmEnd ==
    ASSUME NEW u, NEW p, NEW k, FirmTo(u, p, k)
    PROVE  p \in Seq(Visited) /\ (k = 0 \/ k \in Held(u))
<1>1. p \in Seq(Visited) BY DEF FirmTo
<1>2. CASE p = <<>> BY <1>2, FirmRoot
<1>3. CASE p # <<>>
  <2>1. PICK r \in Seq(Visited), d \in Visited : p = Append(r, d) BY <1>1, <1>3, SequenceEmptyOrAppend
  <2>2. k \in Mine(u) BY <2>1, FirmMore
  <2>3. QED BY <1>1, <2>2 DEF Held
<1>4. QED BY <1>1, <1>2, <1>3

\* A firm way is the only one along its path, if names are unique.
LEMMA FirmId ==
    ASSUME NEW u, Apart(u), Visited \subseteq Sure, NEW p, NEW k, FirmTo(u, p, k)
    PROVE  FileId(u, p) = {k}
<1> DEFINE A == {q \in Seq(Visited) : \A i : FirmTo(u, q, i) => FileId(u, q) = {i}}
<1>1. <<>> \in A BY FirmRoot, FileIdRoot, EmptySeq
<1>2. ASSUME NEW q \in Seq(Visited), NEW c \in Visited, q \in A
      PROVE  Append(q, c) \in A
  <2>1. SUFFICES ASSUME NEW i, FirmTo(u, Append(q, c), i) PROVE FileId(u, Append(q, c)) = {i}
    BY AppendProperties
  <2>2. i \in Mine(u) /\ rows[i].name = c /\ FirmTo(u, q, rows[i].father) BY <2>1, FirmMore
  <2>3. PICK f : f = rows[i].father OBVIOUS
  <2>4. FileId(u, q) = {f} BY <1>2, <2>2, <2>3
  <2>5. FileId(u, Append(q, c)) = NextFileId(u, f, c)
    <3>1. FileId(u, Append(q, c)) = Onward(u, {f}, c) BY <2>4, FileIdMore
    <3>2. QED BY <3>1, OnwardOne
  <2>6. c \in Names /\ ~Uploaded(c) /\ c # "." /\ c # ".." BY DownwardIs DEF Sure
  <2> DEFINE found == {j \in DOMAIN rows : rows[j].father = f /\ rows[j].name = c /\ rows[j].user = u}
  <2>7. NextFileId(u, f, c) = IF found = {} THEN {-1} ELSE found BY <2>6 DEF NextFileId
  <2>8. i \in found /\ \A j \in found : j = i BY <2>2, <2>3, <2>6 DEF Apart, Mine
  <2> HIDE DEF found
  <2>9. QED BY <2>5, <2>7, <2>8
<1> HIDE DEF A
<1>3. Seq(Visited) \subseteq A BY <1>1, <1>2, SeqUpTo
<1>4. QED BY <1>3 DEF A, FirmTo

\* No entry is below a directory that was not there.
NoOrphans == \A i \in DOMAIN rows : rows[i].father # -1

\* Then what a walk finds has a firm way.
LEMMA FoundFirm ==
    ASSUME RowsClean, NoOrphans, NEW u, NEW p \in Seq(Visited), NEW k \in FileId(u, p), k # -1
    PROVE  FirmTo(u, p, k)
<1> DEFINE A == {q \in Seq(Visited) : \A i \in FileId(u, q) : i # -1 => FirmTo(u, q, i)}
<1>1. <<>> \in A BY FirmRoot, FileIdRoot, EmptySeq
<1>2. ASSUME NEW q \in Seq(Visited), NEW c \in Visited, q \in A
      PROVE  Append(q, c) \in A
  <2>1. SUFFICES ASSUME NEW i \in FileId(u, Append(q, c)), i # -1 PROVE FirmTo(u, Append(q, c), i)
    BY AppendProperties
  <2>2. Visited \subseteq Names BY DEF Visited
  <2>3. q \in Seq(Downward) /\ c \in Names
    <3>1. q \in Seq(Names) BY <2>2, SeqMonotonic
    <3>2. QED BY <2>2, <3>1, SureIs
  <2>4. i \in Mine(u) /\ rows[i].name = c /\ rows[i].father \in FileId(u, q) BY <2>1, <2>3, LedTo
  <2>5. PICK f : f = rows[i].father OBVIOUS
  <2>6. f # -1 BY <2>4, <2>5 DEF NoOrphans, Mine
  <2>7. FirmTo(u, q, f) BY <1>2, <2>4, <2>5, <2>6
  <2>8. QED BY <2>4, <2>5, <2>7, FirmMore
<1> HIDE DEF A
<1>3. Seq(Visited) \subseteq A BY <1>1, <1>2, SeqUpTo
<1>4. QED BY <1>3 DEF A

\* Without "." and ".." a path is what it is.
LEMMA NormalSame ==
    ASSUME NEW p \in Seq(Names)
    PROVE  Normal(p) = p
<1> DEFINE A == {q \in Seq(Names) : Normal(q) = q}
<1>1. <<>> \in A BY NormalRoot, EmptySeq
<1>2. ASSUME NEW q \in Seq(Names), NEW c \in Names, q \in A
      PROVE  Append(q, c) \in A
  <2>1. q \in Seq(Components) /\ c \in Components
    <3>1. Names \subseteq Components BY DEF Components
    <3>2. QED BY <3>1, SeqMonotonic
  <2>2. Normal(Append(q, c)) = After(Normal(q), c) BY <2>1, NormalMore
  <2>3. After(q, c) = Append(q, c) BY DownwardIs DEF After
  <2>4. QED BY <1>2, <2>2, <2>3, AppendProperties
<1> HIDE DEF A
<1>3. Seq(Names) \subseteq A BY <1>1, <1>2, SeqUpTo
<1>4. QED BY <1>3 DEF A

\* A firm way stays as long as its rows do.
LEMMA FirmKept ==
    ASSUME NEW u, \A k \in Held(u) : k \in Mine(u)' /\ rows'[k] = rows[k]
    PROVE  /\ \A p, k : FirmTo(u, p, k) => FirmTo(u, p, k)'
           /\ \A p : Firm(u, p) => Firm(u, p)'
           /\ Held(u) \subseteq Held(u)'
<1> DEFINE A == {q \in Seq(Visited) : \A i : FirmTo(u, q, i) => FirmTo(u, q, i)'}
<1>1. FirmGrows /\ FirmGrows' BY FirmSteps, PTL
<1>2. Visited' = Visited BY DEF Visited
<1>3. <<>> \in A BY <1>1, EmptySeq DEF FirmGrows
<1>4. ASSUME NEW q \in Seq(Visited), NEW c \in Visited, q \in A
      PROVE  Append(q, c) \in A
  <2>1. SUFFICES ASSUME NEW i, FirmTo(u, Append(q, c), i) PROVE FirmTo(u, Append(q, c), i)'
    BY AppendProperties
  <2>2. i \in Mine(u) /\ rows[i].name = c /\ FirmTo(u, q, rows[i].father) BY <1>1, <2>1 DEF FirmGrows
  <2>3. i \in Held(u)
    <3>1. Append(q, c) \in Seq(Visited) BY AppendProperties
    <3>2. QED BY <2>1, <2>2, <3>1 DEF Held
  <2>4. i \in Mine(u)' /\ rows'[i] = rows[i] BY <2>3
  <2>5. PICK f : f = rows[i].father OBVIOUS
  <2>6. FirmTo(u, q, f)' BY <1>4, <2>2, <2>5
  <2>7. FirmTo(u, q, rows[i].father)' BY <2>4, <2>5, <2>6
  <2>8. QED BY <1>1, <1>2, <2>2, <2>4, <2>7 DEF FirmGrows
<1> HIDE DEF A
<1>5. Seq(Visited) \subseteq A BY <1>3, <1>4, SeqUpTo
<1>6. \A p, k : FirmTo(u, p, k) => FirmTo(u, p, k)' BY <1>5 DEF A, FirmTo
<1>7. Held(u) \subseteq Held(u)' BY <1>2, <1>6 DEF Held
<1>8. ASSUME NEW p, Firm(u, p)
      PROVE  Firm(u, p)'
  <2>1. PICK k : FirmTo(u, p, k) /\ Parent(u, k) BY <1>8 DEF Firm
  <2>2. k = 0 \/ k \in Held(u) BY <2>1, FirmEnd
  <2>3. Parent(u, k)' BY <2>1, <2>2 DEF Parent
  <2>4. QED BY <1>6, <2>1, <2>3 DEF Firm
<1>9. QED BY <1>6, <1>7, <1>8

\* Where rows only go, no way is new.
LEMMA FirmShrinks ==
    ASSUME NEW u, \A k \in Mine(u)' : k \in Mine(u) /\ rows'[k] = rows[k]
    PROVE  /\ \A p, k : FirmTo(u, p, k)' => FirmTo(u, p, k)
           /\ Held(u)' \subseteq Held(u)
<1> DEFINE A == {q \in Seq(Visited) : \A i : FirmTo(u, q, i)' => FirmTo(u, q, i)}
<1>1. FirmGrows /\ FirmGrows' BY FirmSteps, PTL
<1>2. Visited' = Visited BY DEF Visited
<1>3. <<>> \in A BY <1>1, EmptySeq DEF FirmGrows
<1>4. ASSUME NEW q \in Seq(Visited), NEW c \in Visited, q \in A
      PROVE  Append(q, c) \in A
  <2>1. SUFFICES ASSUME NEW i, FirmTo(u, Append(q, c), i)' PROVE FirmTo(u, Append(q, c), i)
    BY AppendProperties
  <2>2. i \in Mine(u)' /\ rows'[i].name = c /\ FirmTo(u, q, rows[i].father)'
    BY <1>1, <1>2, <2>1 DEF FirmGrows
  <2>3. i \in Mine(u) /\ rows'[i] = rows[i] BY <2>2
  <2>4. PICK f : f = rows[i].father OBVIOUS
  <2>5. FirmTo(u, q, f)' BY <2>2, <2>3, <2>4
  <2>6. FirmTo(u, q, f) BY <1>4, <2>5
  <2>7. QED BY <2>2, <2>3, <2>4, <2>6, FirmMore
<1> HIDE DEF A
<1>5. Seq(Visited) \subseteq A BY <1>3, <1>4, SeqUpTo
<1>6. \A p, k : FirmTo(u, p, k)' => FirmTo(u, p, k) BY <1>2, <1>5 DEF A, FirmTo
<1>7. Held(u)' \subseteq Held(u) BY <1>2, <1>6 DEF Held
<1>8. QED BY <1>6, <1>7

LEMMA FirmSame ==
    ASSUME NEW u, SameRows(u)
    PROVE  /\ \A p, k : FirmTo(u, p, k)' <=> FirmTo(u, p, k)
           /\ \A k : Parent(u, k)' <=> Parent(u, k)
           /\ \A p : Firm(u, p)' <=> Firm(u, p)
           /\ Held(u)' = Held(u)
<1>1. \A k \in Held(u) : k \in Mine(u)' /\ rows'[k] = rows[k] BY DEF Held, SameRows
<1>2. \A k \in Mine(u)' : k \in Mine(u) /\ rows'[k] = rows[k] BY DEF SameRows
<1>3. \A p, k : FirmTo(u, p, k) => FirmTo(u, p, k)' BY <1>1, FirmKept
<1>4. \A p, k : FirmTo(u, p, k)' => FirmTo(u, p, k) BY <1>2, FirmShrinks
<1>5. Held(u) \subseteq Held(u)' BY <1>1, FirmKept
<1>6. Held(u)' \subseteq Held(u) BY <1>2, FirmShrinks
<1>7. \A k : Parent(u, k)' <=> Parent(u, k) BY DEF Parent, SameRows
<1>8. \A p : Firm(u, p)' <=> Firm(u, p) BY <1>3, <1>4, <1>7 DEF Firm
<1>9. QED BY <1>3, <1>4, <1>5, <1>6, <1>7, <1>8

-----------------------------------------------------------------------------
(***************************************************************************)
(* What a session is about that keeps the working directories.             *)
(***************************************************************************)
\* An entry by whose name no directory is visited, and the walk to it.
Spared(u, k)  == k = -1 \/ (k \in Mine(u) /\ rows[k].name \notin Visited)
Sparing(u, r) == \/ r.path = <<>> /\ Spared(u, r.cur)
                 \/ /\ r.path \in Seq(Components) /\ r.path # <<>>
                    /\ Last(r.path) \in Names \ Visited

\* The ids that are not on a firm way.
Loose(u) == (Int \cup {Null}) \ Held(u)

\* The directory of a new name is there.
Landing(u, r) == Normal(r.dst) # <<>> => Firm(u, Up(r))

PwdErrand(u, t, r, p) ==
    \/ t = <<"getpwd", "cache">> \/ t = <<"getpwd", "enter">>
    \/ (t = <<"cache">> \/ t = <<"enter">>) /\ OnWay(u, r, p)

MakeErrand(u, t, r) ==
    \/ /\ t = <<"names", "insert">>
       /\ \E q, p \in Seq(Downward) : OnWay(u, r, q) /\ Firm(u, p) /\ Normal(q) = Normal(p)
    \/ t = <<"insert">> /\ r.path = <<>> /\ Parent(u, r.cur)
    \/ t = <<"present", "store">> \/ t = <<"store">>

RmErrand(u, t, r) ==
    \/ t = <<"found", "remove">> /\ Sparing(u, r)
    \/ /\ r.work \in Seq(SUBSET Loose(u))
       /\ \/ t = <<"remove">>
          \/ /\ t = <<"delete", "remove">> \/ t = <<"delete", "list", "remove">>
             /\ r.dir \in Loose(u) /\ r.dir # 0
             /\ t = <<"delete", "remove">> => ~Parent(u, r.dir)
          \/ t = <<"list", "remove">> /\ r.dir \in Loose(u) /\ r.dir # 0

MvErrand(u, t, r) ==
    \/ t = <<"source", "target">> /\ Sparing(u, r) /\ Landing(u, r)
    \/ t = <<"target">> /\ Spared(u, r.id) /\ Landing(u, r)
    \/ (t = <<"samename", "move">> \/ t = <<"move">>) /\ Spared(u, r.id) /\ Parent(u, r.dir)
    \/ t = <<"rename">> /\ Spared(u, r.id) /\ Firm(u, Up(r))

CdErrand(u, t, r) ==
    \/ /\ t = <<"isdir", "samepwd", "setpwd", "getpwd", "cache">>
       /\ r.dst \in Seq(Visited) /\ OnWay(u, r, r.dst)
    \/ /\ \/ t = <<"samepwd", "setpwd", "getpwd", "cache">>
          \/ t = <<"setpwd", "getpwd", "cache">>
       /\ Firm(u, r.dst)

\* With the steps t left, the locals r and the working directory p.
Errand(u, t, r, p) ==
    \/ t = <<>>
    \/ PwdErrand(u, t, r, p) \/ MakeErrand(u, t, r) \/ RmErrand(u, t, r)
    \/ MvErrand(u, t, r) \/ CdErrand(u, t, r)

\* Unless it is about to be set again, the father id f is that of the working directory.
Fathered(u, t, p, f) ==
    f # Null /\ t # <<"getpwd", "cache">> /\ t # <<"cache">> => FirmTo(u, p, f)

\* All of this does not change with other users' rows.
LEMMA ErrandKept ==
    ASSUME NEW u, SameRows(u), NEW t, NEW r, NEW p, Errand(u, t, r, p)
    PROVE  Errand(u, t, r, p)'
<1>1. /\ \A q : Firm(u, q)' <=> Firm(u, q)
      /\ \A k : Parent(u, k)' <=> Parent(u, k)
      /\ Loose(u)' = Loose(u)
      /\ \A q : OnWay(u, r, q) => OnWay(u, r, q)'
      /\ Mine(u)' = Mine(u)
  BY FirmSame, OnWayKept DEF Loose, SameRows
<1>2. Visited' = Visited /\ Downward' = Downward BY DEF Visited, Downward
<1>3. \A k : Spared(u, k) => Spared(u, k)' BY <1>2 DEF Spared, SameRows
<1>4. Sparing(u, r) => Sparing(u, r)'
  <2>1. PICK k : k = r.cur OBVIOUS
  <2>2. Spared(u, k) => Spared(u, k)' BY <1>3
  <2>3. Spared(u, r.cur) => Spared(u, r.cur)' BY <2>1, <2>2
  <2>4. QED BY <1>2, <2>3 DEF Sparing
<1>5. Spared(u, r.id) => Spared(u, r.id)'
  <2>1. PICK k : k = r.id OBVIOUS
  <2>2. Spared(u, k) => Spared(u, k)' BY <1>3
  <2>3. QED BY <2>1, <2>2
<1>6. Landing(u, r) => Landing(u, r)' BY <1>1 DEF Landing, Up
<1>7. CASE PwdErrand(u, t, r, p) BY <1>1, <1>7 DEF Errand, PwdErrand
<1>8. CASE MakeErrand(u, t, r)
  <2>1. MakeErrand(u, t, r)' BY <1>1, <1>2, <1>8 DEF MakeErrand
  <2>2. QED BY <2>1 DEF Errand
<1>9. CASE RmErrand(u, t, r)
  <2>1. RmErrand(u, t, r)' BY <1>1, <1>4, <1>9 DEF RmErrand
  <2>2. QED BY <2>1 DEF Errand
<1>10. CASE MvErrand(u, t, r)
  <2>1. MvErrand(u, t, r)' BY <1>1, <1>4, <1>5, <1>6, <1>10 DEF MvErrand, Up
  <2>2. QED BY <2>1 DEF Errand
<1>11. CASE CdErrand(u, t, r)
  <2>1. CdErrand(u, t, r)' BY <1>1, <1>2, <1>11 DEF CdErrand
  <2>2. QED BY <2>1 DEF Errand
<1>12. CASE t = <<>> BY <1>12 DEF Errand
<1>13. QED BY <1>7, <1>8, <1>9, <1>10, <1>11, <1>12 DEF Errand

\* By the next step.
LEMMA ErrandNow ==
    ASSUME NEW u, NEW t, t # <<>>, NEW r, NEW p, Errand(u, t, r, p)
    PROVE  /\ Head(t) \in {"getpwd", "cache", "enter"} => PwdErrand(u, t, r, p)
           /\ Head(t) \in {"names", "insert", "present", "store"} => MakeErrand(u, t, r)
           /\ Head(t) \in {"found", "remove", "delete", "list"} => RmErrand(u, t, r)
           /\ Head(t) \in {"source", "target", "samename", "move", "rename"} => MvErrand(u, t, r)
           /\ Head(t) \in {"isdir", "samepwd", "setpwd"} => CdErrand(u, t, r)
<1>1. CASE PwdErrand(u, t, r, p)
  <2>1. Head(t) \in {"getpwd", "cache", "enter"} BY <1>1 DEF PwdErrand
  <2>2. QED BY <1>1, <2>1
<1>2. CASE MakeErrand(u, t, r)
  <2>1. Head(t) \in {"names", "insert", "present", "store"} BY <1>2 DEF MakeErrand
  <2>2. QED BY <1>2, <2>1
<1>3. CASE RmErrand(u, t, r)
  <2>1. Head(t) \in {"found", "remove", "delete", "list"} BY <1>3 DEF RmErrand
  <2>2. QED BY <1>3, <2>1
<1>4. CASE MvErrand(u, t, r)
  <2>1. Head(t) \in {"source", "target", "samename", "move", "rename"} BY <1>4 DEF MvErrand
  <2>2. QED BY <1>4, <2>1
<1>5. CASE CdErrand(u, t, r)
  <2>1. Head(t) \in {"isdir", "samepwd", "setpwd"} BY <1>5 DEF CdErrand
  <2>2. QED BY <1>5, <2>1
<1>6. QED BY <1>1, <1>2, <1>3, <1>4, <1>5 DEF Errand

\* What r keeps when it only walks on.
LEMMA SparingWalk ==
    ASSUME NEW u, NEW r, Sparing(u, r), r.path # <<>>,
           NEW q, q.path = Tail(r.path), q.cur \in NextFileId(u, r.cur, Head(r.path))
    PROVE  Sparing(u, q)
<1> DEFINE c == Head(r.path)  p == r.path
<1>1. p \in Seq(Components) /\ Last(p) \in Names \ Visited BY DEF Sparing
<1>2. /\ Len(p) \in Nat /\ Len(p) # 0
      /\ Len(Tail(p)) = Len(p) - 1 /\ Tail(p) \in Seq(Components)
  BY <1>1, LenProperties, EmptySeq, HeadTailProperties
<1>3. CASE Tail(p) = <<>>
  <2>1. Len(p) = 1
    <3>1. Len(Tail(p)) = 0 BY <1>3, EmptySeq
    <3>2. \A n \in Nat : n - 1 = 0 => n = 1 OBVIOUS
    <3>3. QED BY <1>2, <3>1, <3>2
  <2>2. c = Last(p) BY <2>1 DEF Last
  <2>3. c \in Names \ Visited /\ c # "." /\ c # ".." BY <1>1, <2>2, DownwardIs
  <2> DEFINE found == {k \in DOMAIN rows : rows[k].father = r.cur /\ rows[k].name = c
                                            /\ rows[k].user = u}
  <2>4. NextFileId(u, r.cur, c) = IF found = {} THEN {-1} ELSE found BY <2>3 DEF NextFileId
  <2>5. Spared(u, q.cur) BY <2>3, <2>4 DEF Spared, Mine
  <2>6. QED BY <1>3, <2>5 DEF Sparing
<1>4. CASE Tail(p) # <<>>
  <2>1. Len(p) - 1 # 0 BY <1>2, <1>4, EmptySeq
  <2>2. \A n \in Nat : n # 0 /\ n - 1 # 0 => n > 1 /\ n - 1 \in 1..(n - 1) /\ (n - 1) + 1 = n
    OBVIOUS
  <2>3. Tail(p)[Len(p) - 1] = p[Len(p)]
    <3>1. \A i \in 1..Len(Tail(p)) : Tail(p)[i] = p[i + 1] BY <1>1, HeadTailProperties
    <3>2. Len(p) - 1 \in 1..Len(Tail(p)) /\ (Len(p) - 1) + 1 = Len(p) BY <1>2, <2>1, <2>2
    <3>3. QED BY <3>1, <3>2
  <2>4. Last(Tail(p)) = Last(p) BY <1>2, <2>3 DEF Last
  <2>5. QED BY <1>1, <1>2, <1>4, <2>4 DEF Sparing
<1>5. QED BY <1>3, <1>4

LEMMA ErrandWalk ==
    ASSUME NEW u, NEW t, NEW r, NEW p, Errand(u, t, r, p), r.path # <<>>,
           NEW q, q.path = Tail(r.path), q.cur \in NextFileId(u, r.cur, Head(r.path)),
           q.src = r.src, q.dst = r.dst, q.id = r.id, q.dir = r.dir, q.work = r.work
    PROVE  Errand(u, t, q, p)
<1>1. \A x : OnWay(u, r, x) => OnWay(u, q, x) BY OnWayNext
<1>2. Sparing(u, r) => Sparing(u, q) BY SparingWalk
<1>3. Up(q) = Up(r) /\ (Landing(u, r) <=> Landing(u, q)) BY DEF Up, Landing
<1>4. CASE PwdErrand(u, t, r, p) BY <1>1, <1>4 DEF Errand, PwdErrand
<1>5. CASE MakeErrand(u, t, r) BY <1>1, <1>5 DEF Errand, MakeErrand
<1>6. CASE RmErrand(u, t, r) BY <1>2, <1>6 DEF Errand, RmErrand
<1>7. CASE MvErrand(u, t, r) BY <1>2, <1>3, <1>7 DEF Errand, MvErrand
<1>8. CASE CdErrand(u, t, r) BY <1>1, <1>8 DEF Errand, CdErrand
<1>9. CASE t = <<>> BY <1>9 DEF Errand
<1>10. QED BY <1>4, <1>5, <1>6, <1>7, <1>8, <1>9 DEF Errand

\* Nothing is left: nothing has to be known.
LEMMA ErrandNothing ==
    ASSUME NEW u, NEW r, NEW p
    PROVE  Errand(u, <<>>, r, p)
BY DEF Errand

-----------------------------------------------------------------------------
(***************************************************************************)
(* What a user does whose working directories are to stay.                 *)
(***************************************************************************)
\* rm and mv name no entry by a name that cd goes through; mkdir makes its directory in
\* the working directory or below a path from the root without "..", and mv gives a new
\* name in the working directory or on a path from the root.
SteadyCommand(c) ==
    /\ c.cmd \in {"rm", "mv"} => Last(c.src.parts) \in Names \ Visited
    /\ c.cmd = "mkdir" => \/ Len(c.src.parts) = 1
                          \/ c.src.abs /\ Front(c.src.parts) \in Seq(Downward)
    /\ c.cmd = "mv" /\ ~c.dst.abs => Len(c.dst.parts) = 1 /\ c.dst.parts[1] \in Names

Steady == Tidy /\ \A s \in Sessions : \A c \in Commands(s) : SteadyCommand(c)

\* The directories from which a user's commands start: the home directory, and
\* those the paths from the root put an entry into.
Needed(u, p) ==
    \E s \in Sessions :
        /\ UserOf(s) = u
        /\ \/ p = <<Home(u)>>
           \/ \E c \in Commands(s) :
                 \/ c.cmd = "mkdir" /\ Len(c.src.parts) # 1 /\ p = Normal(Front(c.src.parts))
                 \/ /\ c.cmd = "mv" /\ c.dst.abs
                    /\ Normal(c.dst.parts) # <<>> /\ p = Front(Normal(c.dst.parts))

\* They are there.
Settled == \A u, p : Needed(u, p) => Firm(u, p)

\* (The locals are named for the sake of the primes.)
WInv ==
    /\ UInv
    /\ Settled
    /\ NoOrphans
    /\ \A s \in Sessions : \A t, r, p, f :
          t = todo[s] /\ r = reg[s] /\ p = pwd[UserOf(s)] /\ f = father[s] =>
             Firm(UserOf(s), p) /\ Errand(UserOf(s), t, r, p) /\ Fathered(UserOf(s), t, p, f)

LEMMA VisitedSure ==
    ASSUME Tidy
    PROVE  Visited \subseteq Sure /\ Seq(Visited) \subseteq Seq(Downward)
<1>1. ASSUME NEW s \in Sessions, NEW c \in Commands(s), c.cmd = "cd",
             NEW i \in DOMAIN c.src.parts, c.src.parts[i] \in Names
      PROVE  c.src.parts[i] \in Sure
  <2>1. c.src.parts \in Seq(Sure \cup {".", ".."}) BY <1>1 DEF Tidy, TidyCommand
  <2>2. i \in 1..Len(c.src.parts) BY <2>1, LenProperties
  <2>3. c.src.parts[i] \in Sure \cup {".", ".."} BY <2>1, <2>2, ElementOfSeq
  <2>4. QED BY <1>1, <2>3, DownwardIs
<1>2. Visited \subseteq Sure BY <1>1 DEF Visited, Tidy
<1>3. Seq(Visited) \subseteq Seq(Sure) BY <1>2, SeqMonotonic
<1>4. QED BY <1>2, <1>3, SureIs

\* Where a firm way leads.
LEMMA FirmWhere ==
    ASSUME Tidy, UInv, NEW u, NEW p, Firm(u, p)
    PROVE  /\ p \in Seq(Visited) /\ p \in Seq(Downward)
           /\ \E k : /\ FirmTo(u, p, k) /\ FileId(u, p) = {k}
                    /\ k # -1 /\ (k = 0 \/ k \in Held(u)) /\ Parent(u, k)
<1>1. PICK k : FirmTo(u, p, k) /\ Parent(u, k) BY DEF Firm
<1>2. p \in Seq(Visited) /\ (k = 0 \/ k \in Held(u)) BY <1>1, FirmEnd
<1>3. FileId(u, p) = {k} BY <1>1, FirmId, VisitedSure DEF UInv
<1>4. k # -1 BY <1>2 DEF Held, Mine, UInv, IInv, RowsClean
<1>5. QED BY <1>1, <1>2, <1>3, <1>4, VisitedSure

\* What is known of a session now.
LEMMA WNow ==
    ASSUME WInv, NEW s \in Sessions
    PROVE  /\ UserOf(s) \in Users /\ Firm(UserOf(s), pwd[UserOf(s)])
           /\ Errand(UserOf(s), todo[s], reg[s], pwd[UserOf(s)])
           /\ Fathered(UserOf(s), todo[s], pwd[UserOf(s)], father[s])
           /\ Firm(UserOf(s), <<Home(UserOf(s))>>)
<1> DEFINE u == UserOf(s)
<1>1. u \in Users BY CommandsAssumption
<1>2. PICK t, r, p, f : t = todo[s] /\ r = reg[s] /\ p = pwd[u] /\ f = father[s] OBVIOUS
<1>3. Firm(u, p) /\ Errand(u, t, r, p) /\ Fathered(u, t, p, f) BY <1>2 DEF WInv
<1>4. Needed(u, <<Home(u)>>) BY DEF Needed
<1>5. Firm(u, <<Home(u)>>) BY <1>4 DEF WInv, Settled
<1>6. QED BY <1>1, <1>2, <1>3, <1>5

\* A path completed ends as it did.
LEMMA FullPathEnds ==
    ASSUME NEW u, pwd[u] \in Seq(Components), NEW p \in Paths
    PROVE  /\ FullPath(u, p) \in Seq(Components) /\ FullPath(u, p) # <<>>
           /\ Last(FullPath(u, p)) = Last(p.parts)
<1>1. p.parts \in Seq(Components) /\ p.parts # <<>> BY DEF Paths, Components
<1>2. CASE p.abs BY <1>1, <1>2 DEF FullPath
<1>3. CASE ~p.abs
  <2> DEFINE q == pwd[u] \o p.parts
  <2>1. FullPath(u, p) = q BY <1>3 DEF FullPath
  <2>2. PICK a \in Seq(Components), b \in Seq(Components) : a = pwd[u] /\ b = p.parts BY <1>1
  <2>3. Len(a) \in Nat /\ Len(b) \in Nat /\ Len(b) # 0 BY <1>1, <2>2, LenProperties, EmptySeq
  <2>4. a \o b \in Seq(Components) /\ Len(a \o b) = Len(a) + Len(b) BY ConcatProperties
  <2>5. Len(a) + Len(b) \in 1..(Len(a) + Len(b)) /\ (Len(a) + Len(b)) - Len(a) = Len(b)
        /\ Len(a) + Len(b) > Len(a)
    BY <2>3
  <2>6. (a \o b)[Len(a) + Len(b)] = b[Len(b)] BY <2>3, <2>5
  <2>7. a \o b # <<>> BY <2>3, <2>4, EmptySeq
  <2>8. Last(a \o b) = Last(b) BY <2>4, <2>6 DEF Last
  <2>9. QED BY <2>1, <2>2, <2>4, <2>7, <2>8
<1>4. QED BY <1>2, <1>3

\* A new directory's father is there.
LEMMA ErrandMkdir ==
    ASSUME Steady, WInv, NEW s \in Sessions, NEW c \in Commands(s), c.cmd = "mkdir",
           NEW r, DOMAIN r = Fields, NEW p
    PROVE  Errand(UserOf(s), <<"names", "insert">>, Walk(r, ParentPath(UserOf(s), c.src)), p)
<1> DEFINE u == UserOf(s)
<1>1. /\ Firm(u, pwd[u]) /\ pwd[u] \in Seq(Downward) BY WNow, FirmWhere DEF WInv, Steady
<1>2. SteadyCommand(c) /\ c.src \in Paths BY CommandsAssumption DEF Steady
<1>3. \E q, d \in Seq(Downward) : ParentPath(u, c.src) = q /\ Firm(u, d) /\ Normal(q) = Normal(d)
  <2>1. CASE Len(c.src.parts) = 1
    <3> DEFINE q == Append(pwd[u], ".")
    <3>1. ParentPath(u, c.src) = q
      <4>1. "." \in Downward BY DEF Downward
      <4>2. pwd[u] \o <<".">> = q BY <1>1, <4>1, AppendIsConcat
      <4>3. QED BY <2>1, <4>2 DEF ParentPath
    <3>2. q \in Seq(Downward) BY <1>1, AppendProperties DEF Downward
    <3>3. Normal(q) = Normal(pwd[u])
      <4>1. pwd[u] \in Seq(Components) /\ "." \in Components BY <1>1, DownwardIs, SeqMonotonic DEF Components
      <4>2. Normal(q) = After(Normal(pwd[u]), ".") BY <4>1, NormalMore
      <4>3. QED BY <4>2 DEF After
    <3>4. QED BY <1>1, <3>1, <3>2, <3>3
  <2>2. CASE Len(c.src.parts) # 1
    <3> DEFINE q == Front(c.src.parts)
    <3>1. c.src.abs /\ q \in Seq(Downward) BY <1>2, <2>2 DEF SteadyCommand
    <3>2. ParentPath(u, c.src) = q BY <1>2, <2>2, <3>1 DEF ParentPath, FullPath, Paths
    <3> HIDE DEF q
    <3>3. Needed(u, Normal(q)) BY <2>2 DEF Needed, q
    <3>4. Firm(u, Normal(q)) BY <3>3 DEF WInv, Settled
    <3>5. Normal(q) \in Seq(Names) /\ Normal(q) \in Seq(Downward) BY <3>1, NormalSure
    <3>6. Normal(Normal(q)) = Normal(q) BY <3>5, NormalSame
    <3>7. QED BY <3>1, <3>2, <3>4, <3>5, <3>6
  <2>3. QED BY <2>1, <2>2
<1>4. PICK q, d \in Seq(Downward) : ParentPath(u, c.src) = q /\ Firm(u, d) /\ Normal(q) = Normal(d)
  BY <1>3
<1>5. OnWay(u, Walk(r, q), q) BY <1>4, OnWayStart DEF Fields
<1>6. MakeErrand(u, <<"names", "insert">>, Walk(r, q)) BY <1>4, <1>5 DEF MakeErrand
<1>7. QED BY <1>4, <1>6 DEF Errand

\* Where a new name goes is there.
LEMMA LandingMv ==
    ASSUME Steady, WInv, NEW s \in Sessions, NEW c \in Commands(s), c.cmd = "mv",
           NEW r, r.dst = FullPath(UserOf(s), c.dst)
    PROVE  Landing(UserOf(s), r)
<1> DEFINE u == UserOf(s)
<1>1. /\ Firm(u, pwd[u]) /\ u \in Users BY WNow
<1>2. SteadyCommand(c) /\ c.dst \in Paths BY CommandsAssumption DEF Steady
<1>3. SUFFICES ASSUME Normal(r.dst) # <<>> PROVE Firm(u, Up(r)) BY DEF Landing
<1>4. CASE c.dst.abs
  <2>1. r.dst = c.dst.parts BY <1>4 DEF FullPath
  <2>2. Needed(u, Front(Normal(c.dst.parts))) BY <1>3, <1>4, <2>1 DEF Needed
  <2>3. QED BY <2>1, <2>2 DEF WInv, Settled, Up
<1>5. CASE ~c.dst.abs
  <2> DEFINE n == c.dst.parts[1]  q == Append(pwd[u], n)
  <2>1. Len(c.dst.parts) = 1 /\ n \in Names BY <1>2, <1>5 DEF SteadyCommand
  <2>2. c.dst.parts = <<n>> BY <1>2, <2>1 DEF Paths
  <2>3. r.dst = pwd[u] \o <<n>> BY <1>5, <2>2 DEF FullPath
  <2>4. pwd[u] \in Seq(Names)
    <3>1. pwd[u] \in Seq(Visited) /\ Visited \subseteq Names BY <1>1 DEF Firm, FirmTo, Visited
    <3>2. QED BY <3>1, SeqMonotonic
  <2> HIDE DEF n
  <2>5. r.dst = q /\ q \in Seq(Names) /\ q # <<>>
    BY <2>1, <2>3, <2>4, AppendIsConcat, AppendProperties
  <2>6. Normal(r.dst) = q BY <2>5, NormalSame
  <2>7. Front(q) = pwd[u]
    <3> DEFINE x == Front(q)  y == Last(q)
    <3>1. q = Append(x, y) /\ x \in Seq(Names) /\ y \in Names BY <2>5, FrontLast
    <3> HIDE DEF x, y
    <3>2. Append(pwd[u], n) = Append(x, y) BY <3>1
    <3>3. x = pwd[u] BY <2>1, <2>4, <3>1, <3>2, AppendInjective
    <3>4. QED BY <3>3 DEF x
  <2>8. QED BY <1>1, <2>6, <2>7 DEF Up
<1>6. QED BY <1>4, <1>5

LEMMA ErrandCommand ==
    ASSUME Steady, WInv, NEW s \in Sessions, NEW c \in Commands(s), Command(s, c), NEW p
    PROVE  Errand(UserOf(s), todo'[s], reg'[s], p)
<1> DEFINE u == UserOf(s)
           r == [NoReg EXCEPT !.cmd = c.cmd]
           src == FullPath(u, c.src)
           dst == FullPath(u, c.dst)
<1>1. \A q, steps : Begin(s, q, steps) => todo'[s] = steps /\ reg'[s] = q
  BY After1 DEF WInv, UInv
<1>2. /\ SteadyCommand(c) /\ c.cmd \in {"mkdir", "rm", "mv", "cd", "pwd", "upload"}
      /\ c.src \in Paths /\ c.dst \in Paths
  BY CommandsAssumption DEF Steady
<1>3. DOMAIN r = Fields BY DEF NoReg, Fields
<1>4. pwd[u] \in Seq(Visited) /\ pwd[u] \in Seq(Components)
  <2>1. pwd[u] \in Seq(Visited) BY WNow DEF Firm, FirmTo
  <2>2. Visited \subseteq Components BY DEF Visited, Components
  <2>3. QED BY <2>1, <2>2, SeqMonotonic
<1>5. src \in Seq(Components) /\ src # <<>> /\ Last(src) = Last(c.src.parts)
  BY <1>2, <1>4, FullPathEnds
<1>6. ASSUME c.cmd \in {"rm", "mv"}, NEW q, q.path = src
      PROVE  Sparing(u, q)
  BY <1>2, <1>5, <1>6 DEF SteadyCommand, Sparing
<1>7. CASE c.cmd = "mkdir"
  <2> DEFINE q == Walk([r EXCEPT !.src = c.src.parts], ParentPath(u, c.src))
  <2>1. Begin(s, q, <<"names", "insert">>) BY <1>7 DEF Command
  <2>2. Errand(u, <<"names", "insert">>, q, p) BY <1>3, <1>7, ErrandMkdir DEF Fields
  <2> HIDE DEF q
  <2>3. QED BY <1>1, <2>1, <2>2
<1>8. CASE c.cmd = "rm"
  <2> DEFINE q == Walk(r, src)
  <2>1. Begin(s, q, <<"found", "remove">>) BY <1>8 DEF Command
  <2>2. q.path = src BY <1>3 DEF Walk, Fields
  <2> HIDE DEF q, src
  <2>3. RmErrand(u, <<"found", "remove">>, q) BY <1>6, <1>8, <2>2 DEF RmErrand
  <2>4. QED BY <1>1, <2>1, <2>3 DEF Errand
<1>9. CASE c.cmd = "mv"
  <2> DEFINE m == \/ c.dst.abs \/ Len(c.dst.parts) > 1 \/ c.dst.parts[1] \notin Names \ Dotted
             q == Walk([r EXCEPT !.src = src, !.dst = dst, !.moves = m], src)
  <2>1. Begin(s, q, <<"source", "target">>) BY <1>9 DEF Command
  <2>2. q.path = src /\ q.dst = dst BY <1>3 DEF Walk, Fields
  <2> HIDE DEF q, src, m
  <2>3. Landing(u, q) BY <1>9, <2>2, LandingMv
  <2>4. MvErrand(u, <<"source", "target">>, q) BY <1>6, <1>9, <2>2, <2>3 DEF MvErrand
  <2>5. QED BY <1>1, <2>1, <2>4 DEF Errand
<1>10. CASE c.cmd = "cd"
  <2> DEFINE q == Walk([r EXCEPT !.dst = Normal(src)], Normal(src))
             steps == <<"isdir", "samepwd", "setpwd", "getpwd", "cache">>
  <2>1. Begin(s, q, steps) BY <1>10 DEF Command
  <2>2. q.dst = Normal(src) BY <1>3 DEF Walk, Fields
  <2>3. Normal(src) \in Seq(Visited)
    <3> DEFINE V == Visited \cup {".", ".."}
    <3>1. c.src.parts \in Seq(V)
      <4>1. c.src.parts \in Seq(Components) BY <1>2 DEF Paths, Components
      <4>2. \A i \in DOMAIN c.src.parts : c.src.parts[i] \in V
        BY <1>10, <4>1 DEF Components, Visited
      <4>3. QED BY <4>1, <4>2
    <3>2. pwd[u] \in Seq(V)
      <4>1. Visited \subseteq V OBVIOUS
      <4>2. QED BY <1>4, <4>1, SeqMonotonic
    <3> HIDE DEF V
    <3>3. src \in Seq(V) BY <3>1, <3>2, FullPathIn
    <3>4. Visited \subseteq Names BY DEF Visited
    <3>5. QED BY <3>3, <3>4, NormalIn DEF V
  <2>4. OnWay(u, q, Normal(src))
    <3>1. Normal(src) \in Seq(Downward) BY <2>3, VisitedSure DEF Steady
    <3> HIDE DEF src
    <3>2. QED BY <1>3, <3>1, OnWayStart DEF Fields
  <2> HIDE DEF q
  <2>5. CdErrand(u, steps, q) BY <2>2, <2>3, <2>4 DEF CdErrand
  <2>6. QED BY <1>1, <2>1, <2>5 DEF Errand
<1>11. CASE c.cmd = "pwd"
  <2>1. todo'[s] = <<"getpwd", "cache">> BY <1>1, <1>11 DEF Command
  <2>2. QED BY <2>1 DEF Errand, PwdErrand
<1>12. CASE c.cmd = "upload"
  <2>1. todo'[s] = <<"present", "store">> BY <1>1, <1>12 DEF Command
  <2>2. QED BY <2>1 DEF Errand, MakeErrand
<1>13. QED BY <1>2, <1>7, <1>8, <1>9, <1>10, <1>11, <1>12

-----------------------------------------------------------------------------
(***************************************************************************)
(* What a step of its own teaches such a session.                          *)
(***************************************************************************)
\* rm goes through no directory on a firm way: one below another is reached from above.
LEMMA ErrandRm ==
    ASSUME WInv, NEW s \in Sessions, RmFound(s) \/ RmType(s) \/ RmList(s), NEW p
    PROVE  Errand(UserOf(s), todo'[s], reg'[s], p)
<1> DEFINE u == UserOf(s)  t == todo[s]  r == reg[s]  L == SUBSET Loose(u)
<1>1. /\ IInv /\ RowsClean /\ DOMAIN r = Fields BY DEF WInv, UInv, IInv, LocalsClean, Clean
<1>2. t # <<>> /\ Head(t) \in {"found", "remove", "list"} /\ r.path = <<>>
  <2>1. At(s, "found") \/ At(s, "remove") \/ At(s, "list") BY Zenon DEF RmFound, RmType, RmList
  <2>2. QED BY <2>1 DEF At
<1>3. RmErrand(u, t, r) BY <1>2, WNow, ErrandNow
<1>4. \A q, rest : q.work \in Seq(L) /\ rest = <<"remove">> => Errand(u, rest, q, p)
  BY DEF Errand, RmErrand
<1>5. CASE RmFound(s)
  <2> DEFINE q == [r EXCEPT !.id = r.cur, !.work = <<{r.cur}>>]
  <2>1. Head(t) = "found" BY <1>5 DEF RmFound, At
  <2>2. t = <<"found", "remove">> /\ Sparing(u, r) BY <1>3, <2>1 DEF RmErrand
  <2>3. Finish(s, "fail") \/ (r.cur # -1 /\ Then(s, q)) BY <1>5 DEF RmFound
  <2>4. CASE Finish(s, "fail") BY <1>1, <2>4, After1, ErrandNothing
  <2>5. CASE r.cur # -1 /\ Then(s, q)
    <3>1. r.cur \in Mine(u) /\ rows[r.cur].name \notin Visited
      BY <1>2, <2>2, <2>5 DEF Sparing, Spared
    <3>2. r.cur \in Loose(u)
      <4>1. r.cur \in Int BY <1>1, <3>1 DEF Mine, RowsClean
      <4>2. PICK k : k = r.cur OBVIOUS
      <4>3. k \notin Held(u) BY <1>1, <3>1, <4>2, HeldIs
      <4>4. QED BY <4>1, <4>2, <4>3 DEF Loose
    <3>3. q.work = <<{r.cur}>> BY <1>1 DEF Fields
    <3>4. <<{r.cur}>> \in Seq(L)
      <4>1. {r.cur} \in L BY <3>2
      <4> HIDE DEF L
      <4>2. QED BY <4>1
    <3>5. Tail(t) = <<"remove">> BY <2>2
    <3>6. todo'[s] = <<"remove">> /\ reg'[s] = q BY <1>1, <2>5, <3>5, After1
    <3> HIDE DEF q, L
    <3>7. QED BY <1>4, <3>3, <3>4, <3>6
  <2>6. QED BY <2>3, <2>4, <2>5
<1>6. CASE RmList(s)
  <2> DEFINE children == {i \in DOMAIN rows : rows[i].father = r.dir /\ rows[i].user = u}
             first == IF children = {} THEN <<>> ELSE <<children>>
             q == [r EXCEPT !.work = first \o @]
  <2>1. Head(t) = "list" BY <1>6 DEF RmList, At
  <2>2. t = <<"list", "remove">> /\ r.dir \in Loose(u) /\ r.dir # 0 /\ r.work \in Seq(L)
    BY <1>3, <2>1 DEF RmErrand
  <2>3. children \in L
    <3>1. ASSUME NEW k \in children PROVE k \in Loose(u)
      <4>1. k \in Int BY <1>1 DEF RowsClean
      <4>2. ASSUME k \in Held(u) PROVE FALSE
        <5>1. rows[k].father = 0 \/ rows[k].father \in Held(u) BY <1>1, <4>2, HeldIs
        <5>2. rows[k].father = r.dir OBVIOUS
        <5>3. QED BY <2>2, <5>1, <5>2 DEF Loose
      <4>3. QED BY <4>1, <4>2 DEF Loose
    <3>2. QED BY <3>1
  <2>4. first \o r.work \in Seq(L)
    <3> HIDE DEF children, L
    <3>1. <<children>> \in Seq(L) /\ <<>> \in Seq(L) BY <2>3, EmptySeq
    <3>2. first \in Seq(L) BY <3>1
    <3> HIDE DEF first
    <3>3. QED BY <2>2, <3>2, ConcatProperties
  <2>5. Then(s, q) BY <1>6 DEF RmList
  <2>6. q.work = first \o r.work
    <3> HIDE DEF first
    <3>1. QED BY <1>1 DEF Fields
  <2>7. Tail(t) = <<"remove">> BY <2>2
  <2>8. todo'[s] = <<"remove">> /\ reg'[s] = q BY <1>1, <2>5, <2>7, After1
  <2> HIDE DEF q, first, L
  <2>9. QED BY <1>4, <2>4, <2>6, <2>8
<1>7. CASE RmType(s)
  <2> DEFINE work == r.work
  <2>1. Head(t) = "remove" BY <1>7, Zenon DEF RmType, At
  <2>2. work \in Seq(L) BY <1>3, <2>1 DEF RmErrand
  <2>3. CASE work = <<>>
    <3>1. Finish(s, "ok") BY <1>7, <2>3 DEF RmType
    <3>2. QED BY <1>1, <3>1, After1, ErrandNothing
  <2>4. CASE work # <<>>
    <3> DEFINE rest(i) == IF Head(work) = {i} THEN Tail(work)
                          ELSE <<Head(work) \ {i}>> \o Tail(work)
               steps(i) == CASE TypeOf(i) = "d"    -> <<"delete", "list", "remove">>
                             [] TypeOf(i) = "f"    -> <<"delete", "remove">>
                             [] TypeOf(i) = "none" -> <<"remove">>
               q(i) == [r EXCEPT !.dir = i, !.work = rest(i)]
    <3>1. PICK i \in Head(work) : GoOn(s, steps(i), q(i))
      BY <1>7, <2>4, Zenon DEF RmType
    <3>2. Head(work) \in L /\ Tail(work) \in Seq(L) BY <2>2, <2>4, HeadTailProperties
    <3>3. i \in Loose(u) BY <3>2
    <3>4. rest(i) \in Seq(L)
      <4>1. Head(work) \ {i} \in L BY <3>2
      <4> HIDE DEF L, work
      <4>2. <<Head(work) \ {i}>> \in Seq(L) BY <4>1
      <4>3. QED BY <3>2, <4>2, ConcatProperties
    <3>5. \/ steps(i) = <<"remove">>
          \/ /\ steps(i) = <<"delete", "remove">> \/ steps(i) = <<"delete", "list", "remove">>
             /\ i \in DOMAIN rows
             /\ steps(i) = <<"delete", "remove">> => rows[i].type = "f"
      BY <1>1 DEF TypeOf, RowsClean, RowClean
    <3>6. i \in DOMAIN rows => i # 0 /\ (rows[i].type = "f" => ~Parent(u, i))
      BY <1>1 DEF RowsClean, Parent
    <3>7. q(i).work = rest(i) /\ q(i).dir = i
      <4> HIDE DEF rest
      <4>1. QED BY <1>1 DEF Fields
    <3>8. todo'[s] = steps(i) /\ reg'[s] = q(i) BY <1>1, <3>1, After1
    <3> HIDE DEF q, rest, steps, L
    <3>9. RmErrand(u, steps(i), q(i)) BY <3>3, <3>4, <3>5, <3>6, <3>7 DEF RmErrand, L
    <3>10. QED BY <3>8, <3>9 DEF Errand
  <2>5. QED BY <2>3, <2>4
<1>8. QED BY <1>5, <1>6, <1>7

\* mv moves no directory on a firm way, and puts its source into one that is there.
LEMMA ErrandMv ==
    ASSUME WInv, NEW s \in Sessions, MvSource(s) \/ MvTarget(s) \/ MvSameName(s), NEW p
    PROVE  Errand(UserOf(s), todo'[s], reg'[s], p)
<1> DEFINE u == UserOf(s)  t == todo[s]  r == reg[s]
<1>1. IInv /\ RowsClean /\ DOMAIN r = Fields /\ r.cur \in OwnIds(u)
  BY DEF WInv, UInv, IInv, LocalsClean, Clean
<1>2. t # <<>> /\ Head(t) \in {"source", "target", "samename"} /\ r.path = <<>>
  BY DEF MvSource, MvTarget, MvSameName, At
<1>3. MvErrand(u, t, r) BY <1>2, WNow, ErrandNow
<1>4. CASE MvSource(s)
  <2> DEFINE q == Walk([r EXCEPT !.id = r.cur], r.dst)
  <2>1. Head(t) = "source" /\ Then(s, q) BY <1>4 DEF MvSource, At
  <2>2. t = <<"source", "target">> /\ Sparing(u, r) /\ Landing(u, r) BY <1>3, <2>1 DEF MvErrand
  <2>3. Spared(u, r.cur) BY <1>2, <2>2 DEF Sparing
  <2>4. q.id = r.cur /\ q.dst = r.dst BY <1>1 DEF Walk, Fields
  <2> HIDE DEF q
  <2>5. Landing(u, q) BY <2>2, <2>4 DEF Landing, Up
  <2>6. MvErrand(u, <<"target">>, q) BY <2>3, <2>4, <2>5 DEF MvErrand
  <2>7. Tail(t) = <<"target">> BY <2>2
  <2>8. todo'[s] = <<"target">> /\ reg'[s] = q BY <1>1, <2>1, <2>7, After1
  <2>9. QED BY <2>6, <2>8 DEF Errand
<1>5. CASE MvTarget(s)
  <2> DEFINE a == Walk([r EXCEPT !.dir = r.cur], Into(r))
             b == Walk(r, Up(r))
  <2>1. Head(t) = "target" BY <1>5 DEF MvTarget, At
  <2>2. Spared(u, r.id) /\ Landing(u, r) BY <1>3, <2>1 DEF MvErrand
  <2>3. \/ Finish(s, "fail")
        \/ TypeOf(r.cur) = "d" /\ GoOn(s, <<"samename", "move">>, a)
        \/ Normal(r.dst) # <<>> /\ GoOn(s, <<"rename">>, b)
    BY <1>5, Zenon DEF MvTarget, Into, Up
  <2>4. CASE Finish(s, "fail") BY <1>1, <2>4, After1, ErrandNothing
  <2>5. CASE TypeOf(r.cur) = "d" /\ GoOn(s, <<"samename", "move">>, a)
    <3>1. a.id = r.id /\ a.dir = r.cur BY <1>1 DEF Walk, Fields
    <3>2. Parent(u, r.cur) BY <1>1, <2>5 DEF TypeOf, Parent, Mine, OwnIds
    <3>3. todo'[s] = <<"samename", "move">> /\ reg'[s] = a BY <1>1, <2>5, After1
    <3> HIDE DEF a
    <3>4. MvErrand(u, <<"samename", "move">>, a) BY <2>2, <3>1, <3>2 DEF MvErrand
    <3>5. QED BY <3>3, <3>4 DEF Errand
  <2>6. CASE Normal(r.dst) # <<>> /\ GoOn(s, <<"rename">>, b)
    <3>1. b.id = r.id /\ b.dst = r.dst BY <1>1 DEF Walk, Fields
    <3>2. todo'[s] = <<"rename">> /\ reg'[s] = b BY <1>1, <2>6, After1
    <3> HIDE DEF b
    <3>3. Up(b) = Up(r) /\ Firm(u, Up(r)) BY <2>2, <2>6, <3>1 DEF Up, Landing
    <3>4. MvErrand(u, <<"rename">>, b) BY <2>2, <3>1, <3>3 DEF MvErrand
    <3>5. QED BY <3>2, <3>4 DEF Errand
  <2>7. QED BY <2>3, <2>4, <2>5, <2>6
<1>6. CASE MvSameName(s)
  <2>1. Head(t) = "samename" /\ (Finish(s, "fail") \/ Then(s, r)) BY <1>6 DEF MvSameName, At
  <2>2. t = <<"samename", "move">> /\ Spared(u, r.id) /\ Parent(u, r.dir)
    BY <1>3, <2>1 DEF MvErrand
  <2>3. CASE Finish(s, "fail") BY <1>1, <2>3, After1, ErrandNothing
  <2>4. CASE Then(s, r)
    <3>1. Tail(t) = <<"move">> BY <2>2
    <3>2. todo'[s] = <<"move">> /\ reg'[s] = r BY <1>1, <2>4, <3>1, After1
    <3>3. MvErrand(u, <<"move">>, r) BY <2>2 DEF MvErrand
    <3>4. QED BY <3>2, <3>3 DEF Errand
  <2>5. QED BY <2>1, <2>3, <2>4
<1>7. QED BY <1>4, <1>5, <1>6

\* cd goes where there is a directory.
LEMMA ErrandCd ==
    ASSUME WInv, NEW s \in Sessions, CdIsDir(s) \/ CdSamePwd(s) \/ CdSetPwd(s), NEW p
    PROVE  Errand(UserOf(s), todo'[s], reg'[s], p)
<1> DEFINE u == UserOf(s)  t == todo[s]  r == reg[s]
<1>1. IInv /\ RowsClean /\ NoOrphans /\ r.cur \in OwnIds(u)
  BY DEF WInv, UInv, IInv, LocalsClean, Clean
<1>2. t # <<>> /\ Head(t) \in {"isdir", "samepwd", "setpwd"} /\ r.path = <<>>
  BY DEF CdIsDir, CdSamePwd, CdSetPwd, At
<1>3. CdErrand(u, t, r) BY <1>2, WNow, ErrandNow
<1>4. Errand(u, <<"getpwd", "cache">>, r, p) BY DEF Errand, PwdErrand
<1>5. \A q : Firm(u, q.dst) => /\ Errand(u, <<"samepwd", "setpwd", "getpwd", "cache">>, q, p)
                               /\ Errand(u, <<"setpwd", "getpwd", "cache">>, q, p)
  BY DEF Errand, CdErrand
<1>6. \/ Finish(s, "fail") \/ GoOn(s, <<"getpwd", "cache">>, r)
      \/ Then(s, r) /\ (Head(t) = "isdir" => TypeOf(r.cur) = "d")
  BY DEF CdIsDir, CdSamePwd, CdSetPwd, Then, At
<1>7. CASE Finish(s, "fail") BY <1>1, <1>7, After1, ErrandNothing
<1>8. CASE GoOn(s, <<"getpwd", "cache">>, r) BY <1>1, <1>4, <1>8, After1
<1>9. CASE Then(s, r) /\ (Head(t) = "isdir" => TypeOf(r.cur) = "d")
  <2>1. todo'[s] = Tail(t) /\ reg'[s] = r BY <1>1, <1>9, After1
  <2>2. CASE t = <<"isdir", "samepwd", "setpwd", "getpwd", "cache">>
    <3>1. r.dst \in Seq(Visited) /\ OnWay(u, r, r.dst) BY <1>3, <2>2 DEF CdErrand
    <3>2. r.cur \in FileId(u, r.dst) BY <1>2, <3>1, OnWayEnd
    <3>3. r.cur # -1 /\ Parent(u, r.cur)
      BY <1>1, <1>9, <2>2 DEF TypeOf, RowsClean, Parent, Mine, OwnIds
    <3>4. PICK d, k : d = r.dst /\ k = r.cur OBVIOUS
    <3>5. FirmTo(u, d, k) /\ Parent(u, k) BY <1>1, <3>1, <3>2, <3>3, <3>4, FoundFirm
    <3>6. Firm(u, r.dst) BY <3>4, <3>5 DEF Firm
    <3>7. Tail(t) = <<"samepwd", "setpwd", "getpwd", "cache">> BY <2>2
    <3>8. QED BY <1>5, <2>1, <3>6, <3>7
  <2>3. CASE t = <<"samepwd", "setpwd", "getpwd", "cache">>
    <3>1. Firm(u, r.dst) BY <1>3, <2>3 DEF CdErrand
    <3>2. Tail(t) = <<"setpwd", "getpwd", "cache">> BY <2>3
    <3>3. QED BY <1>5, <2>1, <3>1, <3>2
  <2>4. CASE t = <<"setpwd", "getpwd", "cache">>
    <3>1. Tail(t) = <<"getpwd", "cache">> BY <2>4
    <3>2. QED BY <1>4, <2>1, <3>1
  <2>5. QED BY <1>3, <2>2, <2>3, <2>4, Zenon DEF CdErrand
<1>10. QED BY <1>6, <1>7, <1>8, <1>9

\* mkdir, and upload.
LEMMA ErrandMake ==
    ASSUME Steady, WInv, NEW s \in Sessions, CheckNames(s) \/ Present(s), NEW p
    PROVE  Errand(UserOf(s), todo'[s], reg'[s], p)
<1> DEFINE u == UserOf(s)  t == todo[s]  r == reg[s]
<1>1. IInv BY DEF WInv, UInv
<1>2. t # <<>> /\ Head(t) \in {"names", "present"} /\ r.path = <<>>
  BY DEF CheckNames, Present, At
<1>3. MakeErrand(u, t, r) BY <1>2, WNow, ErrandNow
<1>4. \/ Finish(s, "fail") \/ Finish(s, "existing") \/ Then(s, r) BY DEF CheckNames, Present
<1>5. CASE Finish(s, "fail") \/ Finish(s, "existing") BY <1>1, <1>5, After1, ErrandNothing
<1>6. CASE Then(s, r)
  <2>1. todo'[s] = Tail(t) /\ reg'[s] = r BY <1>1, <1>6, After1
  <2>2. CASE t = <<"names", "insert">>
    <3>1. PICK q, d \in Seq(Downward) : OnWay(u, r, q) /\ Firm(u, d) /\ Normal(q) = Normal(d)
      BY <1>3, <2>2 DEF MakeErrand
    <3>2. r.cur \in FileId(u, q) BY <1>2, <3>1, OnWayEnd
    <3>3. FileId(u, q) = FileId(u, d)
      <4>1. FileId(u, Normal(q)) = FileId(u, q) /\ FileId(u, Normal(d)) = FileId(u, d)
        BY FileIdNormal
      <4>2. QED BY <3>1, <4>1
    <3>4. Parent(u, r.cur) BY <3>1, <3>2, <3>3, FirmWhere DEF WInv, Steady
    <3>5. Tail(t) = <<"insert">> BY <2>2
    <3>6. MakeErrand(u, <<"insert">>, r) BY <1>2, <3>4 DEF MakeErrand
    <3>7. QED BY <2>1, <3>5, <3>6 DEF Errand
  <2>3. CASE t = <<"present", "store">>
    <3>1. Tail(t) = <<"store">> BY <2>3
    <3>2. MakeErrand(u, <<"store">>, r) BY DEF MakeErrand
    <3>3. QED BY <2>1, <3>1, <3>2 DEF Errand
  <2>4. t = <<"names", "insert">> \/ t = <<"present", "store">>
    <3>1. t # <<"insert">> /\ t # <<"store">> BY <1>2
    <3>2. QED BY <1>3, <3>1 DEF MakeErrand
  <2>5. QED BY <2>2, <2>3, <2>4
<1>7. QED BY <1>4, <1>5, <1>6

\* All steps but the writes.
LEMMA ErrandSteps ==
    ASSUME Steady, WInv, NEW s \in Sessions, Step(s), ~Writes(s)
    PROVE  Errand(UserOf(s), todo'[s], reg'[s], pwd'[UserOf(s)])
<1> DEFINE u == UserOf(s)  t == todo[s]  r == reg[s]
<1>1. IInv /\ DOMAIN r = Fields /\ Firm(u, pwd[u]) BY WNow DEF WInv, UInv, IInv, LocalsClean, Clean
<1>2. CASE Login(s)
  <2>1. todo'[s] = <<"getpwd", "enter">> BY <1>1, <1>2, After1 DEF Login
  <2>2. QED BY <2>1 DEF Errand, PwdErrand
<1>3. CASE Leave(s) BY <1>3, WNow DEF Leave
<1>4. CASE CmdAnalyse(s)
  <2>1. PICK c \in Commands(s) : Command(s, c) BY <1>4 DEF CmdAnalyse
  <2>2. QED BY <2>1, ErrandCommand
<1>5. CASE GetNextFileId(s)
  <2>1. r.path # <<>> /\ pwd' = pwd BY <1>5 DEF GetNextFileId
  <2>2. PICK i \in NextFileId(u, r.cur, Head(r.path)) :
            GoOn(s, t, [r EXCEPT !.cur = i, !.path = Tail(@)])
    BY <1>5, Zenon DEF GetNextFileId
  <2> DEFINE q == [r EXCEPT !.cur = i, !.path = Tail(@)]
  <2>3. /\ q.path = Tail(r.path) /\ q.cur = i /\ q.src = r.src /\ q.dst = r.dst
        /\ q.id = r.id /\ q.dir = r.dir /\ q.work = r.work
    BY <1>1 DEF Fields
  <2>4. todo'[s] = t /\ reg'[s] = q BY <1>1, <2>2, After1
  <2> HIDE DEF q
  <2>5. Errand(u, t, q, pwd[u])
    <3>1. Errand(u, t, r, pwd[u]) BY WNow
    <3>2. QED BY <2>1, <2>2, <2>3, <3>1, ErrandWalk
  <2>6. QED BY <2>1, <2>4, <2>5
<1>6. CASE RmFound(s) \/ RmType(s) \/ RmList(s) BY <1>6, ErrandRm
<1>7. CASE MvSource(s) \/ MvTarget(s) \/ MvSameName(s) BY <1>7, ErrandMv
<1>8. CASE CdIsDir(s) \/ CdSamePwd(s) \/ CdSetPwd(s) BY <1>8, ErrandCd
<1>9. CASE CheckNames(s) \/ Present(s) BY <1>9, ErrandMake
<1>10. CASE GetPwd(s)
  <2> DEFINE q == Walk(r, pwd[u])
  <2>1. At(s, "getpwd") /\ Then(s, q) /\ pwd' = pwd BY <1>10 DEF GetPwd
  <2>2. t # <<>> /\ Head(t) = "getpwd" BY <2>1 DEF At
  <2>3. PwdErrand(u, t, r, pwd[u]) BY <2>2, WNow, ErrandNow
  <2>4. t = <<"getpwd", "cache">> \/ t = <<"getpwd", "enter">> BY <2>2, <2>3 DEF PwdErrand
  <2>5. Tail(t) = <<"cache">> \/ Tail(t) = <<"enter">>
    <3>1. CASE t = <<"getpwd", "cache">> BY <3>1
    <3>2. CASE t = <<"getpwd", "enter">> BY <3>2
    <3>3. QED BY <2>4, <3>1, <3>2
  <2>6. OnWay(u, q, pwd[u])
    <3>1. pwd[u] \in Seq(Downward) BY <1>1, FirmWhere DEF WInv, Steady
    <3>2. QED BY <1>1, <3>1, OnWayStart DEF Fields
  <2>7. todo'[s] = Tail(t) /\ reg'[s] = q BY <1>1, <2>1, After1
  <2> HIDE DEF q
  <2>8. PwdErrand(u, Tail(t), q, pwd[u]) BY <2>5, <2>6 DEF PwdErrand
  <2>9. QED BY <2>1, <2>7, <2>8 DEF Errand
<1>11. CASE Cache(s) \/ Enter(s)
  <2>1. todo'[s] = <<>> BY <1>1, <1>11, After1 DEF Cache, Enter
  <2>2. QED BY <2>1, ErrandNothing
<1>12. QED BY <1>2, <1>3, <1>4, <1>5, <1>6, <1>7, <1>8, <1>9, <1>10, <1>11 DEF Step, Writes

\* The father id.
LEMMA FatherStays ==
    ASSUME NEW s \in Sessions, Step(s), ~Leave(s), ~Cache(s), ~Enter(s)
    PROVE  UNCHANGED father
<1>1. Login(s) \/ CmdAnalyse(s) \/ GetNextFileId(s) \/ CheckNames(s) \/ InsertDir(s) => UNCHANGED father
  BY Zenon DEF Login, CmdAnalyse, GetNextFileId, CheckNames, InsertDir
<1>2. RmFound(s) \/ RmType(s) \/ RmDelete(s) \/ RmList(s) \/ MvSource(s) => UNCHANGED father
  BY Zenon DEF RmFound, RmType, RmDelete, RmList, MvSource
<1>3. MvTarget(s) \/ MvSameName(s) \/ MvMove(s) \/ MvRename(s) \/ CdIsDir(s) => UNCHANGED father
  BY Zenon DEF MvTarget, MvSameName, MvMove, MvRename, CdIsDir
<1>4. CdSamePwd(s) \/ CdSetPwd(s) \/ GetPwd(s) \/ Present(s) \/ Store(s) => UNCHANGED father
  BY Zenon DEF CdSamePwd, CdSetPwd, GetPwd, Present, Store
<1>5. QED BY <1>1, <1>2, <1>3, <1>4 DEF Step

\* Between getpwd and the end of the command a session does nothing else.
LEMMA NotFetching ==
    ASSUME NEW s \in Sessions, Step(s), ~Leave(s), ~Cache(s), ~Enter(s), ~GetNextFileId(s), ~GetPwd(s)
    PROVE  todo[s] # <<"getpwd", "cache">> /\ todo[s] # <<"cache">>
<1> DEFINE t == todo[s]
<1>1. Login(s) \/ CmdAnalyse(s) => t = <<>> BY DEF Login, CmdAnalyse, Idle
<1>2. CheckNames(s) \/ InsertDir(s) \/ RmFound(s) \/ RmType(s) \/ RmDelete(s) \/ RmList(s) =>
         \E o \in {"names", "insert", "found", "remove", "delete", "list"} : At(s, o)
  BY Zenon DEF CheckNames, InsertDir, RmFound, RmType, RmDelete, RmList
<1>3. MvSource(s) \/ MvTarget(s) \/ MvSameName(s) \/ MvMove(s) \/ MvRename(s) =>
         \E o \in {"source", "target", "samename", "move", "rename"} : At(s, o)
  BY Zenon DEF MvSource, MvTarget, MvSameName, MvMove, MvRename
<1>4. CdIsDir(s) \/ CdSamePwd(s) \/ CdSetPwd(s) \/ Present(s) \/ Store(s) =>
         \E o \in {"isdir", "samepwd", "setpwd", "present", "store"} : At(s, o)
  BY Zenon DEF CdIsDir, CdSamePwd, CdSetPwd, Present, Store
<1>5. CASE t = <<>> BY <1>5
<1>6. CASE \E o \in Ops \ {"getpwd", "cache"} : At(s, o)
  <2>1. t # <<>> /\ Head(t) # "getpwd" /\ Head(t) # "cache" BY <1>6 DEF At
  <2>2. QED BY <2>1
<1>7. t = <<>> \/ \E o \in Ops \ {"getpwd", "cache"} : At(s, o)
  BY <1>1, <1>2, <1>3, <1>4 DEF Step, Ops
<1>8. QED BY <1>5, <1>6, <1>7

\* What a walk along the working directory has found.
LEMMA Fetched ==
    ASSUME Steady, WInv, NEW s \in Sessions, Cache(s) \/ Enter(s)
    PROVE  FirmTo(UserOf(s), pwd[UserOf(s)], reg[s].cur)
<1> DEFINE u == UserOf(s)  t == todo[s]  r == reg[s]
<1>1. t # <<>> /\ Head(t) \in {"cache", "enter"} /\ r.path = <<>> BY DEF Cache, Enter, At
<1>2. PwdErrand(u, t, r, pwd[u]) BY <1>1, WNow, ErrandNow
<1>3. t # <<"getpwd", "cache">> /\ t # <<"getpwd", "enter">> BY <1>1
<1>4. OnWay(u, r, pwd[u]) BY <1>2, <1>3 DEF PwdErrand
<1>5. r.cur \in FileId(u, pwd[u]) BY <1>1, <1>4, OnWayEnd
<1>6. PICK p : p = pwd[u] OBVIOUS
<1>7. Firm(u, p) BY <1>6, WNow
<1>8. PICK k : FirmTo(u, p, k) /\ FileId(u, p) = {k} BY <1>7, FirmWhere DEF WInv, Steady
<1>9. QED BY <1>5, <1>6, <1>8

LEMMA FatheredSteps ==
    ASSUME Steady, WInv, NEW s \in Sessions, Step(s)
    PROVE  Fathered(UserOf(s), todo'[s], pwd'[UserOf(s)], father'[s])
<1> DEFINE u == UserOf(s)  t == todo[s]  f == father[s]  p == pwd[u]
<1>1. IInv /\ s \in DOMAIN father /\ Fathered(u, t, p, f) BY WNow DEF WInv, UInv, IInv, FathersClean
<1>2. CASE Login(s) \/ Leave(s)
  <2>1. father'[s] = Null BY <1>1, <1>2 DEF Login, Leave
  <2>2. QED BY <2>1 DEF Fathered
<1>3. CASE Cache(s) \/ Enter(s)
  <2>1. FirmTo(u, p, reg[s].cur) BY <1>3, Fetched
  <2>2. reg[s].cur # -1
    <3>1. PICK q, k : q = p /\ k = reg[s].cur OBVIOUS
    <3>2. FirmTo(u, q, k) BY <2>1, <3>1
    <3>3. k = 0 \/ k \in Held(u) BY <3>2, FirmEnd
    <3>4. QED BY <1>1, <3>1, <3>3 DEF Held, Mine, IInv, RowsClean
  <2>3. father'[s] = reg[s].cur /\ pwd' = pwd BY <1>1, <1>3, <2>2 DEF Cache, Enter
  <2>4. QED BY <2>1, <2>3 DEF Fathered
<1>4. CASE CdSetPwd(s)
  <2>1. t # <<>> /\ Head(t) = "setpwd" /\ father' = father BY <1>4 DEF CdSetPwd, At
  <2>2. CdErrand(u, t, reg[s]) BY <2>1, WNow, ErrandNow
  <2>3. t = <<"setpwd", "getpwd", "cache">> BY <2>1, <2>2 DEF CdErrand
  <2>4. \/ Finish(s, "fail") /\ pwd' = pwd
        \/ Then(s, reg[s])
    BY <1>4 DEF CdSetPwd
  <2>5. CASE Finish(s, "fail") /\ pwd' = pwd
    BY <1>1, <2>1, <2>3, <2>5 DEF Fathered
  <2>6. CASE Then(s, reg[s])
    <3>1. Tail(t) = <<"getpwd", "cache">> BY <2>3
    <3>2. todo'[s] = <<"getpwd", "cache">> BY <1>1, <2>6, <3>1, After1
    <3>3. QED BY <3>2 DEF Fathered
  <2>7. QED BY <2>4, <2>5, <2>6
<1>5. CASE ~Login(s) /\ ~Leave(s) /\ ~Cache(s) /\ ~Enter(s) /\ ~CdSetPwd(s)
  <2>1. pwd' = pwd /\ father' = father BY <1>5, PwdSame, FatherStays
  <2>2. CASE t # <<"getpwd", "cache">> /\ t # <<"cache">>
    BY <1>1, <2>1, <2>2 DEF Fathered
  <2>3. CASE GetNextFileId(s)
    <3>1. todo'[s] = t BY <1>1, <2>3, After1 DEF GetNextFileId
    <3>2. QED BY <1>1, <2>1, <3>1
  <2>4. CASE GetPwd(s)
    <3>1. At(s, "getpwd") /\ todo'[s] = Tail(t) BY <1>1, <2>4, After1 DEF GetPwd
    <3>2. CASE t = <<"getpwd", "cache">>
      <4>1. Tail(t) = <<"cache">> BY <3>2
      <4>2. QED BY <3>1, <4>1 DEF Fathered
    <3>3. CASE t # <<"getpwd", "cache">>
      <4>1. t # <<"cache">> BY <3>1 DEF At
      <4>2. QED BY <2>2, <3>3, <4>1
    <3>4. QED BY <3>2, <3>3
  <2>5. QED BY <1>5, <2>2, <2>3, <2>4, NotFetching
<1>6. QED BY <1>2, <1>3, <1>4, <1>5

-----------------------------------------------------------------------------
(***************************************************************************)
(* The writes of such a session.                                           *)
(***************************************************************************)
\* No write touches an entry on a firm way.
LEMMA HeldKept ==
    ASSUME WInv, NEW s \in Sessions, Writes(s), NEW k \in Held(UserOf(s))
    PROVE  k \in Mine(UserOf(s))' /\ rows'[k] = rows[k]
<1> DEFINE u == UserOf(s)  t == todo[s]  r == reg[s]
<1>1. /\ RowsClean /\ rows = [i \in DOMAIN rows |-> rows[i]] /\ nextId \notin DOMAIN rows
      /\ k \in DOMAIN rows /\ rows[k].user = u
  BY DEF WInv, UInv, IInv, RowsClean, Held, Mine
<1>2. SUFFICES k \in DOMAIN rows' /\ rows'[k] = rows[k] BY <1>1 DEF Mine
<1>3. CASE InsertDir(s) \/ Store(s)
  <2>1. \E f, n, y : Insert(f, n, y, u) BY <1>3 DEF InsertDir, Store
  <2>2. QED BY <1>1, <2>1 DEF Insert
<1>4. CASE RmDelete(s)
  <2>1. t # <<>> /\ Head(t) = "delete" BY <1>4 DEF RmDelete, At
  <2>2. RmErrand(u, t, r) BY <2>1, WNow, ErrandNow
  <2>3. r.dir \in Loose(u) BY <2>1, <2>2 DEF RmErrand
  <2>4. k # r.dir BY <2>3 DEF Loose
  <2>5. QED BY <1>1, <1>4, <2>4 DEF RmDelete
<1>5. CASE MvMove(s) \/ MvRename(s)
  <2>1. t # <<>> /\ Head(t) \in {"move", "rename"} BY <1>5 DEF MvMove, MvRename, At
  <2>2. MvErrand(u, t, r) BY <2>1, WNow, ErrandNow
  <2>3. Spared(u, r.id) BY <2>1, <2>2 DEF MvErrand
  <2>4. rows[k].name \in Visited BY <1>1, HeldIs
  <2>5. k # r.id BY <1>1, <2>3, <2>4 DEF Spared, RowsClean
  <2>6. \E row : Update(s, row) BY <1>5 DEF MvMove, MvRename
  <2>7. QED BY <1>1, <2>5, <2>6 DEF Update
<1>6. QED BY <1>3, <1>4, <1>5 DEF Writes

\* No write puts an entry below a directory that is not there.
LEMMA NoOrphansKept ==
    ASSUME Steady, WInv, NEW s \in Sessions, Writes(s)
    PROVE  NoOrphans'
<1> DEFINE u == UserOf(s)  t == todo[s]  r == reg[s]
<1>1. RowsClean /\ NoOrphans /\ rows = [i \in DOMAIN rows |-> rows[i]]
  BY DEF WInv, UInv, IInv, RowsClean
<1>2. ASSUME NEW f, NEW n, NEW y, Insert(f, n, y, u), f # -1
      PROVE  NoOrphans'
  BY <1>1, <1>2 DEF NoOrphans, Insert
<1>3. ASSUME NEW row, Update(s, row), r.id \in DOMAIN rows => row.father # -1
      PROVE  NoOrphans'
  BY <1>1, <1>3 DEF NoOrphans, Update
<1>4. CASE InsertDir(s)
  <2>1. t # <<>> /\ Head(t) = "insert" BY <1>4 DEF InsertDir, At
  <2>2. MakeErrand(u, t, r) BY <2>1, WNow, ErrandNow
  <2>3. r.cur # -1 BY <1>1, <2>1, <2>2 DEF MakeErrand, Parent, Mine, RowsClean
  <2>4. QED BY <1>2, <1>4, <2>3 DEF InsertDir
<1>5. CASE Store(s)
  <2> DEFINE f == father[s]
  <2>1. t # <<>> /\ Head(t) = "store" BY <1>5 DEF Store, At
  <2>2. t # <<"getpwd", "cache">> /\ t # <<"cache">> BY <2>1
  <2>3. f # Null => FirmTo(u, pwd[u], f) BY <2>2, WNow DEF Fathered
  <2>4. f # -1
    <3>1. CASE f = Null BY <3>1, NamesAssumption
    <3>2. CASE f # Null
      <4>1. PICK p, k : p = pwd[u] /\ k = f OBVIOUS
      <4>2. FirmTo(u, p, k) BY <2>3, <3>2, <4>1
      <4>3. k = 0 \/ k \in Held(u) BY <4>2, FirmEnd
      <4>4. QED BY <1>1, <4>1, <4>3 DEF Held, Mine, RowsClean
    <3>3. QED BY <3>1, <3>2
  <2>5. QED BY <1>2, <1>5, <2>4 DEF Store
<1>6. CASE RmDelete(s) BY <1>1, <1>6 DEF RmDelete, NoOrphans
<1>7. CASE MvMove(s)
  <2> DEFINE row == [rows[r.id] EXCEPT !.father = r.dir]
  <2>1. t # <<>> /\ Head(t) = "move" BY <1>7 DEF MvMove, At
  <2>2. MvErrand(u, t, r) BY <2>1, WNow, ErrandNow
  <2>3. r.dir # -1 BY <1>1, <2>1, <2>2 DEF MvErrand, Parent, Mine, RowsClean
  <2>4. r.id \in DOMAIN rows => row.father = r.dir BY <1>1 DEF RowsClean, RowClean, RowFields
  <2>5. Update(s, row) BY <1>7 DEF MvMove
  <2> HIDE DEF row
  <2>6. QED BY <1>3, <2>3, <2>4, <2>5
<1>8. CASE MvRename(s)
  <2> DEFINE n == Last(Normal(r.dst))
             row == [rows[r.id] EXCEPT !.name = n, !.father = IF r.moves THEN r.cur ELSE @]
  <2>1. t # <<>> /\ Head(t) = "rename" /\ r.path = <<>> BY <1>8 DEF MvRename, At
  <2>2. MvErrand(u, t, r) BY <2>1, WNow, ErrandNow
  <2>3. Firm(u, Up(r)) BY <2>1, <2>2 DEF MvErrand
  <2>4. KnowsRename(u, t, r) BY <2>1, KnowsNow DEF WInv, UInv
  <2>5. r.cur \in FileId(u, Up(r)) BY <2>1, <2>4, OnWayEnd DEF KnowsRename
  <2>6. PICK p : p = Up(r) OBVIOUS
  <2>7. r.cur # -1 BY <2>3, <2>5, <2>6, FirmWhere DEF WInv, Steady
  <2>8. r.id \in DOMAIN rows => row.father = IF r.moves THEN r.cur ELSE rows[r.id].father
    BY <1>1 DEF RowsClean, RowClean, RowFields
  <2>9. Update(s, row) BY <1>8 DEF MvRename
  <2> HIDE DEF row
  <2>10. QED BY <1>1, <1>3, <2>7, <2>8, <2>9 DEF NoOrphans
<1>9. QED BY <1>4, <1>5, <1>6, <1>7, <1>8 DEF Writes

\* rm goes on after the deletion of a row; the other writes end their command.
LEMMA ErrandWrites ==
    ASSUME WInv, NEW s \in Sessions, Writes(s), NEW t, t = todo'[s], NEW r, r = reg'[s], NEW p
    PROVE  Errand(UserOf(s), t, r, p)'
<1> DEFINE u == UserOf(s)
<1>1. IInv BY DEF WInv, UInv
<1>2. CASE InsertDir(s) \/ Store(s) \/ MvMove(s) \/ MvRename(s)
  <2>1. \E i, a : Answer(s, i, a) BY <1>2 DEF InsertDir, Store, MvMove, MvRename, Update, Finish
  <2>2. t = <<>> BY <1>1, <2>1, After1
  <2>3. QED BY <2>2 DEF Errand
<1>3. CASE RmDelete(s)
  <2>1. todo[s] # <<>> /\ Head(todo[s]) = "delete" /\ Then(s, reg[s]) BY <1>3 DEF RmDelete, At
  <2>2. t = Tail(todo[s]) /\ r = reg[s] BY <1>1, <2>1, After1
  <2>3. RmErrand(u, todo[s], reg[s]) BY <2>1, WNow, ErrandNow
  <2>4. /\ r.work \in Seq(SUBSET Loose(u)) /\ r.dir \in Loose(u) /\ r.dir # 0
        /\ todo[s] = <<"delete", "remove">> \/ todo[s] = <<"delete", "list", "remove">>
    BY <2>1, <2>2, <2>3 DEF RmErrand
  <2>5. t = <<"remove">> \/ t = <<"list", "remove">>
    <3>1. CASE todo[s] = <<"delete", "remove">> BY <2>2, <3>1
    <3>2. CASE todo[s] = <<"delete", "list", "remove">> BY <2>2, <3>2
    <3>3. QED BY <2>4, <3>1, <3>2
  <2>6. \A k \in DOMAIN rows' : k \in DOMAIN rows /\ rows'[k] = rows[k] BY <1>3, DeleteRows
  <2>7. Held(u)' \subseteq Held(u)
    <3>1. \A k \in Mine(u)' : k \in Mine(u) /\ rows'[k] = rows[k] BY <2>6 DEF Mine
    <3>2. QED BY <3>1, FirmShrinks
  <2>8. Loose(u) \subseteq Loose(u)' BY <2>7 DEF Loose
  <2>9. r.work \in Seq(SUBSET Loose(u))'
    <3>1. SUBSET Loose(u) \subseteq (SUBSET Loose(u))' BY <2>8
    <3>2. QED BY <2>4, <3>1, SeqMonotonic
  <2>10. RmErrand(u, t, r)' BY <2>4, <2>5, <2>8, <2>9 DEF RmErrand
  <2>11. QED BY <2>10 DEF Errand
<1>4. QED BY <1>2, <1>3 DEF Writes

-----------------------------------------------------------------------------
\* The working directory a step sets.
LEMMA PwdFirm ==
    ASSUME WInv, NEW s \in Sessions, Step(s)
    PROVE  /\ Firm(UserOf(s), pwd'[UserOf(s)])
           /\ \A u \in Users : u # UserOf(s) => pwd'[u] = pwd[u]
<1> DEFINE w == UserOf(s)
<1>1. /\ Firm(w, pwd[w]) /\ Firm(w, <<Home(w)>>) /\ w \in Users
      /\ pwd = [u \in Users |-> pwd[u]]
  BY WNow DEF WInv, UInv
<1>2. CASE Login(s)
  <2>1. pwd' = [pwd EXCEPT ![w] = <<Home(w)>>] BY <1>2 DEF Login
  <2>2. pwd'[w] = <<Home(w)>> /\ \A u \in Users : u # w => pwd'[u] = pwd[u] BY <1>1, <2>1
  <2>3. QED BY <1>1, <2>2
<1>3. CASE CdSetPwd(s)
  <2>1. todo[s] # <<>> /\ Head(todo[s]) = "setpwd" BY <1>3 DEF CdSetPwd, At
  <2>2. CdErrand(w, todo[s], reg[s]) BY <2>1, WNow, ErrandNow
  <2>3. Firm(w, reg[s].dst) BY <2>1, <2>2 DEF CdErrand
  <2>4. pwd' = pwd \/ pwd' = [pwd EXCEPT ![w] = reg[s].dst] BY <1>3 DEF CdSetPwd
  <2>5. /\ pwd'[w] = pwd[w] \/ pwd'[w] = reg[s].dst
        /\ \A u \in Users : u # w => pwd'[u] = pwd[u]
    BY <1>1, <2>4
  <2>6. QED BY <1>1, <2>3, <2>5
<1>4. CASE ~Login(s) /\ ~CdSetPwd(s)
  <2>1. pwd' = pwd BY <1>4, PwdSame
  <2>2. QED BY <1>1, <2>1
<1>5. QED BY <1>2, <1>3, <1>4

LEMMA SettledKept ==
    ASSUME Settled, \A u, p : Firm(u, p) => Firm(u, p)'
    PROVE  Settled'
<1>1. \A u, p : Needed(u, p)' <=> Needed(u, p) BY DEF Needed
<1>2. QED BY <1>1 DEF Settled

LEMMA StepSteady ==
    ASSUME Steady, WInv, NEW s \in Sessions, Step(s)
    PROVE  WInv'
<1> DEFINE w == UserOf(s)
<1>1. Tidy /\ UInv /\ IInv BY DEF Steady, WInv, UInv
<1>2. UInv' BY <1>1, StepUnique
<1>3. ASSUME NEW u, u # w \/ ~Writes(s)
      PROVE  SameRows(u)
  <2>1. CASE Writes(s) BY <1>1, <1>3, <2>1, WritesOwn, RowsOfSame
  <2>2. CASE ~Writes(s) BY <1>1, <2>2, OthersKeepRows, UnchangedSame
  <2>3. QED BY <2>1, <2>2
<1>4. ASSUME NEW u
      PROVE  /\ \A p, k : FirmTo(u, p, k) => FirmTo(u, p, k)'
             /\ \A p : Firm(u, p) => Firm(u, p)'
  <2>1. CASE u = w /\ Writes(s)
    <3>1. \A k \in Held(u) : k \in Mine(u)' /\ rows'[k] = rows[k] BY <2>1, HeldKept
    <3>2. QED BY <3>1, FirmKept
  <2>2. CASE u # w \/ ~Writes(s) BY <1>3, <2>2, FirmSame
  <2>3. QED BY <2>1, <2>2
<1>5. \A u, p : Firm(u, p) => Firm(u, p)' BY <1>4
<1>6. Settled' BY <1>5, SettledKept DEF WInv
<1>7. NoOrphans'
  <2>1. CASE Writes(s) BY <2>1, NoOrphansKept
  <2>2. CASE ~Writes(s)
    <3>1. rows' = rows BY <1>1, <2>2, OthersKeepRows
    <3>2. QED BY <3>1 DEF WInv, NoOrphans
  <2>3. QED BY <2>1, <2>2
<1>8. ASSUME NEW v \in Sessions, NEW t, NEW r, NEW p, NEW f,
             t = todo'[v], r = reg'[v], p = pwd'[UserOf(v)], f = father'[v]
      PROVE  (Firm(UserOf(v), p) /\ Errand(UserOf(v), t, r, p) /\ Fathered(UserOf(v), t, p, f))'
  <2> DEFINE u == UserOf(v)
  <2>1. ASSUME Firm(u, p), Fathered(u, t, p, f)
        PROVE  Firm(u, p)' /\ Fathered(u, t, p, f)'
    BY <1>4, <1>5, <2>1 DEF Fathered
  <2>2. CASE v = s
    <3>1. Firm(u, p) /\ Fathered(u, t, p, f) BY <1>8, <2>2, PwdFirm, FatheredSteps
    <3>2. Errand(u, t, r, p)'
      <4>1. CASE Writes(s) BY <1>8, <2>2, <4>1, ErrandWrites
      <4>2. CASE ~Writes(s)
        <5>1. Errand(u, t, r, p) BY <1>8, <2>2, <4>2, ErrandSteps
        <5>2. SameRows(u) BY <1>3, <4>2
        <5>3. QED BY <5>1, <5>2, ErrandKept
      <4>3. QED BY <4>1, <4>2
    <3>3. QED BY <2>1, <3>1, <3>2
  <2>3. CASE v # s
    <3>1. u # w BY <1>1, <2>3 DEF Tidy, Serial
    <3>2. SameRows(u) BY <1>3, <3>1
    <3>3. t = todo[v] /\ r = reg[v] /\ f = father[v] BY <1>1, <1>8, <2>3, OthersStay
    <3>4. u \in Users BY CommandsAssumption
    <3>5. p = pwd[u] BY <1>8, <3>1, <3>4, PwdFirm
    <3>6. Firm(u, p) /\ Errand(u, t, r, p) /\ Fathered(u, t, p, f) BY <3>3, <3>5 DEF WInv
    <3>7. Errand(u, t, r, p)' BY <3>2, <3>6, ErrandKept
    <3>8. QED BY <2>1, <3>6, <3>7
  <2>4. QED BY <2>2, <2>3
<1>9. QED BY <1>2, <1>6, <1>7, <1>8 DEF WInv

LEMMA SteadyInductive ==
    ASSUME Steady, WInv, [Next]_vars
    PROVE  WInv'
<1>1. CASE Next BY <1>1, StepSteady DEF Next
<1>2. CASE UNCHANGED vars
  <2>1. UInv' BY UniqueInductive DEF WInv, Steady
  <2>2. UNCHANGED <<rows, pwd, father, todo, reg>> BY <1>2 DEF vars, session
  <2>3. ASSUME NEW u
        PROVE  /\ SameRows(u) /\ \A p, k : FirmTo(u, p, k) => FirmTo(u, p, k)'
               /\ \A p : Firm(u, p) => Firm(u, p)'
    BY <2>2, UnchangedSame, FirmSame
  <2>4. \A u, p : Firm(u, p) => Firm(u, p)' BY <2>3
  <2>5. Settled' BY <2>4, SettledKept DEF WInv
  <2>6. NoOrphans' BY <2>2 DEF WInv, NoOrphans
  <2>7. ASSUME NEW v \in Sessions, NEW t, NEW r, NEW p, NEW f,
               t = todo'[v], r = reg'[v], p = pwd'[UserOf(v)], f = father'[v]
        PROVE  (Firm(UserOf(v), p) /\ Errand(UserOf(v), t, r, p) /\ Fathered(UserOf(v), t, p, f))'
    <3>1. Firm(UserOf(v), p) /\ Errand(UserOf(v), t, r, p) /\ Fathered(UserOf(v), t, p, f)
      BY <2>2, <2>7 DEF WInv
    <3>2. Errand(UserOf(v), t, r, p)' BY <2>3, <3>1, ErrandKept
    <3>3. QED BY <2>3, <2>4, <3>1, <3>2 DEF Fathered
  <2>8. QED BY <2>1, <2>5, <2>6, <2>7 DEF WInv
<1>3. QED BY <1>1, <1>2

LEMMA SteadyInit ==
    ASSUME Steady, Settled, Init
    PROVE  WInv
<1>1. UInv BY UniqueInit DEF Steady
<1>2. NoOrphans
  <2>1. \A i \in DOMAIN InitRows : InitRows[i].father \in Nat BY RowsAssumption
  <2>2. QED BY <2>1 DEF Init, NoOrphans
<1>3. ASSUME NEW s \in Sessions, NEW t, NEW r, NEW p, NEW f,
             t = todo[s], r = reg[s], p = pwd[UserOf(s)], f = father[s]
      PROVE  Firm(UserOf(s), p) /\ Errand(UserOf(s), t, r, p) /\ Fathered(UserOf(s), t, p, f)
  <2>1. UserOf(s) \in Users BY CommandsAssumption
  <2>2. t = <<>> /\ f = Null /\ p = <<Home(UserOf(s))>> BY <1>3, <2>1 DEF Init
  <2>3. Needed(UserOf(s), p) BY <2>2 DEF Needed
  <2>4. Firm(UserOf(s), p) BY <2>3 DEF Settled
  <2>5. QED BY <2>2, <2>4, ErrandNothing DEF Fathered
<1>4. QED BY <1>1, <1>2, <1>3 DEF WInv

LEMMA CachedFollows ==
    ASSUME Steady, WInv
    PROVE  CwdCached
<1>1. SUFFICES ASSUME NEW s \in Sessions, Idle(s), father[s] # Null
               PROVE  father[s] \in FileId(UserOf(s), pwd[UserOf(s)])
  BY DEF CwdCached
<1>2. PICK u, p, f : u = UserOf(s) /\ p = pwd[u] /\ f = father[s] OBVIOUS
<1>3. todo[s] # <<"getpwd", "cache">> /\ todo[s] # <<"cache">> BY <1>1 DEF Idle
<1>4. FirmTo(u, p, f) BY <1>1, <1>2, <1>3, WNow DEF Fathered
<1>5. FileId(u, p) = {f} BY <1>4, FirmId, VisitedSure DEF Steady, WInv, UInv
<1>6. QED BY <1>2, <1>5

\* An idle session's father id is that of the directory its user's row names, for any tree
\* and any sequence of steady commands that begin with their directories in place: the id was
\* looked up after the last cd or pwd, and what lies on the way there has not
\* been removed, moved or renamed since, by this command or a later one.
THEOREM FatherIdIsPwd ==
    ASSUME Steady
    PROVE  Settled /\ Spec => []CwdCached
<1>1. Settled /\ Init => WInv BY SteadyInit
<1>2. WInv /\ [Next]_vars => WInv' BY SteadyInductive
<1>3. WInv => CwdCached BY CachedFollows
<1>4. QED BY <1>1, <1>2, <1>3, PTL DEF Spec

-----------------------------------------------------------------------------
(***************************************************************************)
(* Every entry hangs below the root: one path leads to it.                 *)
(***************************************************************************)
\* The ways of rows along paths of names: at the root, or one component before.
LEMMA WayEnds ==
    ASSUME RowsClean, NoOrphans, NEW u, NEW p \in Seq(Names), NEW k \in FileId(u, p), k # -1
    PROVE  \/ p = <<>> /\ k = 0
           \/ /\ k \in Mine(u) /\ k # 0
              /\ \E q \in Seq(Names) : \E c \in Names :
                    /\ p = Append(q, c) /\ rows[k].name = c
                    /\ rows[k].father \in FileId(u, q) /\ rows[k].father # -1
<1>1. CASE p = <<>> BY <1>1, FileIdRoot
<1>2. CASE p # <<>>
  <2>1. PICK q \in Seq(Names), c \in Names : p = Append(q, c) BY <1>2, SequenceEmptyOrAppend
  <2>2. q \in Seq(Downward) BY SureIs
  <2>3. k \in Mine(u) /\ rows[k].name = c /\ rows[k].father \in FileId(u, q)
    BY <2>1, <2>2, LedTo
  <2>4. k # 0 /\ rows[k].father # -1 BY <2>3 DEF Mine, RowsClean, NoOrphans
  <2>5. QED BY <2>1, <2>3, <2>4
<1>3. QED BY <1>1, <1>2

\* An entry is reached by one path of names.
LEMMA OnePath ==
    ASSUME RowsClean, NoOrphans, NEW u, NEW p \in Seq(Names), NEW d \in Seq(Names),
           NEW k, k # -1, k \in FileId(u, p), k \in FileId(u, d)
    PROVE  d = p
<1> DEFINE A == {q \in Seq(Names) : \A e \in Seq(Names) : \A i :
                    i # -1 /\ i \in FileId(u, q) /\ i \in FileId(u, e) => e = q}
<1>1. <<>> \in A
  <2>1. SUFFICES ASSUME NEW e \in Seq(Names), NEW i, i # -1, i \in FileId(u, <<>>), i \in FileId(u, e)
                 PROVE  e = <<>>
    BY EmptySeq
  <2>2. i = 0 BY <2>1, FileIdRoot
  <2>3. QED BY <2>1, <2>2, WayEnds
<1>2. ASSUME NEW q \in Seq(Names), NEW c \in Names, q \in A
      PROVE  Append(q, c) \in A
  <2> DEFINE m == Append(q, c)
  <2>1. m \in Seq(Names) /\ m # <<>> BY AppendProperties
  <2> HIDE DEF m
  <2>2. SUFFICES ASSUME NEW e \in Seq(Names), NEW i, i # -1, i \in FileId(u, m), i \in FileId(u, e)
                 PROVE  e = m
    BY <2>1 DEF m
  <2>3. PICK x \in Seq(Names), a \in Names :
            /\ m = Append(x, a) /\ rows[i].name = a /\ i # 0
            /\ rows[i].father \in FileId(u, x) /\ rows[i].father # -1
    BY <2>1, <2>2, WayEnds
  <2>4. PICK y \in Seq(Names), b \in Names :
            /\ e = Append(y, b) /\ rows[i].name = b
            /\ rows[i].father \in FileId(u, y) /\ rows[i].father # -1
    <3>1. i # 0 BY <2>3
    <3>2. QED BY <2>2, <3>1, WayEnds
  <2>5. x = q
    <3>1. Append(x, a) = Append(q, c) BY <2>3 DEF m
    <3>2. QED BY <3>1, AppendInjective
  <2>6. PICK f : f = rows[i].father OBVIOUS
  <2>7. y = q BY <1>2, <2>3, <2>4, <2>5, <2>6
  <2>8. QED BY <2>3, <2>4, <2>5, <2>7
<1> HIDE DEF A
<1>3. Seq(Names) \subseteq A BY <1>1, <1>2, SeqUpTo
<1>4. QED BY <1>3 DEF A

\* Where a path goes on its beginning stays the same.
LEMMA PrefixOf ==
    ASSUME NEW S, NEW p \in Seq(S), NEW q \in Seq(S), NEW c \in S
    PROVE  /\ IsPrefix(p, p)
           /\ IsPrefix(p, q) => IsPrefix(p, Append(q, c))
           /\ p # <<>> /\ IsPrefix(p, q) => \E i \in 1..Len(q) : q[i] = Last(p)
<1>1. Len(p) \in Nat /\ Len(q) \in Nat BY LenProperties
<1>2. IsPrefix(p, p) BY <1>1 DEF IsPrefix
<1>3. ASSUME IsPrefix(p, q) PROVE IsPrefix(p, Append(q, c))
  <2> DEFINE m == Append(q, c)
  <2>1. m \in Seq(S) /\ Len(m) = Len(q) + 1 /\ \A i \in 1..Len(q) : m[i] = q[i] BY AppendProperties
  <2>2. Len(p) <= Len(q) /\ SubSeq(p, 1, Len(p)) = SubSeq(q, 1, Len(p)) BY <1>3 DEF IsPrefix
  <2> HIDE DEF m
  <2>3. SubSeq(m, 1, Len(p)) = SubSeq(q, 1, Len(p))
    <3>1. \A i \in 1..Len(p) : i \in 1..Len(q) BY <1>1, <2>2
    <3>2. /\ SubSeq(m, 1, Len(p)) = [i \in 1..Len(p) |-> m[i]]
          /\ SubSeq(q, 1, Len(p)) = [i \in 1..Len(p) |-> q[i]]
      BY <1>1, <2>1, <2>2
    <3>3. QED BY <2>1, <3>1, <3>2
  <2>4. QED BY <1>1, <2>1, <2>2, <2>3 DEF IsPrefix, m
<1>4. ASSUME p # <<>>, IsPrefix(p, q) PROVE \E i \in 1..Len(q) : q[i] = Last(p)
  <2>1. Len(p) <= Len(q) /\ SubSeq(p, 1, Len(p)) = SubSeq(q, 1, Len(p)) BY <1>4 DEF IsPrefix
  <2>2. Len(p) # 0 BY <1>4, EmptySeq
  <2>3. Len(p) \in 1..Len(p) /\ Len(p) \in 1..Len(q) BY <1>1, <2>1, <2>2
  <2>4. SubSeq(p, 1, Len(p))[Len(p)] = p[Len(p)] /\ SubSeq(q, 1, Len(p))[Len(p)] = q[Len(p)]
    BY <1>1, <2>1, <2>3
  <2>5. QED BY <2>1, <2>3, <2>4 DEF Last
<1>5. QED BY <1>2, <1>3, <1>4

-----------------------------------------------------------------------------
(***************************************************************************)
(* Trees without cycles.                                                   *)
(***************************************************************************)
\* No entries of u hang below one another only.
Grounded(u) == \A D \in SUBSET Mine(u) : (\A i \in D : rows[i].father \in D) => D = {}

\* Whatever hangs below itself only, but for the entry at path a, has no entry of a path
\* that does not go through a.
LEMMA Climb ==
    ASSUME RowsClean, NoOrphans, NEW u, NEW a \in Seq(Names), NEW id \in FileId(u, a), id # -1,
           NEW D \in SUBSET Mine(u), \A i \in D \ {id} : rows[i].father \in D,
           NEW p \in Seq(Names), ~IsPrefix(a, p), NEW k \in FileId(u, p), k # -1
    PROVE  k \notin D
<1> DEFINE A == {q \in Seq(Names) : \A j \in FileId(u, q) : j # -1 /\ ~IsPrefix(a, q) => j \notin D}
<1>1. <<>> \in A
  <2>1. 0 \notin D BY DEF Mine, RowsClean
  <2>2. QED BY <2>1, FileIdRoot, EmptySeq
<1>2. ASSUME NEW q \in Seq(Names), NEW c \in Names, q \in A
      PROVE  Append(q, c) \in A
  <2> DEFINE m == Append(q, c)
  <2>1. m \in Seq(Names) /\ m # <<>> BY AppendProperties
  <2>2. ~IsPrefix(a, m) => ~IsPrefix(a, q) BY PrefixOf
  <2> HIDE DEF m
  <2>3. SUFFICES ASSUME NEW j \in FileId(u, m), j # -1, ~IsPrefix(a, m), j \in D
                 PROVE  FALSE
    BY <2>1 DEF m
  <2>4. PICK x \in Seq(Names), b \in Names :
            /\ m = Append(x, b) /\ rows[j].name = b
            /\ rows[j].father \in FileId(u, x) /\ rows[j].father # -1
    BY <2>1, <2>3, WayEnds
  <2>5. x = q
    <3>1. Append(x, b) = Append(q, c) BY <2>4 DEF m
    <3>2. QED BY <3>1, AppendInjective
  <2>6. j # id
    <3>1. ASSUME j = id PROVE FALSE
      <4>1. id \in FileId(u, m) BY <2>3, <3>1
      <4>2. a = m BY <2>1, <4>1, OnePath
      <4>3. IsPrefix(m, m) BY <2>1, PrefixOf
      <4>4. QED BY <2>3, <4>2, <4>3
    <3>2. QED BY <3>1
  <2>7. rows[j].father \in D BY <2>3, <2>6
  <2>8. PICK f : f = rows[j].father OBVIOUS
  <2>9. f \in FileId(u, q) /\ f # -1 /\ f \in D BY <2>4, <2>5, <2>7, <2>8
  <2>10. QED BY <1>2, <2>2, <2>3, <2>9
<1> HIDE DEF A
<1>3. Seq(Names) \subseteq A BY <1>1, <1>2, SeqUpTo
<1>4. QED BY <1>3 DEF A

\* Where rows only go, nothing begins to hang in the air.
LEMMA GroundedShrinks ==
    ASSUME NEW u, Grounded(u), \A k \in Mine(u)' : k \in Mine(u) /\ rows'[k] = rows[k]
    PROVE  Grounded(u)'
<1>1. SUFFICES ASSUME NEW D \in SUBSET Mine(u)', \A i \in D : rows'[i].father \in D
               PROVE  D = {}
  BY DEF Grounded
<1>2. D \in SUBSET Mine(u) /\ \A i \in D : rows[i].father \in D BY <1>1
<1>3. QED BY <1>2 DEF Grounded

\* A new entry has nothing below it.
LEMMA InsertGrounded ==
    ASSUME RowsClean, NEW u, Grounded(u), NEW f, NEW n, NEW y, Insert(f, n, y, u), Parent(u, f)
    PROVE  Grounded(u)'
<1>1. /\ \A i \in Mine(u) : rows[i].father \in OwnIds(u) /\ rows'[i] = rows[i]
      /\ nextId \in Nat \ {0} /\ nextId \notin DOMAIN rows
      /\ rows'[nextId].father = f /\ Mine(u)' \subseteq Mine(u) \cup {nextId}
  BY DEF RowsClean, RowClean, Insert, Mine
<1>2. f # nextId BY <1>1 DEF Parent, Mine
<1>3. \A i \in Mine(u) : rows[i].father # nextId BY <1>1 DEF OwnIds
<1>4. SUFFICES ASSUME NEW D \in SUBSET Mine(u)', \A i \in D : rows'[i].father \in D
               PROVE  D = {}
  BY DEF Grounded
<1> DEFINE E == D \ {nextId}
<1>5. E \in SUBSET Mine(u) BY <1>1
<1>6. ASSUME NEW i \in E PROVE rows[i].father \in E
  <2>1. i \in Mine(u) /\ i \in D BY <1>5
  <2>2. rows[i].father \in D /\ rows[i].father # nextId BY <1>1, <1>3, <1>4, <2>1
  <2>3. QED BY <2>2
<1>7. E = {} BY <1>5, <1>6 DEF Grounded
<1>8. ASSUME nextId \in D PROVE FALSE
  <2>1. f \in D BY <1>1, <1>4, <1>8
  <2>2. QED BY <1>2, <1>7, <2>1
<1>9. QED BY <1>7, <1>8

\* An entry may hang below what a path leads to that does not go through it.
LEMMA UpdateGrounded ==
    ASSUME RowsClean, NoOrphans, NEW u, Grounded(u), NEW s, NEW row, Update(s, row),
           NEW a, NEW p, NEW k, k = reg[s].id,
           k \in DOMAIN rows =>
              /\ row.user = u /\ rows[k].user = u
              /\ \/ row.father = rows[k].father
                 \/ /\ a \in Seq(Names) /\ k \in FileId(u, a)
                    /\ p \in Seq(Names) /\ row.father \in FileId(u, p) /\ row.father # -1
                    /\ ~IsPrefix(a, p)
    PROVE  Grounded(u)'
<1>1. CASE rows' = rows BY <1>1 DEF Grounded, Mine
<1>2. CASE k \in DOMAIN rows /\ rows' = [rows EXCEPT ![k] = row]
  <2>1. /\ DOMAIN rows' = DOMAIN rows /\ rows'[k] = row /\ k # -1
        /\ \A i \in DOMAIN rows \ {k} : rows'[i] = rows[i]
    BY <1>2 DEF RowsClean
  <2>2. row.user = u /\ rows[k].user = u BY <1>2
  <2>3. Mine(u)' = Mine(u) /\ k \in Mine(u) /\ \A i \in Mine(u) \ {k} : rows'[i] = rows[i]
    BY <1>2, <2>1, <2>2 DEF Mine
  <2>4. SUFFICES ASSUME NEW D \in SUBSET Mine(u), \A i \in D : rows'[i].father \in D
                 PROVE  D = {}
    BY <2>3 DEF Grounded
  <2>5. \A i \in D \ {k} : rows[i].father \in D
    <3>1. SUFFICES ASSUME NEW i \in D \ {k} PROVE rows[i].father \in D OBVIOUS
    <3>2. rows'[i] = rows[i] BY <2>3
    <3>3. rows'[i].father \in D BY <2>4
    <3>4. QED BY <3>2, <3>3
  <2>6. CASE row.father = rows[k].father
    <3>1. \A i \in D : rows[i].father \in D BY <2>1, <2>4, <2>5, <2>6
    <3>2. QED BY <3>1 DEF Grounded
  <2>7. CASE row.father # rows[k].father
    <3>1. PICK f : f = row.father OBVIOUS
    <3>2. /\ a \in Seq(Names) /\ k \in FileId(u, a) /\ p \in Seq(Names)
          /\ f \in FileId(u, p) /\ f # -1 /\ ~IsPrefix(a, p)
      BY <1>2, <2>7, <3>1
    <3>3. f \notin D BY <2>1, <2>5, <3>2, Climb
    <3>4. k \notin D BY <2>1, <2>4, <3>1, <3>3
    <3>5. \A i \in D : rows[i].father \in D BY <2>5, <3>4
    <3>6. QED BY <3>5 DEF Grounded
  <2>8. QED BY <2>6, <2>7
<1>3. QED BY <1>1, <1>2 DEF Update

-----------------------------------------------------------------------------
(***************************************************************************)
(* Entries in directories that are there.                                  *)
(***************************************************************************)
\* Every entry of u is in the root or in a directory of u, but for what rm has left.
Placed(u) == \A i \in Mine(u) : i \in lost \/ Parent(u, rows[i].father)

\* rm leaves files only.
LostFiles == \A i \in lost : i \in Int /\ i < nextId /\ (i \in DOMAIN rows => rows[i].type = "f")

InWork(w, i) == \E n \in DOMAIN w : i \in w[n]

\* rm has come to the steps t with the locals r, and has still to remove entry i below f.
Due(t, r, i, f) ==
    \/ /\ \/ t = <<"remove">> \/ t = <<"list", "remove">>
          \/ t = <<"delete", "remove">> \/ t = <<"delete", "list", "remove">>
       /\ InWork(r.work, i)
    \/ (t = <<"delete", "remove">> \/ t = <<"delete", "list", "remove">>) /\ i = r.dir
    \/ t = <<"list", "remove">> /\ f = r.dir

\* What is in no directory is about to be removed, or rm has left it.
Hung(u) ==
    \A i \in Mine(u) :
        \/ i \in lost
        \/ Parent(u, rows[i].father)
        \/ \E s \in Sessions : UserOf(s) = u /\ Due(todo[s], reg[s], i, rows[i].father)

\* What rm has to visit, one set of ids after the other.
LEMMA WorkIs ==
    ASSUME NEW S, NEW w \in Seq(S), NEW x \in S, NEW i
    PROVE  /\ ~InWork(<<>>, i)
           /\ InWork(<<x>> \o w, i) <=> i \in x \/ InWork(w, i)
           /\ w # <<>> => (InWork(w, i) <=> i \in Head(w) \/ InWork(Tail(w), i))
<1>1. \A v \in Seq(S) : DOMAIN v = 1..Len(v) /\ Len(v) \in Nat BY LenProperties
<1>2. ~InWork(<<>>, i)
  <2>1. DOMAIN <<>> = {} OBVIOUS
  <2>2. QED BY <2>1 DEF InWork
<1>3. ASSUME NEW v \in Seq(S), NEW y \in S
      PROVE  InWork(<<y>> \o v, i) <=> i \in y \/ InWork(v, i)
  <2> DEFINE z == <<y>> \o v
  <2>1. /\ z \in Seq(S) /\ Len(z) = Len(v) + 1 /\ z[1] = y
        /\ \A n \in 1..Len(v) : z[n + 1] = v[n]
    <3>1. <<y>> \in Seq(S) /\ Len(<<y>>) = 1 OBVIOUS
    <3>2. QED BY <1>1, <3>1
  <2> HIDE DEF z
  <2>2. DOMAIN z = 1..(Len(v) + 1) /\ DOMAIN v = 1..Len(v) /\ Len(v) \in Nat BY <1>1, <2>1
  <2>3. \A m \in 1..(Len(v) + 1) : m = 1 \/ (m - 1 \in 1..Len(v) /\ (m - 1) + 1 = m) BY <2>2
  <2>4. 1 \in 1..(Len(v) + 1) /\ \A n \in 1..Len(v) : n + 1 \in 1..(Len(v) + 1) BY <2>2
  <2>5. InWork(z, i) => i \in y \/ InWork(v, i)
    <3>1. SUFFICES ASSUME NEW m \in 1..(Len(v) + 1), i \in z[m] PROVE i \in y \/ InWork(v, i)
      BY <2>2 DEF InWork
    <3>2. CASE m = 1 BY <2>1, <3>1, <3>2
    <3>3. CASE m # 1
      <4>1. m - 1 \in 1..Len(v) /\ (m - 1) + 1 = m BY <2>3, <3>3
      <4>2. z[m] = v[m - 1] BY <2>1, <4>1
      <4>3. QED BY <2>2, <3>1, <4>1, <4>2 DEF InWork
    <3>4. QED BY <3>2, <3>3
  <2>6. i \in y \/ InWork(v, i) => InWork(z, i)
    <3>1. i \in y => InWork(z, i) BY <2>1, <2>2, <2>4 DEF InWork
    <3>2. ASSUME NEW n \in 1..Len(v), i \in v[n] PROVE InWork(z, i)
      <4>1. n + 1 \in DOMAIN z /\ z[n + 1] = v[n] BY <2>1, <2>2, <2>4
      <4>2. QED BY <3>2, <4>1 DEF InWork
    <3>3. QED BY <2>2, <3>1, <3>2 DEF InWork
  <2>7. QED BY <2>5, <2>6 DEF z
<1>4. ASSUME w # <<>>
      PROVE  InWork(w, i) <=> i \in Head(w) \/ InWork(Tail(w), i)
  <2>1. Head(w) \in S /\ Tail(w) \in Seq(S) BY <1>4, HeadTailProperties
  <2>2. <<Head(w)>> \o Tail(w) = w
    <3>1. Len(w) \in Nat /\ Len(w) # 0 BY <1>1, <1>4, EmptySeq
    <3>2. QED BY <3>1
  <2>3. InWork(<<Head(w)>> \o Tail(w), i) <=> i \in Head(w) \/ InWork(Tail(w), i) BY <1>3, <2>1
  <2>4. QED BY <2>2, <2>3
<1>5. QED BY <1>2, <1>3, <1>4

\* Only rm has something to remove.
LEMMA DueNow ==
    ASSUME NEW t, NEW r, NEW i, NEW f, Due(t, r, i, f)
    PROVE  t # <<>> /\ Head(t) \in {"remove", "delete", "list"}
<1>1. CASE t = <<"remove">> BY <1>1
<1>2. CASE t = <<"list", "remove">> BY <1>2
<1>3. CASE t = <<"delete", "remove">> BY <1>3
<1>4. CASE t = <<"delete", "list", "remove">> BY <1>4
<1>5. QED BY <1>1, <1>2, <1>3, <1>4 DEF Due

\* rm goes on by a few steps only.
LEMMA RemovingSteps ==
    ASSUME NEW s \in Sessions, Step(s), todo[s] # <<>>, Head(todo[s]) \in {"remove", "delete", "list"},
           ~Writes(s)
    PROVE  GetNextFileId(s) \/ RmType(s) \/ RmList(s)
<1> DEFINE t == todo[s]
<1>1. Login(s) \/ Leave(s) \/ CmdAnalyse(s) => t = <<>> BY DEF Login, Leave, CmdAnalyse, Idle
<1>2. CheckNames(s) \/ RmFound(s) \/ Present(s) => Head(t) \in {"names", "found", "present"}
  BY DEF CheckNames, RmFound, Present, At
<1>3. MvSource(s) \/ MvTarget(s) \/ MvSameName(s) => Head(t) \in {"source", "target", "samename"}
  BY DEF MvSource, MvTarget, MvSameName, At
<1>4. CdIsDir(s) \/ CdSamePwd(s) \/ CdSetPwd(s) => Head(t) \in {"isdir", "samepwd", "setpwd"}
  BY DEF CdIsDir, CdSamePwd, CdSetPwd, At
<1>5. GetPwd(s) \/ Cache(s) \/ Enter(s) => Head(t) \in {"getpwd", "cache", "enter"}
  BY DEF GetPwd, Cache, Enter, At
<1>6. QED BY <1>1, <1>2, <1>3, <1>4, <1>5 DEF Step, Writes

\* What rm has to remove it does not forget.
LEMMA DueSteps ==
    ASSUME WInv, NEW s \in Sessions, Step(s), ~Writes(s), NEW i \in Mine(UserOf(s)),
           NEW f, f = rows[i].father, Due(todo[s], reg[s], i, f)
    PROVE  Due(todo'[s], reg'[s], i, f)
<1> DEFINE u == UserOf(s)  t == todo[s]  r == reg[s]  L == SUBSET Loose(u)
<1>1. /\ IInv /\ RowsClean /\ DOMAIN r = Fields BY DEF WInv, UInv, IInv, LocalsClean, Clean
<1>2. t # <<>> /\ Head(t) \in {"remove", "delete", "list"} BY DueNow
<1>3. r.work \in Seq(L)
  <2>1. RmErrand(u, t, r) BY <1>2, WNow, ErrandNow
  <2>2. ~(t = <<"found", "remove">>) BY <1>2
  <2>3. QED BY <2>1, <2>2 DEF RmErrand
<1>4. CASE GetNextFileId(s)
  <2>1. PICK j \in NextFileId(u, r.cur, Head(r.path)) :
            GoOn(s, t, [r EXCEPT !.cur = j, !.path = Tail(@)])
    BY <1>4, Zenon DEF GetNextFileId
  <2> DEFINE q == [r EXCEPT !.cur = j, !.path = Tail(@)]
  <2>2. q.dir = r.dir /\ q.work = r.work BY <1>1 DEF Fields
  <2>3. todo'[s] = t /\ reg'[s] = q BY <1>1, <2>1, After1
  <2> HIDE DEF q
  <2>4. QED BY <2>2, <2>3 DEF Due
<1>5. CASE RmList(s)
  <2> DEFINE children == {j \in DOMAIN rows : rows[j].father = r.dir /\ rows[j].user = u}
             first == IF children = {} THEN <<>> ELSE <<children>>
             q == [r EXCEPT !.work = first \o @]
  <2>1. Head(t) = "list" /\ Then(s, q) BY <1>5 DEF RmList, At
  <2>2. t = <<"list", "remove">>
    <3>1. t # <<"remove">> /\ t # <<"delete", "remove">> /\ t # <<"delete", "list", "remove">> BY <2>1
    <3>2. QED BY <3>1 DEF Due
  <2>3. InWork(r.work, i) \/ f = r.dir BY <2>2 DEF Due
  <2>4. f = r.dir => i \in children BY DEF Mine
  <2>5. q.work = first \o r.work
    <3> HIDE DEF first
    <3>1. QED BY <1>1 DEF Fields
  <2>6. InWork(first \o r.work, i)
    <3> HIDE DEF children
    <3>1. CASE children = {}
      <4>1. first \o r.work = r.work BY <1>3, <3>1, ConcatEmptySeq
      <4>2. QED BY <2>3, <2>4, <3>1, <4>1
    <3>2. CASE children # {}
      <4>1. first = <<children>> BY <3>2
      <4>2. PICK M : r.work \in Seq(M) /\ children \in M
        <5> HIDE DEF L
        <5>1. L \subseteq L \cup {children} /\ children \in L \cup {children} OBVIOUS
        <5>2. r.work \in Seq(L \cup {children}) BY <1>3, <5>1, SeqMonotonic
        <5>3. QED BY <5>1, <5>2
      <4>3. InWork(<<children>> \o r.work, i) <=> i \in children \/ InWork(r.work, i)
        BY <4>2, WorkIs
      <4>4. QED BY <2>3, <2>4, <4>1, <4>3
    <3>3. QED BY <3>1, <3>2
  <2>7. todo'[s] = <<"remove">> /\ reg'[s] = q
    <3>1. Tail(t) = <<"remove">> BY <2>2
    <3>2. QED BY <1>1, <2>1, <3>1, After1
  <2> HIDE DEF q, first
  <2>8. QED BY <2>5, <2>6, <2>7 DEF Due
<1>6. CASE RmType(s)
  <2> DEFINE work == r.work
  <2>1. Head(t) = "remove" BY <1>6, Zenon DEF RmType, At
  <2>2. InWork(work, i)
    <3>1. t # <<"list", "remove">> /\ t # <<"delete", "remove">> /\ t # <<"delete", "list", "remove">>
      BY <2>1
    <3>2. QED BY <3>1 DEF Due
  <2>3. work # <<>> BY <1>3, <2>2 DEF InWork
  <2> DEFINE rest(j) == IF Head(work) = {j} THEN Tail(work)
                        ELSE <<Head(work) \ {j}>> \o Tail(work)
             steps(j) == CASE TypeOf(j) = "d"    -> <<"delete", "list", "remove">>
                           [] TypeOf(j) = "f"    -> <<"delete", "remove">>
                           [] TypeOf(j) = "none" -> <<"remove">>
             q(j) == [r EXCEPT !.dir = j, !.work = rest(j)]
  <2>4. PICK j \in Head(work) : GoOn(s, steps(j), q(j))
    BY <1>6, <2>3, Zenon DEF RmType
  <2>5. Head(work) \in L /\ Tail(work) \in Seq(L) BY <1>3, <2>3, HeadTailProperties
  <2>6. i \in Head(work) \/ InWork(Tail(work), i)
    <3> HIDE DEF L, work
    <3>1. Head(work) \in L /\ Tail(work) \in Seq(L) BY <2>5
    <3>2. work \in Seq(L) BY <1>3 DEF work
    <3>3. QED BY <2>2, <2>3, <3>1, <3>2, WorkIs
  <2>7. ASSUME i # j PROVE InWork(rest(j), i)
    <3> HIDE DEF work
    <3>1. CASE Head(work) = {j} BY <2>6, <2>7, <3>1
    <3>2. CASE Head(work) # {j}
      <4>1. Head(work) \ {j} \in L BY <2>5
      <4> HIDE DEF L
      <4>2. PICK x \in L, w \in Seq(L) : x = Head(work) \ {j} /\ w = Tail(work) BY <2>5, <4>1
      <4>3. InWork(<<x>> \o w, i) <=> i \in x \/ InWork(w, i) BY WorkIs
      <4>4. rest(j) = <<x>> \o w BY <3>2, <4>2
      <4> HIDE DEF rest
      <4>5. i \in x \/ InWork(w, i) BY <2>6, <2>7, <4>2
      <4>6. QED BY <4>3, <4>4, <4>5
    <3>3. QED BY <3>1, <3>2
  <2>8. /\ \/ steps(j) = <<"remove">> \/ steps(j) = <<"delete", "remove">>
           \/ steps(j) = <<"delete", "list", "remove">>
        /\ j \in DOMAIN rows => steps(j) # <<"remove">>
    BY <1>1 DEF TypeOf, RowsClean, RowClean
  <2>9. q(j).work = rest(j) /\ q(j).dir = j
    <3> HIDE DEF rest
    <3>1. QED BY <1>1 DEF Fields
  <2>10. todo'[s] = steps(j) /\ reg'[s] = q(j) BY <1>1, <2>4, After1
  <2>11. i \in DOMAIN rows BY DEF Mine
  <2> HIDE DEF q, rest, steps
  <2>12. Due(steps(j), q(j), i, f) BY <2>7, <2>8, <2>9, <2>11 DEF Due
  <2>13. QED BY <2>10, <2>12
<1>7. QED BY <1>2, <1>4, <1>5, <1>6, RemovingSteps

\* One session serves a user.
LEMMA HungNow ==
    ASSUME Serial, NEW s \in Sessions, Hung(UserOf(s)), NEW i \in Mine(UserOf(s))
    PROVE  i \in lost \/ Parent(UserOf(s), rows[i].father) \/ Due(todo[s], reg[s], i, rows[i].father)
BY DEF Hung, Serial

\* mkdir and an upload put their entry into a directory.
LEMMA InsertPlaced ==
    ASSUME RowsClean, NEW u, Placed(u), NEW f, NEW n, NEW y, Insert(f, n, y, u), Parent(u, f),
           lost' = lost
    PROVE  Placed(u)'
<1>1. /\ Mine(u)' = Mine(u) \cup {nextId} /\ \A i \in Mine(u) : rows'[i] = rows[i]
      /\ rows'[nextId].father = f /\ nextId \notin Mine(u)
  BY DEF RowsClean, Insert, Mine
<1>2. \A k : Parent(u, k) => Parent(u, k)' BY <1>1 DEF Parent
<1>3. SUFFICES ASSUME NEW i \in Mine(u)', NEW g, g = rows'[i].father, i \notin lost
               PROVE  Parent(u, g)'
  BY DEF Placed, Parent
<1>4. CASE i = nextId BY <1>1, <1>2, <1>3, <1>4
<1>5. CASE i # nextId
  <2>1. i \in Mine(u) /\ rows'[i] = rows[i] BY <1>1, <1>5
  <2>2. Parent(u, g) BY <1>3, <2>1 DEF Placed
  <2>3. QED BY <1>2, <2>2
<1>6. QED BY <1>4, <1>5

\* mv puts it into another one, and what was below it stays there.
LEMMA UpdatePlaced ==
    ASSUME RowsClean, NEW u, Placed(u), NEW s, NEW row, Update(s, row), NEW k, k = reg[s].id,
           k \in DOMAIN rows => /\ row.user = u /\ rows[k].user = u /\ row.type = rows[k].type
                                /\ k \in lost \/ Parent(u, row.father),
           lost' = lost
    PROVE  Placed(u)'
<1>1. CASE rows' = rows BY <1>1 DEF Placed, Parent, Mine
<1>2. CASE k \in DOMAIN rows /\ rows' = [rows EXCEPT ![k] = row]
  <2>1. /\ DOMAIN rows' = DOMAIN rows /\ rows'[k] = row
        /\ \A i \in DOMAIN rows \ {k} : rows'[i] = rows[i]
    BY <1>2 DEF RowsClean
  <2>2. row.user = u /\ rows[k].user = u /\ row.type = rows[k].type BY <1>2
  <2>3. /\ Mine(u)' = Mine(u) /\ k \in Mine(u) /\ \A i \in Mine(u) \ {k} : rows'[i] = rows[i]
        /\ \A i \in Mine(u) : rows'[i].type = rows[i].type
    BY <1>2, <2>1, <2>2 DEF Mine
  <2>4. \A j : Parent(u, j) => Parent(u, j)' BY <2>3 DEF Parent
  <2>5. SUFFICES ASSUME NEW i \in Mine(u), NEW g, g = rows'[i].father, i \notin lost
                 PROVE  Parent(u, g)'
    BY <2>3 DEF Placed, Parent
  <2>6. CASE i = k BY <1>2, <2>1, <2>4, <2>5, <2>6
  <2>7. CASE i # k
    <3>1. rows'[i] = rows[i] BY <2>3, <2>7
    <3>2. Parent(u, g) BY <2>5, <3>1 DEF Placed
    <3>3. QED BY <2>4, <3>2
  <2>8. QED BY <2>6, <2>7
<1>3. QED BY <1>1, <1>2 DEF Update

\* Where an upload goes is a directory.
LEMMA FatherParent ==
    ASSUME Steady, WInv, NEW s \in Sessions, todo[s] # <<>>, Head(todo[s]) = "store", father[s] # Null
    PROVE  Parent(UserOf(s), father[s])
<1> DEFINE t == todo[s]
<1>1. t # <<"getpwd", "cache">> /\ t # <<"cache">> OBVIOUS
<1>2. PICK u, p, f : u = UserOf(s) /\ p = pwd[u] /\ f = father[s] OBVIOUS
<1>3. FirmTo(u, p, f) /\ Firm(u, p) BY <1>1, <1>2, WNow DEF Fathered
<1>4. FileId(u, p) = {f} BY <1>3, FirmId, VisitedSure DEF Steady, WInv, UInv
<1>5. PICK k : FileId(u, p) = {k} /\ Parent(u, k) BY <1>3, FirmWhere DEF WInv, Steady
<1>6. f = k BY <1>4, <1>5
<1>7. QED BY <1>2, <1>5, <1>6

\* Where mv gives a new name is a directory.
LEMMA RenameParent ==
    ASSUME Steady, WInv, NEW s \in Sessions, todo[s] # <<>>, Head(todo[s]) = "rename", reg[s].path = <<>>
    PROVE  Parent(UserOf(s), reg[s].cur) /\ reg[s].cur \in FileId(UserOf(s), Up(reg[s]))
<1> DEFINE u == UserOf(s)  t == todo[s]  r == reg[s]
<1>1. MvErrand(u, t, r) BY WNow, ErrandNow
<1>2. Firm(u, Up(r)) BY <1>1 DEF MvErrand
<1>3. KnowsRename(u, t, r) BY KnowsNow DEF WInv, UInv
<1>4. r.cur \in FileId(u, Up(r)) BY <1>3, OnWayEnd DEF KnowsRename
<1>5. PICK p : p = Up(r) OBVIOUS
<1>6. PICK k : FileId(u, p) = {k} /\ Parent(u, k) BY <1>2, <1>5, FirmWhere DEF WInv, Steady
<1>7. QED BY <1>4, <1>5, <1>6

\* No write leaves an entry without a directory, but for what rm goes on to remove.
LEMMA WritesHung ==
    ASSUME Steady, WInv, NEW s \in Sessions, Writes(s), Hung(UserOf(s)),
           todo[s] = <<"store">> => father[s] # Null
    PROVE  Hung(UserOf(s))'
<1> DEFINE u == UserOf(s)  t == todo[s]  r == reg[s]
<1>1. /\ IInv /\ RowsClean /\ Serial
      /\ r.id \in DOMAIN rows => rows[r.id].user = u /\ RowClean(r.id)
  BY DEF Steady, Tidy, WInv, UInv, IInv, RowsClean, LocalsClean, Clean, OwnIds
<1>2. Placed(u)' => Hung(u)' BY DEF Placed, Hung, Parent
<1>3. ASSUME t # <<>>, Head(t) \in {"insert", "store", "move", "rename"}
      PROVE  Placed(u)
  <2>1. \A i, f : ~Due(t, r, i, f)
    <3>1. Head(t) \notin {"remove", "delete", "list"} BY <1>3
    <3>2. QED BY <3>1, DueNow
  <2>2. QED BY <1>1, <2>1, HungNow DEF Placed
<1>4. CASE InsertDir(s)
  <2>1. t # <<>> /\ Head(t) = "insert" BY <1>4 DEF InsertDir, At
  <2>2. MakeErrand(u, t, r) BY <2>1, WNow, ErrandNow
  <2>3. Parent(u, r.cur) BY <2>1, <2>2 DEF MakeErrand
  <2>4. Insert(r.cur, Last(r.src), "d", u) /\ lost' = lost BY <1>4 DEF InsertDir, counters
  <2>5. QED BY <1>1, <1>2, <1>3, <2>1, <2>3, <2>4, InsertPlaced
<1>5. CASE Store(s)
  <2>1. t # <<>> /\ Head(t) = "store" BY <1>5 DEF Store, At
  <2>2. t = <<"store">>
    <3>1. MakeErrand(u, t, r) BY <2>1, WNow, ErrandNow
    <3>2. t # <<"names", "insert">> /\ t # <<"insert">> /\ t # <<"present", "store">> BY <2>1
    <3>3. QED BY <3>1, <3>2 DEF MakeErrand
  <2>3. Parent(u, father[s]) BY <2>1, <2>2, FatherParent
  <2>4. Insert(father[s], Last(r.src), "f", u) /\ lost' = lost BY <1>5 DEF Store, counters
  <2>5. QED BY <1>1, <1>2, <1>3, <2>1, <2>3, <2>4, InsertPlaced
<1>6. CASE MvMove(s)
  <2> DEFINE row == [rows[r.id] EXCEPT !.father = r.dir]
  <2>1. t # <<>> /\ Head(t) = "move" BY <1>6 DEF MvMove, At
  <2>2. MvErrand(u, t, r) BY <2>1, WNow, ErrandNow
  <2>3. Parent(u, r.dir) BY <2>1, <2>2 DEF MvErrand
  <2>4. r.id \in DOMAIN rows => row.user = u /\ row.father = r.dir /\ row.type = rows[r.id].type
    BY <1>1 DEF RowClean, RowFields
  <2>5. Update(s, row) /\ lost' = lost BY <1>6 DEF MvMove, counters
  <2> HIDE DEF row
  <2>6. Placed(u) BY <1>3, <2>1
  <2>7. Placed(u)' BY <1>1, <2>3, <2>4, <2>5, <2>6, UpdatePlaced
  <2>8. QED BY <1>2, <2>7
<1>7. CASE MvRename(s)
  <2> DEFINE row == [rows[r.id] EXCEPT !.name = Last(Normal(r.dst)),
                                       !.father = IF r.moves THEN r.cur ELSE @]
  <2>1. t # <<>> /\ Head(t) = "rename" /\ r.path = <<>> BY <1>7 DEF MvRename, At
  <2>2. Parent(u, r.cur) BY <2>1, RenameParent
  <2>3. r.id \in DOMAIN rows => /\ row.user = u /\ row.type = rows[r.id].type
                                /\ row.father = IF r.moves THEN r.cur ELSE rows[r.id].father
    BY <1>1 DEF RowClean, RowFields
  <2>4. Update(s, row) /\ lost' = lost BY <1>7 DEF MvRename, counters
  <2> HIDE DEF row
  <2>5. Placed(u) BY <1>3, <2>1
  <2>6. r.id \in DOMAIN rows => r.id \in lost \/ Parent(u, row.father)
    <3>1. r.id \in DOMAIN rows => r.id \in lost \/ Parent(u, rows[r.id].father)
      BY <1>1, <2>5 DEF Placed, Mine
    <3>2. QED BY <2>2, <2>3, <3>1
  <2>7. Placed(u)' BY <1>1, <2>3, <2>4, <2>5, <2>6, UpdatePlaced
  <2>8. QED BY <1>2, <2>7
<1>8. CASE RmDelete(s)
  <2>1. t # <<>> /\ Head(t) = "delete" /\ Then(s, r) BY <1>8 DEF RmDelete, At
  <2>2. RmErrand(u, t, r) BY <2>1, WNow, ErrandNow
  <2>3. /\ t = <<"delete", "remove">> \/ t = <<"delete", "list", "remove">>
        /\ t = <<"delete", "remove">> => ~Parent(u, r.dir)
    BY <2>1, <2>2 DEF RmErrand
  <2>4. todo'[s] = Tail(t) /\ reg'[s] = r BY <1>1, <2>1, After1
  <2>5. SUFFICES ASSUME NEW i \in Mine(u)', NEW f, f = rows'[i].father
                 PROVE  i \in lost' \/ Parent(u, f)' \/ Due(todo'[s], reg'[s], i, f)
    BY DEF Hung, Parent
  <2>6. i \in Mine(u) /\ f = rows[i].father BY <1>8, <2>5, DeleteRows DEF Mine
  <2>7. i \in lost => i \in lost' BY <1>8, DeleteRows
  <2>8. i \in lost \/ Parent(u, f) \/ Due(t, r, i, f) BY <1>1, <2>6, HungNow
  <2>9. \/ i # r.dir /\ \A k : Parent(u, k) /\ k # r.dir => Parent(u, k)'
        \/ rows' = rows /\ (i = r.dir => i \in lost')
    <3>1. CASE rows' = [k \in DOMAIN rows \ {r.dir} |-> rows[k]]
      <4>1. Mine(u)' = Mine(u) \ {r.dir} /\ \A k \in Mine(u)' : rows'[k] = rows[k]
        BY <3>1 DEF Mine
      <4>2. QED BY <2>5, <4>1 DEF Parent
    <3>2. CASE rows' = rows /\ lost' = lost \cup {r.dir} BY <3>2
    <3>3. QED BY <1>8, <3>1, <3>2, DeleteRows
  <2>10. rows' = rows => (Parent(u, f) => Parent(u, f)') BY DEF Parent, Mine
  <2>11. CASE t = <<"delete", "remove">>
    <3>1. Tail(t) = <<"remove">> BY <2>11
    <3>2. CASE Parent(u, f) BY <2>3, <2>9, <2>10, <2>11, <3>2
    <3>3. CASE Due(t, r, i, f)
      <4>1. t # <<"list", "remove">> BY <2>1
      <4>2. InWork(r.work, i) \/ i = r.dir BY <3>3, <4>1 DEF Due
      <4>3. InWork(r.work, i) => Due(todo'[s], reg'[s], i, f) BY <2>4, <3>1 DEF Due
      <4>4. QED BY <2>9, <4>2, <4>3
    <3>4. QED BY <2>7, <2>8, <3>2, <3>3
  <2>12. CASE t = <<"delete", "list", "remove">>
    <3>1. Tail(t) = <<"list", "remove">> BY <2>12
    <3>2. CASE Parent(u, f) /\ f # r.dir BY <2>9, <2>10, <3>2
    <3>3. CASE f = r.dir BY <2>4, <3>1, <3>3 DEF Due
    <3>4. CASE Due(t, r, i, f)
      <4>1. t # <<"list", "remove">> BY <2>1
      <4>2. InWork(r.work, i) \/ i = r.dir BY <3>4, <4>1 DEF Due
      <4>3. InWork(r.work, i) => Due(todo'[s], reg'[s], i, f) BY <2>4, <3>1 DEF Due
      <4>4. QED BY <2>9, <4>2, <4>3
    <3>5. QED BY <2>7, <2>8, <3>2, <3>3, <3>4
  <2>13. QED BY <2>3, <2>11, <2>12
<1>9. QED BY <1>4, <1>5, <1>6, <1>7, <1>8 DEF Writes

-----------------------------------------------------------------------------
(***************************************************************************)
(* What mv and upload are about to do.                                     *)
(***************************************************************************)
\* The destination is not below the source.
Aside(r) == ~IsPrefix(Normal(r.src), Normal(r.dst))

\* The entry is the source, and the destination is not below it.
FromSource(u, r) == /\ Aside(r) /\ r.src \in Seq(Downward) /\ r.dst \in Seq(Downward)
                    /\ r.id \in FileId(u, Normal(r.src))

\* With the steps t left, the locals r and the father id f.
Aimed(u, t, r, f) ==
    /\ t = <<"present", "store">> \/ t = <<"store">> => f # Null
    /\ t = <<"source", "target">> \/ t = <<"target">> => Aside(r)
    /\ t = <<"samename", "move">> \/ t = <<"move">> =>
          FromSource(u, r) /\ r.dir \in FileId(u, Normal(r.dst))
    /\ t = <<"rename">> => FromSource(u, r)

\* Other steps need nothing of this.
LEMMA AimedVoid ==
    ASSUME NEW u, NEW t, NEW r, NEW f,
           t # <<>> => Head(t) \notin {"present", "store", "source", "target", "samename", "move", "rename"}
    PROVE  Aimed(u, t, r, f)
<1>1. t # <<"present", "store">> /\ t # <<"store">>
  <2>1. ASSUME t = <<"present", "store">> PROVE FALSE BY <2>1
  <2>2. ASSUME t = <<"store">> PROVE FALSE BY <2>2
  <2>3. QED BY <2>1, <2>2
<1>2. t # <<"source", "target">> /\ t # <<"target">>
  <2>1. ASSUME t = <<"source", "target">> PROVE FALSE BY <2>1
  <2>2. ASSUME t = <<"target">> PROVE FALSE BY <2>2
  <2>3. QED BY <2>1, <2>2
<1>3. t # <<"samename", "move">> /\ t # <<"move">> /\ t # <<"rename">>
  <2>1. ASSUME t = <<"samename", "move">> PROVE FALSE BY <2>1
  <2>2. ASSUME t = <<"move">> PROVE FALSE BY <2>2
  <2>3. ASSUME t = <<"rename">> PROVE FALSE BY <2>3
  <2>4. QED BY <2>1, <2>2, <2>3
<1>4. QED BY <1>1, <1>2, <1>3 DEF Aimed

LEMMA AimedHarmless ==
    ASSUME NEW u, NEW t \in Seq(Harmless), NEW r, NEW f
    PROVE  Aimed(u, t, r, f)
<1>1. t # <<>> => Head(t) \in Harmless BY HeadTailProperties
<1>2. t # <<>> => Head(t) \notin {"present", "store", "source", "target", "samename", "move", "rename"}
  BY <1>1 DEF Harmless
<1>3. QED BY <1>2, AimedVoid

\* By the next step.
LEMMA AimedNow ==
    ASSUME NEW u, NEW t, NEW r, NEW f, Aimed(u, t, r, f)
    PROVE  /\ t = <<"store">> => f # Null
           /\ t = <<"source", "target">> \/ t = <<"target">> => Aside(r)
BY DEF Aimed

\* All of this does not change with other users' rows.
LEMMA AimedKept ==
    ASSUME NEW u, SameRows(u), NEW t, NEW r, NEW f, Aimed(u, t, r, f)
    PROVE  Aimed(u, t, r, f)'
<1>1. FromSource(u, r) => FromSource(u, r)'
  <2>1. SUFFICES ASSUME FromSource(u, r) PROVE FromSource(u, r)' OBVIOUS
  <2>2. PICK p \in Seq(Downward) : p = Normal(r.src) BY <2>1, NormalSure DEF FromSource
  <2>3. FileId(u, p)' = FileId(u, p) BY FileIdKept
  <2>4. Downward' = Downward BY DEF Downward
  <2>5. r.id \in FileId(u, p)' BY <2>1, <2>2, <2>3 DEF FromSource
  <2>6. r.id \in FileId(u, Normal(r.src))' BY <2>2, <2>5
  <2>7. QED BY <2>1, <2>4, <2>6 DEF FromSource, Aside
<1>2. FromSource(u, r) /\ r.dir \in FileId(u, Normal(r.dst)) => r.dir \in FileId(u, Normal(r.dst))'
  <2>1. SUFFICES ASSUME FromSource(u, r), r.dir \in FileId(u, Normal(r.dst))
                 PROVE  r.dir \in FileId(u, Normal(r.dst))'
    OBVIOUS
  <2>2. PICK p \in Seq(Downward) : p = Normal(r.dst) BY <2>1, NormalSure DEF FromSource
  <2>3. FileId(u, p)' = FileId(u, p) BY FileIdKept
  <2>4. r.dir \in FileId(u, p)' BY <2>1, <2>2, <2>3
  <2>5. QED BY <2>2, <2>4
<1>3. Aside(r)' <=> Aside(r) BY DEF Aside
<1>4. QED BY <1>1, <1>2, <1>3 DEF Aimed

-----------------------------------------------------------------------------
\* mv moves nothing into itself: the name of the source is not on the way to the
\* destination, or the one path from the root does not begin with the other.
ForwardCommand(c) ==
    c.cmd = "mv" =>
       \/ c.src.abs /\ c.dst.abs /\ ~IsPrefix(Normal(c.src.parts), Normal(c.dst.parts))
       \/ \A i \in DOMAIN c.dst.parts : c.dst.parts[i] # Last(c.src.parts)

Forward == \A s \in Sessions : \A c \in Commands(s) : ForwardCommand(c)

\* The working directories are no entries mv names.
LEMMA AsideMv ==
    ASSUME Steady, Forward, WInv, NEW s \in Sessions, NEW c \in Commands(s), c.cmd = "mv",
           NEW r, r.src = FullPath(UserOf(s), c.src), r.dst = FullPath(UserOf(s), c.dst)
    PROVE  Aside(r)
<1> DEFINE u == UserOf(s)  n == Last(c.src.parts)
<1>1. Firm(u, pwd[u]) /\ pwd[u] \in Seq(Visited) BY WNow, FirmWhere DEF WInv, Steady
<1>2. /\ c.src \in Paths /\ c.dst \in Paths /\ n \in Names \ Visited
      /\ \/ c.src.abs /\ c.dst.abs /\ ~IsPrefix(Normal(c.src.parts), Normal(c.dst.parts))
         \/ \A i \in DOMAIN c.dst.parts : c.dst.parts[i] # n
  BY CommandsAssumption DEF Steady, SteadyCommand, Forward, ForwardCommand
<1>3. CASE c.src.abs /\ c.dst.abs /\ ~IsPrefix(Normal(c.src.parts), Normal(c.dst.parts))
  BY <1>3 DEF Aside, FullPath
<1>4. CASE \A i \in DOMAIN c.dst.parts : c.dst.parts[i] # n
  <2> DEFINE S == Names \ {n}  T == S \cup {".", ".."}
  <2> HIDE DEF n
  <2>1. Visited \subseteq Components /\ Visited \subseteq Names BY DEF Visited, Components
  <2>2. pwd[u] \in Seq(Components) BY <1>1, <2>1, SeqMonotonic
  <2>3. r.src \in Seq(Components) /\ r.src # <<>> /\ Last(r.src) = n
    BY <1>2, <2>2, FullPathEnds DEF n
  <2>4. Normal(r.src) # <<>> /\ Last(Normal(r.src)) = n /\ Normal(r.src) \in Seq(Names)
    <3>1. PICK q \in Seq(Components), e \in Components : r.src = Append(q, e)
      BY <2>3, SequenceEmptyOrAppend
    <3>2. e = n
      <4>1. Len(r.src) = Len(q) + 1 /\ r.src[Len(q) + 1] = e BY <3>1, AppendProperties
      <4>2. QED BY <2>3, <4>1 DEF Last
    <3>3. Normal(r.src) = After(Normal(q), n) BY <3>1, <3>2, NormalMore
    <3> DEFINE m == Normal(q)
    <3>4. m \in Seq(Names) BY <3>1, NormalIn DEF Components
    <3> HIDE DEF m
    <3>5. n \in Names /\ n # "." /\ n # ".." BY <1>2, DownwardIs
    <3>6. After(m, n) = Append(m, n) BY <3>5 DEF After
    <3>7. /\ Append(m, n) \in Seq(Names) /\ Append(m, n) # <<>>
          /\ Len(Append(m, n)) = Len(m) + 1 /\ Append(m, n)[Len(m) + 1] = n
      BY <3>4, <3>5, AppendProperties
    <3>8. Last(Append(m, n)) = n BY <3>7 DEF Last
    <3>9. QED BY <3>3, <3>6, <3>7, <3>8 DEF m
  <2>5. Normal(r.dst) \in Seq(S)
    <3>1. c.dst.parts \in Seq(T)
      <4>1. c.dst.parts \in Seq(Components) BY <1>2 DEF Paths, Components
      <4>2. \A i \in 1..Len(c.dst.parts) : c.dst.parts[i] \in T
        <5>1. SUFFICES ASSUME NEW i \in 1..Len(c.dst.parts) PROVE c.dst.parts[i] \in T OBVIOUS
        <5>2. c.dst.parts[i] \in Components /\ i \in DOMAIN c.dst.parts
          BY <4>1, ElementOfSeq, LenProperties
        <5>3. QED BY <1>4, <5>2 DEF Components
      <4> HIDE DEF T
      <4>3. QED BY <4>1, <4>2, ElementOfSeq, LenProperties
    <3>2. pwd[u] \in Seq(T)
      <4>1. Visited \subseteq T BY <1>2, <2>1
      <4> HIDE DEF T
      <4>2. QED BY <1>1, <4>1, SeqMonotonic
    <3>3. r.dst \in Seq(T)
      <4> HIDE DEF T
      <4>1. QED BY <3>1, <3>2, FullPathIn
    <3>4. S \subseteq Names OBVIOUS
    <3> HIDE DEF S
    <3>5. QED BY <3>3, <3>4, NormalIn
  <2>6. ASSUME IsPrefix(Normal(r.src), Normal(r.dst)) PROVE FALSE
    <3> DEFINE a == Normal(r.src)  d == Normal(r.dst)
    <3>1. a \in Seq(Names) /\ a # <<>> /\ d \in Seq(S) /\ Last(a) = n /\ IsPrefix(a, d)
      BY <2>4, <2>5, <2>6
    <3>2. d \in Seq(Names)
      <4>1. S \subseteq Names OBVIOUS
      <4> HIDE DEF S, d
      <4>2. QED BY <3>1, <4>1, SeqMonotonic
    <3> HIDE DEF a, d
    <3>3. PICK i \in 1..Len(d) : d[i] = Last(a) BY <1>2, <3>1, <3>2, PrefixOf
    <3>4. d[i] \in S
      <4> HIDE DEF S
      <4>1. QED BY <3>1, ElementOfSeq
    <3>5. QED BY <3>1, <3>3, <3>4
  <2>7. QED BY <2>6 DEF Aside
<1>5. QED BY <1>2, <1>3, <1>4

\* What a command begins with.
LEMMA AimedCommand ==
    ASSUME Steady, Forward, WInv, NEW s \in Sessions, CmdAnalyse(s)
    PROVE  Aimed(UserOf(s), todo'[s], reg'[s], father'[s])
<1> DEFINE u == UserOf(s)
<1>1. PICK c \in Commands(s) : Command(s, c) BY DEF CmdAnalyse
<1>2. father' = father /\ father[s] # Null /\ IInv BY DEF CmdAnalyse, WInv, UInv
<1>3. c.cmd \in {"mkdir", "rm", "mv", "cd", "pwd", "upload"} BY CommandsAssumption
<1>4. \A q, steps : Begin(s, q, steps) => todo'[s] = steps /\ reg'[s] = q BY <1>2, After1
<1>5. CASE c.cmd = "mv"
  <2> DEFINE src == FullPath(u, c.src)  dst == FullPath(u, c.dst)
             m == \/ c.dst.abs \/ Len(c.dst.parts) > 1 \/ c.dst.parts[1] \notin Names \ Dotted
             q == Walk([NoReg EXCEPT !.cmd = c.cmd, !.src = src, !.dst = dst, !.moves = m], src)
  <2>1. Begin(s, q, <<"source", "target">>) BY <1>1, <1>5 DEF Command
  <2> HIDE DEF m
  <2>2. q.src = src /\ q.dst = dst BY DEF Walk, NoReg
  <2> HIDE DEF q
  <2>3. Aside(q) BY <1>5, <2>2, AsideMv
  <2>4. Aimed(u, <<"source", "target">>, q, father[s]) BY <2>3 DEF Aimed
  <2>5. todo'[s] = <<"source", "target">> /\ reg'[s] = q BY <1>4, <2>1
  <2>6. QED BY <1>2, <2>4, <2>5
<1>6. CASE c.cmd = "upload"
  <2>1. todo'[s] = <<"present", "store">> BY <1>1, <1>4, <1>6 DEF Command
  <2>2. \A r : Aimed(u, <<"present", "store">>, r, father[s]) BY <1>2 DEF Aimed
  <2>3. QED BY <1>2, <2>1, <2>2
<1>7. CASE c.cmd \in {"mkdir", "rm", "cd", "pwd"}
  <2>1. \/ todo'[s] = <<"names", "insert">> \/ todo'[s] = <<"found", "remove">>
        \/ todo'[s] = <<"isdir", "samepwd", "setpwd", "getpwd", "cache">>
        \/ todo'[s] = <<"getpwd", "cache">>
    BY <1>1, <1>4, <1>7 DEF Command
  <2>2. Head(todo'[s]) \notin {"present", "store", "source", "target", "samename", "move", "rename"}
    <3>1. CASE todo'[s] = <<"names", "insert">> BY <3>1
    <3>2. CASE todo'[s] = <<"found", "remove">> BY <3>2
    <3>3. CASE todo'[s] = <<"isdir", "samepwd", "setpwd", "getpwd", "cache">> BY <3>3
    <3>4. CASE todo'[s] = <<"getpwd", "cache">> BY <3>4
    <3>5. QED BY <2>1, <3>1, <3>2, <3>3, <3>4
  <2>3. QED BY <2>2, AimedVoid
<1>8. QED BY <1>3, <1>5, <1>6, <1>7

\* mv finds its source and its destination and keeps them apart.
LEMMA AimedMv ==
    ASSUME IInv, NEW s \in Sessions, NEW u, Knows(u, todo[s], reg[s]),
           NEW f, Aimed(u, todo[s], reg[s], f), MvSource(s) \/ MvTarget(s) \/ MvSameName(s)
    PROVE  Aimed(u, todo'[s], reg'[s], f)
<1> DEFINE t == todo[s]  r == reg[s]
<1>1. RowsClean /\ DOMAIN r = Fields BY DEF IInv, LocalsClean, Clean
<1>2. todo'[s] = <<>> => Aimed(u, todo'[s], reg'[s], f) BY AimedVoid
<1>3. CASE MvSource(s)
  <2> DEFINE q == Walk([r EXCEPT !.id = r.cur], r.dst)
  <2>1. t # <<>> /\ Head(t) = "source" /\ Then(s, q) BY <1>3 DEF MvSource, At
  <2>2. t = <<"source", "target">>
    <3>1. KnowsPaths(u, t, r) BY <2>1, KnowsNow
    <3>2. t # <<"target">> BY <2>1
    <3>3. QED BY <3>1, <3>2 DEF KnowsPaths
  <2>3. Aside(r) BY <2>2, AimedNow
  <2>4. q.src = r.src /\ q.dst = r.dst BY <1>1 DEF Walk, Fields
  <2> HIDE DEF q
  <2>5. Tail(t) = <<"target">> BY <2>2
  <2>6. todo'[s] = <<"target">> /\ reg'[s] = q BY <2>1, <2>5, After1
  <2>7. Aside(q) BY <2>3, <2>4 DEF Aside
  <2>8. Aimed(u, <<"target">>, q, f) BY <2>7 DEF Aimed
  <2>9. QED BY <2>6, <2>8
<1>4. CASE MvTarget(s)
  <2>1. t # <<>> /\ Head(t) = "target" /\ r.path = <<>> BY <1>4 DEF MvTarget, At
  <2>2. MvPaths(r) /\ KnowsPaths(u, t, r) BY <2>1, KnowsNow
  <2>3. r.id \in FileId(u, r.src) /\ OnWay(u, r, r.dst) BY <2>1, <2>2 DEF KnowsPaths
  <2>4. t = <<"target">>
    <3>1. t # <<"source", "target">> BY <2>1
    <3>2. QED BY <2>2, <3>1 DEF KnowsPaths
  <2>5. Aside(r) BY <2>4, AimedNow
  <2>6. r.src \in Seq(Downward) /\ r.dst \in Seq(Downward) BY <2>2, SureIs DEF MvPaths
  <2>7. FromSource(u, r) BY <2>3, <2>5, <2>6, FileIdNormal DEF FromSource
  <2>8. r.cur \in FileId(u, Normal(r.dst)) BY <2>1, <2>3, <2>6, OnWayEnd, FileIdNormal
  <2>9. \/ Finish(s, "fail")
        \/ GoOn(s, <<"samename", "move">>, Walk([r EXCEPT !.dir = r.cur], Into(r)))
        \/ GoOn(s, <<"rename">>, Walk(r, Up(r)))
    BY <1>4, Zenon DEF MvTarget, Into, Up
  <2>10. CASE Finish(s, "fail") BY <1>2, <2>10, After1
  <2>11. CASE GoOn(s, <<"samename", "move">>, Walk([r EXCEPT !.dir = r.cur], Into(r)))
    <3> DEFINE q == Walk([r EXCEPT !.dir = r.cur], Into(r))
    <3>1. q.src = r.src /\ q.dst = r.dst /\ q.id = r.id /\ q.dir = r.cur BY <1>1 DEF Walk, Fields
    <3> HIDE DEF q
    <3>2. FromSource(u, q) /\ q.dir \in FileId(u, Normal(q.dst))
      BY <2>7, <2>8, <3>1 DEF FromSource, Aside
    <3>3. Aimed(u, <<"samename", "move">>, q, f) BY <3>2 DEF Aimed
    <3>4. todo'[s] = <<"samename", "move">> /\ reg'[s] = q BY <2>11, After1 DEF q
    <3>5. QED BY <3>3, <3>4
  <2>12. CASE GoOn(s, <<"rename">>, Walk(r, Up(r)))
    <3> DEFINE q == Walk(r, Up(r))
    <3>1. q.src = r.src /\ q.dst = r.dst /\ q.id = r.id BY <1>1 DEF Walk, Fields
    <3> HIDE DEF q
    <3>2. FromSource(u, q) BY <2>7, <3>1 DEF FromSource, Aside
    <3>3. Aimed(u, <<"rename">>, q, f) BY <3>2 DEF Aimed
    <3>4. todo'[s] = <<"rename">> /\ reg'[s] = q BY <2>12, After1 DEF q
    <3>5. QED BY <3>3, <3>4
  <2>13. QED BY <2>9, <2>10, <2>11, <2>12
<1>5. CASE MvSameName(s)
  <2>1. t # <<>> /\ Head(t) = "samename" /\ (Finish(s, "fail") \/ Then(s, r))
    BY <1>5 DEF MvSameName, At
  <2>2. t = <<"samename", "move">>
    <3>1. KnowsMove(u, t, r) BY <2>1, KnowsNow
    <3>2. t # <<"move">> BY <2>1
    <3>3. QED BY <3>1, <3>2 DEF KnowsMove
  <2>3. FromSource(u, r) /\ r.dir \in FileId(u, Normal(r.dst)) BY <2>2 DEF Aimed
  <2>4. CASE Finish(s, "fail") BY <1>2, <2>4, After1
  <2>5. CASE Then(s, r)
    <3>1. Tail(t) = <<"move">> BY <2>2
    <3>2. todo'[s] = <<"move">> /\ reg'[s] = r BY <2>5, <3>1, After1
    <3>3. Aimed(u, <<"move">>, r, f) BY <2>3 DEF Aimed
    <3>4. QED BY <3>2, <3>3
  <2>6. QED BY <2>1, <2>4, <2>5
<1>6. QED BY <1>3, <1>4, <1>5

LEMMA AimedSteps ==
    ASSUME Steady, Forward, WInv, NEW s \in Sessions, Step(s), ~Writes(s),
           Aimed(UserOf(s), todo[s], reg[s], father[s])
    PROVE  Aimed(UserOf(s), todo'[s], reg'[s], father'[s])
<1> DEFINE u == UserOf(s)  t == todo[s]  r == reg[s]
<1>1. IInv /\ Knows(u, t, r) BY DEF WInv, UInv
<1>2. \A x, f : Aimed(u, <<>>, x, f) BY AimedVoid
<1>3. CASE Login(s) \/ RmFound(s) \/ RmType(s) \/ RmList(s) \/ GetPwd(s) \/ Cache(s) \/ Enter(s)
  <2>1. todo'[s] \in Seq(Harmless) BY <1>1, <1>3, HarmlessSteps
  <2>2. QED BY <2>1, AimedHarmless
<1>4. CASE Leave(s)
  <2>1. todo'[s] = <<>> BY <1>4 DEF Leave, Idle
  <2>2. QED BY <1>2, <2>1
<1>5. CASE CmdAnalyse(s) BY <1>5, AimedCommand
<1>6. CASE GetNextFileId(s)
  <2>1. PICK i \in NextFileId(u, r.cur, Head(r.path)) :
            GoOn(s, t, [r EXCEPT !.cur = i, !.path = Tail(@)])
    BY <1>6, Zenon DEF GetNextFileId
  <2> DEFINE q == [r EXCEPT !.cur = i, !.path = Tail(@)]
  <2>2. q.src = r.src /\ q.dst = r.dst /\ q.id = r.id /\ q.dir = r.dir
    BY <1>1 DEF IInv, LocalsClean, Clean, Fields
  <2>3. todo'[s] = t /\ reg'[s] = q /\ father' = father
    BY <1>1, <1>6, <2>1, After1 DEF GetNextFileId
  <2> HIDE DEF q
  <2>4. Aimed(u, t, q, father[s]) BY <2>2 DEF Aimed, FromSource, Aside
  <2>5. QED BY <2>3, <2>4
<1>7. CASE MvSource(s) \/ MvTarget(s) \/ MvSameName(s)
  <2>1. father' = father BY <1>7 DEF MvSource, MvTarget, MvSameName
  <2>2. Aimed(u, todo'[s], reg'[s], father[s]) BY <1>1, <1>7, AimedMv
  <2>3. QED BY <2>1, <2>2
<1>8. CASE CdIsDir(s) \/ CdSamePwd(s) \/ CdSetPwd(s) \/ CheckNames(s)
  <2>1. t # <<>> /\ Head(t) \in {"isdir", "samepwd", "setpwd", "names"}
    BY <1>8 DEF CdIsDir, CdSamePwd, CdSetPwd, CheckNames, At
  <2>2. KnowsCd(t, r) \/ KnowsMkdir(u, t, r) BY <1>1, <2>1, KnowsNow
  <2>3. \/ Finish(s, "fail") \/ Then(s, r) \/ GoOn(s, <<"getpwd", "cache">>, r)
    BY <1>8 DEF CdIsDir, CdSamePwd, CdSetPwd, CheckNames, Then
  <2>4. \/ todo'[s] = <<>> \/ todo'[s] = Tail(t) \/ todo'[s] = <<"getpwd", "cache">>
    BY <1>1, <2>3, After1
  <2>5. Tail(t) # <<>> /\ Head(Tail(t)) \in {"samepwd", "setpwd", "getpwd", "insert"}
    <3>1. CASE t = <<"isdir", "samepwd", "setpwd", "getpwd", "cache">> BY <3>1
    <3>2. CASE t = <<"samepwd", "setpwd", "getpwd", "cache">> BY <3>2
    <3>3. CASE t = <<"setpwd", "getpwd", "cache">> BY <3>3
    <3>4. CASE t = <<"names", "insert">> BY <3>4
    <3>5. t # <<"insert">> BY <2>1
    <3>6. QED BY <2>2, <3>1, <3>2, <3>3, <3>4, <3>5, Zenon DEF KnowsCd, KnowsMkdir
  <2>6. Head(<<"getpwd", "cache">>) = "getpwd" OBVIOUS
  <2>7. todo'[s] # <<>> =>
           Head(todo'[s]) \notin {"present", "store", "source", "target", "samename", "move", "rename"}
    BY <2>4, <2>5, <2>6
  <2>8. QED BY <2>7, AimedVoid
<1>9. CASE Present(s)
  <2>1. t # <<>> /\ Head(t) = "present" /\ (Finish(s, "existing") \/ Then(s, r)) /\ father' = father
    BY <1>9 DEF Present, At
  <2>2. KnowsUpload(t, r) BY <1>1, <2>1, KnowsNow
  <2>3. t # <<"store">> BY <2>1
  <2>4. t = <<"present", "store">> BY <2>2, <2>3 DEF KnowsUpload
  <2>5. father[s] # Null BY <2>4 DEF Aimed
  <2>6. CASE Finish(s, "existing")
    <3>1. todo'[s] = <<>> BY <1>1, <2>6, After1
    <3>2. QED BY <1>2, <3>1
  <2>7. CASE Then(s, r)
    <3>1. Tail(t) = <<"store">> BY <2>4
    <3>2. todo'[s] = <<"store">> /\ reg'[s] = r BY <1>1, <2>7, <3>1, After1
    <3>3. Aimed(u, <<"store">>, r, father[s]) BY <2>5 DEF Aimed
    <3>4. QED BY <2>1, <3>2, <3>3
  <2>8. QED BY <2>1, <2>6, <2>7
<1>10. QED BY <1>3, <1>4, <1>5, <1>6, <1>7, <1>8, <1>9 DEF Step, Writes

-----------------------------------------------------------------------------
\* No write takes entries off the tree in a ring.
LEMMA WritesGrounded ==
    ASSUME Steady, WInv, NEW s \in Sessions, Writes(s), Grounded(UserOf(s)),
           Aimed(UserOf(s), todo[s], reg[s], father[s])
    PROVE  Grounded(UserOf(s))'
<1> DEFINE u == UserOf(s)  t == todo[s]  r == reg[s]
<1>1. /\ IInv /\ RowsClean /\ NoOrphans
      /\ r.id \in DOMAIN rows => rows[r.id].user = u /\ RowClean(r.id)
  BY DEF WInv, UInv, IInv, RowsClean, LocalsClean, Clean, OwnIds
<1>2. CASE InsertDir(s)
  <2>1. t # <<>> /\ Head(t) = "insert" BY <1>2 DEF InsertDir, At
  <2>2. MakeErrand(u, t, r) BY <2>1, WNow, ErrandNow
  <2>3. Parent(u, r.cur) BY <2>1, <2>2 DEF MakeErrand
  <2>4. Insert(r.cur, Last(r.src), "d", u) BY <1>2 DEF InsertDir
  <2>5. QED BY <1>1, <2>3, <2>4, InsertGrounded
<1>3. CASE Store(s)
  <2>1. t # <<>> /\ Head(t) = "store" BY <1>3 DEF Store, At
  <2>2. t = <<"store">>
    <3>1. MakeErrand(u, t, r) BY <2>1, WNow, ErrandNow
    <3>2. t # <<"names", "insert">> /\ t # <<"insert">> /\ t # <<"present", "store">> BY <2>1
    <3>3. QED BY <3>1, <3>2 DEF MakeErrand
  <2>3. father[s] # Null BY <2>2, AimedNow
  <2>4. Parent(u, father[s]) BY <2>1, <2>3, FatherParent
  <2>5. Insert(father[s], Last(r.src), "f", u) BY <1>3 DEF Store
  <2>6. QED BY <1>1, <2>4, <2>5, InsertGrounded
<1>4. CASE RmDelete(s)
  <2>1. \A k \in DOMAIN rows' : k \in DOMAIN rows /\ rows'[k] = rows[k] BY <1>4, DeleteRows
  <2>2. \A k \in Mine(u)' : k \in Mine(u) /\ rows'[k] = rows[k] BY <2>1 DEF Mine
  <2>3. QED BY <2>2, GroundedShrinks
<1>5. CASE MvMove(s)
  <2> DEFINE row == [rows[r.id] EXCEPT !.father = r.dir]
  <2>1. t # <<>> /\ Head(t) = "move" BY <1>5 DEF MvMove, At
  <2>2. MvErrand(u, t, r) BY <2>1, WNow, ErrandNow
  <2>3. r.dir # -1 BY <1>1, <2>1, <2>2 DEF MvErrand, Parent, Mine, RowsClean
  <2>4. t = <<"move">>
    <3>1. t # <<"source", "target">> /\ t # <<"target">> /\ t # <<"samename", "move">> /\ t # <<"rename">>
      BY <2>1
    <3>2. QED BY <2>2, <3>1 DEF MvErrand
  <2>5. FromSource(u, r) /\ r.dir \in FileId(u, Normal(r.dst)) BY <2>4 DEF Aimed
  <2>6. r.id \in DOMAIN rows => row.user = u /\ row.father = r.dir
    BY <1>1 DEF RowClean, RowFields
  <2>7. Update(s, row) BY <1>5 DEF MvMove
  <2> HIDE DEF row
  <2>8. PICK a \in Seq(Names), p \in Seq(Names) : a = Normal(r.src) /\ p = Normal(r.dst)
    BY <2>5, NormalSure DEF FromSource
  <2>9. r.id \in FileId(u, a) /\ r.dir \in FileId(u, p) /\ ~IsPrefix(a, p)
    BY <2>5, <2>8 DEF FromSource, Aside
  <2>10. PICK k : k = r.id OBVIOUS
  <2>11. k \in DOMAIN rows =>
           /\ row.user = u /\ rows[k].user = u
           /\ \/ row.father = rows[k].father
              \/ /\ a \in Seq(Names) /\ k \in FileId(u, a)
                 /\ p \in Seq(Names) /\ row.father \in FileId(u, p) /\ row.father # -1
                 /\ ~IsPrefix(a, p)
    BY <1>1, <2>3, <2>6, <2>8, <2>9, <2>10
  <2>12. QED BY <1>1, <2>7, <2>10, <2>11, UpdateGrounded
<1>6. CASE MvRename(s)
  <2> DEFINE row == [rows[r.id] EXCEPT !.name = Last(Normal(r.dst)),
                                       !.father = IF r.moves THEN r.cur ELSE @]
  <2>1. t # <<>> /\ Head(t) = "rename" /\ r.path = <<>> BY <1>6 DEF MvRename, At
  <2>2. KnowsRename(u, t, r) BY <2>1, KnowsNow DEF WInv, UInv
  <2>3. t = <<"rename">> /\ Normal(r.dst) # <<>> BY <2>2 DEF KnowsRename
  <2>4. FromSource(u, r) BY <2>3 DEF Aimed
  <2>5. Parent(u, r.cur) /\ r.cur \in FileId(u, Up(r)) BY <2>1, RenameParent
  <2>6. r.cur # -1 BY <1>1, <2>5 DEF Parent, Mine, RowsClean
  <2>7. r.id \in DOMAIN rows => /\ row.user = u
                                /\ row.father = IF r.moves THEN r.cur ELSE rows[r.id].father
    BY <1>1 DEF RowClean, RowFields
  <2>8. Update(s, row) BY <1>6 DEF MvRename
  <2> HIDE DEF row
  <2>9. PICK a \in Seq(Names), d \in Seq(Names) : a = Normal(r.src) /\ d = Normal(r.dst)
    BY <2>4, NormalSure DEF FromSource
  <2>10. PICK p \in Seq(Names), c \in Names : p = Front(d) /\ d = Append(p, c)
    BY <2>3, <2>9, FrontLast
  <2>11. ~IsPrefix(a, p)
    <3>1. ~IsPrefix(a, d) BY <2>4, <2>9 DEF FromSource, Aside
    <3>2. QED BY <2>10, <3>1, PrefixOf
  <2>12. r.id \in FileId(u, a) /\ r.cur \in FileId(u, p)
    BY <2>4, <2>5, <2>9, <2>10 DEF FromSource, Up
  <2>13. PICK k : k = r.id OBVIOUS
  <2>14. k \in DOMAIN rows =>
           /\ row.user = u /\ rows[k].user = u
           /\ \/ row.father = rows[k].father
              \/ /\ a \in Seq(Names) /\ k \in FileId(u, a)
                 /\ p \in Seq(Names) /\ row.father \in FileId(u, p) /\ row.father # -1
                 /\ ~IsPrefix(a, p)
    BY <1>1, <2>6, <2>7, <2>11, <2>12, <2>13
  <2>15. QED BY <1>1, <2>8, <2>13, <2>14, UpdateGrounded
<1>7. QED BY <1>2, <1>3, <1>4, <1>5, <1>6 DEF Writes

\* Other users' rows do not matter.
LEMMA SameGrounded ==
    ASSUME NEW u, SameRows(u), Grounded(u)
    PROVE  Grounded(u)'
<1>1. \A k \in Mine(u)' : k \in Mine(u) /\ rows'[k] = rows[k] BY DEF SameRows
<1>2. QED BY <1>1, GroundedShrinks

-----------------------------------------------------------------------------
\* (The locals are named for the sake of the primes.)
RInv ==
    /\ WInv
    /\ \A u : Grounded(u)
    /\ \A u : Hung(u)
    /\ LostFiles
    /\ \A s \in Sessions : \A t, r, f :
          t = todo[s] /\ r = reg[s] /\ f = father[s] => Aimed(UserOf(s), t, r, f)

LEMMA RNow ==
    ASSUME RInv, NEW s \in Sessions
    PROVE  Aimed(UserOf(s), todo[s], reg[s], father[s])
<1>1. PICK t, r, f : t = todo[s] /\ r = reg[s] /\ f = father[s] OBVIOUS
<1>2. Aimed(UserOf(s), t, r, f) BY <1>1 DEF RInv
<1>3. QED BY <1>1, <1>2

\* Entries in directories, or still to be removed, with the step of another user's session,
\* or with one that writes nothing.
LEMMA HungKept ==
    ASSUME NEW u, SameRows(u), Hung(u), lost \subseteq lost',
           \A s \in Sessions : \A i \in Mine(u) : \A f :
              UserOf(s) = u /\ f = rows[i].father /\ Due(todo[s], reg[s], i, f) =>
                 Due(todo'[s], reg'[s], i, f)
    PROVE  Hung(u)'
<1>1. SUFFICES ASSUME NEW i \in Mine(u)', NEW f, f = rows'[i].father
               PROVE  \/ i \in lost' \/ Parent(u, f)'
                      \/ \E s \in Sessions : UserOf(s) = u /\ Due(todo'[s], reg'[s], i, f)
  BY DEF Hung, Parent
<1>2. i \in Mine(u) /\ f = rows[i].father BY <1>1 DEF SameRows
<1>3. Parent(u, f) => Parent(u, f)' BY DEF Parent, SameRows
<1>4. i \in lost \/ Parent(u, f) \/ \E s \in Sessions : UserOf(s) = u /\ Due(todo[s], reg[s], i, f)
  BY <1>2 DEF Hung, Parent
<1>5. QED BY <1>2, <1>3, <1>4

\* A file stays one, and no new entry is among those left.
LEMMA LostFilesKept ==
    ASSUME IInv, LostFiles, NEW s \in Sessions, Step(s)
    PROVE  LostFiles' /\ lost \subseteq lost'
<1>1. RowsClean BY DEF IInv
<1>2. CASE RmDelete(s)
  <2>1. /\ \A k \in DOMAIN rows' : k \in DOMAIN rows /\ rows'[k] = rows[k]
        /\ nextId' = nextId
        /\ lost' = lost \/ (lost' = lost \cup {reg[s].dir} /\ TypeOf(reg[s].dir) = "f")
    BY <1>2, DeleteRows
  <2>2. TypeOf(reg[s].dir) = "f" => /\ reg[s].dir \in DOMAIN rows /\ rows[reg[s].dir].type = "f"
                                    /\ reg[s].dir \in Int /\ reg[s].dir < nextId
    BY <1>1 DEF TypeOf, RowsClean
  <2>3. QED BY <2>1, <2>2 DEF LostFiles
<1>3. CASE ~RmDelete(s)
  <2>1. lost' = lost BY <1>3, OnlyRmLeaves
  <2>2. CASE UNCHANGED <<rows, nextId>> BY <2>1, <2>2 DEF LostFiles
  <2>3. CASE InsertDir(s) \/ Store(s)
    <3>1. \E f, n, y : Insert(f, n, y, UserOf(s)) BY <2>3 DEF InsertDir, Store
    <3>2. /\ DOMAIN rows' = DOMAIN rows \cup {nextId} /\ nextId' = nextId + 1 /\ nextId \in Nat
          /\ \A i \in DOMAIN rows : i # nextId => rows'[i] = rows[i]
      BY <1>1, <3>1 DEF Insert, RowsClean
    <3>3. \A i \in lost : i # nextId /\ i < nextId' BY <3>2 DEF LostFiles
    <3>4. QED BY <2>1, <3>2, <3>3 DEF LostFiles
  <2>4. ASSUME NEW row, Update(s, row), reg[s].id \in DOMAIN rows => row.type = rows[reg[s].id].type,
               nextId' = nextId
        PROVE  LostFiles'
    <3>1. DOMAIN rows' = DOMAIN rows /\ \A i \in DOMAIN rows : rows'[i].type = rows[i].type
      BY <1>1, <2>4 DEF Update, RowsClean
    <3>2. QED BY <2>1, <2>4, <3>1 DEF LostFiles
  <2>5. reg[s].id \in DOMAIN rows => RowClean(reg[s].id) BY <1>1 DEF RowsClean
  <2>6. CASE MvMove(s)
    <3> DEFINE row == [rows[reg[s].id] EXCEPT !.father = reg[s].dir]
    <3>1. reg[s].id \in DOMAIN rows => row.type = rows[reg[s].id].type
      BY <2>5 DEF RowClean, RowFields
    <3>2. Update(s, row) /\ nextId' = nextId BY <2>6 DEF MvMove
    <3> HIDE DEF row
    <3>3. QED BY <2>1, <2>4, <3>1, <3>2
  <2>7. CASE MvRename(s)
    <3> DEFINE row == [rows[reg[s].id] EXCEPT !.name = Last(Normal(reg[s].dst)),
                                              !.father = IF reg[s].moves THEN reg[s].cur ELSE @]
    <3>1. reg[s].id \in DOMAIN rows => row.type = rows[reg[s].id].type
      BY <2>5 DEF RowClean, RowFields
    <3>2. Update(s, row) /\ nextId' = nextId BY <2>7 DEF MvRename
    <3> HIDE DEF row
    <3>3. QED BY <2>1, <2>4, <3>1, <3>2
  <2>8. CASE ~Writes(s) BY <2>1, <2>2, <2>8, OthersKeepRows
  <2>9. QED BY <1>3, <2>1, <2>3, <2>6, <2>7, <2>8 DEF Writes
<1>4. QED BY <1>2, <1>3

LEMMA StepRooted ==
    ASSUME Steady, Forward, RInv, NEW s \in Sessions, Step(s)
    PROVE  RInv'
<1> DEFINE w == UserOf(s)
<1>1. /\ Tidy /\ Serial /\ WInv /\ UInv /\ IInv /\ Grounded(w) /\ Hung(w)
      /\ Aimed(w, todo[s], reg[s], father[s]) /\ Knows(w, todo[s], reg[s])
  BY RNow DEF Steady, Tidy, RInv, WInv, UInv
<1>2. WInv' BY <1>1, StepSteady
<1>8. LostFiles' /\ lost \subseteq lost' BY <1>1, LostFilesKept DEF RInv
<1>3. ASSUME NEW u, u # w \/ ~Writes(s)
      PROVE  SameRows(u)
  <2>1. CASE Writes(s) BY <1>1, <1>3, <2>1, WritesOwn, RowsOfSame
  <2>2. CASE ~Writes(s) BY <1>1, <2>2, OthersKeepRows, UnchangedSame
  <2>3. QED BY <2>1, <2>2
<1>4. ASSUME NEW u
      PROVE  Grounded(u)'
  <2>1. CASE u = w /\ Writes(s)
    <3>1. Grounded(w)' BY <1>1, <2>1, WritesGrounded
    <3>2. QED BY <2>1, <3>1 DEF Grounded, Mine
  <2>2. CASE u # w \/ ~Writes(s) BY <1>3, <2>2, SameGrounded DEF RInv
  <2>3. QED BY <2>1, <2>2
<1>5. ASSUME NEW u
      PROVE  Hung(u)'
  <2>1. CASE u = w /\ Writes(s)
    <3>1. todo[s] = <<"store">> => father[s] # Null BY <1>1, AimedNow
    <3>2. Hung(w)' BY <1>1, <2>1, <3>1, WritesHung
    <3>3. QED BY <2>1, <3>2 DEF Hung, Mine, Parent
  <2>2. CASE u # w \/ ~Writes(s)
    <3>1. SameRows(u) BY <1>3, <2>2
    <3>2. ASSUME NEW v \in Sessions, NEW i \in Mine(u), NEW f,
                 UserOf(v) = u, f = rows[i].father, Due(todo[v], reg[v], i, f)
          PROVE  Due(todo'[v], reg'[v], i, f)
      <4>1. CASE v = s
        <5>1. ~Writes(s) /\ i \in Mine(w) BY <2>2, <3>2, <4>1
        <5>2. QED BY <1>1, <3>2, <4>1, <5>1, DueSteps
      <4>2. CASE v # s
        <5>1. todo'[v] = todo[v] /\ reg'[v] = reg[v] BY <1>1, <4>2, OthersStay
        <5>2. QED BY <3>2, <5>1
      <4>3. QED BY <4>1, <4>2
    <3>3. Hung(u) BY DEF RInv
    <3>4. QED BY <1>8, <3>1, <3>2, <3>3, HungKept
  <2>3. QED BY <2>1, <2>2
<1>6. ASSUME NEW v \in Sessions, NEW t, NEW r, NEW f, t = todo'[v], r = reg'[v], f = father'[v]
      PROVE  Aimed(UserOf(v), t, r, f)'
  <2> DEFINE u == UserOf(v)
  <2>1. CASE v = s /\ Writes(s)
    <3>1. t \in Seq(Harmless) BY <1>1, <1>6, <2>1, WritesKnow
    <3>2. t # <<>> => Head(t) \notin {"present", "store", "source", "target", "samename", "move", "rename"}
      <4>1. t # <<>> => Head(t) \in Harmless BY <3>1, HeadTailProperties
      <4>2. QED BY <4>1 DEF Harmless
    <3>3. /\ t # <<"present", "store">> /\ t # <<"store">> /\ t # <<"source", "target">>
          /\ t # <<"target">> /\ t # <<"samename", "move">> /\ t # <<"move">> /\ t # <<"rename">>
      <4>1. \A x : x = <<"present", "store">> \/ x = <<"store">> => x # <<>> /\ Head(x) \in {"present", "store"}
        OBVIOUS
      <4>2. \A x : x = <<"source", "target">> \/ x = <<"target">> => x # <<>> /\ Head(x) \in {"source", "target"}
        OBVIOUS
      <4>3. \A x : x = <<"samename", "move">> \/ x = <<"move">> \/ x = <<"rename">> =>
                      x # <<>> /\ Head(x) \in {"samename", "move", "rename"}
        OBVIOUS
      <4>4. QED BY <3>2, <4>1, <4>2, <4>3
    <3>4. QED BY <3>3 DEF Aimed
  <2>2. CASE v = s /\ ~Writes(s)
    <3>1. Aimed(u, t, r, f) BY <1>1, <1>6, <2>2, AimedSteps
    <3>2. SameRows(u) BY <1>3, <2>2
    <3>3. QED BY <3>1, <3>2, AimedKept
  <2>3. CASE v # s
    <3>1. u # w BY <1>1, <2>3 DEF Serial
    <3>2. SameRows(u) BY <1>3, <3>1
    <3>3. t = todo[v] /\ r = reg[v] /\ f = father[v] BY <1>1, <1>6, <2>3, OthersStay
    <3>4. Aimed(u, t, r, f) BY <3>3 DEF RInv
    <3>5. QED BY <3>2, <3>4, AimedKept
  <2>4. QED BY <2>1, <2>2, <2>3
<1>7. QED BY <1>2, <1>4, <1>5, <1>6, <1>8 DEF RInv

LEMMA RootedInductive ==
    ASSUME Steady, Forward, RInv, [Next]_vars
    PROVE  RInv'
<1>1. CASE Next BY <1>1, StepRooted DEF Next
<1>2. CASE UNCHANGED vars
  <2>1. WInv' BY SteadyInductive DEF RInv
  <2>2. UNCHANGED <<rows, nextId, todo, reg, father, lost>> BY <1>2 DEF vars, session, counters
  <2>3. \A u : SameRows(u) BY <2>2, UnchangedSame
  <2>4. \A u : Grounded(u)' BY <2>3, SameGrounded DEF RInv
  <2>5. ASSUME NEW u PROVE Hung(u)'
    <3>1. Hung(u) BY DEF RInv
    <3>2. QED BY <2>2, <3>1 DEF Hung, Parent, Mine
  <2>6. ASSUME NEW v \in Sessions, NEW t, NEW r, NEW f, t = todo'[v], r = reg'[v], f = father'[v]
        PROVE  Aimed(UserOf(v), t, r, f)'
    <3>1. Aimed(UserOf(v), t, r, f) BY <2>2, <2>6 DEF RInv
    <3>2. QED BY <2>3, <3>1, AimedKept
  <2>7. LostFiles' BY <2>2 DEF RInv, LostFiles
  <2>8. QED BY <2>1, <2>4, <2>5, <2>6, <2>7 DEF RInv
<1>3. QED BY <1>1, <1>2

-----------------------------------------------------------------------------
(***************************************************************************)
(* The entries from which the fathers lead to the root.                    *)
(***************************************************************************)
Tops    == {i \in DOMAIN rows : rows[i].father = 0}
Upon(X) == X \cup {i \in DOMAIN rows : rows[i].father \in X}

\* Level by level, up to level N.
Levels(f, N) == f[0] = Tops /\ \A n \in 1..N : f[n] = Upon(f[n - 1])

LEMMA LevelsExist ==
    ASSUME NEW N \in Nat
    PROVE  \E f : Levels(f, N)
<1> DEFINE A == {n \in 0..N : \E f : Levels(f, n)}
<1>1. 0 \in A
  <2>1. Levels([n \in {0} |-> Tops], 0) BY DEF Levels
  <2>2. QED BY <2>1
<1>2. ASSUME NEW n \in 1..N, n - 1 \in A PROVE n \in A
  <2>1. PICK f : Levels(f, n - 1) BY <1>2
  <2> DEFINE g == [k \in 0..n |-> IF k = n THEN Upon(f[n - 1]) ELSE f[k]]
  <2>2. g[n] = Upon(f[n - 1]) /\ \A k \in 0..(n - 1) : g[k] = f[k] OBVIOUS
  <2> HIDE DEF g
  <2>3. 0 \in 0..(n - 1) /\ n - 1 \in 0..(n - 1) OBVIOUS
  <2>4. g[0] = Tops BY <2>1, <2>2, <2>3 DEF Levels
  <2>5. ASSUME NEW k \in 1..n PROVE g[k] = Upon(g[k - 1])
    <3>1. CASE k = n BY <2>2, <2>3, <3>1
    <3>2. CASE k # n
      <4>1. k \in 1..(n - 1) /\ k \in 0..(n - 1) /\ k - 1 \in 0..(n - 1) BY <3>2
      <4>2. QED BY <2>1, <2>2, <4>1 DEF Levels
    <3>3. QED BY <3>1, <3>2
  <2>6. Levels(g, n) BY <2>4, <2>5 DEF Levels
  <2>7. QED BY <2>6
<1> HIDE DEF A
<1>3. \A n \in 0..N : n \in A BY <1>1, <1>2, UpTo
<1>4. QED BY <1>3 DEF A

LEMMA LevelsOnce ==
    ASSUME NEW N \in Nat, NEW f, NEW g, Levels(f, N), Levels(g, N)
    PROVE  f[N] = g[N]
<1> DEFINE A == {n \in 0..N : f[n] = g[n]}
<1>1. 0 \in A BY DEF Levels
<1>2. \A n \in 1..N : n - 1 \in A => n \in A BY DEF Levels
<1> HIDE DEF A
<1>3. \A n \in 0..N : n \in A BY <1>1, <1>2, UpTo
<1>4. QED BY <1>3 DEF A

\* There are levels without end, and Below is the one after as many as there are entries.
LEMMA BelowIs ==
    \E b : /\ b[0] = Tops /\ \A n \in Nat : b[n + 1] = Upon(b[n])
           /\ Below = b[Cardinality(DOMAIN rows)]
<1> DEFINE level(n) == CHOOSE X : \E f : Levels(f, n) /\ X = f[n]
           Eqn(g) == g = [n \in Nat |-> IF n = 0 THEN Tops ELSE Upon(g[n - 1])]
           b == CHOOSE g : Eqn(g)
           c == [n \in Nat |-> level(n)]
<1>1. \A n \in Nat : \E f : Levels(f, n) /\ level(n) = f[n]
  <2>1. SUFFICES ASSUME NEW n \in Nat PROVE \E f : Levels(f, n) /\ level(n) = f[n] OBVIOUS
  <2>2. PICK f : Levels(f, n) BY LevelsExist
  <2>3. \E X : \E g : Levels(g, n) /\ X = g[n] BY <2>2
  <2>4. QED BY <2>3
<1> HIDE DEF level
<1>2. c[0] = Tops BY <1>1 DEF Levels
<1>3. ASSUME NEW n \in Nat PROVE c[n + 1] = Upon(c[n])
  <2>1. n + 1 \in Nat /\ n + 1 \in 1..(n + 1) /\ (n + 1) - 1 = n /\ \A k \in 1..n : k \in 1..(n + 1)
    OBVIOUS
  <2>2. PICK f : Levels(f, n) /\ level(n) = f[n] BY <1>1
  <2>3. PICK g : Levels(g, n + 1) /\ level(n + 1) = g[n + 1] BY <1>1, <2>1
  <2>4. Levels(g, n) BY <2>1, <2>3 DEF Levels
  <2>5. g[n] = f[n] BY <2>2, <2>4, LevelsOnce
  <2>6. g[n + 1] = Upon(g[n]) BY <2>1, <2>3 DEF Levels
  <2>7. c[n + 1] = level(n + 1) /\ c[n] = level(n) BY <2>1
  <2>8. QED BY <2>2, <2>3, <2>5, <2>6, <2>7
<1>4. Eqn(c)
  <2>1. \A n \in Nat : n # 0 => n - 1 \in Nat /\ (n - 1) + 1 = n OBVIOUS
  <2>2. c = [n \in Nat |-> c[n]] OBVIOUS
  <2> HIDE DEF c
  <2>3. \A n \in Nat : c[n] = IF n = 0 THEN Tops ELSE Upon(c[n - 1]) BY <1>2, <1>3, <2>1
  <2>4. QED BY <2>2, <2>3
<1>5. Eqn(b)
  <2> HIDE DEF Eqn
  <2>1. QED BY <1>4
<1>6. b[0] = Tops /\ \A n \in Nat : b[n + 1] = Upon(b[n])
  <2> HIDE DEF b
  <2>1. b = [n \in Nat |-> IF n = 0 THEN Tops ELSE Upon(b[n - 1])] BY <1>5
  <2>2. \A n \in Nat : n + 1 \in Nat /\ n + 1 # 0 /\ (n + 1) - 1 = n OBVIOUS
  <2>3. b[0] = Tops BY <2>1
  <2>4. ASSUME NEW n \in Nat PROVE b[n + 1] = Upon(b[n])
    <3>1. b[n + 1] = Upon(b[(n + 1) - 1]) BY <2>1, <2>2
    <3>2. QED BY <2>2, <3>1
  <2>5. QED BY <2>3, <2>4
<1>7. Below = b[Cardinality(DOMAIN rows)] BY DEF Below, Tops, Upon
<1> HIDE DEF b
<1>8. QED BY <1>6, <1>7

\* What leads to the root is in no ring.
LEMMA RootedGrounded ==
    ASSUME RowsClean, DOMAIN rows \subseteq Below, NEW u
    PROVE  Grounded(u)
<1>1. PICK b : /\ b[0] = Tops /\ \A n \in Nat : b[n + 1] = Upon(b[n])
               /\ Below = b[Cardinality(DOMAIN rows)]
  BY BelowIs
<1> DEFINE N == Cardinality(DOMAIN rows)
<1>2. IsFiniteSet(DOMAIN rows) /\ N \in Nat
  <2>1. IsFiniteSet(1..(nextId - 1)) /\ DOMAIN rows \subseteq 1..(nextId - 1)
    <3>1. nextId - 1 \in Int /\ 1 \in Int BY DEF RowsClean
    <3>2. QED BY <3>1, FS_Interval DEF RowsClean
  <2>2. IsFiniteSet(DOMAIN rows) BY <2>1, FS_Subset
  <2>3. QED BY <2>2, FS_CardinalityType
<1>3. SUFFICES ASSUME NEW D \in SUBSET Mine(u), \A i \in D : rows[i].father \in D
               PROVE  D = {}
  BY DEF Grounded
<1> DEFINE A == {n \in 0..N : b[n] \cap D = {}}
<1>4. 0 \in A
  <2>1. 0 \notin D BY DEF Mine, RowsClean
  <2>2. \A i \in D : rows[i].father # 0 BY <1>3, <2>1
  <2>3. QED BY <1>1, <1>2, <2>2 DEF Tops
<1>5. ASSUME NEW n \in 1..N, n - 1 \in A PROVE n \in A
  <2>1. n - 1 \in Nat /\ (n - 1) + 1 = n /\ n \in 0..N BY <1>2
  <2>2. b[n] = Upon(b[n - 1]) BY <1>1, <2>1
  <2>3. b[n - 1] \cap D = {} BY <1>5
  <2>4. QED BY <1>3, <2>1, <2>2, <2>3 DEF Upon
<1> HIDE DEF A
<1>6. N \in A
  <2> HIDE DEF N
  <2>1. \A n \in 0..N : n \in A BY <1>2, <1>4, <1>5, UpTo
  <2>2. QED BY <1>2, <2>1
<1>7. DOMAIN rows \cap D = {} BY <1>1, <1>6 DEF A
<1>8. QED BY <1>3, <1>7 DEF Mine

\* Where there is no ring, and every entry that rm has not left is in the root or a
\* directory of its user, each level up to the last has a new entry.
LEMMA GroundedRooted ==
    ASSUME RowsClean, LostFiles, \A u : Grounded(u) /\ Placed(u)
    PROVE  DOMAIN rows \ Below \subseteq lost
<1> DEFINE R == DOMAIN rows  K == R \ lost  N == Cardinality(R)
<1>1. PICK b : /\ b[0] = Tops /\ \A n \in Nat : b[n + 1] = Upon(b[n]) /\ Below = b[N]
  BY BelowIs
<1>2. IsFiniteSet(R) /\ N \in Nat
  <2>1. IsFiniteSet(1..(nextId - 1)) /\ R \subseteq 1..(nextId - 1)
    <3>1. nextId - 1 \in Int /\ 1 \in Int BY DEF RowsClean
    <3>2. QED BY <3>1, FS_Interval DEF RowsClean
  <2>2. IsFiniteSet(R) BY <2>1, FS_Subset
  <2>3. QED BY <2>2, FS_CardinalityType
<1> HIDE DEF N
<1> DEFINE A == {n \in 0..N : /\ Tops \subseteq b[n] /\ b[n] \subseteq R
                              /\ K \subseteq b[n] \/ Cardinality(b[n]) >= n}
<1>3. 0 \in A
  <2>1. Tops \subseteq R /\ b[0] = Tops BY <1>1 DEF Tops
  <2>2. Cardinality(Tops) \in Nat BY <1>2, <2>1, FS_Subset, FS_CardinalityType
  <2>3. QED BY <1>2, <2>1, <2>2
<1>4. ASSUME NEW n \in 1..N, n - 1 \in A PROVE n \in A
  <2>1. n - 1 \in Nat /\ (n - 1) + 1 = n /\ n \in 0..N BY <1>2
  <2>2. PICK X : X = b[n - 1] OBVIOUS
  <2>3. /\ Tops \subseteq X /\ X \subseteq R
        /\ K \subseteq X \/ Cardinality(X) >= n - 1
        /\ b[n] = Upon(X)
    BY <1>1, <1>4, <2>1, <2>2
  <2>4. Tops \subseteq Upon(X) /\ Upon(X) \subseteq R BY <2>3 DEF Upon
  <2>5. CASE K \subseteq X
    <3>1. K \subseteq Upon(X) BY <2>5 DEF Upon
    <3>2. QED BY <2>1, <2>3, <2>4, <3>1
  <2>6. CASE ~(K \subseteq X)
    <3>1. PICK j \in K \ X : TRUE BY <2>6
    <3>2. PICK u : u = rows[j].user OBVIOUS
    <3> DEFINE D == (Mine(u) \ lost) \ X
    <3>3. D \in SUBSET Mine(u) /\ D # {} BY <3>1, <3>2 DEF Mine
    <3>4. PICK i \in D : rows[i].father \notin D BY <3>3 DEF Grounded
    <3>5. i \in R /\ i \notin X /\ i \in Mine(u) /\ i \notin lost BY <3>4 DEF Mine
    <3>6. rows[i].father \in X
      <4>1. PICK f : f = rows[i].father OBVIOUS
      <4>2. f # 0 BY <2>3, <3>5, <4>1 DEF Tops
      <4>3. f \in Mine(u) /\ rows[f].type = "d" BY <3>5, <4>1, <4>2 DEF Placed, Parent
      <4>4. f \notin lost BY <4>3 DEF LostFiles, Mine
      <4>5. QED BY <3>4, <4>1, <4>3, <4>4
    <3>7. X \cup {i} \subseteq Upon(X) BY <3>5, <3>6 DEF Upon
    <3>8. /\ IsFiniteSet(X) /\ Cardinality(X) \in Nat
          /\ IsFiniteSet(Upon(X)) /\ Cardinality(Upon(X)) \in Nat
      <4>1. IsFiniteSet(X) /\ IsFiniteSet(Upon(X)) BY <1>2, <2>3, <2>4, FS_Subset
      <4>2. QED BY <4>1, FS_CardinalityType
    <3>9. Cardinality(X \cup {i}) = Cardinality(X) + 1 BY <3>5, <3>8, FS_AddElement
    <3>10. Cardinality(X \cup {i}) <= Cardinality(Upon(X)) BY <3>7, <3>8, FS_Subset
    <3>11. Cardinality(Upon(X)) >= n
      <4>1. \A c, d \in Nat : c >= n - 1 /\ c + 1 <= d => d >= n BY <2>1
      <4>2. QED BY <2>3, <2>6, <3>8, <3>9, <3>10, <4>1
    <3>12. QED BY <2>1, <2>3, <2>4, <3>11
  <2>7. QED BY <2>5, <2>6
<1> HIDE DEF A
<1>5. N \in A
  <2>1. \A n \in 0..N : n \in A BY <1>2, <1>3, <1>4, UpTo
  <2>2. QED BY <1>2, <2>1
<1>6. b[N] \subseteq R /\ (K \subseteq b[N] \/ Cardinality(b[N]) >= N) BY <1>5 DEF A
<1>7. K \subseteq b[N]
  <2>1. CASE Cardinality(b[N]) >= N
    <3>1. Cardinality(b[N]) <= Cardinality(R) /\ (Cardinality(R) = Cardinality(b[N]) => R = b[N])
      BY <1>2, <1>6, FS_Subset
    <3>2. Cardinality(b[N]) \in Nat BY <1>2, <1>6, FS_Subset, FS_CardinalityType
    <3>3. Cardinality(R) = N BY DEF N
    <3>4. QED BY <1>2, <2>1, <3>1, <3>2, <3>3
  <2>2. QED BY <1>6, <2>1
<1>8. QED BY <1>1, <1>7

LEMMA RootedInit ==
    ASSUME Steady, Settled, Rooted, \A u : Placed(u), Init
    PROVE  RInv
<1>1. WInv BY SteadyInit
<1>2. RowsClean BY <1>1 DEF WInv, UInv, IInv
<1>3. Quiet /\ lost = {} BY DEF Init, Quiet, Idle
<1>4. \A u : Grounded(u)
  <2>1. DOMAIN rows \subseteq Below BY <1>3 DEF Rooted
  <2>2. QED BY <1>2, <2>1, RootedGrounded
<1>5. (\A u : Hung(u)) /\ LostFiles BY <1>3 DEF Hung, Placed, LostFiles
<1>6. ASSUME NEW s \in Sessions, NEW t, NEW r, NEW f, t = todo[s], r = reg[s], f = father[s]
      PROVE  Aimed(UserOf(s), t, r, f)
  <2>1. t = <<>> BY <1>6 DEF Init
  <2>2. QED BY <2>1, AimedVoid
<1>7. QED BY <1>1, <1>4, <1>5, <1>6 DEF RInv

LEMMA RootedFollows ==
    ASSUME RInv
    PROVE  Rooted
<1>1. SUFFICES ASSUME Quiet PROVE DOMAIN rows \ Below \subseteq lost BY DEF Rooted
<1>2. ASSUME NEW u PROVE Placed(u)
  <2>1. SUFFICES ASSUME NEW i \in Mine(u) PROVE i \in lost \/ Parent(u, rows[i].father)
    BY DEF Placed
  <2>2. ASSUME NEW s \in Sessions, Due(todo[s], reg[s], i, rows[i].father) PROVE FALSE
    <3>1. todo[s] = <<>> BY <1>1 DEF Quiet, Idle
    <3>2. todo[s] # <<>> BY <2>2, DueNow
    <3>3. QED BY <3>1, <3>2
  <2>3. Hung(u) BY DEF RInv
  <2>4. QED BY <2>2, <2>3 DEF Hung
<1>3. QED BY <1>2, GroundedRooted DEF RInv, WInv, UInv, IInv

\* rm leaves nothing where no content in use loses its record.
LEMMA NothingLeft ==
    ASSUME ~RecordsGone
    PROVE  Spec => [](lost = {})
<1>1. Init => lost = {} BY DEF Init
<1>2. lost = {} /\ [Next]_vars => (lost = {})'
  <2>1. SUFFICES ASSUME lost = {}, [Next]_vars PROVE lost' = {} OBVIOUS
  <2>2. ASSUME NEW s \in Sessions, RmDelete(s) PROVE lost' = {} BY <2>1, <2>2 DEF RmDelete
  <2>3. ASSUME NEW s \in Sessions, Step(s), ~RmDelete(s) PROVE lost' = {}
    BY <2>1, <2>3, OnlyRmLeaves
  <2>4. QED BY <2>1, <2>2, <2>3 DEF Next, vars, counters
<1>3. QED BY <1>1, <1>2, PTL DEF Spec

\* Between commands every entry hangs below the root, for any tree of entries that lie in
\* directories of their users and any sequence of steady commands in which mv moves
\* nothing into itself: rm, which deletes a directory before its entries, finds each of
\* them afterwards, mkdir and mv put entries only where a directory still is, and mv,
\* which compares no path, makes no ring.  The one exception are the files rm came to
\* after other sessions had dropped the record of the content they still named, so that
\* rmFileFunc returned before the delete; only files are, no directory ever is, and
\* where contents in use keep their records there are none.
THEOREM EntriesHangBelowRoot ==
    ASSUME Steady, Forward
    PROVE  /\ Settled /\ Rooted /\ (\A u : Placed(u)) /\ Spec =>
                  [](Rooted /\ \A i \in lost \cap DOMAIN rows : rows[i].type = "f")
           /\ ~RecordsGone /\ Settled /\ Rooted /\ (\A u : Placed(u)) /\ Spec =>
                  [](Quiet => DOMAIN rows \subseteq Below)
<1>1. Settled /\ Rooted /\ (\A u : Placed(u)) /\ Init => RInv BY RootedInit
<1>2. RInv /\ [Next]_vars => RInv' BY RootedInductive
<1> DEFINE Files == \A i \in lost \cap DOMAIN rows : rows[i].type = "f"
<1>3. RInv => Rooted /\ Files BY RootedFollows DEF RInv, LostFiles
<1>4. Settled /\ Rooted /\ (\A u : Placed(u)) /\ Spec => [](Rooted /\ Files)
  BY <1>1, <1>2, <1>3, PTL DEF Spec
<1>5. lost = {} /\ Rooted /\ Files => (Quiet => DOMAIN rows \subseteq Below) BY DEF Rooted
<1>6. ~RecordsGone => (Spec => [](lost = {})) BY NothingLeft
<1>7. ~RecordsGone /\ Settled /\ Rooted /\ (\A u : Placed(u)) /\ Spec =>
         [](Quiet => DOMAIN rows \subseteq Below)
  BY <1>4, <1>5, <1>6, PTL
<1>8. QED BY <1>4, <1>7

=============================================================================
