--------------------------- MODULE CopyDirProofs ---------------------------
(***************************************************************************)
(* Proofs about CopyDir, for any sessions, users, paths and trees: if one  *)
(* session alone copies, the sessions of other users insert no rows and    *)
(* the others of its own user remove none, then select max(id) answers a   *)
(* row of the user, and the copy stays in the user's tree; and every       *)
(* variable keeps its type.                                                *)
(***************************************************************************)
EXTENDS CopyDir, FileTreeProofs

\* What a session of a client that asks for the commands x may be about to do.
Plain     == {"getpwd", "enter", "names", "source", "target", "samename", "move", "rename",
              "isdir", "samepwd", "setpwd", "cache", "present"}
Removing  == {"found", "remove", "delete", "list"}
Inserting == {"insert", "store"}

\* Only c copies; beside it other users insert nothing and its own user removes nothing.
Copier(c) ==
    \A t \in Sessions \ {c} :
        /\ Copies(t) = {}
        /\ \A x \in Commands(t) :
              IF UserOf(t) = UserOf(c) THEN x.cmd # "rm" ELSE x.cmd \notin {"mkdir", "upload"}

SoleCopier == \E c \in Sessions : Copier(c)

\* The steps session t may take outside cp.
Allowed(t, c) ==
    {op \in Plain \cup Removing \cup Inserting :
        /\ op \in Removing => t = c \/ UserOf(t) # UserOf(c)
        /\ op \in Inserting => UserOf(t) = UserOf(c)}

\* The places of cp: the steps that are left of it, before and after StartCopy.
AtSource   == <<"cpsource", "cptarget">>
AtTarget   == <<"cptarget">>
AtSame     == <<"cpsame">>
AtOverwrite == <<"overwrite">>
AtFather   == <<"cpfather">>
AtReplace  == <<"replace">>
AtDelete   == <<"delete", "list", "remove">>
AtUnlink   == <<"delete", "remove">>
AtList     == <<"list", "remove">>
AtRemove   == <<"remove">>
AtDirRow   == <<"dirrow", "newest", "children">>
AtNewest   == <<"newest", "children">>
AtChildren == <<"children">>
AtFileRow  == <<"filerow">>
AtChild    == <<"child">>

Finding == {AtSource, AtTarget, AtSame, AtOverwrite, AtFather}
Copying == {AtReplace, AtDelete, AtUnlink, AtList, AtRemove, AtDirRow, AtNewest, AtChildren,
            AtFileRow, AtChild}

\* A call of digui for user u: where the copy goes and what is left to copy are u's.
Frame(u) == [dest : OwnIds(u), left : SUBSET OwnIds(u)]

FramesClean ==
    /\ frames = [s \in Sessions |-> frames[s]]
    /\ \A s \in Sessions : frames[s] \in Seq(Frame(UserOf(s)))

Others(c) ==
    \A t \in Sessions : IF reg[t].cmd = "cp" THEN t = c ELSE todo[t] \in Seq(Allowed(t, c))

\* Until its children are listed the source is there; until select max(id) the
\* largest id is that of a row of the copier's user.
CopyPlace(c) ==
    reg[c].cmd = "cp" =>
        /\ todo[c] \in Finding \cup Copying
        /\ todo[c] \in Copying => frames[c] # <<>>
        /\ todo[c] \in {AtNewest, AtChildren} => reg[c].id \in DOMAIN rows
        /\ todo[c] = AtNewest =>
              nextId - 1 \in DOMAIN rows /\ rows[nextId - 1].user = UserOf(c)

CInv(c) == IInv /\ FramesClean /\ Others(c) /\ CopyPlace(c)

-----------------------------------------------------------------------------
(***************************************************************************)
(* The places of cp, and the steps outside it.                             *)
(***************************************************************************)
LEMMA FindingOps ==
    /\ AtSource # <<>> /\ Head(AtSource) = "cpsource" /\ Tail(AtSource) = AtTarget
    /\ AtTarget # <<>> /\ Head(AtTarget) = "cptarget"
    /\ AtSame # <<>> /\ Head(AtSame) = "cpsame"
    /\ AtOverwrite # <<>> /\ Head(AtOverwrite) = "overwrite"
    /\ AtFather # <<>> /\ Head(AtFather) = "cpfather"
BY DEF AtSource, AtTarget, AtSame, AtOverwrite, AtFather

LEMMA RemovingOps ==
    /\ AtReplace # <<>> /\ Head(AtReplace) = "replace"
    /\ AtDelete # <<>> /\ Head(AtDelete) = "delete" /\ Tail(AtDelete) = AtList
    /\ AtUnlink # <<>> /\ Head(AtUnlink) = "delete" /\ Tail(AtUnlink) = AtRemove
    /\ AtList # <<>> /\ Head(AtList) = "list" /\ Tail(AtList) = AtRemove
    /\ AtRemove # <<>> /\ Head(AtRemove) = "remove"
BY DEF AtReplace, AtDelete, AtUnlink, AtList, AtRemove

LEMMA DiguiOps ==
    /\ AtDirRow # <<>> /\ Head(AtDirRow) = "dirrow" /\ Tail(AtDirRow) = AtNewest
    /\ AtNewest # <<>> /\ Head(AtNewest) = "newest" /\ Tail(AtNewest) = AtChildren
    /\ AtChildren # <<>> /\ Head(AtChildren) = "children"
    /\ AtFileRow # <<>> /\ Head(AtFileRow) = "filerow"
    /\ AtChild # <<>> /\ Head(AtChild) = "child"
BY DEF AtDirRow, AtNewest, AtChildren, AtFileRow, AtChild

LEMMA PlacesAreSteps == Finding \cup Copying \subseteq Seq(Ops)
<1>1. /\ AtSource \in Seq(Ops) /\ AtTarget \in Seq(Ops) /\ AtSame \in Seq(Ops)
      /\ AtOverwrite \in Seq(Ops) /\ AtFather \in Seq(Ops)
  BY DEF AtSource, AtTarget, AtSame, AtOverwrite, AtFather, Ops
<1>2. AtReplace \in Seq(Ops) /\ AtDelete \in Seq(Ops) /\ AtUnlink \in Seq(Ops)
  BY DEF AtReplace, AtDelete, AtUnlink, Ops
<1>3. AtList \in Seq(Ops) /\ AtRemove \in Seq(Ops) /\ AtDirRow \in Seq(Ops)
  BY DEF AtList, AtRemove, AtDirRow, Ops
<1>4. AtNewest \in Seq(Ops) /\ AtChildren \in Seq(Ops) /\ AtFileRow \in Seq(Ops)
      /\ AtChild \in Seq(Ops)
  BY DEF AtNewest, AtChildren, AtFileRow, AtChild, Ops
<1>5. QED BY <1>1, <1>2, <1>3, <1>4 DEF Finding, Copying

LEMMA AllowedSteps ==
    ASSUME NEW t, NEW c
    PROVE  /\ Plain \subseteq Allowed(t, c)
           /\ "found" \in Allowed(t, c) => Removing \subseteq Allowed(t, c)
           /\ "remove" \in Allowed(t, c) => Removing \subseteq Allowed(t, c)
           /\ Allowed(t, c) \subseteq Ops
           /\ \A op \in {"cpsource", "cptarget", "cpsame", "overwrite", "replace", "cpfather",
                         "dirrow", "filerow", "newest", "children", "child"} : op \notin Allowed(t, c)
<1>1. Plain \subseteq Allowed(t, c)
  BY DEF Allowed, Plain, Removing, Inserting
<1>2. \A op \in Removing : op \in Allowed(t, c) => Removing \subseteq Allowed(t, c)
  BY DEF Allowed, Plain, Removing, Inserting
<1>3. "found" \in Removing /\ "remove" \in Removing BY DEF Removing
<1>4. Allowed(t, c) \subseteq Ops BY DEF Allowed, Ops, Plain, Removing, Inserting
<1>5. \A op \in {"cpsource", "cptarget", "cpsame", "overwrite", "replace", "cpfather",
                 "dirrow", "filerow", "newest", "children", "child"} : op \notin Allowed(t, c)
  BY DEF Allowed, Plain, Removing, Inserting
<1>6. QED BY <1>1, <1>2, <1>3, <1>4, <1>5

\* What the place of cp is, by its next step.
LEMMA WhichPlace ==
    ASSUME NEW q \in Finding \cup Copying
    PROVE  /\ q # <<>>
           /\ Head(q) = "cpsource" => q = AtSource
           /\ Head(q) = "cptarget" => q = AtTarget
           /\ Head(q) = "cpsame" => q = AtSame
           /\ Head(q) = "overwrite" => q = AtOverwrite
           /\ Head(q) = "cpfather" => q = AtFather
           /\ Head(q) = "replace" => q = AtReplace
           /\ Head(q) = "delete" => q \in {AtDelete, AtUnlink}
           /\ Head(q) = "list" => q = AtList
           /\ Head(q) = "remove" => q = AtRemove
           /\ Head(q) = "dirrow" => q = AtDirRow
           /\ Head(q) = "newest" => q = AtNewest
           /\ Head(q) = "children" => q = AtChildren
           /\ Head(q) = "filerow" => q = AtFileRow
           /\ Head(q) = "child" => q = AtChild
           /\ Head(q) \in {"cpsource", "cptarget", "cpsame", "overwrite", "cpfather", "replace",
                           "delete", "list", "remove", "dirrow", "newest", "children",
                           "filerow", "child"}
<1>1. CASE q \in Finding BY <1>1, FindingOps DEF Finding
<1>2. CASE q \in {AtReplace, AtDelete, AtUnlink, AtList, AtRemove} BY <1>2, RemovingOps
<1>3. CASE q \in {AtDirRow, AtNewest, AtChildren, AtFileRow, AtChild} BY <1>3, DiguiOps
<1>4. QED BY <1>1, <1>2, <1>3 DEF Copying

\* The places are different ones.
LEMMA PlacesDiffer ==
    /\ Finding \cap Copying = {}
    /\ {AtNewest, AtChildren} \cap (Finding \cup {AtReplace, AtDelete, AtUnlink, AtList, AtRemove,
                                                  AtDirRow, AtFileRow, AtChild}) = {}
    /\ AtNewest # AtChildren
<1>1. \A p \in Finding : Head(p) \in {"cpsource", "cptarget", "cpsame", "overwrite", "cpfather"}
  BY FindingOps DEF Finding
<1>2. \A p \in {AtReplace, AtDelete, AtUnlink, AtList, AtRemove} :
         Head(p) \in {"replace", "delete", "list", "remove"}
  BY RemovingOps
<1>3. \A p \in {AtDirRow, AtFileRow, AtChild} : Head(p) \in {"dirrow", "filerow", "child"}
  BY DiguiOps
<1>4. Head(AtNewest) = "newest" /\ Head(AtChildren) = "children" BY DiguiOps
<1>5. QED BY <1>1, <1>2, <1>3, <1>4 DEF Copying

-----------------------------------------------------------------------------
(***************************************************************************)
(* The steps of FileTree, outside cp.                                      *)
(***************************************************************************)
\* Session s goes on with the steps t of a command other than cp.
GoesOn(s, t) ==
    /\ todo' = [todo EXCEPT ![s] = t]
    /\ \E r : reg' = [reg EXCEPT ![s] = r] /\ r.cmd # "cp"

LEMMA BeginGoes ==
    ASSUME NEW s, NEW r, NEW t, Begin(s, r, t), r.cmd # "cp"
    PROVE  GoesOn(s, t)
BY DEF Begin, GoesOn

LEMMA CommandAllowed ==
    ASSUME NEW c \in Sessions, Copier(c), NEW s \in Sessions, NEW x \in Commands(s), Command(s, x)
    PROVE  \E t \in Seq(Allowed(s, c)) : GoesOn(s, t)
<1> DEFINE A == Allowed(s, c)
           r == [NoReg EXCEPT !.cmd = x.cmd]
<1>1. x.cmd \in {"mkdir", "rm", "mv", "cd", "pwd", "upload"} BY CommandsAssumption
<1>2. ASSUME NEW t \in Seq(A), NEW p, NEW q, NEW m, NEW w,
             \/ Begin(s, r, t)
             \/ Begin(s, [r EXCEPT !.src = p], t)
             \/ Begin(s, Walk(r, w), t)
             \/ Begin(s, Walk([r EXCEPT !.src = p], w), t)
             \/ Begin(s, Walk([r EXCEPT !.dst = q], w), t)
             \/ Begin(s, Walk([r EXCEPT !.src = p, !.dst = q, !.moves = m], w), t)
      PROVE  \E y \in Seq(A) : GoesOn(s, y)
  <2>1. /\ r.cmd # "cp" /\ [r EXCEPT !.src = p].cmd # "cp" /\ Walk(r, w).cmd # "cp"
        /\ Walk([r EXCEPT !.src = p], w).cmd # "cp"
        /\ Walk([r EXCEPT !.dst = q], w).cmd # "cp"
        /\ Walk([r EXCEPT !.src = p, !.dst = q, !.moves = m], w).cmd # "cp"
    BY <1>1 DEF NoReg, Walk
  <2>2. GoesOn(s, t) BY <1>2, <2>1, BeginGoes
  <2>3. QED BY <2>2
<1>3. Plain \subseteq A BY AllowedSteps
<1>4. /\ UserOf(s) # UserOf(c) => x.cmd \notin {"mkdir", "upload"}
      /\ s # c /\ UserOf(s) = UserOf(c) => x.cmd # "rm"
  BY DEF Copier
<1>5. CASE x.cmd = "mkdir"
  <2>1. "names" \in A /\ "insert" \in A BY <1>4, <1>5 DEF Allowed, Plain, Inserting, Removing
  <2>2. <<"names", "insert">> \in Seq(A) BY <2>1
  <2>3. QED BY <1>2, <1>5, <2>2 DEF Command
<1>6. CASE x.cmd = "rm"
  <2>1. "found" \in A /\ "remove" \in A BY <1>4, <1>6 DEF Allowed, Plain, Inserting, Removing
  <2>2. <<"found", "remove">> \in Seq(A) BY <2>1
  <2>3. QED BY <1>2, <1>6, <2>2 DEF Command
<1>7. CASE x.cmd = "mv"
  <2>1. "source" \in A /\ "target" \in A BY <1>3 DEF Plain
  <2>2. <<"source", "target">> \in Seq(A) BY <2>1
  <2>3. QED BY <1>2, <1>7, <2>2 DEF Command
<1>8. CASE x.cmd = "cd"
  <2>1. "isdir" \in A /\ "samepwd" \in A /\ "setpwd" \in A /\ "getpwd" \in A /\ "cache" \in A
    BY <1>3 DEF Plain
  <2>2. <<"isdir", "samepwd", "setpwd", "getpwd", "cache">> \in Seq(A) BY <2>1
  <2>3. QED BY <1>2, <1>8, <2>2 DEF Command
<1>9. CASE x.cmd = "pwd"
  <2>1. "getpwd" \in A /\ "cache" \in A BY <1>3 DEF Plain
  <2>2. <<"getpwd", "cache">> \in Seq(A) BY <2>1
  <2>3. QED BY <1>2, <1>9, <2>2 DEF Command
<1>10. CASE x.cmd = "upload"
  <2>1. "present" \in A /\ "store" \in A BY <1>4, <1>10 DEF Allowed, Plain, Inserting, Removing
  <2>2. <<"present", "store">> \in Seq(A) BY <2>1
  <2>3. QED BY <1>2, <1>10, <2>2 DEF Command
<1>11. QED BY <1>1, <1>5, <1>6, <1>7, <1>8, <1>9, <1>10

\* A session outside cp stays with the steps it is allowed.
LEMMA StepAllowed ==
    ASSUME NEW c \in Sessions, Copier(c), IInv, NEW s \in Sessions, Step(s), reg[s].cmd # "cp",
           todo[s] \in Seq(Allowed(s, c))
    PROVE  (\E t \in Seq(Allowed(s, c)) : GoesOn(s, t)) \/ UNCHANGED <<todo, reg>>
<1> DEFINE A == Allowed(s, c)
<1> USE DEF IInv
<1>1. Clean(reg[s], UserOf(s)) BY DEF LocalsClean
<1>2. <<>> \in Seq(A) /\ Plain \subseteq A BY EmptySeq, AllowedSteps
<1>3. ASSUME NEW i, NEW a, Answer(s, i, a)
      PROVE  \E t \in Seq(A) : GoesOn(s, t)
  <2>1. NoReg.cmd # "cp" BY DEF NoReg
  <2>2. GoesOn(s, <<>>) BY <1>3, <2>1 DEF Answer, GoesOn
  <2>3. QED BY <1>2, <2>2
<1>4. ASSUME todo[s] # <<>>, NEW r, r.cmd # "cp", Then(s, r)
      PROVE  \E t \in Seq(A) : GoesOn(s, t)
  <2>1. Tail(todo[s]) \in Seq(A) BY <1>4, HeadTailProperties
  <2>2. GoesOn(s, Tail(todo[s])) BY <1>4 DEF Then, GoOn, GoesOn
  <2>3. QED BY <2>1, <2>2
<1>5. ASSUME NEW t \in Seq(A), NEW r, r.cmd # "cp", GoOn(s, t, r)
      PROVE  \E q \in Seq(A) : GoesOn(s, q)
  BY <1>5 DEF GoOn, GoesOn
<1>6. todo[s] # <<>> => Head(todo[s]) \in A BY HeadTailProperties
<1>7. CASE Login(s)
  <2>1. "getpwd" \in A /\ "enter" \in A BY <1>2 DEF Plain
  <2>2. <<"getpwd", "enter">> \in Seq(A) BY <2>1
  <2>3. GoesOn(s, <<"getpwd", "enter">>) BY <1>7, BeginGoes DEF Login, NoReg
  <2>4. QED BY <2>2, <2>3
<1>8. CASE Leave(s) BY <1>8 DEF Leave
<1>9. CASE CmdAnalyse(s) BY <1>9, CommandAllowed DEF CmdAnalyse
<1>10. CASE GetNextFileId(s)
  <2>1. PICK i \in NextFileId(UserOf(s), reg[s].cur, Head(reg[s].path)) :
           GoOn(s, todo[s], [reg[s] EXCEPT !.cur = i, !.path = Tail(@)])
    BY <1>10 DEF GetNextFileId
  <2>2. [reg[s] EXCEPT !.cur = i, !.path = Tail(@)].cmd # "cp" BY <1>1 DEF Clean, Fields
  <2>3. QED BY <1>5, <2>1, <2>2
<1>11. CASE CheckNames(s) \/ CdIsDir(s) \/ CdSetPwd(s) \/ MvSameName(s) \/ Present(s) \/ RmDelete(s)
  <2>1. (\E a : Answer(s, reg[s].id, a)) \/ (todo[s] # <<>> /\ Then(s, reg[s]))
    BY <1>11 DEF CheckNames, CdIsDir, CdSetPwd, MvSameName, Present, RmDelete, Finish, At
  <2>2. QED BY <1>3, <1>4, <2>1
<1>12. CASE InsertDir(s) \/ Store(s) \/ MvMove(s) \/ MvRename(s) \/ Cache(s) \/ Enter(s)
  <2>1. \E i, a : Answer(s, i, a)
    BY <1>12 DEF InsertDir, Store, MvMove, MvRename, Update, Cache, Enter, Finish
  <2>2. QED BY <1>3, <2>1
<1>13. CASE MvSource(s)
  <2> DEFINE r == Walk([reg[s] EXCEPT !.id = reg[s].cur], reg[s].dst)
  <2>1. r.cmd # "cp" BY <1>1 DEF Clean, Fields, Walk
  <2>2. todo[s] # <<>> /\ Then(s, r) BY <1>13 DEF MvSource, At
  <2>3. QED BY <1>4, <2>1, <2>2
<1>14. CASE GetPwd(s)
  <2> DEFINE r == Walk(reg[s], pwd[UserOf(s)])
  <2>1. r.cmd # "cp" BY <1>1 DEF Clean, Fields, Walk
  <2>2. todo[s] # <<>> /\ Then(s, r) BY <1>14 DEF GetPwd, At
  <2>3. QED BY <1>4, <2>1, <2>2
<1>15. CASE RmFound(s)
  <2> DEFINE r == [reg[s] EXCEPT !.id = reg[s].cur, !.work = <<{reg[s].cur}>>]
  <2>1. r.cmd # "cp" BY <1>1 DEF Clean, Fields
  <2>2. todo[s] # <<>> /\ (Answer(s, reg[s].id, "fail") \/ Then(s, r))
    BY <1>15 DEF RmFound, At, Finish
  <2>3. QED BY <1>3, <1>4, <2>1, <2>2
<1>16. CASE RmList(s)
  <2> DEFINE children == {i \in DOMAIN rows : rows[i].father = reg[s].dir /\ rows[i].user = UserOf(s)}
             r == [reg[s] EXCEPT !.work = (IF children = {} THEN <<>> ELSE <<children>>) \o @]
  <2>1. r.cmd # "cp" BY <1>1 DEF Clean, Fields
  <2>2. todo[s] # <<>> /\ Then(s, r) BY <1>16 DEF RmList, At
  <2>3. QED BY <1>4, <2>1, <2>2
<1>17. CASE RmType(s)
  <2> DEFINE work == reg[s].work
             rest(i) == IF Head(work) = {i} THEN Tail(work) ELSE <<Head(work) \ {i}>> \o Tail(work)
             steps(i) == CASE TypeOf(i) = "d"    -> <<"delete", "list", "remove">>
                           [] TypeOf(i) = "f"    -> <<"delete", "remove">>
                           [] TypeOf(i) = "none" -> <<"remove">>
             r(i) == [reg[s] EXCEPT !.dir = i, !.work = rest(i)]
  <2>1. "remove" \in A BY <1>6, <1>17 DEF RmType, At
  <2>2. Removing \subseteq A BY <2>1, AllowedSteps
  <2>3. "delete" \in A /\ "list" \in A BY <2>2 DEF Removing
  <2>4. /\ <<"delete", "list", "remove">> \in Seq(A) /\ <<"delete", "remove">> \in Seq(A)
        /\ <<"remove">> \in Seq(A)
    BY <2>1, <2>3
  <2>5. CASE Finish(s, "ok") BY <1>3, <2>5 DEF Finish
  <2>6. ASSUME NEW i, GoOn(s, steps(i), r(i))
        PROVE  \E t \in Seq(A) : GoesOn(s, t)
    <3>1. TypeOf(i) \in {"d", "f", "none"} BY DEF TypeOf, RowsClean, RowClean
    <3>2. steps(i) \in Seq(A) BY <2>4, <3>1
    <3>3. r(i).cmd # "cp" BY <1>1 DEF Clean, Fields
    <3>4. QED BY <1>5, <2>6, <3>2, <3>3
  <2>7. QED BY <1>17, <2>5, <2>6 DEF RmType
<1>18. CASE MvTarget(s)
  <2> DEFINE into == Walk([reg[s] EXCEPT !.dir = reg[s].cur],
                          Append(Normal(reg[s].dst), Last(Normal(reg[s].src))))
             up == Walk(reg[s], Front(Normal(reg[s].dst)))
  <2>1. into.cmd # "cp" /\ up.cmd # "cp" BY <1>1 DEF Clean, Fields, Walk
  <2>2. "samename" \in A /\ "move" \in A /\ "rename" \in A BY <1>2 DEF Plain
  <2>3. <<"samename", "move">> \in Seq(A) /\ <<"rename">> \in Seq(A) BY <2>2
  <2>4. \/ Answer(s, reg[s].id, "fail")
        \/ GoOn(s, <<"samename", "move">>, into)
        \/ GoOn(s, <<"rename">>, up)
    BY <1>18 DEF MvTarget, Finish
  <2>5. CASE Answer(s, reg[s].id, "fail") BY <1>3, <2>5
  <2>6. CASE GoOn(s, <<"samename", "move">>, into) BY <1>5, <2>1, <2>3, <2>6
  <2>7. CASE GoOn(s, <<"rename">>, up) BY <1>5, <2>1, <2>3, <2>7
  <2>8. QED BY <2>4, <2>5, <2>6, <2>7
<1>19. CASE CdSamePwd(s)
  <2> DEFINE rest == IF pwd[UserOf(s)] = reg[s].dst THEN <<"getpwd", "cache">> ELSE Tail(todo[s])
  <2>1. "getpwd" \in A /\ "cache" \in A BY <1>2 DEF Plain
  <2>2. <<"getpwd", "cache">> \in Seq(A) BY <2>1
  <2>3. Tail(todo[s]) \in Seq(A) BY <1>19, HeadTailProperties DEF CdSamePwd, At
  <2>4. rest \in Seq(A) BY <2>2, <2>3
  <2>5. GoOn(s, rest, reg[s]) BY <1>19 DEF CdSamePwd
  <2>6. QED BY <1>5, <2>4, <2>5
<1>20. QED
  BY <1>7, <1>8, <1>9, <1>10, <1>11, <1>12, <1>13, <1>14, <1>15, <1>16, <1>17, <1>18, <1>19
  DEF Step

LEMMA FramesKept ==
    ASSUME Kept, NEW u
    PROVE  Seq(Frame(u)) \subseteq Seq(Frame(u))'
<1>1. OwnIds(u) \subseteq OwnIds(u)' BY DEF Kept
<1>2. Frame(u) \subseteq Frame(u)' BY <1>1 DEF Frame
<1>3. QED BY <1>2, SeqMonotonic

\* The other sessions leave the copier's rows in the table; what they insert is its user's.
LEMMA OthersSpare ==
    ASSUME NEW c \in Sessions, Copier(c), CInv(c), NEW s \in Sessions, s # c, Step(s)
    PROVE  /\ \A i \in DOMAIN rows :
                 rows[i].user = UserOf(c) => i \in DOMAIN rows' /\ rows'[i].user = UserOf(c)
           /\ \/ nextId' = nextId
              \/ nextId' - 1 \in DOMAIN rows' /\ rows'[nextId' - 1].user = UserOf(c)
<1> USE DEF IInv, CInv
<1>1. Clean(reg[s], UserOf(s)) /\ RowsClean BY DEF LocalsClean
<1>2. todo[s] # <<>> => Head(todo[s]) \in Allowed(s, c) BY HeadTailProperties DEF Others
<1>3. CASE ~Writes(s) BY <1>3, OthersKeepRows
<1>4. CASE InsertDir(s) \/ Store(s)
  <2>1. "insert" \in Allowed(s, c) \/ "store" \in Allowed(s, c)
    BY <1>2, <1>4 DEF InsertDir, Store, At
  <2>2. UserOf(s) = UserOf(c) BY <2>1 DEF Allowed, Inserting
  <2>3. \E f, n, t : Insert(f, n, t, UserOf(c)) BY <1>4, <2>2 DEF InsertDir, Store
  <2>4. nextId \in Nat /\ nextId' = nextId + 1 BY <1>1, <2>3 DEF Insert, RowsClean
  <2>5. /\ DOMAIN rows' = DOMAIN rows \cup {nextId} /\ rows'[nextId].user = UserOf(c)
        /\ \A i \in DOMAIN rows : i # nextId => rows'[i] = rows[i]
    BY <2>3 DEF Insert
  <2>6. nextId' - 1 = nextId BY <2>4
  <2>7. QED BY <2>5, <2>6
<1>5. CASE RmDelete(s)
  <2>1. "delete" \in Allowed(s, c) BY <1>2, <1>5 DEF RmDelete, At
  <2>2. UserOf(s) # UserOf(c) BY <2>1 DEF Allowed, Removing
  <2>3. reg[s].dir \in DOMAIN rows => rows[reg[s].dir].user = UserOf(s)
    BY <1>1 DEF Clean, OwnIds
  <2>4. QED BY <1>5, <2>2, <2>3 DEF RmDelete
<1>6. CASE MvMove(s) \/ MvRename(s)
  <2> DEFINE k == reg[s].id
  <2>1. k \in DOMAIN rows => RowClean(k) BY <1>1 DEF RowsClean
  <2>2. \/ rows' = rows
        \/ k \in DOMAIN rows /\ \E row : row.user = rows[k].user /\ rows' = [rows EXCEPT ![k] = row]
    <3>1. CASE MvMove(s) BY <2>1, <3>1 DEF MvMove, Update, RowClean, RowFields
    <3>2. CASE MvRename(s) BY <2>1, <3>2 DEF MvRename, Update, RowClean, RowFields
    <3>3. QED BY <1>6, <3>1, <3>2
  <2>3. nextId' = nextId BY <1>6 DEF MvMove, MvRename
  <2>4. QED BY <1>1, <2>2, <2>3 DEF RowsClean
<1>7. QED BY <1>3, <1>4, <1>5, <1>6 DEF Writes

\* A step outside cp.
LEMMA PlainStep ==
    ASSUME NEW c \in Sessions, Copier(c), CInv(c), NEW s \in Sessions, Step(s),
           reg[s].cmd # "cp", UNCHANGED frames
    PROVE  CInv(c)'
<1> USE DEF CInv
<1>1. IInv' /\ Kept BY RowsKept, FathersKept, SessionKept DEF IInv
<1>2. FramesClean' BY <1>1, FramesKept DEF FramesClean
<1>3. (\E t \in Seq(Allowed(s, c)) : GoesOn(s, t)) \/ UNCHANGED <<todo, reg>>
  BY StepAllowed DEF Others
<1>4. /\ reg'[s].cmd # "cp" /\ todo'[s] \in Seq(Allowed(s, c))
      /\ \A t \in Sessions \ {s} : todo'[t] = todo[t] /\ reg'[t] = reg[t]
  <2>1. CASE UNCHANGED <<todo, reg>> BY <2>1 DEF Others
  <2>2. CASE \E t \in Seq(Allowed(s, c)) : GoesOn(s, t)
    BY <2>2 DEF GoesOn, IInv, LocalsClean, Steps
  <2>3. QED BY <1>3, <2>1, <2>2
<1>5. Others(c)' BY <1>4 DEF Others
<1>6. CASE s = c BY <1>1, <1>2, <1>4, <1>5, <1>6 DEF CopyPlace
<1>7. CASE s # c
  <2>1. todo'[c] = todo[c] /\ reg'[c] = reg[c] /\ frames'[c] = frames[c] BY <1>4, <1>7
  <2>2. reg[c].id \in DOMAIN rows => rows[reg[c].id].user = UserOf(c)
    BY DEF IInv, LocalsClean, Clean, OwnIds
  <2>3. CopyPlace(c)' BY <1>7, <2>1, <2>2, OthersSpare DEF CopyPlace
  <2>4. QED BY <1>1, <1>2, <1>5, <2>3
<1>8. QED BY <1>6, <1>7

-----------------------------------------------------------------------------
(***************************************************************************)
(* The steps of cp.                                                        *)
(***************************************************************************)
\* The copier goes on: to place q with the locals r and the calls f of digui.
LEMMA CopierMoves ==
    ASSUME NEW c \in Sessions, CInv(c), RowsClean', Kept, UNCHANGED father,
           NEW q \in Finding \cup Copying, NEW r, Clean(r, UserOf(c)), r.cmd = "cp",
           NEW f \in Seq(Frame(UserOf(c))),
           todo' = [todo EXCEPT ![c] = q], reg' = [reg EXCEPT ![c] = r],
           frames' = [frames EXCEPT ![c] = f],
           q \in Copying => f # <<>>,
           q \in {AtNewest, AtChildren} => r.id \in DOMAIN rows',
           q = AtNewest => nextId' - 1 \in DOMAIN rows' /\ rows'[nextId' - 1].user = UserOf(c)
    PROVE  CInv(c)'
<1> USE DEF CInv
<1>1. q \in Seq(Ops) BY PlacesAreSteps
<1>2. LocalsClean' /\ Steps' BY <1>1, SessionMoves DEF IInv
<1>3. FathersClean' BY DEF IInv, FathersClean, Kept
<1>4. IInv' BY <1>2, <1>3 DEF IInv
<1>5. /\ todo'[c] = q /\ reg'[c] = r /\ frames'[c] = f
      /\ \A t \in Sessions \ {c} :
            todo'[t] = todo[t] /\ reg'[t] = reg[t] /\ frames'[t] = frames[t]
      /\ frames' = [t \in Sessions |-> frames'[t]]
  BY DEF IInv, LocalsClean, Steps, FramesClean
<1>6. FramesClean' BY <1>5, FramesKept DEF FramesClean
<1>7. Others(c)' BY <1>5 DEF Others
<1>8. CopyPlace(c)' BY <1>5 DEF CopyPlace
<1>9. QED BY <1>4, <1>6, <1>7, <1>8

\* The copier has answered.
LEMMA CopierEnds ==
    ASSUME NEW c \in Sessions, CInv(c), UNCHANGED <<rows, nextId, father>>,
           NEW i, NEW a, Answer(c, i, a), NEW f \in Seq(Frame(UserOf(c))),
           frames' = [frames EXCEPT ![c] = f]
    PROVE  CInv(c)'
<1> USE DEF CInv
<1>1. RowsClean' /\ Kept BY Unmoved DEF IInv, RowsClean, RowClean, OwnIds
<1>2. LocalsClean' /\ Steps' BY <1>1, AnswerMoves DEF IInv
<1>3. FathersClean' BY <1>1 DEF IInv, FathersClean, Kept
<1>4. IInv' BY <1>1, <1>2, <1>3 DEF IInv
<1>5. /\ todo'[c] = <<>> /\ reg'[c].cmd # "cp" /\ frames'[c] = f
      /\ \A t \in Sessions \ {c} :
            todo'[t] = todo[t] /\ reg'[t] = reg[t] /\ frames'[t] = frames[t]
      /\ frames' = [t \in Sessions |-> frames'[t]]
  BY DEF IInv, LocalsClean, Steps, FramesClean, Answer, NoReg
<1>6. FramesClean' BY <1>1, <1>5, FramesKept DEF FramesClean
<1>7. Others(c)'
  <2>1. <<>> \in Seq(Allowed(c, c)) BY EmptySeq
  <2>2. QED BY <1>5, <2>1 DEF Others
<1>8. CopyPlace(c)' BY <1>5 DEF CopyPlace
<1>9. QED BY <1>4, <1>6, <1>7, <1>8

\* The server has ended: nobody holds an id.
LEMMA CrashClean ==
    ASSUME NEW c \in Sessions, CInv(c), Crash
    PROVE  CInv(c)'
<1> USE DEF CInv
<1>1. RowsClean' /\ Kept BY Unmoved DEF Crash, IInv, RowsClean, RowClean, OwnIds
<1>2. \A u : Clean(NoReg, u)' 
  <2>1. ASSUME NEW u
        PROVE  Clean(NoReg, u)'
    <3>1. Clean(NoReg, u) BY NoRegClean DEF IInv
    <3>2. ASSUME NEW r, r = NoReg, Clean(r, u)
          PROVE  Clean(r, u)'
      BY <1>1, <3>2, CleanKept
    <3>3. QED BY <3>1, <3>2 DEF Clean, NoReg
  <2>2. QED BY <2>1
<1>3. FathersClean'
  <2>1. Null \notin Nat /\ Null \notin DOMAIN rows BY NamesAssumption DEF IInv, RowsClean
  <2>2. QED BY <2>1 DEF Crash, FathersClean, OwnIds
<1>4. LocalsClean' BY <1>2 DEF LocalsClean, Crash, Clean
<1>5. Steps' BY EmptySeq DEF Steps, Crash
<1>6. FramesClean' BY EmptySeq DEF FramesClean, Crash
<1>7. Others(c)' BY EmptySeq DEF Others, Crash, NoReg
<1>8. CopyPlace(c)' BY DEF CopyPlace, Crash, NoReg
<1>9. QED BY <1>1, <1>3, <1>4, <1>5, <1>6, <1>7, <1>8 DEF IInv

\* Who is at a step of cp.
LEMMA CopierAt ==
    ASSUME NEW c \in Sessions, CInv(c), NEW s \in Sessions,
           NEW op \in {"cpsource", "cptarget", "cpsame", "overwrite", "replace", "cpfather",
                       "dirrow", "filerow", "newest", "children", "child"}, At(s, op)
    PROVE  s = c /\ reg[c].cmd = "cp" /\ todo[c] \in Finding \cup Copying
<1> USE DEF CInv
<1>1. reg[s].cmd = "cp"
  <2>1. SUFFICES ASSUME reg[s].cmd # "cp" PROVE FALSE OBVIOUS
  <2>2. todo[s] \in Seq(Allowed(s, c)) /\ todo[s] # <<>> BY <2>1 DEF Others, At
  <2>3. op \in Allowed(s, c) BY <2>2, HeadTailProperties DEF At
  <2>4. QED BY <2>3, AllowedSteps
<1>2. QED BY <1>1 DEF Others, CopyPlace

LEMMA CopierHolds ==
    ASSUME NEW c \in Sessions, CInv(c)
    PROVE  /\ RowsClean /\ Clean(reg[c], UserOf(c)) /\ frames[c] \in Seq(Frame(UserOf(c)))
           /\ \A i : TypeOf(i) # "none" <=> i \in DOMAIN rows
BY DEF CInv, IInv, LocalsClean, FramesClean, TypeOf, RowsClean, RowClean

\* cp up to the place where it starts to copy.
LEMMA BeginCpStep ==
    ASSUME NEW c \in Sessions, Copier(c), CInv(c), NEW s \in Sessions, BeginCp(s)
    PROVE  CInv(c)'
<1> DEFINE u == UserOf(c)
<1>1. s = c BY DEF BeginCp, Copier
<1>2. PICK x \in Copies(c) :
         Begin(c, Walk([NoReg EXCEPT !.cmd = "cp", !.dst = FullPath(u, x.dst)],
                       FullPath(u, x.src)), <<"cpsource", "cptarget">>)
  BY <1>1 DEF BeginCp
<1> DEFINE r == Walk([NoReg EXCEPT !.cmd = "cp", !.dst = FullPath(u, x.dst)], FullPath(u, x.src))
<1>3. /\ UNCHANGED <<rows, nextId, father, frames>>
      /\ todo' = [todo EXCEPT ![c] = AtSource] /\ reg' = [reg EXCEPT ![c] = r]
  BY <1>1, <1>2 DEF BeginCp, Begin, AtSource
<1>4. Clean(r, u) /\ r.cmd = "cp"
  <2>1. Clean([NoReg EXCEPT !.cmd = "cp", !.dst = FullPath(u, x.dst)], u)
    BY CopierHolds, NoRegClean DEF Clean, Fields
  <2>2. r.cmd = "cp" BY DEF Walk, NoReg
  <2>3. QED BY <2>1, <2>2, CopierHolds, WalkClean
<1>5. RowsClean' /\ Kept BY <1>3, CopierHolds, Unmoved DEF RowsClean, RowClean, OwnIds
<1>6. AtSource \in Finding BY DEF Finding
<1> DEFINE f == frames[c]
<1>7. f \in Seq(Frame(u)) /\ frames' = [frames EXCEPT ![c] = f]
  BY <1>3, CopierHolds DEF CInv, FramesClean
<1> HIDE DEF r, f
<1>8. QED BY <1>3, <1>4, <1>5, <1>6, <1>7, CopierMoves, PlacesDiffer

\* The copier goes on without a change to the rows, as it was copying.
LEMMA CopierReads ==
    ASSUME NEW c \in Sessions, CInv(c), UNCHANGED <<rows, nextId, father>>,
           NEW q \in (Finding \cup Copying) \ {AtNewest, AtChildren}, NEW r,
           Clean(r, UserOf(c)), r.cmd = "cp", GoOn(c, q, r),
           NEW f \in Seq(Frame(UserOf(c))), q \in Copying => f # <<>>,
           frames' = [frames EXCEPT ![c] = f]
    PROVE  CInv(c)'
<1>1. RowsClean' /\ Kept BY CopierHolds, Unmoved DEF RowsClean, RowClean, OwnIds
<1>2. QED BY <1>1, CopierMoves DEF GoOn

LEMMA SameFrames ==
    ASSUME NEW c \in Sessions, CInv(c), UNCHANGED frames
    PROVE  frames' = [frames EXCEPT ![c] = frames[c]]
BY DEF CInv, FramesClean

LEMMA CpSourceStep ==
    ASSUME NEW c \in Sessions, CInv(c), CpSource(c)
    PROVE  CInv(c)'
<1>1. reg[c].cmd = "cp" /\ todo[c] = AtSource
  BY CopierAt, WhichPlace DEF CpSource, At
<1> DEFINE q == [reg[c] EXCEPT !.id = reg[c].cur]
           r == Walk(q, reg[c].dst)
<1>2. Clean(q, UserOf(c)) /\ r.cmd = "cp"
  BY <1>1, CopierHolds DEF Clean, Fields, Walk
<1>3. Clean(r, UserOf(c)) BY <1>2, CopierHolds, WalkClean
<1>4. GoOn(c, AtTarget, r) BY <1>1, FindingOps DEF CpSource, Then
<1>5. UNCHANGED <<rows, nextId, father, frames>> BY DEF CpSource, copying
<1>6. AtTarget \in Finding BY DEF Finding
<1> HIDE DEF r
<1>7. QED BY <1>2, <1>3, <1>4, <1>5, <1>6, CopierReads, CopierHolds, SameFrames, PlacesDiffer

LEMMA CpTargetStep ==
    ASSUME NEW c \in Sessions, CInv(c), CpTarget(c)
    PROVE  CInv(c)'
<1> DEFINE u == UserOf(c)
           into == [reg[c] EXCEPT !.dir = reg[c].cur]
           new == [reg[c] EXCEPT !.src = <<Last(reg[c].dst)>>]
           under == Walk(new, Front(reg[c].dst))
<1>1. reg[c].cmd = "cp" BY CopierAt DEF CpTarget
<1>2. CASE Crash BY <1>2, CrashClean
<1>3. CASE ~Crash
  <2>1. /\ UNCHANGED <<rows, nextId, father, frames>>
        /\ \/ Finish(c, "fail") \/ Finish(c, "ok")
           \/ GoOn(c, AtSame, into) \/ GoOn(c, AtFather, under)
    BY <1>3 DEF CpTarget, copying, AtSame, AtFather
  <2>2. Clean(into, u) /\ Clean(new, u) /\ into.cmd = "cp" /\ new.cmd = "cp"
    BY <1>1, CopierHolds DEF Clean, Fields
  <2>3. Clean(under, u) /\ under.cmd = "cp"
    <3>1. under.cmd = "cp" BY <1>1, CopierHolds DEF Walk, Clean, Fields
    <3>2. QED BY <2>2, <3>1, CopierHolds, WalkClean
  <2>4. AtSame \in Finding /\ AtFather \in Finding BY DEF Finding
  <2> HIDE DEF into, under
  <2>5. CASE Finish(c, "fail") \/ Finish(c, "ok")
    BY <2>1, <2>5, CopierEnds, CopierHolds, SameFrames DEF Finish
  <2>6. CASE GoOn(c, AtSame, into)
    BY <2>1, <2>2, <2>4, <2>6, CopierReads, CopierHolds, SameFrames, PlacesDiffer
  <2>7. CASE GoOn(c, AtFather, under)
    BY <2>1, <2>3, <2>4, <2>7, CopierReads, CopierHolds, SameFrames, PlacesDiffer
  <2>8. QED BY <2>1, <2>5, <2>6, <2>7
<1>4. QED BY <1>2, <1>3

\* The first call of digui: below an id of the copier's user.
LEMMA StartCopyStep ==
    ASSUME NEW c \in Sessions, CInv(c), reg[c].cmd = "cp", UNCHANGED <<rows, nextId, father>>,
           NEW n, NEW dest \in OwnIds(UserOf(c)), NEW path,
           NEW q \in Copying \ {AtNewest, AtChildren}, StartCopy(c, n, dest, path, q)
    PROVE  CInv(c)'
<1> DEFINE u == UserOf(c)
           new == [reg[c] EXCEPT !.src = <<n>>]
           r == Walk(new, path)
           f == <<[dest |-> dest, left |-> {}]>>
<1>1. Clean(new, u) /\ r.cmd = "cp" BY CopierHolds DEF Clean, Fields, Walk
<1>2. Clean(r, u) BY <1>1, CopierHolds, WalkClean
<1>3. f \in Seq(Frame(u)) /\ f # <<>>
  <2>1. [dest |-> dest, left |-> {}] \in Frame(u) BY DEF Frame
  <2>2. QED BY <2>1
<1>4. GoOn(c, q, r) /\ frames' = [frames EXCEPT ![c] = f] BY DEF StartCopy
<1> HIDE DEF r, f
<1>5. QED BY <1>1, <1>2, <1>3, <1>4, CopierReads

LEMMA CopyStepsPlace ==
    ASSUME NEW t
    PROVE  CopySteps(t) \in {AtDirRow, AtFileRow} /\ CopySteps(t) \in Copying \ {AtNewest, AtChildren}
<1>1. CopySteps(t) \in {AtDirRow, AtFileRow} BY DEF CopySteps, AtDirRow, AtFileRow
<1>2. QED BY <1>1, PlacesDiffer DEF Copying

LEMMA CpSameStep ==
    ASSUME NEW c \in Sessions, CInv(c), CpSame(c)
    PROVE  CInv(c)'
<1> DEFINE n == rows[reg[c].id].name
           t == TypeOf(reg[c].id)
           q == CopySteps(t)
           r == Walk(reg[c], Append(reg[c].dst, n))
<1>1. reg[c].cmd = "cp" BY CopierAt DEF CpSame
<1>2. CASE Crash BY <1>2, CrashClean
<1>3. CASE ~Crash
  <2>1. UNCHANGED <<rows, nextId, father>> BY <1>3 DEF CpSame
  <2>2. \/ StartCopy(c, n, reg[c].dir, <<>>, q)
        \/ StartCopy(c, n, reg[c].dir, Append(reg[c].dst, n), AtReplace)
        \/ GoOn(c, AtOverwrite, r) /\ UNCHANGED frames
    BY <1>3 DEF CpSame, AtReplace, AtOverwrite, copying
  <2>3. reg[c].dir \in OwnIds(UserOf(c)) BY CopierHolds DEF Clean
  <2>4. q \in Copying \ {AtNewest, AtChildren} BY CopyStepsPlace
  <2>5. AtReplace \in Copying \ {AtNewest, AtChildren} BY PlacesDiffer DEF Copying
  <2>6. Clean(r, UserOf(c)) /\ r.cmd = "cp" /\ AtOverwrite \in Finding
    <3>1. r.cmd = "cp" BY <1>1, CopierHolds DEF Walk, Clean, Fields
    <3>2. QED BY <3>1, CopierHolds, WalkClean DEF Finding
  <2> HIDE DEF q, r, n
  <2>7. CASE StartCopy(c, n, reg[c].dir, <<>>, q)
    BY <1>1, <2>1, <2>3, <2>4, <2>7, StartCopyStep
  <2>8. CASE StartCopy(c, n, reg[c].dir, Append(reg[c].dst, n), AtReplace)
    BY <1>1, <2>1, <2>3, <2>5, <2>8, StartCopyStep
  <2>9. CASE GoOn(c, AtOverwrite, r) /\ UNCHANGED frames
    BY <2>1, <2>6, <2>9, CopierReads, CopierHolds, SameFrames, PlacesDiffer
  <2>10. QED BY <2>2, <2>7, <2>8, <2>9
<1>4. QED BY <1>2, <1>3

LEMMA CpOverwriteStep ==
    ASSUME NEW c \in Sessions, CInv(c), CpOverwrite(c)
    PROVE  CInv(c)'
<1>1. CASE Crash BY <1>1, CrashClean
<1>2. CASE ~Crash
  <2>1. Finish(c, "ok") /\ UNCHANGED <<rows, nextId, father, frames>>
    BY <1>2 DEF CpOverwrite, copying
  <2>2. QED BY <2>1, CopierEnds, CopierHolds, SameFrames DEF Finish
<1>3. QED BY <1>1, <1>2

LEMMA CpFatherStep ==
    ASSUME NEW c \in Sessions, CInv(c), CpFather(c)
    PROVE  CInv(c)'
<1> DEFINE n == Last(reg[c].dst)
           q == CopySteps(TypeOf(reg[c].id))
<1>1. reg[c].cmd = "cp" BY CopierAt DEF CpFather
<1>2. UNCHANGED <<rows, nextId, father>> BY DEF CpFather
<1>3. \/ Finish(c, "fail") /\ UNCHANGED frames
      \/ StartCopy(c, n, reg[c].cur, <<>>, q)
  BY DEF CpFather, copying
<1>4. reg[c].cur \in OwnIds(UserOf(c)) BY CopierHolds DEF Clean
<1>5. q \in Copying \ {AtNewest, AtChildren} BY CopyStepsPlace
<1> HIDE DEF q, n
<1>6. CASE Finish(c, "fail") /\ UNCHANGED frames
  BY <1>2, <1>6, CopierEnds, CopierHolds, SameFrames DEF Finish
<1>7. CASE StartCopy(c, n, reg[c].cur, <<>>, q)
  BY <1>1, <1>2, <1>4, <1>5, <1>7, StartCopyStep
<1>8. QED BY <1>3, <1>6, <1>7

\* rmDirFunc inside cp, and after it.
LEMMA CpReplaceStep ==
    ASSUME NEW c \in Sessions, CInv(c), CpReplace(c) \/ CpReplaced(c)
    PROVE  CInv(c)'
<1> DEFINE u == UserOf(c)
           r == [reg[c] EXCEPT !.dir = reg[c].cur]
<1>1. UNCHANGED <<rows, nextId, father, frames>> BY DEF CpReplace, CpReplaced, copying
<1>2. reg[c].cmd = "cp" /\ todo[c] \in {AtReplace, AtRemove}
  <2>1. CASE CpReplace(c) BY <2>1, CopierAt, WhichPlace DEF CpReplace, At
  <2>2. CASE CpReplaced(c)
    <3>1. reg[c].cmd = "cp" /\ Head(todo[c]) = "remove" BY <2>2 DEF CpReplaced, Removed, At
    <3>2. todo[c] \in Finding \cup Copying BY <3>1 DEF CInv, CopyPlace
    <3>3. QED BY <3>1, <3>2, WhichPlace
  <2>3. QED BY <2>1, <2>2
<1>3. frames[c] # <<>> BY <1>2 DEF CInv, CopyPlace, Copying
<1>4. Clean(r, u) /\ r.cmd = "cp" BY <1>2, CopierHolds DEF Clean, Fields
<1>5. GoOn(c, AtDelete, r) \/ GoOn(c, AtDirRow, reg[c])
  <2>1. CopySteps("d") = AtDirRow BY DEF CopySteps, AtDirRow
  <2>2. QED BY <2>1 DEF CpReplace, CpReplaced, AtDelete
<1>6. AtDelete \in Copying \ {AtNewest, AtChildren} /\ AtDirRow \in Copying \ {AtNewest, AtChildren}
  BY PlacesDiffer DEF Copying
<1> HIDE DEF r
<1>7. CASE GoOn(c, AtDelete, r)
  BY <1>1, <1>3, <1>4, <1>6, <1>7, CopierReads, CopierHolds, SameFrames
<1>8. CASE GoOn(c, AtDirRow, reg[c])
  BY <1>1, <1>2, <1>3, <1>6, <1>8, CopierReads, CopierHolds, SameFrames
<1>9. QED BY <1>5, <1>7, <1>8

\* A step of FileTree inside cp that is not a component of a path is one of rmDirFunc.
LEMMA RemovalOp ==
    ASSUME NEW c \in Sessions, CInv(c), Step(c), ~GetNextFileId(c), reg[c].cmd = "cp"
    PROVE  /\ todo[c] \in {AtDelete, AtUnlink, AtList, AtRemove}
           /\ \/ Head(todo[c]) = "delete" /\ RmDelete(c)
              \/ Head(todo[c]) = "list" /\ RmList(c)
              \/ Head(todo[c]) = "remove" /\ RmType(c)
<1>1. todo[c] \in Finding \cup Copying /\ todo[c] # <<>> BY WhichPlace DEF CInv, CopyPlace
<1>2. Head(todo[c]) \in {"cpsource", "cptarget", "cpsame", "overwrite", "cpfather", "replace",
                         "delete", "list", "remove", "dirrow", "newest", "children", "filerow", "child"}
  BY <1>1, WhichPlace
<1>3. \/ RmDelete(c) \/ RmList(c) \/ RmType(c)
      \/ \E op \in {"names", "insert", "found", "source", "target", "samename", "move", "rename",
                    "isdir", "samepwd", "setpwd", "getpwd", "cache", "enter", "present",
                    "store"} : At(c, op)
  BY <1>1 DEF Step, Login, Leave, CmdAnalyse, Idle, CheckNames, InsertDir, RmFound,
     MvSource, MvTarget, MvSameName, MvMove, MvRename, CdIsDir,
     CdSamePwd, CdSetPwd, GetPwd, Cache, Enter, Present, Store
<1>4. \/ Head(todo[c]) = "delete" /\ RmDelete(c)
      \/ Head(todo[c]) = "list" /\ RmList(c)
      \/ Head(todo[c]) = "remove" /\ RmType(c)
  BY <1>2, <1>3 DEF At, RmDelete, RmList, RmType
<1>5. QED BY <1>1, <1>4, WhichPlace

\* A step of FileTree inside cp: a component of a path, or rmDirFunc.
LEMMA RemovalStep ==
    ASSUME NEW c \in Sessions, Copier(c), CInv(c), Step(c), ~Removed(c), reg[c].cmd = "cp",
           UNCHANGED copying
    PROVE  CInv(c)'
<1> DEFINE u == UserOf(c)  t == todo[c]
<1>1. t \in Finding \cup Copying BY DEF CInv, CopyPlace
<1>2. t # <<>> BY <1>1, WhichPlace
<1>3. frames[c] \in Seq(Frame(u)) /\ frames' = [frames EXCEPT ![c] = frames[c]]
  BY CopierHolds, SameFrames DEF copying
<1>4. CASE GetNextFileId(c)
  <2>1. PICK i \in NextFileId(u, reg[c].cur, Head(reg[c].path)) :
           GoOn(c, t, [reg[c] EXCEPT !.cur = i, !.path = Tail(@)])
    BY <1>4 DEF GetNextFileId
  <2> DEFINE r == [reg[c] EXCEPT !.cur = i, !.path = Tail(@)]
  <2>2. i \in OwnIds(u) BY CopierHolds, NextOwn DEF Clean
  <2>3. Clean(r, u) /\ r.cmd = "cp" /\ r.id = reg[c].id BY <2>2, CopierHolds DEF Clean, Fields
  <2>4. UNCHANGED <<rows, nextId, father>> BY <1>4 DEF GetNextFileId
  <2>5. RowsClean' /\ Kept BY <2>4, CopierHolds, Unmoved DEF RowsClean, RowClean, OwnIds
  <2>6. /\ t \in Copying => frames[c] # <<>>
        /\ t \in {AtNewest, AtChildren} => r.id \in DOMAIN rows'
        /\ t = AtNewest => nextId' - 1 \in DOMAIN rows' /\ rows'[nextId' - 1].user = UserOf(c)
    BY <2>3, <2>4 DEF CInv, CopyPlace
  <2>7. todo' = [todo EXCEPT ![c] = t] /\ reg' = [reg EXCEPT ![c] = r] BY <2>1 DEF GoOn
  <2> HIDE DEF r
  <2>8. QED BY <1>1, <1>3, <2>3, <2>4, <2>5, <2>6, <2>7, CopierMoves
<1>5. CASE ~GetNextFileId(c)
  <2>1. \/ Head(t) = "delete" /\ RmDelete(c)
        \/ Head(t) = "list" /\ RmList(c)
        \/ Head(t) = "remove" /\ RmType(c)
    BY <1>5, RemovalOp
  <2>2. t \in {AtDelete, AtUnlink, AtList, AtRemove} BY <1>5, RemovalOp
  <2>3. frames[c] # <<>> BY <1>1, <2>2 DEF CInv, CopyPlace, Copying
  <2>4. AtList \in Copying \ {AtNewest, AtChildren} /\ AtRemove \in Copying \ {AtNewest, AtChildren}
        /\ AtDelete \in Copying \ {AtNewest, AtChildren}
        /\ AtUnlink \in Copying \ {AtNewest, AtChildren}
    BY PlacesDiffer DEF Copying
  <2>5. CASE Head(t) = "delete"
    <3>1. RmDelete(c) BY <2>1, <2>5
    <3>2. RowsClean' /\ Kept
      <4>1. CASE rows' = rows /\ nextId' = nextId
        BY <4>1, CopierHolds, Unmoved DEF RowsClean, RowClean, OwnIds
      <4>2. CASE rows' = [i \in DOMAIN rows \ {reg[c].dir} |-> rows[i]] /\ nextId' = nextId
        BY <4>2, CopierHolds, DeleteKeeps
      <4>3. QED BY <3>1, <4>1, <4>2, DeleteRows
    <3>3. Tail(t) \in {AtList, AtRemove} BY <2>2, <2>5, RemovingOps
    <3>4. /\ todo' = [todo EXCEPT ![c] = Tail(t)] /\ reg' = [reg EXCEPT ![c] = reg[c]]
          /\ UNCHANGED father
      BY <3>1 DEF RmDelete, Then, GoOn
    <3> DEFINE q == Tail(t)
    <3>5. q \in Copying \ {AtNewest, AtChildren} BY <2>4, <3>3
    <3> HIDE DEF q
    <3>6. QED BY <1>3, <2>3, <3>2, <3>4, <3>5, CopierMoves, CopierHolds DEF q
  <2>6. CASE Head(t) = "list"
    <3>1. RmList(c) BY <2>1, <2>6
    <3>2. t = AtList BY <1>1, <2>6, WhichPlace
    <3>3. UNCHANGED <<rows, nextId, father>> BY <3>1 DEF RmList
    <3> DEFINE children == {i \in DOMAIN rows : rows[i].father = reg[c].dir /\ rows[i].user = u}
               first == IF children = {} THEN <<>> ELSE <<children>>
               r == [reg[c] EXCEPT !.work = first \o @]
    <3>4. GoOn(c, AtRemove, r) BY <3>1, <3>2, RemovingOps DEF RmList, Then
    <3>5. first \o reg[c].work \in Seq(SUBSET OwnIds(u))
      <4>1. children \in SUBSET OwnIds(u) BY CopierHolds DEF RowsClean, OwnIds
      <4>2. <<children>> \in Seq(SUBSET OwnIds(u)) /\ <<>> \in Seq(SUBSET OwnIds(u))
        BY <4>1, EmptySeq
      <4>3. first \in Seq(SUBSET OwnIds(u)) BY <4>2
      <4>4. QED BY <4>3, CopierHolds, ConcatProperties DEF Clean
    <3>6. Clean(r, u) /\ r.cmd = "cp" BY <3>5, CopierHolds DEF Clean, Fields
    <3> HIDE DEF r
    <3>7. QED BY <1>3, <2>3, <2>4, <3>3, <3>4, <3>6, CopierReads
  <2>7. CASE Head(t) = "remove"
    <3>1. RmType(c) /\ reg[c].work # <<>> BY <2>1, <2>7 DEF Removed, RmType
    <3> DEFINE own == SUBSET OwnIds(u)
               work == reg[c].work
               rest(i) == IF Head(work) = {i} THEN Tail(work)
                          ELSE <<Head(work) \ {i}>> \o Tail(work)
               steps(i) == CASE TypeOf(i) = "d"    -> <<"delete", "list", "remove">>
                             [] TypeOf(i) = "f"    -> <<"delete", "remove">>
                             [] TypeOf(i) = "none" -> <<"remove">>
               r(i) == [reg[c] EXCEPT !.dir = i, !.work = rest(i)]
    <3>2. PICK i \in Head(work) : GoOn(c, steps(i), r(i)) BY <3>1 DEF RmType
    <3>3. UNCHANGED <<rows, nextId, father>> BY <3>1 DEF RmType
    <3>4. TypeOf(i) \in {"d", "f", "none"} BY CopierHolds DEF TypeOf, RowsClean, RowClean
    <3>5. steps(i) \in {AtDelete, AtUnlink, AtRemove} BY <3>4 DEF AtDelete, AtUnlink, AtRemove
    <3>6. Head(work) \in own /\ Tail(work) \in Seq(own)
      BY <3>1, CopierHolds, HeadTailProperties DEF Clean
    <3>7. <<Head(work) \ {i}>> \in Seq(own) BY <3>6
    <3>8. rest(i) \in Seq(own) /\ i \in OwnIds(u) BY <3>6, <3>7, ConcatProperties
    <3>9. Clean(r(i), u) /\ r(i).cmd = "cp" BY <3>8, CopierHolds DEF Clean, Fields
    <3> DEFINE q == steps(i)  d == r(i)
    <3>10. q \in Copying \ {AtNewest, AtChildren} BY <2>4, <3>5
    <3>11. GoOn(c, q, d) /\ Clean(d, u) /\ d.cmd = "cp" BY <3>2, <3>9
    <3> HIDE DEF q, d
    <3>12. QED BY <1>3, <2>3, <3>3, <3>10, <3>11, CopierReads
  <2>8. QED BY <2>1, <2>5, <2>6, <2>7
<1>6. QED BY <1>4, <1>5

-----------------------------------------------------------------------------
(***************************************************************************)
(* The steps of digui.                                                     *)
(***************************************************************************)
\* A call of digui that has been entered: the innermost one is first.
LEMMA FrameHead ==
    ASSUME NEW u, NEW f \in Seq(Frame(u)), f # <<>>
    PROVE  /\ Head(f) \in Frame(u) /\ Tail(f) \in Seq(Frame(u))
           /\ \A left \in SUBSET OwnIds(u) :
                 [f EXCEPT ![1].left = left] \in Seq(Frame(u)) /\ [f EXCEPT ![1].left = left] # <<>>
<1>1. Head(f) \in Frame(u) /\ Tail(f) \in Seq(Frame(u)) BY HeadTailProperties
<1>2. ASSUME NEW left \in SUBSET OwnIds(u)
      PROVE  [f EXCEPT ![1].left = left] \in Seq(Frame(u)) /\ [f EXCEPT ![1].left = left] # <<>>
  <2> DEFINE e == [f[1] EXCEPT !.left = left]
  <2>1. f[1] \in Frame(u) /\ 1 \in 1..Len(f) BY LenProperties, EmptySeq, ElementOfSeq
  <2>2. e \in Frame(u) BY <2>1 DEF Frame
  <2>3. [f EXCEPT ![1] = e] \in Seq(Frame(u)) /\ Len([f EXCEPT ![1] = e]) = Len(f)
    BY <2>1, <2>2, ExceptSeq
  <2>4. QED BY <2>1, <2>3
<1>3. QED BY <1>1, <1>2

LEMMA DirRowStep ==
    ASSUME NEW c \in Sessions, CInv(c), DirRow(c)
    PROVE  CInv(c)'
<1> DEFINE u == UserOf(c)
<1>1. reg[c].cmd = "cp" /\ todo[c] = AtDirRow BY CopierAt, WhichPlace DEF DirRow, At
<1>2. frames[c] # <<>> BY <1>1 DEF CInv, CopyPlace, Copying
<1>3. CASE Crash BY <1>3, CrashClean
<1>4. CASE ~Crash
  <2>1. /\ TypeOf(reg[c].id) # "none" /\ Insert(Dest(c), reg[c].src[1], "d", u)
        /\ Then(c, reg[c]) /\ UNCHANGED <<father, frames>>
    BY <1>4 DEF DirRow, copying
  <2>2. Dest(c) \in OwnIds(u) BY <1>2, CopierHolds, FrameHead DEF Dest, Frame
  <2>3. RowsClean' /\ Kept BY <2>1, <2>2, CopierHolds, InsertKeeps
  <2>4. /\ reg[c].id \in DOMAIN rows' /\ nextId' - 1 \in DOMAIN rows'
        /\ rows'[nextId' - 1].user = u
    <3>1. reg[c].id \in DOMAIN rows BY <2>1, CopierHolds
    <3>2. nextId \in Nat /\ nextId' = nextId + 1 BY <2>1, CopierHolds DEF Insert, RowsClean
    <3>3. DOMAIN rows' = DOMAIN rows \cup {nextId} /\ rows'[nextId].user = u
      BY <2>1 DEF Insert
    <3>4. nextId' - 1 = nextId BY <3>2
    <3>5. QED BY <3>1, <3>3, <3>4
  <2>5. todo' = [todo EXCEPT ![c] = AtNewest] /\ reg' = [reg EXCEPT ![c] = reg[c]]
    BY <1>1, <2>1, DiguiOps DEF Then, GoOn
  <2>6. AtNewest \in Copying BY DEF Copying
  <2>7. frames' = [frames EXCEPT ![c] = frames[c]] BY <2>1, SameFrames
  <2>8. QED BY <1>1, <1>2, <2>1, <2>3, <2>4, <2>5, <2>6, <2>7, CopierMoves, CopierHolds
<1>5. QED BY <1>3, <1>4

LEMMA FileRowStep ==
    ASSUME NEW c \in Sessions, CInv(c), FileRow(c)
    PROVE  CInv(c)'
<1> DEFINE u == UserOf(c)
<1>1. reg[c].cmd = "cp" /\ todo[c] = AtFileRow BY CopierAt, WhichPlace DEF FileRow, At
<1>2. frames[c] # <<>> BY <1>1 DEF CInv, CopyPlace, Copying
<1>3. CASE Crash BY <1>3, CrashClean
<1>4. CASE ~Crash
  <2>1. /\ Insert(Dest(c), reg[c].src[1], "f", u)
        /\ GoOn(c, AtChild, reg[c]) /\ UNCHANGED <<father, frames>>
    BY <1>4 DEF FileRow, copying, AtChild
  <2>2. Dest(c) \in OwnIds(u) BY <1>2, CopierHolds, FrameHead DEF Dest, Frame
  <2>3. RowsClean' /\ Kept BY <2>1, <2>2, CopierHolds, InsertKeeps
  <2>4. AtChild \in Copying \ {AtNewest, AtChildren} BY PlacesDiffer DEF Copying
  <2>5. frames' = [frames EXCEPT ![c] = frames[c]] BY <2>1, SameFrames
  <2>6. QED BY <1>1, <1>2, <2>1, <2>3, <2>4, <2>5, CopierMoves, CopierHolds DEF GoOn
<1>5. QED BY <1>3, <1>4

\* select max(id) answers a row of the copier's user.
LEMMA NewestIsOwn ==
    ASSUME NEW c \in Sessions, CInv(c), reg[c].cmd = "cp", todo[c] = AtNewest
    PROVE  /\ (CHOOSE i \in DOMAIN rows : \A k \in DOMAIN rows : k <= i) = nextId - 1
           /\ nextId - 1 \in OwnIds(UserOf(c))
<1>1. /\ nextId - 1 \in DOMAIN rows /\ rows[nextId - 1].user = UserOf(c)
      /\ nextId \in Nat \ {0} /\ DOMAIN rows \subseteq 1..(nextId - 1)
  BY DEF CInv, CopyPlace, IInv, RowsClean
<1>2. \A i \in DOMAIN rows : (\A k \in DOMAIN rows : k <= i) <=> i = nextId - 1
  BY <1>1
<1>3. nextId - 1 \in OwnIds(UserOf(c)) BY <1>1 DEF OwnIds
<1>4. QED BY <1>1, <1>2, <1>3

LEMMA NewestStep ==
    ASSUME NEW c \in Sessions, CInv(c), Newest(c)
    PROVE  CInv(c)'
<1> DEFINE u == UserOf(c)
           f == <<[dest |-> nextId - 1, left |-> {}]>> \o frames[c]
<1>1. reg[c].cmd = "cp" /\ todo[c] = AtNewest BY CopierAt, WhichPlace DEF Newest, At
<1>2. frames' = [frames EXCEPT ![c] = f] BY <1>1, NewestIsOwn DEF Newest
<1>3. f \in Seq(Frame(u)) /\ f # <<>>
  <2>1. [dest |-> nextId - 1, left |-> {}] \in Frame(u) BY <1>1, NewestIsOwn DEF Frame
  <2>2. <<[dest |-> nextId - 1, left |-> {}]>> \in Seq(Frame(u)) BY <2>1
  <2>3. f \in Seq(Frame(u)) /\ Len(f) = 1 + Len(frames[c])
    BY <2>2, CopierHolds, ConcatProperties
  <2>4. Len(frames[c]) \in Nat BY CopierHolds, LenProperties
  <2> HIDE DEF f
  <2>5. QED BY <2>3, <2>4, EmptySeq
<1>4. /\ UNCHANGED <<rows, nextId, father>> /\ reg[c].id \in DOMAIN rows
      /\ todo' = [todo EXCEPT ![c] = AtChildren] /\ reg' = [reg EXCEPT ![c] = reg[c]]
  BY <1>1, DiguiOps DEF Newest, Then, GoOn, CInv, CopyPlace
<1>5. RowsClean' /\ Kept BY <1>4, CopierHolds, Unmoved DEF RowsClean, RowClean, OwnIds
<1>6. AtChildren \in Copying /\ AtChildren # AtNewest BY PlacesDiffer DEF Copying
<1> HIDE DEF f
<1>7. QED BY <1>1, <1>2, <1>3, <1>4, <1>5, <1>6, CopierMoves, CopierHolds

\* While the source is in the table, what is below it belongs to its user.
LEMMA ChildrenStep ==
    ASSUME NEW c \in Sessions, CInv(c), Children(c)
    PROVE  CInv(c)'
<1> DEFINE u == UserOf(c)
           left == {i \in DOMAIN rows : rows[i].father = reg[c].id}
           f == [frames[c] EXCEPT ![1].left = left]
<1>1. reg[c].cmd = "cp" /\ todo[c] = AtChildren BY CopierAt, WhichPlace DEF Children, At
<1>2. frames[c] # <<>> /\ reg[c].id \in DOMAIN rows BY <1>1 DEF CInv, CopyPlace, Copying
<1>3. frames' = [frames EXCEPT ![c] = f] BY DEF Children
<1>4. left \in SUBSET OwnIds(u)
  <2>1. rows[reg[c].id].user = u BY <1>2, CopierHolds DEF Clean, OwnIds
  <2>2. ASSUME NEW i \in DOMAIN rows, rows[i].father = reg[c].id
        PROVE  rows[i].user = u
    BY <1>2, <2>1, <2>2, CopierHolds DEF RowsClean, RowClean, OwnIds
  <2>3. QED BY <2>2, CopierHolds DEF RowsClean, OwnIds
<1>5. f \in Seq(Frame(u)) /\ f # <<>> BY <1>2, <1>4, CopierHolds, FrameHead
<1>6. UNCHANGED <<rows, nextId, father>> /\ GoOn(c, AtChild, reg[c]) BY DEF Children, AtChild
<1>7. AtChild \in Copying \ {AtNewest, AtChildren} BY PlacesDiffer DEF Copying
<1> HIDE DEF f
<1>8. QED BY <1>1, <1>3, <1>5, <1>6, <1>7, CopierReads, CopierHolds

LEMMA ChildStep ==
    ASSUME NEW c \in Sessions, CInv(c), Child(c)
    PROVE  CInv(c)'
<1> DEFINE u == UserOf(c)
           left == Head(frames[c]).left
<1>1. reg[c].cmd = "cp" /\ todo[c] = AtChild
  <2>1. At(c, "child") BY Zenon DEF Child
  <2>2. QED BY <2>1, CopierAt, WhichPlace DEF At
<1>2. frames[c] # <<>> BY <1>1 DEF CInv, CopyPlace, Copying
<1>3. /\ left \in SUBSET OwnIds(u) /\ Tail(frames[c]) \in Seq(Frame(u))
      /\ <<>> \in Seq(Frame(u)) /\ left = frames[c][1].left
  <2>1. Head(frames[c]) \in Frame(u) /\ Tail(frames[c]) \in Seq(Frame(u))
    BY <1>2, CopierHolds, FrameHead
  <2>2. Head(frames[c]) = frames[c][1] OBVIOUS
  <2>3. QED BY <2>1, <2>2, EmptySeq DEF Frame
<1>4. AtChild \in Copying \ {AtNewest, AtChildren} BY PlacesDiffer DEF Copying
<1>5. CASE Crash BY <1>5, CrashClean
<1>6. CASE ~Crash /\ left = {} /\ Tail(frames[c]) = <<>>
  <2>1. /\ UNCHANGED <<rows, nextId, father>> /\ Answer(c, made[c].id, "ok")
        /\ frames' = [frames EXCEPT ![c] = <<>>]
    BY <1>6 DEF Child
  <2>2. QED BY <1>3, <2>1, CopierEnds
<1>7. CASE ~Crash /\ left = {} /\ Tail(frames[c]) # <<>>
  <2>1. /\ UNCHANGED <<rows, nextId, father>> /\ GoOn(c, AtChild, reg[c])
        /\ frames' = [frames EXCEPT ![c] = Tail(frames[c])]
    BY <1>1, <1>7 DEF Child
  <2>2. QED BY <1>1, <1>3, <1>4, <1>7, <2>1, CopierReads, CopierHolds
<1>8. CASE ~Crash /\ left # {}
  <2>1. PICK i \in left :
           /\ GoOn(c, CopySteps(TypeOf(i)), [reg[c] EXCEPT !.id = i, !.src = <<rows[i].name>>])
           /\ frames' = [frames EXCEPT ![c][1].left = @ \ {i}]
           /\ UNCHANGED <<rows, nextId, father>>
    BY <1>8 DEF Child
  <2> DEFINE r == [reg[c] EXCEPT !.id = i, !.src = <<rows[i].name>>]
             q == CopySteps(TypeOf(i))
             f == [frames[c] EXCEPT ![1].left = left \ {i}]
  <2>2. frames' = [frames EXCEPT ![c] = f] BY <1>3, <2>1
  <2>3. f \in Seq(Frame(u)) /\ f # <<>> BY ZenonT(60), <1>2, <1>3, CopierHolds, FrameHead
  <2>4. Clean(r, u) /\ r.cmd = "cp" BY <1>1, <1>3, CopierHolds DEF Clean, Fields
  <2>5. q \in Copying \ {AtNewest, AtChildren} /\ GoOn(c, q, r) BY <2>1, CopyStepsPlace
  <2> HIDE DEF r, q, f
  <2>6. QED BY <2>1, <2>2, <2>3, <2>4, <2>5, CopierReads
<1>9. QED BY <1>5, <1>6, <1>7, <1>8

-----------------------------------------------------------------------------
(***************************************************************************)
(* The theorems.                                                           *)
(***************************************************************************)
LEMMA CopyInitially ==
    ASSUME NEW c \in Sessions, CopyInit
    PROVE  CInv(c)
<1>1. IInv BY Initially DEF CopyInit
<1>2. FramesClean BY EmptySeq DEF CopyInit, FramesClean
<1>3. Others(c) BY EmptySeq DEF CopyInit, Init, Others, NoReg
<1>4. CopyPlace(c) BY DEF CopyInit, Init, CopyPlace, NoReg
<1>5. QED BY <1>1, <1>2, <1>3, <1>4 DEF CInv

\* Every step of cp is one of the copier.
LEMMA CopyStepKeeps ==
    ASSUME NEW c \in Sessions, Copier(c), CInv(c), NEW s \in Sessions, CopyStep(s)
    PROVE  s = c /\ CInv(c)'
<1>1. s = c
  <2>1. CASE BeginCp(s) BY <2>1 DEF BeginCp, Copier
  <2>2. CASE CpReplaced(s) BY <2>2 DEF CpReplaced, Removed, CInv, Others
  <2>3. CASE ~BeginCp(s) /\ ~CpReplaced(s)
    BY <2>3, CopierAt DEF CopyStep, CpSource, CpTarget, CpSame, CpOverwrite, CpReplace, CpFather,
                          DirRow, FileRow, Newest, Children, Child
  <2>4. QED BY <2>1, <2>2, <2>3
<1>2. QED
  BY <1>1, BeginCpStep, CpSourceStep, CpTargetStep, CpSameStep, CpOverwriteStep, CpReplaceStep,
     CpFatherStep, DirRowStep, FileRowStep, NewestStep, ChildrenStep, ChildStep DEF CopyStep

LEMMA CopyInductive ==
    ASSUME NEW c \in Sessions, Copier(c), CInv(c), [CopyNext]_copyVars
    PROVE  CInv(c)'
<1>1. CASE UNCHANGED copyVars
  BY ZenonT(60), <1>1 DEF copyVars, vars, session, copying, CInv, IInv, RowsClean, RowClean, FathersClean,
              LocalsClean, Steps, Clean, OwnIds, FramesClean, Frame, Others, CopyPlace
<1>2. ASSUME NEW s \in Sessions, CopyStep(s)
      PROVE  CInv(c)'
  BY <1>2, CopyStepKeeps
<1>3. ASSUME NEW s \in Sessions, ~Removed(s), Step(s), UNCHANGED copying
      PROVE  CInv(c)'
  <2>1. CASE reg[s].cmd = "cp"
    <3>1. s = c BY <2>1 DEF CInv, Others
    <3>2. QED BY <1>3, <2>1, <3>1, RemovalStep
  <2>2. CASE reg[s].cmd # "cp" BY <1>3, <2>2, PlainStep DEF copying
  <2>3. QED BY <2>1, <2>2
<1>4. QED BY <1>1, <1>2, <1>3 DEF CopyNext

LEMMA CopierKept ==
    ASSUME NEW c \in Sessions, Copier(c)
    PROVE  CopySpec => []CInv(c)
<1>1. CopyInit => CInv(c) BY CopyInitially
<1>2. CInv(c) /\ [CopyNext]_copyVars => CInv(c)' BY CopyInductive
<1>3. QED BY <1>1, <1>2, PTL DEF CopySpec

\* digui takes the largest id of the table for that of the directory it has just made, and the
\* ids it goes on with are not checked against the user again: with one copier every entry,
\* copied ones included, still hangs below an entry of its own user.
THEOREM CopiesStayInTree ==
    ASSUME SoleCopier
    PROVE  CopySpec => []FathersOwn
<1>1. PICK c \in Sessions : Copier(c) BY DEF SoleCopier
<1>2. CInv(c) => FathersOwn BY DEF CInv, IInv, RowsClean, RowClean, OwnIds, FathersOwn
<1>3. CopySpec => []CInv(c) BY <1>1, CopierKept
<1>4. QED BY <1>2, <1>3, PTL

\* cp takes its step before the rows of a user change, as the other commands do.
LEMMA CopyIsolated ==
    ASSUME NEW c \in Sessions, Copier(c), CInv(c), NEW s \in Sessions, CopyStep(s),
           NEW u \in Users, RowsOf(u)' # RowsOf(u)
    PROVE  SessionOf(u)' # SessionOf(u)
<1>1. s = c BY CopyStepKeeps
<1>2. DirRow(c) \/ FileRow(c)
  <2>1. SUFFICES ASSUME ~DirRow(c), ~FileRow(c) PROVE FALSE OBVIOUS
  <2>2. rows' = rows
    BY <1>1, <2>1 DEF CopyStep, BeginCp, CpSource, CpTarget, CpSame, CpOverwrite, CpReplace,
                      CpReplaced, CpFather, Newest, Children, Child, Crash
  <2>3. QED BY <2>2 DEF RowsOf
<1>3. todo[c] \in {AtDirRow, AtFileRow}
  BY <1>2, CopierAt, WhichPlace DEF DirRow, FileRow, At
<1>4. ~Crash
  <2>1. SUFFICES ASSUME Crash PROVE FALSE OBVIOUS
  <2>2. QED BY <2>1 DEF Crash, RowsOf
<1>5. todo'[c] \in {AtNewest, AtChild}
  <2>1. DOMAIN todo = Sessions BY DEF CInv, IInv, Steps
  <2>2. CASE DirRow(c)
    <3>1. todo[c] = AtDirRow BY <2>2, CopierAt, WhichPlace DEF DirRow, At
    <3>2. todo' = [todo EXCEPT ![c] = Tail(todo[c])] BY <1>4, <2>2 DEF DirRow, Then, GoOn
    <3>3. QED BY <2>1, <3>1, <3>2, DiguiOps
  <2>3. CASE FileRow(c)
    <3>1. todo' = [todo EXCEPT ![c] = AtChild] BY <1>4, <2>3 DEF FileRow, GoOn, AtChild
    <3>2. QED BY <2>1, <3>1
  <2>4. QED BY <1>2, <2>2, <2>3
<1>6. todo'[c] # todo[c]
  <2>1. Head(AtNewest) # Head(AtDirRow) /\ Head(AtNewest) # Head(AtFileRow)
        /\ Head(AtChild) # Head(AtDirRow) /\ Head(AtChild) # Head(AtFileRow)
    BY DiguiOps
  <2>2. QED BY <1>3, <1>5, <2>1
<1>7. u = UserOf(c)
  <2>1. SUFFICES ASSUME u # UserOf(c) PROVE FALSE OBVIOUS
  <2>2. \E f, n, t : Insert(f, n, t, UserOf(c)) BY <1>2, <1>4 DEF DirRow, FileRow
  <2>3. RowsClean BY CopierHolds
  <2>4. /\ DOMAIN rows' = DOMAIN rows \cup {nextId} /\ nextId \notin DOMAIN rows
        /\ rows'[nextId].user = UserOf(c)
        /\ \A i \in DOMAIN rows : rows'[i] = rows[i]
    BY <2>2, <2>3 DEF Insert, RowsClean
  <2>5. QED BY <2>1, <2>4 DEF RowsOf
<1>8. SessionOf(u)'[c] # SessionOf(u)[c] BY <1>6, <1>7 DEF SessionOf
<1>9. QED BY <1>8

\* Neither cp nor the commands around it change a row of another user, wherever their
\* paths lead and however they interleave, while one session copies.
THEOREM CopiesIsolated ==
    ASSUME SoleCopier
    PROVE  CopySpec => Isolation
<1>1. PICK c \in Sessions : Copier(c) BY DEF SoleCopier
<1>2. CInv(c) /\ [CopyNext]_copyVars =>
         [\A u \in Users : RowsOf(u)' # RowsOf(u) => SessionOf(u)' # SessionOf(u)]_vars
  <2>1. SUFFICES ASSUME CInv(c), [CopyNext]_copyVars, NEW u \in Users, RowsOf(u)' # RowsOf(u)
                 PROVE  SessionOf(u)' # SessionOf(u) \/ UNCHANGED vars
    OBVIOUS
  <2>2. CASE UNCHANGED copyVars BY <2>2 DEF copyVars
  <2>3. CASE CopyNext
    <3>1. PICK s \in Sessions : Step(s) \/ CopyStep(s) BY <2>3 DEF CopyNext
    <3>2. QED BY <1>1, <2>1, <3>1, StepIsolated, CopyIsolated DEF CInv
  <2>4. QED BY <2>1, <2>2, <2>3
<1>3. CopySpec => []CInv(c) BY <1>1, CopierKept
<1>4. QED BY <1>2, <1>3, PTL DEF CopySpec, Isolation

-----------------------------------------------------------------------------
(***************************************************************************)
(* Types.                                                                  *)
(***************************************************************************)
\* What cp is asked to make has a name, too.
CopiesNamed == \A s \in Sessions : \A x \in Copies(s) : Last(x.dst.parts) \in Names

Call == [dest : Ids, left : SUBSET Ids]

\* The copier's names: where its path ends, and from the first call of digui on, what
\* it makes next.
NamesFor(t, r) ==
    r.cmd = "cp" => /\ r.dst # <<>> /\ Last(r.dst) \in Names
                    /\ t \in Copying => r.src[1] \in Names

MadeTyped(c) == c \in DOMAIN made /\ "id" \in DOMAIN made[c] /\ made[c].id \in Ids

CopyTyped(c) ==
    /\ frames[c] \in Seq(Call) /\ MadeTyped(c)
    /\ NamesFor(todo[c], reg[c])

LEMMA CallsKept ==
    ASSUME Ids \subseteq Ids'
    PROVE  Seq(Call) \subseteq Seq(Call)'
<1>1. Call \subseteq Call' BY DEF Call
<1>2. QED BY <1>1, SeqMonotonic

LEMMA PlacesLeft ==
    ASSUME NEW r, NEW f
    PROVE  Finding \cup Copying \subseteq Seq(Left(r, f))
<1> DEFINE L == Left(r, f)
<1>1. {"cpsource", "cptarget", "cpsame", "overwrite", "cpfather", "replace", "delete", "list",
       "remove", "dirrow", "newest", "children", "filerow", "child"} \subseteq L
  BY DEF Left, Ops
<1> HIDE DEF L
<1>2. /\ AtSource \in Seq(L) /\ AtTarget \in Seq(L) /\ AtSame \in Seq(L)
      /\ AtOverwrite \in Seq(L) /\ AtFather \in Seq(L)
  BY <1>1 DEF AtSource, AtTarget, AtSame, AtOverwrite, AtFather
<1>3. AtReplace \in Seq(L) /\ AtDelete \in Seq(L) /\ AtUnlink \in Seq(L)
  BY <1>1 DEF AtReplace, AtDelete, AtUnlink
<1>4. AtList \in Seq(L) /\ AtRemove \in Seq(L) /\ AtDirRow \in Seq(L)
  BY <1>1 DEF AtList, AtRemove, AtDirRow
<1>5. AtNewest \in Seq(L) /\ AtChildren \in Seq(L) /\ AtFileRow \in Seq(L) /\ AtChild \in Seq(L)
  BY <1>1 DEF AtNewest, AtChildren, AtFileRow, AtChild
<1>6. Finding \cup Copying \subseteq Seq(L) BY <1>2, <1>3, <1>4, <1>5 DEF Finding, Copying
<1>7. QED BY <1>6 DEF L

LEMMA CopierTyped ==
    ASSUME NEW c \in Sessions, CInv(c), TInv, Ids \subseteq Ids', RowsTyped',
           UNCHANGED <<pwd, father, lost>>,
           NEW q \in Finding \cup Copying, NEW r \in Locals, NEW a, a \in Replies',
           todo' = [todo EXCEPT ![c] = q], reg' = [reg EXCEPT ![c] = r],
           reply' = [reply EXCEPT ![c] = a], NamesFor(q, r),
           NEW f, f \in Seq(Call)', frames' = [frames EXCEPT ![c] = f], MadeTyped(c)'
    PROVE  TInv' /\ CopyTyped(c)'
<1>1. SessionsTyped'
  <2>1. q \in Seq(Left(r, father'[c])) BY PlacesLeft
  <2>2. SessionsTyped BY DEF TInv
  <2>3. QED BY <2>1, <2>2, SessionTyped
<1>2. SharedTyped' BY DEF TInv, SharedTyped
<1>3. frames'[c] = f /\ todo'[c] = q /\ reg'[c] = r
  BY DEF CInv, FramesClean, TInv, SessionsTyped
<1>4. LostTyped' BY DEF TInv, LostTyped
<1>5. QED BY <1>1, <1>2, <1>3, <1>4 DEF TInv, CopyTyped, NamesFor

\* The rows are not written, and made stays or is new.
LEMMA CopierReadsTyped ==
    ASSUME NEW c \in Sessions, CInv(c), TInv, UNCHANGED <<rows, nextId, pwd, father, lost>>,
           NEW q \in Finding \cup Copying, NEW r \in Locals, GoOn(c, q, r), NamesFor(q, r),
           NEW f \in Seq(Call), frames' = [frames EXCEPT ![c] = f], MadeTyped(c)'
    PROVE  TInv' /\ CopyTyped(c)'
<1>1. Ids' = Ids /\ RowsTyped' BY DEF TInv, RowsTyped, Entries, Ids
<1>2. f \in Seq(Call)' BY <1>1, CallsKept
<1>3. reply[c] \in Replies' /\ reply' = [reply EXCEPT ![c] = reply[c]]
  BY <1>1, LocalsKept DEF TInv, SessionsTyped, GoOn
<1>4. QED BY <1>1, <1>2, <1>3, CopierTyped DEF GoOn

LEMMA CopierEndsTyped ==
    ASSUME NEW c \in Sessions, CInv(c), TInv, UNCHANGED <<rows, nextId, pwd, father, lost>>,
           NEW i \in Ids, NEW a \in {"ok", "existing", "fail"}, Answer(c, i, a),
           NEW f \in Seq(Call), frames' = [frames EXCEPT ![c] = f], MadeTyped(c)'
    PROVE  TInv' /\ CopyTyped(c)'
<1>1. Ids' = Ids /\ RowsTyped' BY DEF TInv, RowsTyped, Entries, Ids
<1>2. f \in Seq(Call)' BY <1>1, CallsKept
<1>3. SessionsTyped' BY <1>1, AnswerTyped DEF TInv
<1>4. SharedTyped' BY <1>1 DEF TInv, SharedTyped
<1>5. frames'[c] = f /\ reg'[c] = NoReg BY DEF CInv, FramesClean, TInv, SessionsTyped, Answer
<1>6. LostTyped' BY <1>1 DEF TInv, LostTyped
<1>7. QED BY <1>1, <1>2, <1>3, <1>4, <1>5, <1>6 DEF TInv, CopyTyped, NamesFor, NoReg

LEMMA CrashTyped ==
    ASSUME NEW c \in Sessions, TInv, Crash
    PROVE  TInv' /\ CopyTyped(c)'
<1>1. Ids' = Ids /\ RowsTyped' BY DEF Crash, TInv, RowsTyped, Entries, Ids
<1>2. SharedTyped' BY <1>1 DEF Crash, TInv, SharedTyped
<1>3. SessionsTyped'
  <2>1. NoReg \in Locals' /\ NoReply \in Replies' BY <1>1, NothingTyped, LocalsKept DEF TInv
  <2>2. \A s \in Sessions : todo'[s] \in Seq(Left(reg[s], father[s])') BY EmptySeq DEF Crash
  <2>3. QED BY <2>1, <2>2 DEF Crash, SessionsTyped
<1>4. CopyTyped(c)'
  <2>1. 0 \in Ids' BY <1>1, NothingTyped DEF TInv
  <2>2. <<>> \in Seq(Call') BY EmptySeq
  <2>3. QED BY <2>1, <2>2 DEF Crash, CopyTyped, MadeTyped, NamesFor, NoReg, NoCopy
<1>5. LostTyped' BY <1>1 DEF Crash, counters, TInv, LostTyped
<1>6. QED BY <1>1, <1>2, <1>3, <1>4, <1>5 DEF TInv

\* What a step of the copier has.
LEMMA CopierHasTypes ==
    ASSUME NEW c \in Sessions, TInv, CopyTyped(c)
    PROVE  /\ RowsTyped /\ reg[c] \in Locals /\ frames[c] \in Seq(Call) /\ MadeTyped(c)
           /\ reg[c].cur \in Ids /\ reg[c].id \in Ids /\ reg[c].dir \in Ids
           /\ reg[c].dst \in Seq(Components) /\ UserOf(c) \in Users
           /\ \A i \in Ids : TypeOf(i) # "none" =>
                 i \in DOMAIN rows /\ rows[i].name \in Names /\ TypeOf(i) \in {"d", "f"}
BY CommandsAssumption DEF TInv, CopyTyped, SessionsTyped, Locals, TypeOf, RowsTyped, Entries

LEMMA LastOfFull ==
    ASSUME SharedTyped, NEW u \in Users, NEW p \in Paths
    PROVE  FullPath(u, p) # <<>> /\ Last(FullPath(u, p)) = Last(p.parts)
<1>1. pwd[u] \in Seq(Components) /\ p.parts \in Seq(Components) /\ p.parts # <<>>
  <2>1. Names \subseteq Components BY DEF Components
  <2>2. pwd[u] \in Seq(Components) BY <2>1, SeqMonotonic DEF SharedTyped
  <2>3. QED BY <2>2 DEF Paths, Components
<1>2. ASSUME NEW a \in Seq(Components), NEW b \in Seq(Components), b # <<>>
      PROVE  a \o b # <<>> /\ Last(a \o b) = Last(b)
  <2>1. Len(a) \in Nat /\ Len(b) \in Nat /\ Len(b) # 0 BY <1>2, LenProperties, EmptySeq
  <2>2. /\ Len(a \o b) = Len(a) + Len(b) /\ a \o b \in Seq(Components)
        /\ (a \o b)[Len(a) + Len(b)] = b[Len(b)]
    BY <2>1
  <2>3. QED BY <2>1, <2>2, EmptySeq DEF Last
<1>3. QED BY <1>1, <1>2 DEF FullPath

-----------------------------------------------------------------------------
(***************************************************************************)
(* Types in the steps of cp.                                               *)
(***************************************************************************)
LEMMA BeginCpTyped ==
    ASSUME CopiesNamed, NEW c \in Sessions, CInv(c), TInv, CopyTyped(c), BeginCp(c)
    PROVE  TInv' /\ CopyTyped(c)'
<1> DEFINE u == UserOf(c)
<1>1. PICK x \in Copies(c) :
         Begin(c, Walk([NoReg EXCEPT !.cmd = "cp", !.dst = FullPath(u, x.dst)],
                       FullPath(u, x.src)), <<"cpsource", "cptarget">>)
  BY Zenon DEF BeginCp
<1> DEFINE r == Walk([NoReg EXCEPT !.cmd = "cp", !.dst = FullPath(u, x.dst)], FullPath(u, x.src))
           f == frames[c]
<1>2. /\ UNCHANGED <<rows, nextId, pwd, father, lost, frames>>
      /\ todo' = [todo EXCEPT ![c] = AtSource] /\ reg' = [reg EXCEPT ![c] = r]
      /\ reply' = [reply EXCEPT ![c] = NoReply] /\ made' = [made EXCEPT ![c] = NoCopy]
  BY <1>1 DEF BeginCp, Begin, AtSource, counters
<1>3. x.src \in Paths /\ x.dst \in Paths /\ u \in Users /\ Last(x.dst.parts) \in Names
  BY CopiesAssumption, CommandsAssumption DEF CopiesNamed
<1>4. /\ FullPath(u, x.src) \in Seq(Components) /\ FullPath(u, x.dst) \in Seq(Components)
      /\ FullPath(u, x.dst) # <<>> /\ Last(FullPath(u, x.dst)) \in Names
  BY <1>3, PathsTyped, LastOfFull DEF TInv
<1>5. NoReg \in Locals /\ 0 \in Ids BY NothingTyped DEF TInv
<1>6. r \in Locals /\ r.dst = FullPath(u, x.dst) BY <1>4, <1>5 DEF Walk, Locals, Cmds
<1>7. Ids' = Ids /\ RowsTyped' BY <1>2 DEF TInv, RowsTyped, Entries, Ids
<1>8. f \in Seq(Call)' /\ frames' = [frames EXCEPT ![c] = f]
  BY <1>2, <1>7, CallsKept DEF CopyTyped, CInv, FramesClean
<1>9. MadeTyped(c)' BY <1>2, <1>5, <1>7 DEF CopyTyped, MadeTyped, NoCopy
<1>10. AtSource \in Finding /\ AtSource \notin Copying BY PlacesDiffer DEF Finding
<1>11. NoReply \in Replies' BY <1>7, NothingTyped, LocalsKept DEF TInv
<1> HIDE DEF r, f
<1>12. NamesFor(AtSource, r) BY <1>4, <1>6, <1>10 DEF NamesFor
<1>13. QED BY <1>2, <1>6, <1>7, <1>8, <1>9, <1>10, <1>11, <1>12, CopierTyped

\* The copier goes on with the calls of digui as they are.
LEMMA CopierStaysTyped ==
    ASSUME NEW c \in Sessions, CInv(c), TInv, CopyTyped(c),
           UNCHANGED <<rows, nextId, pwd, father, lost, frames, made>>,
           NEW q \in Finding \cup Copying, NEW r \in Locals, GoOn(c, q, r), NamesFor(q, r)
    PROVE  TInv' /\ CopyTyped(c)'
<1>1. MadeTyped(c)' BY DEF CopyTyped, MadeTyped, Ids
<1>2. frames[c] \in Seq(Call) /\ frames' = [frames EXCEPT ![c] = frames[c]]
  BY SameFrames DEF CopyTyped
<1>3. QED BY <1>1, <1>2, CopierReadsTyped

LEMMA CopierStopsTyped ==
    ASSUME NEW c \in Sessions, CInv(c), TInv, CopyTyped(c),
           UNCHANGED <<rows, nextId, pwd, father, lost, frames, made>>,
           NEW a \in {"ok", "existing", "fail"}, Finish(c, a)
    PROVE  TInv' /\ CopyTyped(c)'
<1>1. MadeTyped(c)' BY DEF CopyTyped, MadeTyped, Ids
<1>2. frames[c] \in Seq(Call) /\ frames' = [frames EXCEPT ![c] = frames[c]]
  BY SameFrames DEF CopyTyped
<1>3. reg[c].id \in Ids BY CopierHasTypes
<1>4. QED BY <1>1, <1>2, <1>3, CopierEndsTyped DEF Finish

LEMMA CpSourceTyped ==
    ASSUME NEW c \in Sessions, CInv(c), TInv, CopyTyped(c), CpSource(c)
    PROVE  TInv' /\ CopyTyped(c)'
<1> DEFINE r == Walk([reg[c] EXCEPT !.id = reg[c].cur], reg[c].dst)
<1>1. reg[c].cmd = "cp" /\ todo[c] = AtSource
  BY CopierAt, WhichPlace DEF CpSource, At
<1>2. reg[c] \in Locals /\ 0 \in Ids BY CopierHasTypes, NothingTyped
<1>3. r \in Locals /\ r.dst = reg[c].dst BY <1>2 DEF Walk, Locals
<1>4. GoOn(c, AtTarget, r) BY <1>1, FindingOps DEF CpSource, Then
<1>5. UNCHANGED <<rows, nextId, pwd, father, lost, frames, made>> BY DEF CpSource, copying, counters
<1>6. AtTarget \in Finding /\ AtTarget \notin Copying BY PlacesDiffer DEF Finding
<1> HIDE DEF r
<1>7. NamesFor(AtTarget, r) BY <1>1, <1>3, <1>6 DEF NamesFor, CopyTyped
<1>8. QED BY <1>3, <1>4, <1>5, <1>6, <1>7, CopierStaysTyped

LEMMA CpTargetTyped ==
    ASSUME NEW c \in Sessions, CInv(c), TInv, CopyTyped(c), CpTarget(c)
    PROVE  TInv' /\ CopyTyped(c)'
<1> DEFINE into == [reg[c] EXCEPT !.dir = reg[c].cur]
           new == [reg[c] EXCEPT !.src = <<Last(reg[c].dst)>>]
           under == Walk(new, Front(reg[c].dst))
<1>1. reg[c].cmd = "cp" BY CopierAt DEF CpTarget
<1>2. CASE Crash BY <1>2, CrashTyped
<1>3. CASE ~Crash
  <2>1. /\ UNCHANGED <<rows, nextId, pwd, father, lost, frames, made>>
        /\ \/ Finish(c, "fail") \/ Finish(c, "ok")
           \/ GoOn(c, AtSame, into) \/ GoOn(c, AtFather, under)
    BY <1>3 DEF CpTarget, copying, counters, AtSame, AtFather
  <2>2. /\ reg[c] \in Locals /\ 0 \in Ids /\ reg[c].dst \in Seq(Components)
        /\ reg[c].dst # <<>> /\ Last(reg[c].dst) \in Names
    BY <1>1, CopierHasTypes, NothingTyped DEF CopyTyped, NamesFor
  <2>3. into \in Locals /\ into.dst = reg[c].dst BY <2>2 DEF Locals
  <2>4. under \in Locals /\ under.dst = reg[c].dst
    <3>1. Last(reg[c].dst) \in Components /\ Front(reg[c].dst) \in Seq(Components)
      BY <2>2, LastIn
    <3>2. <<Last(reg[c].dst)>> \in Seq(Components) BY <3>1
    <3>3. QED BY <2>2, <3>1, <3>2 DEF Walk, Locals
  <2>5. AtSame \in Finding /\ AtFather \in Finding /\ AtSame \notin Copying /\ AtFather \notin Copying
    BY PlacesDiffer DEF Finding
  <2> HIDE DEF into, under
  <2>6. NamesFor(AtSame, into) /\ NamesFor(AtFather, under)
    BY <2>2, <2>3, <2>4, <2>5 DEF NamesFor
  <2>7. CASE Finish(c, "fail") \/ Finish(c, "ok") BY <2>1, <2>7, CopierStopsTyped
  <2>8. CASE GoOn(c, AtSame, into) BY <2>1, <2>3, <2>5, <2>6, <2>8, CopierStaysTyped
  <2>9. CASE GoOn(c, AtFather, under) BY <2>1, <2>4, <2>5, <2>6, <2>9, CopierStaysTyped
  <2>10. QED BY <2>1, <2>7, <2>8, <2>9
<1>4. QED BY <1>2, <1>3

LEMMA StartCopyTyped ==
    ASSUME NEW c \in Sessions, CInv(c), TInv, CopyTyped(c), reg[c].cmd = "cp",
           UNCHANGED <<rows, nextId, pwd, father, lost>>, NEW n \in Names, NEW dest \in Ids,
           NEW path \in Seq(Components), NEW q \in Copying, StartCopy(c, n, dest, path, q)
    PROVE  TInv' /\ CopyTyped(c)'
<1> DEFINE r == Walk([reg[c] EXCEPT !.src = <<n>>], path)
           f == <<[dest |-> dest, left |-> {}]>>
<1>1. reg[c] \in Locals /\ 0 \in Ids BY CopierHasTypes, NothingTyped
<1>2. <<n>> \in Seq(Components)
  <2>1. n \in Components BY DEF Components
  <2>2. QED BY <2>1
<1>3. r \in Locals /\ r.dst = reg[c].dst /\ r.src = <<n>> BY <1>1, <1>2 DEF Walk, Locals
<1>4. f \in Seq(Call)
  <2>1. [dest |-> dest, left |-> {}] \in Call BY DEF Call
  <2>2. QED BY <2>1
<1>5. GoOn(c, q, r) /\ frames' = [frames EXCEPT ![c] = f] BY DEF StartCopy
<1>6. MadeTyped(c)'
  <2>1. Ids' = Ids BY DEF Ids
  <2>2. made' = [made EXCEPT ![c] = [src |-> reg[c].id, id |-> 0, shape |-> Shape(reg[c].id)]]
    BY DEF StartCopy
  <2>3. c \in DOMAIN made BY DEF CopyTyped, MadeTyped
  <2>4. made'[c] = [src |-> reg[c].id, id |-> 0, shape |-> Shape(reg[c].id)]
        /\ DOMAIN made' = DOMAIN made
    BY <2>2, <2>3
  <2>5. QED BY <1>1, <2>1, <2>3, <2>4 DEF MadeTyped
<1> HIDE DEF r, f
<1>7. r.src[1] = n BY <1>3
<1>8. NamesFor(q, r) BY <1>3, <1>7 DEF NamesFor, CopyTyped
<1>9. QED BY <1>3, <1>4, <1>5, <1>6, <1>8, CopierReadsTyped

LEMMA CpSameTyped ==
    ASSUME NEW c \in Sessions, CInv(c), TInv, CopyTyped(c), CpSame(c)
    PROVE  TInv' /\ CopyTyped(c)'
<1> DEFINE i == reg[c].id
           n == rows[i].name
           q == CopySteps(TypeOf(i))
           r == Walk(reg[c], Append(reg[c].dst, n))
<1>1. reg[c].cmd = "cp" BY CopierAt DEF CpSame
<1>2. CASE Crash BY <1>2, CrashTyped
<1>3. CASE ~Crash
  <2>1. UNCHANGED <<rows, nextId, pwd, father, lost>> /\ TypeOf(i) # "none" 
    BY <1>3 DEF CpSame, counters
  <2>2. \/ StartCopy(c, n, reg[c].dir, <<>>, q)
        \/ StartCopy(c, n, reg[c].dir, Append(reg[c].dst, n), AtReplace)
        \/ GoOn(c, AtOverwrite, r) /\ UNCHANGED <<frames, made>>
    BY <1>3 DEF CpSame, AtReplace, AtOverwrite, copying, counters
  <2>3. reg[c].dir \in Ids /\ n \in Names BY <2>1, CopierHasTypes
  <2>4. q \in Copying BY CopyStepsPlace
  <2>5. AtReplace \in Copying BY DEF Copying
  <2>6. <<>> \in Seq(Components) /\ Append(reg[c].dst, n) \in Seq(Components)
    <3>1. n \in Components /\ reg[c].dst \in Seq(Components)
      BY <2>3, CopierHasTypes DEF Components
    <3>2. QED BY <3>1, EmptySeq, AppendProperties
  <2>7. r \in Locals /\ r.dst = reg[c].dst
    BY <2>6, CopierHasTypes, NothingTyped DEF Walk, Locals
  <2>8. AtOverwrite \in Finding /\ AtOverwrite \notin Copying BY PlacesDiffer DEF Finding
  <2> HIDE DEF q, n, i, r
  <2>9. NamesFor(AtOverwrite, r) BY <1>1, <2>7, <2>8 DEF NamesFor, CopyTyped
  <2>10. CASE StartCopy(c, n, reg[c].dir, <<>>, q)
    BY <1>1, <2>1, <2>3, <2>4, <2>6, <2>10, StartCopyTyped
  <2>11. CASE StartCopy(c, n, reg[c].dir, Append(reg[c].dst, n), AtReplace)
    BY <1>1, <2>1, <2>3, <2>5, <2>6, <2>11, StartCopyTyped
  <2>12. CASE GoOn(c, AtOverwrite, r) /\ UNCHANGED <<frames, made>>
    BY <2>1, <2>7, <2>8, <2>9, <2>12, CopierStaysTyped
  <2>13. QED BY <2>2, <2>10, <2>11, <2>12
<1>4. QED BY <1>2, <1>3

LEMMA CpOverwriteTyped ==
    ASSUME NEW c \in Sessions, CInv(c), TInv, CopyTyped(c), CpOverwrite(c)
    PROVE  TInv' /\ CopyTyped(c)'
<1>1. CASE Crash BY <1>1, CrashTyped
<1>2. CASE ~Crash
  <2>1. Finish(c, "ok") /\ UNCHANGED <<rows, nextId, pwd, father, lost, frames, made>>
    BY <1>2 DEF CpOverwrite, copying, counters
  <2>2. QED BY <2>1, CopierStopsTyped
<1>3. QED BY <1>1, <1>2

LEMMA CpFatherTyped ==
    ASSUME NEW c \in Sessions, CInv(c), TInv, CopyTyped(c), CpFather(c)
    PROVE  TInv' /\ CopyTyped(c)'
<1> DEFINE n == Last(reg[c].dst)
           q == CopySteps(TypeOf(reg[c].id))
<1>1. reg[c].cmd = "cp" BY CopierAt DEF CpFather
<1>2. UNCHANGED <<rows, nextId, pwd, father, lost>> BY DEF CpFather, counters
<1>3. \/ Finish(c, "fail") /\ UNCHANGED <<frames, made>>
      \/ StartCopy(c, n, reg[c].cur, <<>>, q)
  BY DEF CpFather, copying, counters
<1>4. reg[c].cur \in Ids BY CopierHasTypes
<1>5. n \in Names BY <1>1 DEF CopyTyped, NamesFor
<1>6. q \in Copying BY CopyStepsPlace
<1>7. <<>> \in Seq(Components) BY EmptySeq
<1> HIDE DEF q, n
<1>8. CASE Finish(c, "fail") /\ UNCHANGED <<frames, made>> BY <1>2, <1>8, CopierStopsTyped
<1>9. CASE StartCopy(c, n, reg[c].cur, <<>>, q)
  BY <1>1, <1>2, <1>4, <1>5, <1>6, <1>7, <1>9, StartCopyTyped
<1>10. QED BY <1>3, <1>8, <1>9

LEMMA CpReplaceTyped ==
    ASSUME NEW c \in Sessions, CInv(c), TInv, CopyTyped(c), CpReplace(c) \/ CpReplaced(c)
    PROVE  TInv' /\ CopyTyped(c)'
<1> DEFINE r == [reg[c] EXCEPT !.dir = reg[c].cur]
<1>1. UNCHANGED <<rows, nextId, pwd, father, lost, frames, made>>
  BY DEF CpReplace, CpReplaced, copying, counters
<1>2. reg[c].cmd = "cp" /\ todo[c] \in Copying
  <2>1. CASE CpReplace(c) BY <2>1, CopierAt, WhichPlace DEF CpReplace, At, Copying
  <2>2. CASE CpReplaced(c)
    <3>1. reg[c].cmd = "cp" /\ Head(todo[c]) = "remove" BY <2>2 DEF CpReplaced, Removed, At
    <3>2. todo[c] \in Finding \cup Copying BY <3>1 DEF CInv, CopyPlace
    <3>3. QED BY <3>1, <3>2, WhichPlace DEF Copying
  <2>3. QED BY <2>1, <2>2
<1>3. reg[c] \in Locals /\ reg[c].cur \in Ids BY CopierHasTypes
<1>4. r \in Locals /\ r.cmd = "cp" /\ r.dst = reg[c].dst /\ r.src = reg[c].src
  BY <1>2, <1>3 DEF Locals
<1>5. GoOn(c, AtDelete, r) \/ GoOn(c, AtDirRow, reg[c])
  <2>1. CopySteps("d") = AtDirRow BY DEF CopySteps, AtDirRow
  <2>2. QED BY <2>1 DEF CpReplace, CpReplaced, AtDelete
<1>6. AtDelete \in Copying /\ AtDirRow \in Copying BY DEF Copying
<1> HIDE DEF r
<1>7. NamesFor(AtDelete, r) /\ NamesFor(AtDirRow, reg[c])
  BY <1>2, <1>4 DEF NamesFor, CopyTyped
<1>8. CASE GoOn(c, AtDelete, r) BY <1>1, <1>4, <1>6, <1>7, <1>8, CopierStaysTyped
<1>9. CASE GoOn(c, AtDirRow, reg[c]) BY <1>1, <1>3, <1>6, <1>7, <1>9, CopierStaysTyped
<1>10. QED BY <1>5, <1>8, <1>9

LEMMA CallTyped ==
    ASSUME NEW f \in Seq(Call), f # <<>>
    PROVE  /\ Head(f) = f[1] /\ Head(f) \in Call /\ Tail(f) \in Seq(Call)
           /\ \A left \in SUBSET Ids : [f EXCEPT ![1].left = left] \in Seq(Call)
<1>1. Head(f) = f[1] /\ Head(f) \in Call /\ Tail(f) \in Seq(Call) BY HeadTailProperties
<1>2. ASSUME NEW left \in SUBSET Ids
      PROVE  [f EXCEPT ![1].left = left] \in Seq(Call)
  <2> DEFINE e == [f[1] EXCEPT !.left = left]
  <2>1. f[1] \in Call /\ 1 \in 1..Len(f) BY LenProperties, EmptySeq, ElementOfSeq
  <2>2. e \in Call BY <2>1 DEF Call
  <2>3. [f EXCEPT ![1] = e] \in Seq(Call) BY <2>1, <2>2, ExceptSeq
  <2>4. QED BY <2>1, <2>3
<1>3. QED BY <1>1, <1>2

\* The copier has inserted a row, below the id of its innermost call.
LEMMA RowTyped ==
    ASSUME NEW c \in Sessions, CInv(c), TInv, CopyTyped(c), reg[c].cmd = "cp",
           todo[c] \in Copying, NEW t \in {"d", "f"},
           Insert(Dest(c), reg[c].src[1], t, UserOf(c)),
           NEW q \in Copying, GoOn(c, q, reg[c]), UNCHANGED <<pwd, father, lost, frames, made>>
    PROVE  TInv' /\ CopyTyped(c)'
<1>1. frames[c] \in Seq(Call) /\ frames[c] # <<>> BY DEF CInv, CopyPlace, CopyTyped
<1>2. Dest(c) \in Ids BY <1>1, CallTyped DEF Dest, Call
<1>3. reg[c].src[1] \in Names BY DEF CopyTyped, NamesFor
<1>4. UserOf(c) \in Users BY CommandsAssumption
<1>5. RowsTyped' /\ Ids \subseteq Ids' BY <1>2, <1>3, <1>4, InsertTyped DEF TInv
<1>6. frames[c] \in Seq(Call)' /\ frames' = [frames EXCEPT ![c] = frames[c]]
  BY <1>1, <1>5, CallsKept, SameFrames
<1>7. MadeTyped(c)' BY <1>5 DEF CopyTyped, MadeTyped
<1>8. reg[c] \in Locals /\ NamesFor(q, reg[c]) BY CopierHasTypes DEF CopyTyped, NamesFor
<1>9. reply[c] \in Replies' /\ reply' = [reply EXCEPT ![c] = reply[c]]
  BY <1>5, LocalsKept DEF TInv, SessionsTyped, GoOn
<1>10. todo' = [todo EXCEPT ![c] = q] /\ reg' = [reg EXCEPT ![c] = reg[c]] BY DEF GoOn
<1>11. QED BY <1>5, <1>6, <1>7, <1>8, <1>9, <1>10, CopierTyped

LEMMA DirRowTyped ==
    ASSUME NEW c \in Sessions, CInv(c), TInv, CopyTyped(c), DirRow(c)
    PROVE  TInv' /\ CopyTyped(c)'
<1>1. reg[c].cmd = "cp" /\ todo[c] = AtDirRow BY CopierAt, WhichPlace DEF DirRow, At
<1>2. CASE Crash BY <1>2, CrashTyped
<1>3. CASE ~Crash
  <2>1. /\ Insert(Dest(c), reg[c].src[1], "d", UserOf(c)) /\ Then(c, reg[c])
        /\ UNCHANGED <<pwd, father, lost, frames, made>>
    BY <1>3 DEF DirRow, copying, counters
  <2>2. GoOn(c, AtNewest, reg[c]) BY <1>1, <2>1, DiguiOps DEF Then
  <2>3. AtDirRow \in Copying /\ AtNewest \in Copying BY DEF Copying
  <2>4. QED BY <1>1, <2>1, <2>2, <2>3, RowTyped
<1>4. QED BY <1>2, <1>3

LEMMA FileRowTyped ==
    ASSUME NEW c \in Sessions, CInv(c), TInv, CopyTyped(c), FileRow(c)
    PROVE  TInv' /\ CopyTyped(c)'
<1>1. reg[c].cmd = "cp" /\ todo[c] = AtFileRow BY CopierAt, WhichPlace DEF FileRow, At
<1>2. CASE Crash BY <1>2, CrashTyped
<1>3. CASE ~Crash
  <2>1. /\ Insert(Dest(c), reg[c].src[1], "f", UserOf(c)) /\ GoOn(c, AtChild, reg[c])
        /\ UNCHANGED <<pwd, father, lost, frames, made>>
    BY <1>3 DEF FileRow, copying, counters, AtChild
  <2>2. AtFileRow \in Copying /\ AtChild \in Copying BY DEF Copying
  <2>3. QED BY <1>1, <2>1, <2>2, RowTyped
<1>4. QED BY <1>2, <1>3

LEMMA NewestTyped ==
    ASSUME NEW c \in Sessions, CInv(c), TInv, CopyTyped(c), Newest(c)
    PROVE  TInv' /\ CopyTyped(c)'
<1> DEFINE new == nextId - 1
           f == <<[dest |-> new, left |-> {}]>> \o frames[c]
<1>1. reg[c].cmd = "cp" /\ todo[c] = AtNewest BY CopierAt, WhichPlace DEF Newest, At
<1>2. /\ frames' = [frames EXCEPT ![c] = f] /\ UNCHANGED <<rows, nextId, pwd, father, lost>>
      /\ made' = [made EXCEPT ![c].id = IF @ = 0 THEN new ELSE @]
  BY <1>1, NewestIsOwn DEF Newest, counters
<1>3. new \in Ids BY DEF TInv, RowsTyped, Ids
<1>4. f \in Seq(Call)
  <2>1. [dest |-> new, left |-> {}] \in Call BY <1>3 DEF Call
  <2>2. <<[dest |-> new, left |-> {}]>> \in Seq(Call) BY <2>1
  <2>3. QED BY <2>2, ConcatProperties DEF CopyTyped
<1>5. MadeTyped(c)'
  <2>1. Ids' = Ids BY <1>2 DEF Ids
  <2>2. c \in DOMAIN made /\ "id" \in DOMAIN made[c] /\ made[c].id \in Ids
    BY DEF CopyTyped, MadeTyped
  <2> HIDE DEF new
  <2>3. c \in DOMAIN made' /\ "id" \in DOMAIN made'[c] /\ made'[c].id \in {new, made[c].id}
    BY <1>2, <2>2
  <2>4. QED BY <1>3, <2>1, <2>2, <2>3 DEF MadeTyped
<1>6. AtNewest \in Copying /\ AtChildren \in Copying BY DEF Copying
<1>7. reg[c] \in Locals /\ NamesFor(AtChildren, reg[c])
  BY <1>1, <1>6, CopierHasTypes DEF CopyTyped, NamesFor
<1>8. GoOn(c, AtChildren, reg[c]) BY <1>1, DiguiOps DEF Newest, Then
<1> HIDE DEF f
<1>9. QED BY <1>2, <1>4, <1>5, <1>6, <1>7, <1>8, CopierReadsTyped

LEMMA ChildrenTyped ==
    ASSUME NEW c \in Sessions, CInv(c), TInv, CopyTyped(c), Children(c)
    PROVE  TInv' /\ CopyTyped(c)'
<1> DEFINE left == {i \in DOMAIN rows : rows[i].father = reg[c].id}
           f == [frames[c] EXCEPT ![1].left = left]
<1>1. reg[c].cmd = "cp" /\ todo[c] = AtChildren BY CopierAt, WhichPlace DEF Children, At
<1>2. AtChildren \in Copying /\ AtChild \in Copying BY DEF Copying
<1>3. frames[c] \in Seq(Call) /\ frames[c] # <<>> BY <1>1, <1>2 DEF CInv, CopyPlace, CopyTyped
<1>4. /\ frames' = [frames EXCEPT ![c] = f] /\ UNCHANGED <<rows, nextId, pwd, father, lost, made>>
      /\ GoOn(c, AtChild, reg[c])
  BY DEF Children, AtChild, counters
<1>5. left \in SUBSET Ids BY DEF TInv, RowsTyped, Ids
<1>6. f \in Seq(Call) BY <1>3, <1>5, CallTyped
<1>7. MadeTyped(c)' BY <1>4 DEF CopyTyped, MadeTyped, Ids
<1>8. reg[c] \in Locals /\ NamesFor(AtChild, reg[c])
  BY <1>1, <1>2, CopierHasTypes DEF CopyTyped, NamesFor
<1> HIDE DEF f
<1>9. QED BY <1>2, <1>4, <1>6, <1>7, <1>8, CopierReadsTyped

LEMMA ChildTyped ==
    ASSUME NEW c \in Sessions, CInv(c), TInv, CopyTyped(c), Child(c)
    PROVE  TInv' /\ CopyTyped(c)'
<1> DEFINE left == Head(frames[c]).left
<1>1. reg[c].cmd = "cp" /\ todo[c] = AtChild
  <2>1. At(c, "child") BY Zenon DEF Child
  <2>2. QED BY <2>1, CopierAt, WhichPlace DEF At
<1>2. AtChild \in Copying BY DEF Copying
<1>3. frames[c] \in Seq(Call) /\ frames[c] # <<>> BY <1>1, <1>2 DEF CInv, CopyPlace, CopyTyped
<1>4. /\ left \in SUBSET Ids /\ left = frames[c][1].left /\ Tail(frames[c]) \in Seq(Call)
      /\ <<>> \in Seq(Call)
  BY <1>3, CallTyped, EmptySeq DEF Call
<1>5. reg[c] \in Locals /\ NamesFor(AtChild, reg[c])
  BY <1>1, <1>2, CopierHasTypes DEF CopyTyped, NamesFor
<1>6. CASE Crash BY <1>6, CrashTyped
<1> DEFINE Same == UNCHANGED <<rows, nextId, pwd, father, lost, made>>
<1>7. CASE ~Crash
  <2>1. \/ left = {} /\ Same /\ Answer(c, made[c].id, "ok") /\ frames' = [frames EXCEPT ![c] = <<>>]
        \/ left = {} /\ Same /\ GoOn(c, todo[c], reg[c]) /\ frames' = [frames EXCEPT ![c] = Tail(@)]
        \/ \E i \in left :
              /\ TypeOf(i) # "none" /\ Same
              /\ GoOn(c, CopySteps(TypeOf(i)), [reg[c] EXCEPT !.id = i, !.src = <<rows[i].name>>])
              /\ frames' = [frames EXCEPT ![c][1].left = @ \ {i}]
    BY Zenon, <1>7 DEF Child, counters
  <2>2. Same /\ MadeTyped(c)'
    <3>1. Same BY Zenon, <2>1
    <3>2. QED BY <3>1 DEF CopyTyped, MadeTyped, Ids
  <2>3. UNCHANGED <<rows, nextId, pwd, father, lost>> BY <2>2
  <2> HIDE DEF left, Same
  <2>4. CASE Answer(c, made[c].id, "ok") /\ frames' = [frames EXCEPT ![c] = <<>>]
    <3>1. made[c].id \in Ids BY DEF CopyTyped, MadeTyped
    <3>2. QED BY <1>4, <2>2, <2>3, <2>4, <3>1, CopierEndsTyped
  <2>5. CASE GoOn(c, todo[c], reg[c]) /\ frames' = [frames EXCEPT ![c] = Tail(@)]
    <3>1. GoOn(c, AtChild, reg[c]) /\ frames' = [frames EXCEPT ![c] = Tail(frames[c])]
      BY <1>1, <2>5
    <3>2. QED BY <1>2, <1>4, <1>5, <2>2, <2>3, <3>1, CopierReadsTyped
  <2>6. CASE \E i \in left :
                /\ TypeOf(i) # "none"
                /\ GoOn(c, CopySteps(TypeOf(i)),
                        [reg[c] EXCEPT !.id = i, !.src = <<rows[i].name>>])
                /\ frames' = [frames EXCEPT ![c][1].left = @ \ {i}]
    <3>1. PICK i \in left :
             /\ TypeOf(i) # "none"
             /\ GoOn(c, CopySteps(TypeOf(i)), [reg[c] EXCEPT !.id = i, !.src = <<rows[i].name>>])
             /\ frames' = [frames EXCEPT ![c][1].left = @ \ {i}]
      BY Zenon, <2>6
    <3> DEFINE r == [reg[c] EXCEPT !.id = i, !.src = <<rows[i].name>>]
               q == CopySteps(TypeOf(i))
               f == [frames[c] EXCEPT ![1].left = left \ {i}]
    <3>2. frames' = [frames EXCEPT ![c] = f] BY <1>4, <3>1
    <3>3. f \in Seq(Call)
      <4>1. left \ {i} \in SUBSET Ids BY <1>4
      <4>2. QED BY <1>3, <4>1, CallTyped
    <3>4. i \in Ids /\ rows[i].name \in Names BY <1>4, <3>1, CopierHasTypes
    <3>5. r \in Locals /\ r.dst = reg[c].dst /\ r.src[1] = rows[i].name
      <4>1. <<rows[i].name>> \in Seq(Components)
        <5>1. rows[i].name \in Components BY <3>4 DEF Components
        <5>2. QED BY <5>1
      <4>2. QED BY <1>5, <3>4, <4>1 DEF Locals
    <3>6. q \in Copying /\ GoOn(c, q, r) BY <3>1, CopyStepsPlace
    <3> HIDE DEF r, q, f
    <3>7. NamesFor(q, r) BY <1>1, <1>5, <3>4, <3>5 DEF NamesFor, CopyTyped
    <3>8. QED BY <2>2, <2>3, <3>2, <3>3, <3>5, <3>6, <3>7, CopierReadsTyped
  <2>7. QED BY Zenon, <2>1, <2>4, <2>5, <2>6
<1>8. QED BY <1>6, <1>7

-----------------------------------------------------------------------------
(***************************************************************************)
(* Types in the steps outside cp, and of rmDirFunc inside it.              *)
(***************************************************************************)
\* Inside cp they leave the names of the copier alone.
LEMMA RemovalNames ==
    ASSUME NEW c \in Sessions, CInv(c), TInv, CopyTyped(c), Step(c), ~Removed(c),
           reg[c].cmd = "cp"
    PROVE  NamesFor(todo'[c], reg'[c])
<1>1. reg[c] \in Locals /\ DOMAIN todo = Sessions /\ DOMAIN reg = Sessions
  BY DEF TInv, SessionsTyped
<1>2. ASSUME NEW t, NEW r, GoOn(c, t, r), r.src = reg[c].src, r.dst = reg[c].dst, r.cmd = "cp",
             t \in Copying => todo[c] \in Copying
      PROVE  NamesFor(todo'[c], reg'[c])
  <2>1. todo'[c] = t /\ reg'[c] = r BY <1>1, <1>2 DEF GoOn
  <2>2. NamesFor(t, r) BY <1>2 DEF NamesFor, CopyTyped
  <2>3. QED BY <2>1, <2>2
<1>3. CASE GetNextFileId(c)
  <2>1. PICK i \in NextFileId(UserOf(c), reg[c].cur, Head(reg[c].path)) :
           GoOn(c, todo[c], [reg[c] EXCEPT !.cur = i, !.path = Tail(@)])
    BY Zenon, <1>3 DEF GetNextFileId
  <2> DEFINE r == [reg[c] EXCEPT !.cur = i, !.path = Tail(@)]
  <2>2. r.src = reg[c].src /\ r.dst = reg[c].dst /\ r.cmd = "cp" BY <1>1 DEF Locals
  <2>3. GoOn(c, todo[c], r) BY <2>1
  <2> HIDE DEF r
  <2>4. QED BY <1>2, <2>2, <2>3
<1>4. CASE ~GetNextFileId(c)
  <2>1. todo[c] \in Copying /\ (RmDelete(c) \/ RmList(c) \/ RmType(c))
    BY <1>4, RemovalOp DEF Copying
  <2>2. CASE RmDelete(c)
    <3>1. GoOn(c, Tail(todo[c]), reg[c]) BY <2>2 DEF RmDelete, Then
    <3>2. QED BY <1>2, <2>1, <3>1
  <2>3. CASE RmList(c)
    <3>1. \E w : Then(c, [reg[c] EXCEPT !.work = w]) BY Zenon, <2>3 DEF RmList
    <3>2. PICK w : GoOn(c, Tail(todo[c]), [reg[c] EXCEPT !.work = w]) BY <3>1 DEF Then
    <3> DEFINE r == [reg[c] EXCEPT !.work = w]
    <3>3. r.src = reg[c].src /\ r.dst = reg[c].dst /\ r.cmd = "cp" BY <1>1 DEF Locals
    <3>4. GoOn(c, Tail(todo[c]), r) BY <3>2
    <3> HIDE DEF r
    <3>5. QED BY <1>2, <2>1, <3>3, <3>4
  <2>4. CASE RmType(c)
    <3>1. At(c, "remove") BY Zenon, <2>4 DEF RmType
    <3>2. reg[c].work # <<>> BY <3>1 DEF Removed
    <3> DEFINE rest(i) == IF Head(reg[c].work) = {i} THEN Tail(reg[c].work)
                          ELSE <<Head(reg[c].work) \ {i}>> \o Tail(reg[c].work)
               steps(i) == CASE TypeOf(i) = "d"    -> <<"delete", "list", "remove">>
                             [] TypeOf(i) = "f"    -> <<"delete", "remove">>
                             [] TypeOf(i) = "none" -> <<"remove">>
    <3>3. PICK i \in Head(reg[c].work) :
             GoOn(c, steps(i), [reg[c] EXCEPT !.dir = i, !.work = rest(i)])
      BY Zenon, <2>4, <3>2 DEF RmType
    <3> DEFINE q == steps(i)
               r == [reg[c] EXCEPT !.dir = i, !.work = rest(i)]
    <3> HIDE DEF rest
    <3>4. r.src = reg[c].src /\ r.dst = reg[c].dst /\ r.cmd = "cp" BY <1>1 DEF Locals
    <3>5. GoOn(c, q, r) BY <3>3
    <3> HIDE DEF q, r
    <3>6. QED BY <1>2, <2>1, <3>4, <3>5
  <2>5. QED BY <2>1, <2>2, <2>3, <2>4
<1>5. QED BY <1>3, <1>4

LEMMA PlainTyped ==
    ASSUME Named, NEW c \in Sessions, Copier(c), CInv(c), TInv, CopyTyped(c),
           NEW s \in Sessions, ~Removed(s), Step(s), UNCHANGED copying
    PROVE  TInv' /\ CopyTyped(c)'
<1>1. RowsTyped' /\ Ids \subseteq Ids' BY RowsTypedKept
<1>2. SharedTyped' /\ SessionsTyped' BY <1>1, SharedTypedKept, SessionsTypedKept
<1>3. frames'[c] \in Seq(Call)' BY <1>1, CallsKept DEF CopyTyped, copying, counters
<1>4. MadeTyped(c)' BY <1>1 DEF CopyTyped, MadeTyped, copying, counters
<1>5. NamesFor(todo'[c], reg'[c])
  <2>1. CASE reg[s].cmd = "cp"
    <3>1. s = c BY <2>1 DEF CInv, Others
    <3>2. QED BY <2>1, <3>1, RemovalNames
  <2>2. CASE reg[s].cmd # "cp"
    <3>1. (\E t \in Seq(Allowed(s, c)) : GoesOn(s, t)) \/ UNCHANGED <<todo, reg>>
      BY <2>2, StepAllowed DEF CInv, Others
    <3>2. DOMAIN todo = Sessions /\ DOMAIN reg = Sessions BY DEF TInv, SessionsTyped
    <3>3. /\ reg'[s].cmd # "cp"
          /\ \A t \in Sessions \ {s} : todo'[t] = todo[t] /\ reg'[t] = reg[t]
      BY <2>2, <3>1, <3>2 DEF GoesOn
    <3>4. QED BY <3>3 DEF NamesFor, CopyTyped
  <2>3. QED BY <2>1, <2>2
<1>6. CopyTyped(c)' BY <1>3, <1>4, <1>5 DEF CopyTyped, NamesFor
<1>7. LostTyped' BY <1>1, LostTypedKept
<1>8. QED BY <1>1, <1>2, <1>6, <1>7 DEF TInv

LEMMA CopyStepTyped ==
    ASSUME CopiesNamed, NEW c \in Sessions, CInv(c), TInv, CopyTyped(c), CopyStep(c)
    PROVE  TInv' /\ CopyTyped(c)'
BY BeginCpTyped, CpSourceTyped, CpTargetTyped, CpSameTyped, CpOverwriteTyped,
   CpReplaceTyped, CpFatherTyped, DirRowTyped, FileRowTyped, NewestTyped, ChildrenTyped,
   ChildTyped DEF CopyStep

\* With cp beside the other commands, every variable of the tree keeps its type, too: the ids
\* that digui reads back with select max(id) and goes down with, while other sessions insert and
\* delete rows, are ids some row had, and what it inserts has a name.
THEOREM CopiesTyped ==
    ASSUME SoleCopier, Named, CopiesNamed
    PROVE  CopySpec => []TypeOK
<1>1. PICK c \in Sessions : Copier(c) BY DEF SoleCopier
<1>2. CopyInit => TInv /\ CopyTyped(c)
  <2>1. SUFFICES ASSUME CopyInit PROVE TInv /\ CopyTyped(c) OBVIOUS
  <2>2. TInv BY <2>1, InitTyped DEF CopyInit
  <2>3. 0 \in Ids /\ <<>> \in Seq(Call) BY <2>2, NothingTyped, EmptySeq DEF TInv
  <2>4. CopyTyped(c)
    BY <2>1, <2>3 DEF CopyInit, Init, CopyTyped, MadeTyped, NamesFor, NoReg, NoCopy
  <2>5. QED BY <2>2, <2>4
<1>3. CInv(c) /\ TInv /\ CopyTyped(c) /\ [CopyNext]_copyVars => TInv' /\ CopyTyped(c)'
  <2>1. SUFFICES ASSUME CInv(c), TInv, CopyTyped(c), [CopyNext]_copyVars
                 PROVE  TInv' /\ CopyTyped(c)'
    OBVIOUS
  <2>2. CASE CopyNext
    <3>1. PICK s \in Sessions : (~Removed(s) /\ Step(s) /\ UNCHANGED copying) \/ CopyStep(s)
      BY <2>2 DEF CopyNext
    <3>2. CASE CopyStep(s) BY <1>1, <2>1, <3>2, CopyStepKeeps, CopyStepTyped
    <3>3. CASE ~Removed(s) /\ Step(s) /\ UNCHANGED copying BY <1>1, <2>1, <3>3, PlainTyped
    <3>4. QED BY <3>1, <3>2, <3>3
  <2>3. CASE UNCHANGED copyVars
    <3>1. UNCHANGED <<rows, nextId, pwd, father, lost, todo, reg, reply, frames, made>>
      BY <2>3 DEF copyVars, vars, session, copying, counters
    <3>2. TInv'
      <4>1. Ids' = Ids BY <3>1 DEF Ids
      <4>2. RowsTyped' BY <2>1, <3>1, <4>1 DEF TInv, RowsTyped, Entries
      <4>3. SharedTyped' BY <2>1, <3>1, <4>1 DEF TInv, SharedTyped
      <4>4. \A s \in Sessions : Left(reg[s], father[s])' = Left(reg[s], father[s])
        BY <3>1 DEF Left, Normal
      <4>5. SessionsTyped'
        BY <2>1, <3>1, <4>1, <4>4 DEF TInv, SessionsTyped, Locals, Replies, Components
      <4>6. LostTyped' BY <2>1, <3>1, <4>1 DEF TInv, LostTyped
      <4>7. QED BY <4>2, <4>3, <4>5, <4>6 DEF TInv
    <3>3. CopyTyped(c)'
      BY <2>1, <3>1 DEF CopyTyped, MadeTyped, NamesFor, Call, Ids
    <3>4. QED BY <3>2, <3>3
  <2>4. QED BY <2>1, <2>2, <2>3
<1>4. TInv => TypeOK BY TypesFollow
<1>5. CopySpec => []CInv(c) BY <1>1, CopierKept
<1>6. QED BY <1>2, <1>3, <1>4, <1>5, PTL DEF CopySpec
=============================================================================
