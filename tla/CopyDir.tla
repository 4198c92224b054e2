------------------------------ MODULE CopyDir ------------------------------
(***************************************************************************)
(* FileTree with cp.  A directory is copied by digui: it inserts a row,    *)
(* asks for the largest id of the table to learn the row's id, lists the   *)
(* children of the source and goes down, while the sessions around it      *)
(* insert and delete rows of the same table.                               *)
(*                                                                         *)
(*   server/src/command.c            cp                                    *)
(*   server/src/mysql_operation.c    digui, detectsame                     *)
(*                                                                         *)
(* The contents of copied files and their counts are in FileStore; a count *)
(* whose record is gone, which only RecordsGone allows, ends the process.  *)
(***************************************************************************)
EXTENDS FileTree

CONSTANT Copies(_)      \* what the client of a session may copy: [src, dst]

ASSUME CopiesAssumption ==
    \A s \in Sessions : \A c \in Copies(s) : c.src \in Paths /\ c.dst \in Paths

VARIABLES
    frames,     \* the calls of digui: the new directory, the children of the old one
    made        \* history: the source of the last copy, its shape, the new directory

copying == <<frames, made>>
copyVars == <<vars, copying>>

Shapes == SUBSET (Seq(Names) \X {"d", "f"})
NoCopy == [src |-> 0, id |-> 0, shape |-> {}]

CopyInit ==
    /\ Init
    /\ frames = [s \in Sessions |-> <<>>]
    /\ made = [s \in Sessions |-> NoCopy]

\* What hangs below id i: paths and types.
Shape(i) ==
    LET below[n \in Nat] ==
            IF n = 0 THEN {<<i, <<>>, "d">>}
            ELSE LET above == below[n - 1]
                 IN  above \cup UNION {{<<k, Append(a[2], rows[k].name), rows[k].type>> :
                                          k \in {j \in DOMAIN rows : rows[j].father = a[1]}} :
                                             a \in above}
    IN  {<<e[2], e[3]>> : e \in below[Cardinality(DOMAIN rows)]}

Dest(s) == Head(frames[s]).dest

\* A null row is dereferenced: the process ends, and all its sessions.
Crash ==
    /\ todo' = [s \in Sessions |-> <<>>]
    /\ reg' = [s \in Sessions |-> NoReg]
    /\ reply' = [s \in Sessions |-> NoReply]
    /\ father' = [s \in Sessions |-> Null]
    /\ frames' = [s \in Sessions |-> <<>>]
    /\ made' = [s \in Sessions |-> NoCopy]
    /\ UNCHANGED <<rows, nextId, pwd, counters>>

-----------------------------------------------------------------------------
(***************************************************************************)
(* cp                                                                      *)
(***************************************************************************)
BeginCp(s) ==
    /\ Idle(s) /\ father[s] # Null
    /\ cmds < MaxCmds /\ cmds' = cmds + 1
    /\ \E c \in Copies(s) :
          Begin(s, Walk([NoReg EXCEPT !.cmd = "cp", !.dst = FullPath(UserOf(s), c.dst)],
                        FullPath(UserOf(s), c.src)), <<"cpsource", "cptarget">>)
    /\ made' = [made EXCEPT ![s] = NoCopy]
    /\ UNCHANGED <<rows, nextId, pwd, father, logins, lost, frames>>

CpSource(s) ==
    /\ At(s, "cpsource")
    /\ Then(s, Walk([reg[s] EXCEPT !.id = reg[s].cur], reg[s].dst))
    /\ UNCHANGED <<rows, nextId, pwd, father, counters, copying>>

\* The types of both ids decide.  A file onto a file changes contents only; it needs the
\* record of the old content.
CpTarget(s) ==
    /\ At(s, "cptarget")
    /\ LET r == reg[s]
           from == TypeOf(r.id)
           to == TypeOf(r.cur)
           new == [r EXCEPT !.src = <<Last(r.dst)>>]
       IN  IF r.id # -1 /\ (from = "none" \/ (r.cur # -1 /\ to = "none")) THEN Crash
           ELSE \/ r.id # -1 /\ <<from, to>> = <<"f", "f">> /\ RecordsGone /\ Crash
                \/ /\ \/ (r.id = -1 \/ <<from, to>> = <<"d", "f">>) /\ Finish(s, "fail")
                      \/ r.id # -1 /\ <<from, to>> = <<"f", "f">> /\ Finish(s, "ok")
                      \/ r.id # -1 /\ to = "d" /\ GoOn(s, <<"cpsame">>, [r EXCEPT !.dir = r.cur])
                      \/ r.id # -1 /\ r.cur = -1 /\ GoOn(s, <<"cpfather">>, Walk(new, Front(r.dst)))
                   /\ UNCHANGED <<rows, nextId, pwd, father, counters, copying>>

\* Copy reg.id to name n below dest, after the way to path has been walked.
StartCopy(s, n, dest, path, steps) ==
    /\ GoOn(s, steps, Walk([reg[s] EXCEPT !.src = <<n>>], path))
    /\ frames' = [frames EXCEPT ![s] = <<[dest |-> dest, left |-> {}]>>]
    /\ made' = [made EXCEPT ![s] = [src |-> reg[s].id, id |-> 0, shape |-> Shape(reg[s].id)]]

CopySteps(t) == IF t = "d" THEN <<"dirrow", "newest", "children">> ELSE <<"filerow">>

\* Into a directory the copy keeps its name.  detectsame looks at the entries of all users;
\* its selects, and those of the type and the name before it, are one step.
CpSame(s) ==
    /\ At(s, "cpsame")
    /\ LET r == reg[s]
           n == rows[r.id].name
           same == \E i \in DOMAIN rows : rows[i].father = r.dir /\ rows[i].name = n
       IN  IF TypeOf(r.id) = "none" THEN Crash
           ELSE /\ \/ ~same /\ StartCopy(s, n, r.dir, <<>>, CopySteps(TypeOf(r.id)))
                   \/ /\ same /\ TypeOf(r.id) = "d"
                      /\ StartCopy(s, n, r.dir, Append(r.dst, n), <<"replace">>)
                   \/ /\ same /\ TypeOf(r.id) = "f"
                      /\ GoOn(s, <<"overwrite">>, Walk(r, Append(r.dst, n)))
                      /\ UNCHANGED copying
                /\ UNCHANGED <<rows, nextId, pwd, father, counters>>

\* A file gets the source's content.  A directory has no content with a record, and another
\* user's entry is not found: in both cases, as when the source is gone, a null row.
CpOverwrite(s) ==
    /\ At(s, "overwrite")
    /\ \/ /\ TypeOf(reg[s].id) # "none" /\ TypeOf(reg[s].cur) = "f"
          /\ Finish(s, "ok")
          /\ UNCHANGED <<rows, nextId, pwd, father, counters, copying>>
       \/ /\ TypeOf(reg[s].id) = "none" \/ TypeOf(reg[s].cur) # "f" \/ RecordsGone
          /\ Crash

\* rmDirFunc for whatever has the name: RmDelete, RmList and RmType do it.
CpReplace(s) ==
    /\ At(s, "replace")
    /\ GoOn(s, <<"delete", "list", "remove">>, [reg[s] EXCEPT !.dir = reg[s].cur])
    /\ UNCHANGED <<rows, nextId, pwd, father, counters, copying>>

Removed(s) == At(s, "remove") /\ reg[s].cmd = "cp" /\ reg[s].work = <<>>

CpReplaced(s) ==
    /\ Removed(s)
    /\ GoOn(s, CopySteps("d"), reg[s])
    /\ UNCHANGED <<rows, nextId, pwd, father, counters, copying>>

\* Under a new name, below the parent of the path.
CpFather(s) ==
    /\ At(s, "cpfather")
    /\ \/ reg[s].cur = -1 /\ Finish(s, "fail") /\ UNCHANGED copying
       \/ /\ reg[s].cur # -1
          /\ StartCopy(s, Last(reg[s].dst), reg[s].cur, <<>>, CopySteps(TypeOf(reg[s].id)))
    /\ UNCHANGED <<rows, nextId, pwd, father, counters>>

-----------------------------------------------------------------------------
(***************************************************************************)
(* digui                                                                   *)
(***************************************************************************)
\* The row of the new directory.  The old one is read for its md5 and size.
DirRow(s) ==
    /\ At(s, "dirrow")
    /\ IF TypeOf(reg[s].id) = "none" THEN Crash
       ELSE /\ Insert(Dest(s), reg[s].src[1], "d", UserOf(s))
            /\ Then(s, reg[s])
            /\ UNCHANGED <<pwd, father, counters, copying>>

\* The entry of a file: nothing is left to do for a file by itself.
FileRow(s) ==
    /\ At(s, "filerow")
    /\ IF TypeOf(reg[s].id) = "none" THEN Crash
       ELSE /\ Insert(Dest(s), reg[s].src[1], "f", UserOf(s))
            /\ GoOn(s, <<"child">>, reg[s])
            /\ UNCHANGED <<pwd, father, counters, copying>>

\* Faulty: everything goes below the first new directory.
NewestForgotten(s) ==
    /\ At(s, "newest")
    /\ LET new == CHOOSE i \in DOMAIN rows : \A k \in DOMAIN rows : k <= i
           dest == IF made[s].id = 0 THEN new ELSE Dest(s)
       IN  /\ frames' = [frames EXCEPT ![s] = <<[dest |-> dest, left |-> {}]>> \o @]
           /\ made' = [made EXCEPT ![s].id = IF @ = 0 THEN new ELSE @]
    /\ Then(s, reg[s])
    /\ UNCHANGED <<rows, nextId, pwd, father, counters>>

\* select max(id): the row just inserted, if nobody else inserts.
Newest(s) ==
    /\ At(s, "newest")
    /\ LET new == CHOOSE i \in DOMAIN rows : \A k \in DOMAIN rows : k <= i
       IN  /\ frames' = [frames EXCEPT ![s] = <<[dest |-> new, left |-> {}]>> \o @]
           /\ made' = [made EXCEPT ![s].id = IF @ = 0 THEN new ELSE @]
    /\ Then(s, reg[s])
    /\ UNCHANGED <<rows, nextId, pwd, father, counters>>

\* The children of the source, of all users.
Children(s) ==
    /\ At(s, "children")
    /\ frames' = [frames EXCEPT ![s][1].left = {i \in DOMAIN rows : rows[i].father = reg[s].id}]
    /\ GoOn(s, <<"child">>, reg[s])
    /\ UNCHANGED <<rows, nextId, pwd, father, counters, made>>

\* The type and the name of the next child; or the end of a call of digui.
Child(s) ==
    /\ At(s, "child")
    /\ LET left == Head(frames[s]).left
       IN  \/ /\ left = {} /\ Tail(frames[s]) = <<>>
              /\ Answer(s, made[s].id, "ok")
              /\ frames' = [frames EXCEPT ![s] = <<>>]
              /\ UNCHANGED <<rows, nextId, pwd, father, counters, made>>
           \/ /\ left = {} /\ Tail(frames[s]) # <<>>
              /\ GoOn(s, todo[s], reg[s])
              /\ frames' = [frames EXCEPT ![s] = Tail(@)]
              /\ UNCHANGED <<rows, nextId, pwd, father, counters, made>>
           \/ \E i \in left :
                 IF TypeOf(i) = "none" THEN Crash
                 ELSE /\ GoOn(s, CopySteps(TypeOf(i)),
                              [reg[s] EXCEPT !.id = i, !.src = <<rows[i].name>>])
                      /\ frames' = [frames EXCEPT ![s][1].left = @ \ {i}]
                      /\ UNCHANGED <<rows, nextId, pwd, father, counters, made>>

-----------------------------------------------------------------------------
CopyStep(s) ==
    \/ BeginCp(s) \/ CpSource(s) \/ CpTarget(s) \/ CpSame(s)
    \/ CpOverwrite(s) \/ CpReplace(s) \/ CpReplaced(s) \/ CpFather(s)
    \/ DirRow(s) \/ FileRow(s) \/ Newest(s) \/ Children(s) \/ Child(s)

CopyNext == \E s \in Sessions : \/ ~Removed(s) /\ Step(s) /\ UNCHANGED copying
                                \/ CopyStep(s)

CopySpec == CopyInit /\ [][CopyNext]_copyVars

-----------------------------------------------------------------------------
(***************************************************************************)
(* Properties.                                                             *)
(***************************************************************************)
\* A directory copy that reports success has made the same tree as the source was when
\* it started, with nothing below another directory, and has left the source as it was:
\* neither the rmDirFunc before it nor digui itself disturbs what is being read.
CopyShape ==
    \A s \in Sessions :
        Idle(s) /\ reply[s].cmd = "cp" /\ made[s].id # 0 =>
            Shape(made[s].id) = made[s].shape /\ Shape(made[s].src) = made[s].shape

\* mysql_operation.c line 199: the largest id is that of the row just inserted, so a father is an
\* entry of the same user, also of a copied child: no copy ends up in another user's tree,
\* whatever is removed and moved meanwhile.
FathersOwn ==
    \A i \in DOMAIN rows :
        rows[i].father \in DOMAIN rows => rows[rows[i].father].user = rows[i].user
=============================================================================
