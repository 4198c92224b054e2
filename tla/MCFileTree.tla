----------------------------- MODULE MCFileTree -----------------------------
(***************************************************************************)
(* FileTree, with cp, for TLC: user u1 with the home directory "u", served *)
(* by the sessions s1 and s2, and user u2 with the home directory "v",     *)
(* served by session s3.                                                   *)
(***************************************************************************)
EXTENDS CopyDir

CONSTANTS s1, s2, s3, u1, u2, null

AllUsers    == {u1, u2}
ServedBy(s) == IF s = s3 THEN u2 ELSE u1
HomeOf(w)   == IF w = u1 THEN "u" ELSE "v"
AllNames    == {"u", "v", "c", "d", "e", "f", "w", "x"}
NoNames     == {}

Row(i, n, t, w) == [father |-> i, name |-> n, type |-> t, user |-> w]
\* u1 alone, with a directory and two files; then u1 with a deeper tree beside u2.
Alone == <<Row(0, "u", "d", u1), Row(1, "c", "d", u1), Row(1, "f", "f", u1), Row(2, "f", "f", u1)>>
Deep  == <<Row(0, "u", "d", u1), Row(1, "c", "d", u1), Row(2, "d", "d", u1), Row(3, "f", "f", u1),
           Row(0, "v", "d", u2), Row(5, "c", "d", u2), Row(3, "x", "f", u1)>>

Abs(p) == [abs |-> TRUE, parts |-> p]
Rel(p) == [abs |-> FALSE, parts |-> p]
One(c, p)    == [cmd |-> c, src |-> p, dst |-> p]
Mv(p, q)     == [cmd |-> "mv", src |-> p, dst |-> q]
Cp(p, q)     == [src |-> p, dst |-> q]

\* One session: no path without a parent, no move below itself, and the working
\* directory is never removed or moved.
TidyCommands(s) ==
    {One("mkdir", Rel(<<"d">>)), One("mkdir", Abs(<<"u", "d">>)),
     One("mkdir", Abs(<<"u", "c", "e">>)),
     One("rm", Abs(<<"u", "d">>)), One("rm", Abs(<<"u", "c", "..", "f">>)),
     Mv(Abs(<<"u", "c", "e">>), Abs(<<"u", "d">>)), Mv(Abs(<<"u", "d">>), Abs(<<"u", "c">>)),
     Mv(Abs(<<"u", "d">>), Abs(<<"u", ".", "e">>)),
     One("cd", Rel(<<"c">>)), One("cd", Rel(<<".", "..">>)), One("pwd", Rel(<<".">>)),
     One("upload", Rel(<<"x">>))}

\* A directory to a new name and into a directory, again if it is there already; not
\* into itself, and not onto what it is in.  A file onto a file, by its name and by the
\* directory it is in.
TidyCopies(s) ==
    {Cp(Abs(<<"u", "c">>), Abs(<<"u", "w">>)), Cp(Abs(<<"u", "d">>), Abs(<<"u", "c">>)),
     Cp(Abs(<<"u", "c">>), Abs(<<"u", "d">>)), Cp(Rel(<<"f">>), Abs(<<"u", "c">>)),
     Cp(Abs(<<"u", "c", "f">>), Abs(<<"u", "f">>)),
     Cp(Abs(<<"u", "c">>), Abs(<<"v", "w">>))}

\* Two sessions of u1 remove the same directories and one of them moves a part out,
\* while the paths of u2, and one of u1's, lead into the other user's tree.
CrossCommands(s) ==
    CASE s = s1 -> {One("rm", Abs(<<"u", "c">>)), One("rm", Rel(<<"..", "v", "c">>)),
                    One("cd", Abs(<<"u", "c">>))}
      [] s = s2 -> {One("rm", Rel(<<"c", "d">>)), Mv(Rel(<<"c", "d">>), Abs(<<"u", "e">>)),
                    One("cd", Abs(<<"u", "c">>))}
      [] s = s3 -> {One("rm", Rel(<<"..", "u", "c">>)), Mv(Rel(<<"c">>), Abs(<<"u">>)),
                    One("rm", Rel(<<".">>))}

CrossCopies(s) == IF s = s3 THEN {Cp(Abs(<<"v", "c">>), Abs(<<"v", "e">>))} ELSE {}

\* Two users copy a directory at once.
NoCommands(s) == {}
Duplicate(s)  == {Cp(Rel(<<"c">>), Rel(<<"e">>))}
=============================================================================
