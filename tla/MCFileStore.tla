---------------------------- MODULE MCFileStore -----------------------------
(***************************************************************************)
(* FileStore for TLC: the users' trees, the contents and the workloads.    *)
(* Session s1 has the names a, b and p, session s2 the names c and q; p    *)
(* and q are never removed or overwritten.                                 *)
(***************************************************************************)
EXTENDS FileStore

CONSTANTS s1, s2, a, b, c, p, q, m1, m2, null

AllNames    == {a, b, c, p, q}
NamesIn(s)  == IF s = s1 THEN {a, b, p} ELSE {c, q}
Chunks(m)   == IF m = m1 THEN 2 ELSE 1
BothMd5s    == {m1, m2}

Nothing     == {}

\* One session, everything but a copy of a file onto itself.
SoloUploads == {<<a, m1>>, <<b, m2>>, <<b, m1>>}
SoloRemoves == {a, b}
SoloCopies  == {<<a, b, "file">>, <<b, a, "file">>, <<a, b, "dir">>, <<a, a, "dir">>}

\* Two users whose contents p and q keep referenced.
PinnedStart   == {<<p, m1>>, <<q, m2>>, <<a, m2>>, <<c, m1>>}
PinnedUploads == {<<a, m1>>, <<c, m2>>}
PinnedRemoves == {a, c}
PinnedCopies  == {<<p, a, "file">>, <<q, c, "file">>, <<p, a, "dir">>, <<q, c, "dir">>}
=============================================================================
