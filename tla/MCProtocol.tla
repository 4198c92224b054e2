----------------------------- MODULE MCProtocol -----------------------------
(***************************************************************************)
(* Protocol for TLC: d is downloaded, u is uploaded, n has no entry on the *)
(* server.                                                                 *)
(***************************************************************************)
EXTENDS Protocol

Three      == {"d", "u", "n"}
Chunked(f) == IF f = "n" THEN 1 ELSE 3
Has(f)     == CASE f = "d" -> 1 [] f = "u" -> 3 [] f = "n" -> 0
Holds(f)   == CASE f = "d" -> 2 [] f = "u" -> 1 [] f = "n" -> 1
OnlyD      == {"d"}

Line(c, f, w) == [cmd |-> c, file |-> f, words |-> w]
Good(c)       == Line(c, "d", "good")

\* Every kind of command, good and bad; a download always names a file.
Lines == {Good("mkdir"), Good("ls"), Good("cd"), Good("exit"), Good("rp"), Good("other"),
          Good("clear"), Line("cp", "d", "none"),
          Line("download", "d", "good"), Line("download", "n", "good"),
          Line("download", "d", "more"), Line("upload", "u", "good"), Line("upload", "u", "none")}

\* A download without a name, and another command after it.
Unnamed == {Line("download", "d", "none"), Good("mkdir")}
=============================================================================
