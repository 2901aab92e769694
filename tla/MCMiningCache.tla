---------------------------- MODULE MCMiningCache ----------------------------
(***************************************************************************)
(* TLC instances of MiningCache.                                           *)
(***************************************************************************)
EXTENDS MiningCache

\* A linear history of three commits, HEAD naming the last of the first h.
MCHeads == 1 .. 3
MCHistory == [h \in MCHeads |-> 1 .. h]
Forwards == {m \in MCHeads \X MCHeads : m[1] < m[2]}
Anywhere == {m \in MCHeads \X MCHeads : m[1] # m[2]}
Nowhere == {}

\* "a/b" and "a\b" are one directory and one file, "c" is another.
PlainSubdirs == {<<"a", "/", "b">>, <<"a", "\\", "b">>, <<"c">>}
OneSubdir == {<<"c">>}
\* The directories "a/b" and "a_b".
LookalikeSubdirs == {<<"a", "/", "b">>, <<"a", "_", "b">>}
=============================================================================
