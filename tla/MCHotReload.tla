---------------------------- MODULE MCHotReload ----------------------------
(***************************************************************************)
(* HotReload for TLC: three payloads, one of them without routes and one   *)
(* invalid, and a person who saves one of a few documents.                 *)
(***************************************************************************)
EXTENDS HotReload, TLC

CONSTANTS none, one, two, bad, off, local, exposed, tok, notok, r1, r2

Doc(p, u, t) == [payload |-> p, ui |-> u, token |-> t]

FirstLocal == Doc(one, local, tok)

\* Another set of routes, no routes, the UI exposed, and a file with an error.
SomeEdits == {Doc(two, local, tok), Doc(none, local, tok), Doc(one, exposed, tok), Broken}

FewEdits == {Doc(one, exposed, tok), Broken}

\* Requests differ in their names only.
RequestSymmetry == Permutations(Requests)

=============================================================================
