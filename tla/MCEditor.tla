------------------------------ MODULE MCEditor -------------------------------
(***************************************************************************)
(* A buffer for four bytes on a screen of three rows and the status, and   *)
(* files that are empty, full, or too long for the buffer.                 *)
(***************************************************************************)
EXTENDS Editor

MCContents == {<<>>, <<"a", NL, "a", NL>>, <<NL, "a", "a", NL, NL, "a", "a">>}
=============================================================================
