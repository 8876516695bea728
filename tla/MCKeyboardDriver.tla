-------------------------- MODULE MCKeyboardDriver --------------------------
(* A ring of three slots (two keys) and a keyboard with a letter and an    *)
(* arrow, so that the prefix byte and its code can be split by a tick.     *)
EXTENDS KeyboardDriver

LetterAndArrow == {<<30>>, <<Prefix, \h48>>}
OneLetter      == {<<30>>}
=============================================================================
