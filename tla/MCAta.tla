-------------------------------- MODULE MCAta --------------------------------
(* Ata on two sectors of two words, as many as the address can tell apart.  *)
EXTENDS Ata

MCWords == {0, 1}
=============================================================================
