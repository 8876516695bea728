------------------------------ MODULE MCShellRc ------------------------------
(* A settings file for TLC: it is made of single texts, and of the beginnings of *)
(* settings, so that a few pieces make two settings with their values.           *)
EXTENDS ShellRc

MCBytes  == {" ", "nl", "cr", "nul", "set ", "=", "theme", "font"}
MCPieces == {<<b>> : b \in MCBytes} \cup {<<"set ", key, "=">> : key \in Keys}
                                    \cup {<<"nl", "set ", key, "=">> : key \in Keys}
=============================================================================
