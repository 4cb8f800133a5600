------------------------------ MODULE MC_Maps -------------------------------
(* Small tables for the maps parser: two mappings whose numbers need the  *)
(* hex letters, and names with the whitespace and bytes a file name may   *)
(* hold.                                                                  *)
EXTENDS Maps

(* libc's text (r-xp, named) and an anonymous rw-s mapping.               *)
MC_Mappings ==
    {[start |-> \h7f8b4c0, end |-> \h7f8b4e1, r |-> TRUE, w |-> FALSE, x |-> TRUE,
      shared |-> FALSE, offset |-> \h28, major |-> 8, minor |-> 1, inode |-> 1234],
     [start |-> \h7ffd123, end |-> \h7ffd124, r |-> TRUE, w |-> TRUE, x |-> FALSE,
      shared |-> TRUE, offset |-> 0, major |-> 0, minor |-> 0, inode |-> 0]}

(* No name; a plain path; one with two spaces inside; one with a trailing *)
(* space; one with a tab; one with a byte that is not UTF-8.              *)
MC_Names ==
    {<<>>, <<"/", "l">>, <<"/", "l", " ", " ", "l">>, <<"/", "l", " ">>,
     <<"/", "l", "\t", "l">>, <<"/", "<ff>">>}
=============================================================================
