--------------------------- MODULE MCConsoleSize ---------------------------
(* A small instance of ConsoleSize: the keys a, Escape, R and cursor up, F3 *)
(* with shift, which terminals send as ESC [ 1 ; 2 R, and a pasted text     *)
(* whose 48 is 0 in 4 bits, as 65536 is in 16.                              *)
EXTENDS ConsoleSize

McScreens == {<<3, 5>>, <<11, 20>>}
McKeys == {<<97>>, <<ESC>>, <<R>>, <<ESC, BRACKET, 65>>,
           <<ESC, BRACKET, ZERO + 1, SEMICOLON, ZERO + 2, R>>,
           <<ESC, BRACKET, ZERO + 4, ZERO + 8, SEMICOLON, ZERO + 2, R>>}
=============================================================================
