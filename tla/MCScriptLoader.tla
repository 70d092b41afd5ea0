--------------------------- MODULE MCScriptLoader ---------------------------
(* A small instance of ScriptLoader: the archive holds the script s, a file *)
(* in a directory, d/f, and one that begins like no directory, gf.          *)
EXTENDS ScriptLoader

McArchive == [name \in {<<"s">>, <<"d", Slash, "f">>, <<"g", "f">>} |->
                IF name = <<"s">> THEN 2 ELSE 1]
McScript == <<Slash, "s">>
McPaths  == {
  <<>>, <<Slash>>, <<Dot>>, <<Dot, Slash>>, <<Slash, Slash, Dot>>,
  <<Slash, "d">>, <<"d", Slash>>, <<Slash, "g">>, <<Slash, "f">>,
  <<"d", Slash, "f">>, <<Slash, "d", Slash, "f">>, <<"d", Slash, Slash, "f">>,
  <<Dot, Slash, Dot, Slash, "g", "f">>, <<Dot, Slash, Slash, "g", "f">>,
  <<Slash, Slash, Dot, Slash, "g", "f">>, <<"g", "f", Slash, "f">> }
=============================================================================
