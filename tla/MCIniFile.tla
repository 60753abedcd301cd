----------------------------- MODULE MCIniFile ------------------------------
(* The TLC instances of IniFile: two sections, the name of one is as long as *)
(* the buffer allows, two names, hosts "a" and "b", lines of up to 13.       *)
EXTENDS IniFile

MCChars     == {"", " ", "\t", "\n", "\r", "vt", "ff", "\"", ",", ";", "#", "=", ":", "[", "]",
                "bom", "a", "b", "m", "n", "N", "s", "S", "t"}
MCSections  == {<<"s">>, <<"S", "t">>}
MCNames     == {<<"n">>, <<"N", "m">>}
MCHostLists == {<<<<"a">>>>, <<<<"b">>, <<"a">>>>}
Plainly     == {<< >>, <<"\"">>}
AsInReadme  == {<<"\"", ";">>}
=============================================================================
