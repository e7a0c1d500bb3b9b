------------------------------ MODULE MCShell ------------------------------
(* Shell for TLC: two settings, values with wide characters, and an app  *)
(* whose commands go into a menu of the base tree and one of its own.      *)
EXTENDS Shell

BaseTree == [menus |-> {<<"system">>, <<"system", "settings">>},
             commands |-> {<<"system", "reboot">>, <<"system", "wipe">>,
                           <<"system", "settings", "print">>, <<"system", "settings", "set">>,
                           <<"system", "settings", "get">>, <<"export">>}]
AppTree == [menus |-> {<<"system">>, <<"button">>},
            commands |-> {<<"system", "hello">>, <<"button", "simulate">>}]

Names == <<"identity", "addr">>
Defaults == [s \in ToSet(Names) |-> IF s = "identity" THEN "tower" ELSE "auto"]
Values == [s \in ToSet(Names) |->
            IF s = "identity" THEN {"tower", "wide", "empty"} ELSE {"auto", "random", "A"}]
Valid == [s \in ToSet(Names) |->
            IF s = "identity" THEN {"tower", "wide"} ELSE {"auto", "A", "U"}]
Hinted == [s \in ToSet(Names) |-> IF s = "identity" THEN {} ELSE {"auto", "random"}]
Widths == [v \in {"tower", "wide", "auto", "A", "U"} |->
            CASE v = "tower" -> <<1, 1>>
              [] v = "wide" -> <<1, 3, 2>>
              [] v = "auto" -> <<4>>
              [] OTHER -> <<1>>]

Tried == BaseTree.menus \cup BaseTree.commands \cup AppTree.menus \cup AppTree.commands
           \cup {<<>>, <<"system", "none">>, <<"system", "settings", "get", "addr">>}
=============================================================================
