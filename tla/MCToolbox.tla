------------------------------- MODULE MCToolbox -------------------------------
(***************************************************************************)
(* An instance of Toolbox: a tree with a directory of files, a directory   *)
(* and a link, and one beside it to which the link leads; b and e stand    *)
(* for hidden names.  A few operands for each command.  Others put a file, *)
(* a link, a directory or nothing at some of the paths, and rename some.   *)
(***************************************************************************)
EXTENDS Toolbox

a == <<"a">>
b == <<"b">>
d == <<"d">>
e == <<"e">>
InD(name) == <<"d", name>>

MCNames == {"/system/bin/ls", "@ps", "rmdir"} \cup (Tools \ {"ls", "ps"})
MCToolOf == [name \in MCNames |-> CASE name = "/system/bin/ls" -> "ls" [] name = "@ps" -> "ps" [] OTHER -> name]
MCCallOf == [name \in MCNames |-> CASE name = "rmdir" -> "rm" [] name \in Direct -> name [] OTHER -> "none"]

MCLinkTo == e
MCPaths == {<<>>, a, b, d, e} \cup {InD("a"), InD("b"), InD("e"), <<"d", "d">>, <<"d", "d", "a">>, <<"d", "b", "a">>, <<"e", "a">>}
MCInodes == {"f1", "f2", "f3", "f4", "top", "dir1", "dir2", "dir3", "lnk", "dev", "new", "newdir", "newlnk"}
MCKindOf == [i \in MCInodes |-> CASE i \in {"top", "dir1", "dir2", "dir3", "newdir"} -> "dir" [] i \in {"lnk", "newlnk"} -> "link"
                                  [] i = "dev" -> "device" [] OTHER -> "file"]
MCPuts == (MCPaths \X {None}) \cup ({InD("e"), d, <<"d", "d", "a">>} \X {"new"})
            \cup ({d, b, InD("a"), InD("d"), InD("e")} \X {"newlnk"}) \cup ({a, InD("d")} \X {"newdir"})
MCMoved == {<<InD("b"), InD("a")>>, <<InD("b"), a>>, <<a, InD("a")>>, <<InD("d"), InD("e")>>}
Tree(f) == [p \in MCPaths |-> IF p \in DOMAIN f THEN f[p] ELSE None]

MCTrees == {
  Tree((<<>> :> "top") @@ (a :> "f1") @@ (b :> "dev") @@ (d :> "dir1") @@ (e :> "dir2") @@ (InD("a") :> "f2")
       @@ (InD("b") :> "lnk") @@ (<<"d", "d">> :> "dir3") @@ (<<"d", "d", "a">> :> "f3") @@ (<<"e", "a">> :> "f4")) }

MCContents == {<<>>, <<"nl">>, <<"nl", "nl", "nl", "text", "nl", "nl">>, <<"tab", "ctrl", "highnl", "text", "nl">>,
               <<"text", "nl", "high", "nl", "nl", "nl">>}

Singles(S) == {<<x>> : x \in S}
Pairs(S) == {<<x, y>> : x, y \in S}

MCRequests == [t \in Tools |->
  CASE t = "rm" -> (SUBSET {"r"}) \X ({<<>>} \cup Singles({a, b, d, e, InD("b")}) \cup {<<a, d>>, <<d, a>>})
    [] t = "chattr" -> (SUBSET {"R"}) \X ({<<>>} \cup Singles({b, d, InD("b")}) \cup {<<e, a>>})
    [] t \in {"chmod", "chown"} -> {{}} \X ({<<>>} \cup Singles({a, d, InD("b")}) \cup Pairs({a, InD("b"), e}))
    [] t = "mv" -> {{}} \X (Singles({a}) \cup Pairs({a, b, d, InD("a")}) \cup {<<a, InD("b")>>, <<a, InD("e")>>, <<d, InD("e")>>, <<b, e>>}
                           \cup {<<a, b, d>>, <<b, InD("a"), e>>, <<a, b, e>>})
    [] t = "ls" -> ({{}, {"a"}, {"l"}, {"d", "l"}} \X {<<>>, <<InD("b")>>, <<b, d>>})
                     \cup ({{"R"}, {"a", "R"}, {"l", "R"}} \X {<<d>>})
    [] t = "cat" -> (SUBSET {"b", "e", "l", "n", "s", "t", "v"}) \X (Singles(MCContents) \cup {<<<<"nl">>, c>> : c \in MCContents})
    [] t \in {"kill", "ps"} -> {{}} \X ({<<>>} \cup Singles({0, 1}) \cup {<<1, 2>>, <<2, 0>>})
    [] OTHER -> {{}} \X {<<>>}]

Modifier(m, x, y) == [mods |-> m, add |-> x, drop |-> y]
MCModifiers ==
  {Modifier({}, {}, {}), Modifier({"+"}, {"A"}, {}), Modifier({"+", "v"}, {"A", "D"}, {}), Modifier({"-"}, {}, {"A"}),
   Modifier({"="}, {"D"}, {}), Modifier({"="}, {"A"}, {}), Modifier({"+", "-"}, {"D"}, {"A"}), Modifier({"+", "-"}, {"A"}, {"A"}), Modifier({"=", "-"}, {"A"}, {"D"})}
=============================================================================
