--------------------------------- MODULE MCAidl ---------------------------------
(***************************************************************************)
(* Instances of Aidl.  Signatures: an interface of one method, with each   *)
(* type as an argument or a result, alone or behind another argument.      *)
(* Calls: interfaces of several methods.  The other builds are of the      *)
(* compiler's files: options, imports, preprocessed files, ids.            *)
(***************************************************************************)
EXTENDS Aidl

R(name) == Ref("none", name, <<>>)
ListOf(name) == Ref("java.util", "List", <<R(name)>>)
Arg(direction, type, dimension, name) == [direction |-> direction, type |-> type, dimension |-> dimension, name |-> name]
M(name, type, args) == [name |-> name, type |-> type, dimension |-> 0, oneway |-> FALSE, id |-> "none", value |-> 0, args |-> args]
WithId(name, n) == [M(name, R("void"), <<>>) EXCEPT !.id = "set", !.value = n]
Face(kind, name, methods) == [NoItem EXCEPT !.kind = kind, !.name = name, !.methods = methods]
Data(name, flat) == [NoItem EXCEPT !.kind = "data", !.name = name, !.flat = flat]
Parcel(name) == Data(name, {"parcel"})
Flat(name) == Data(name, {"parcel", "rpc"})
Source(package, classes, items) == [Absent EXCEPT !.is = "aidl", !.package = package, !.imports = classes, !.items = items]
Lines(ls) == [Absent EXCEPT !.is = "lines", !.lines = ls]
Line(type, package, name) == [type |-> type, package |-> package, name |-> name]
Opt(flag, value) == [flag |-> flag, value |-> value]
File(path) == Opt("none", path)
InA(name) == <<"a", "/", name, ".aidl">>
Src(name) == <<"src", "/">> \o InA(name)
IAidl == InA("I")
Build(commandLines, fs) == [commands |-> commandLines, files |-> fs]
Pre == <<"pre">>
Compiles1(methods, kind) ==
  Build(<< <<Opt("-p", Pre), File(IAidl)>> >>,
        (IAidl :> Source("a", <<>>, <<Face(kind, "I", methods)>>))
        @@ (Pre :> Lines(<<Line("parcelable", "a", "P"), Line("flattenable", "a", "F"), Line("interface", "a", "J")>>)))

Refs == {R("int"), R("boolean"), R("char"), R("String"), R("CharSequence"), R("IBinder"), R("Map"), R("List"), R("P"), R("F"),
         R("J"), R("RpcData"), R("StringWriter"), R("void"), R("event"), R("Nowhere"), ListOf("String"), ListOf("IBinder"), ListOf("P"),
         ListOf("F"), ListOf("RpcData"), Ref("none", "Map", <<R("String"), R("P")>>)}
Kinds == {"interface", "rpc"}
Signatures ==
  {Compiles1(<<M("m", R("int"), <<Arg(d, t, n, "x")>>)>>, k) : d \in {"in", "out", "inout"}, t \in Refs, n \in 0 .. 1, k \in Kinds}
  \cup {Compiles1(<<M("m", R("int"), <<Arg("none", t, 0, "x")>>)>>, k) : t \in Refs, k \in Kinds}
  \cup {Compiles1(<<M("m", R("int"), <<Arg("in", R("int"), 2, "x")>>)>>, k) : k \in Kinds}
  \cup {Compiles1(<<M("m", R("void"), <<Arg("in", R("P"), 0, "x"), Arg(d, t, 0, "y")>>)>>, k) :
          d \in {"in", "out"}, t \in Refs, k \in Kinds}
  \cup {Compiles1(<<[M("m", t, <<Arg("inout", ListOf("P"), 0, "x")>>) EXCEPT !.dimension = n]>>, k) :
          t \in Refs, n \in 0 .. 1, k \in Kinds}
  \cup {Compiles1(<<[M("m", t, <<Arg("inout", ListOf("P"), 0, "x")>>) EXCEPT !.oneway = TRUE]>>, k) : t \in Refs, k \in Kinds}

Calling == {
  Compiles1(<<M("f", R("int"), <<Arg("none", R("int"), 0, "x")>>), [M("g", R("void"), <<Arg("in", R("P"), 0, "x")>>) EXCEPT !.oneway = TRUE]>>, "interface"),
  Compiles1(<<M("f", R("void"), <<Arg("in", R("F"), 0, "x")>>), M("g", R("boolean"), <<Arg("inout", R("F"), 0, "x")>>),
              M("h", R("void"), <<Arg("out", R("F"), 0, "x")>>)>>, "rpc"),
  Compiles1(<<M("f", R("void"), <<Arg("in", R("F"), 0, "x")>>), M("e", R("event"), <<Arg("in", R("F"), 0, "x"), Arg("none", R("boolean"), 0, "y")>>),
              [M("g", R("event"), <<Arg("in", R("F"), 0, "x")>>) EXCEPT !.oneway = TRUE]>>, "rpc"),
  Compiles1(<<M("f", R("void"), <<Arg("in", R("int"), 0, "class"), Arg("in", R("int"), 0, "y")>>)>>, "interface"),
  Compiles1(<<M("f", R("void"), <<>>), M("f", R("int"), <<>>)>>, "interface") }

Numbers == {0, 1, MaxUserSetMethodId, MaxUserSetMethodId + 1, Word \div 2, Word + 1}
Numbering ==
  {Compiles1(<<WithId("f", x), WithId("g", y), WithId("h", z)>>, "interface") : x \in Numbers, y \in Numbers, z \in {1}}
  \cup {Compiles1(<<M("f", R("void"), <<>>), WithId("g", x), M("h", R("int"), <<>>)>>, "interface") : x \in Numbers}

(* Main files, with what can be found under src.                           *)
Uses(t) == <<M("m", R("void"), <<Arg("in", t, 0, "x")>>)>>
Class(name) == Ref("a", name, <<>>)
World ==
  (Src("P") :> Source("a", <<Class("Q")>>, <<Parcel("P")>>)) @@ (Src("Q") :> Source("a", <<Class("P")>>, <<Flat("Q")>>))
  @@ (Src("J") :> Source("a", <<Class("P"), Class("Q")>>, <<[Face("interface", "J", Uses(R("P"))) EXCEPT !.oneway = TRUE]>>))
  @@ (Src("Empty") :> Source("a", <<>>, <<>>)) @@ (Src("Bad") :> [Source("a", <<>>, <<Parcel("Bad")>>) EXCEPT !.ok = FALSE])
  @@ (Src("Other") :> Source("a", <<>>, <<Parcel("Another")>>)) @@ (<<"src", "/", "Other", ".aidl">> :> Source("none", <<>>, <<Parcel("Other")>>))
  @@ (Src("Two") :> Source("a", <<>>, <<Parcel("Two"), Parcel("P")>>))
  @@ (Src("Broken") :> [Absent EXCEPT !.is = "java"])
  @@ (<<"src", "/", "java.lang", "/", "Object", ".aidl">> :> Source("java.lang", <<>>, <<Parcel("Object")>>))
Classes == {Class(n) : n \in {"P", "Q", "J", "Empty", "Bad", "Other", "Two", "Broken", "Nowhere"}} \cup {Ref("none", "Other", <<>>)}
I == <<Opt("-I", <<"src">>)>>
Importing ==
  {Build(<<paths \o <<Opt("-a", <<>>), File(IAidl)>> >>,
         World @@ (<<"old", "/">> \o InA("P") :> Source("a", <<>>, <<Flat("P")>>)) @@ (IAidl :> Source("a", classes, <<Face("interface", "I", Uses(R("P")) \o <<M("n", R(c), <<>>)>>)>>)))
   : classes \in {<<x>> : x \in Classes} \cup {<<x, Class("P")>> : x \in Classes} \cup {<<Class("P"), x>> : x \in Classes} \cup {<<Class("P"), Class("J"), Class("Q")>>},
     c \in {"J", "void"}, paths \in {I, <<Opt("-I", <<"old", "/">>)>> \o I}}

Mains == {
  <<>>, <<Parcel("I")>>, <<Face("interface", "I", Uses(R("int")))>>, <<Face("interface", "I", <<>>), Face("rpc", "I2", <<>>)>>,
  <<Parcel("I"), Face("interface", "I", <<>>)>>, <<Face("interface", "I", <<>>), Parcel("K")>>, <<Flat("I"), Parcel("I")>>,
  <<Face("interface", "Object", <<>>)>>, <<Face("rpc", "I", <<M("m", R("void"), <<Arg("out", R("String"), 1, "x")>>)>>)>>}
OptionLists == {
  <<>>, <<Opt("--preprocess", <<>>), File(Pre)>>, <<Opt("-b", <<>>)>>, <<Opt("-b", <<>>), File(IAidl), File(<<"o">>)>>,
  <<Opt("-d", <<>>), File(IAidl)>>, <<Opt("-z", <<>>), File(IAidl)>>, <<File(IAidl), File(<<"o">>), File(<<"o">>)>>, <<File(<<"o">>)>>,
  <<File(<<"longer">>)>>, <<Opt("-d", <<"dep">>), Opt("-o", <<"gen">>), File(IAidl)>>, <<Opt("-a", <<>>), File(<<"/", "w", "/">> \o IAidl)>>,
  <<Opt("-o", <<"gen">>), File(<<"x">> \o IAidl)>>, <<Opt("-p", <<"none">>), File(IAidl)>>}
Optional ==
  {Build(<<o>>, (IAidl :> Source("a", <<>>, m)) @@ (<<"x">> \o IAidl :> Source("none", <<>>, m)) @@ (<<"/", "w", "/">> \o IAidl :> Source("a", <<>>, m)))
   : o \in OptionLists, m \in Mains}

(* Two command lines: what the first has preprocessed the second uses.     *)
Preprocess(fs) == <<Opt("--preprocess", <<>>), File(Pre)>> \o [i \in DOMAIN fs |-> File(fs[i])]
Second == <<Opt("-p", Pre), Opt("-a", <<>>)>> \o I \o <<File(IAidl)>>
Preprocessing ==
  {Build(<<Preprocess(fs), Second>>, World @@ (IAidl :> Source("a", <<Class("P"), Class("Q")>>, <<Face("interface", "I", Uses(R("P")))>>)))
   : fs \in {<<Src("P")>>, <<Src("Q"), Src("J")>>, <<Src("P"), Src("Bad")>>, <<Src("P"), Src("Empty"), Src("Q")>>, <<Src("Nowhere")>>,
             <<Src("J"), Src("Two"), Src("P"), Src("Q")>>}}
  \cup {Build(<<Second>>, World @@ (IAidl :> Source("a", <<>>, <<Face("interface", "I", Uses(R("P")))>>)) @@ (Pre :> Lines(ls)))
        : ls \in {<<Line("//", "none", "none"), Line("parcelable", "a", "P"), Line("none", "none", "none"), Line("interface", "a", "J")>>,
                  <<Line("none", "none", "none"), Line("parcelable", "a", "P")>>, <<Line("parcelable", "a", "P"), Line("class", "a", "K"), Line("interface", "a", "J")>>,
                  <<Line("interface", "a", "I"), Line("parcelable", "a", "P")>>, <<Line("parcelable", "a", "I"), Line("parcelable", "a", "P")>>,
                  <<Line("parcelable", "java.lang", "Object"), Line("parcelable", "a", "P")>>,
                  <<Line("interface", "a", "P"), Line("parcelable", "a", "P")>>, <<Line("parcelable", "a", "P"), Line("interface", "a", "P"), Line("interface", "a", "J")>>}}

MCCwd == <<"/", "w">>
MCShortNames == {<<"o">>}
MCBuilds == Signatures \cup Calling \cup Numbering \cup Importing \cup Optional \cup Preprocessing
=============================================================================
