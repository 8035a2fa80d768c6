------------------------------- MODULE MCAnalysis -------------------------------
(***************************************************************************)
(* Projects for Analysis.  A variable x is given a value, changed, also in *)
(* branches and loops and in the file of a directory, and used.  The       *)
(* functions and methods are entries of the tables of libtypenamespace.    *)
(***************************************************************************)
EXTENDS Analysis

\* An argument: its name, and the types it may have.
Pos(name, types) ==
  [name |-> name, types |-> types, optional |-> FALSE, varargs |-> FALSE, keyword |-> FALSE, deprecated |-> {}]
Opt(name, types) == [Pos(name, types) EXCEPT !.optional = TRUE]
Rest(name, types) == [Opt(name, types) EXCEPT !.varargs = TRUE]
Kw(name, types) == [Opt(name, types) EXCEPT !.keyword = TRUE]
Required(name, types) == [Pos(name, types) EXCEPT !.keyword = TRUE]

Entry(owner, name, args, returns) ==
  [owner |-> owner, name |-> name, args |-> args, returns |-> returns, since |-> <<>>, deprecated |-> {}]
Since(entry, v) == [entry EXCEPT !.since = v]

AStr == {T("str")}
AnInt == {T("int")}
ABool == {T("bool")}
AnyType == {T("any")}
Sources == AStr \cup {T("file"), T("build_tgt")}
Printed == {T("str"), T("int"), T("bool"), List({T("bool"), T("int"), T("str")})}

AllFunctions ==
  { Entry("", "project", <<Pos("name", AStr), Rest("language", AStr), Kw("meson_version", AStr)>>, {}),
    Entry("", "executable", <<Pos("target_name", AStr), Rest("source", Sources), Kw("install", ABool)>>, {T("exe")}),
    Entry("", "dependency", <<Rest("name", AStr), Kw("required", ABool \cup {T("feature")})>>, {T("dep")}),
    Entry("", "get_option", <<Pos("option_name", AStr)>>,
          AStr \cup AnInt \cup ABool \cup {T("feature"), List(AStr \cup AnInt \cup ABool)}),
    Entry("", "get_variable", <<Pos("variable_name", AStr), Opt("default", AnyType)>>, Anything),
    Entry("", "set_variable", <<Pos("variable_name", AStr), Pos("value", AnyType)>>, {}),
    Entry("", "is_variable", <<Pos("var", AStr)>>, ABool),
    Entry("", "import", <<Pos("module_name", AStr)>>, {T("module")}),
    Entry("", "files", <<Rest("file", AStr)>>, {List({T("file")})}),
    Entry("", "join_paths", <<Rest("part", AStr)>>, AStr),
    Entry("", "range", <<Opt("start", AnInt), Opt("stop", AnInt), Opt("step", AnInt)>>, {T("range")}),
    Entry("", "message", <<Rest("msg", Printed)>>, {}),
    Entry("", "error", <<Rest("msg", AStr)>>, {}),
    Entry("", "subdir", <<Pos("dir_name", AStr)>>, {}),
    Entry("", "subdir_done", <<>>, {}),
    Since(Entry("", "install_symlink",
                <<Pos("link_name", AStr), Required("install_dir", AStr), Required("pointing_to", AStr)>>, {}),
          <<<<0>>, <<6, 1>>, <<0>>>>) }

AllMethods ==
  << Entry("dep", "found", <<>>, ABool),
     Entry("dep", "version", <<>>, AStr),
     Entry("dict", "get", <<Pos("key", AStr), Opt("fallback", AnyType)>>, Anything),
     Entry("dict", "has_key", <<Pos("key", AStr)>>, ABool),
     Entry("dict", "keys", <<>>, {List(AStr)}),
     Since(Entry("feature", "disable_if", <<Pos("value", ABool)>>, {T("feature")}), <<<<1>>, <<1>>, <<0>>>>),
     Entry("feature", "enabled", <<>>, ABool),
     Entry("build_tgt", "full_path", <<>>, AStr),
     Entry("fs_module", "exists", <<Pos("path", AStr)>>, ABool),
     Entry("fs_module", "is_dir", <<Pos("path", AStr)>>, ABool),
     Entry("int", "is_even", <<>>, ABool),
     Entry("int", "to_string", <<>>, AStr),
     Entry("list", "get", <<Pos("index", AnInt), Opt("fallback", AnyType)>>, Anything),
     Entry("list", "length", <<>>, AnInt),
     Entry("meson", "version", <<>>, AStr),
     Entry("str", "format", <<Rest("value", AStr \cup AnInt \cup ABool \cup {T("file")})>>, AStr),
     Entry("str", "split", <<Opt("split_string", AStr)>>, {List(AStr)}),
     Since(Entry("str", "splitlines", <<>>, {List(AStr)}), <<<<1>>, <<2>>, <<0>>>>),
     Entry("str", "to_upper", <<>>, AStr),
     Entry("str", "version_compare", <<Rest("compare_string", AStr)>>, ABool) >>

Parents == "exe" :> "build_tgt" @@ "build_tgt" :> "tgt"
AllTags ==
  << "list", "dict", "subproject", "any", "bool", "int", "str", "void", "build_tgt", "dep", "exe", "feature",
     "file", "fs_module", "meson", "module", "range", "tgt" >>
AllModules == <<"fs">> :> "fs_module"
AllPaths ==
  <<"d">> :> "dir" @@ <<"e">> :> "dir" @@ <<"d", "/", "g">> :> "dir" @@ <<"d", "/", "f">> :> "file" @@ <<"k">> :> "file"
Capitals == "a" :> "A"
Option(type, values) == [type |-> type, values |-> values, deprecated |-> FALSE]
AllOptions ==
  <<"flag">> :> Option("boolean", {}) @@ <<"dir">> :> Option("combo", {<<"d">>, <<"e">>})
  @@ <<"name">> :> Option("combo", {<<"x">>, <<"y">>})
  @@ <<"feature">> :> Option("feature", {}) @@ <<"list">> :> Option("array", {<<"a">>})
-----------------------------------------------------------------------------
\* Short forms.
S(t) == StringLiteral(<<t>>)
N(n) == IntegerLiteral(n)
X == IdExpression("x")
I == IdExpression("i")
Call1(name, e) == FunctionExpression(name, <<e>>)
On(e, name, args) == MethodExpression(e, name, args)
OptionOf(name) == Call1("get_option", S(name))
Flag == OptionOf("flag")
Let(x, e) == AssignmentStatement(x, "=", e)
More(x, e) == AssignmentStatement(x, "+=", e)
Set(x, e) == FunctionExpression("set_variable", <<S(x), e>>)
Message(e) == Call1("message", e)
Case(c, block) == SelectionStatement(<<c>>, <<block>>)
Cases(c, block, other) == SelectionStatement(<<c>>, <<block, other>>)
For(id, e, block) == IterationStatement(<<id>>, e, block)
ForKeys(k, v, e, block) == IterationStatement(<<k, v>>, e, block)
Array(e) == ArrayLiteral(<<e>>)
Dictionary(e) == DictionaryLiteral(<<KeyValueItem(S("k"), e)>>)
Project(v) == FunctionExpression("project", <<S("p"), KeywordItem("meson_version", StringLiteral(<<">=">> \o v))>>)
Anywhere == Project(<<"1", ".", "2">>)

Family(first, middle, last) ==
  [first |-> first, middle |-> middle, last |-> last, dirs |-> {<<>>}, edits |-> {<<>>}]

Some == { S("a"), N(1), Array(S("a")), Dictionary(N(1)), Flag, OptionOf("feature"), OptionOf("list"),
          FunctionExpression("get_variable", <<S("y"), N(1)>>), ConditionalExpression(Flag, S("a"), N(1)),
          Array(Dictionary(S("a"))), Call1("files", S("f")), Call1("range", N(2)) }
Few == {S("a"), N(1), Array(S("a"))}

\* Ways to give x another value.
Changes(e) ==
  { <<>>, <<Let("x", e)>>, <<Set("x", e)>>, <<More("x", e)>>,
    <<Case(Flag, <<Let("x", e)>>)>>, <<Case(Flag, <<Set("x", e)>>)>>,
    <<Cases(Flag, <<Let("x", e)>>, <<Let("x", N(2))>>)>>,
    <<Cases(Flag, <<Let("x", e)>>, <<Message(S("a"))>>)>>, <<Cases(Flag, <<Let("x", e)>>, <<Let("y", X)>>)>>,
    <<Cases(Flag, <<Let("x", e)>>, <<Case(Flag, <<Let("x", N(2))>>), Let("y", X)>>)>>,
    <<Case(Flag, <<Case(Flag, <<Let("x", e)>>)>>)>>,
    <<Case(Flag, <<Let("x", N(2)), Case(Flag, <<Let("x", e)>>), More("x", e)>>)>>,
    <<For("i", Array(S("b")), <<Case(Flag, <<Let("x", I)>>), Let("y", e)>>)>> }

\* Uses of x that some types allow and others do not.
Uses ==
  { On(X, "to_upper", <<>>), On(X, "length", <<>>), On(X, "enabled", <<>>), On(X, "keys", <<>>),
    BinaryExpression("+", X, S("b")), BinaryExpression("+", X, N(1)), BinaryExpression("-", N(1), X),
    On(X, "get", <<N(0)>>), On(X, "get", <<S("k"), S("d")>>), SubscriptExpression(X, N(0)),
    BinaryExpression("==", X, S("a")), BinaryExpression("in", S("a"), X), UnaryExpression("not", X),
    On(On(X, "to_string", <<>>), "to_upper", <<>>), FunctionExpression("executable", <<S("e"), X>>) }

Typed ==
  Family({<<Anywhere, Let("x", e)>> : e \in Some}, UNION {Changes(e) : e \in {N(1), Array(S("a"))}}, {<<Let("y", u)>> : u \in Uses})

\* Values to iterate over, with one identifier or two.
Iterated ==
  { Array(S("a")), Dictionary(N(1)), Call1("range", N(2)), Array(Dictionary(S("a"))), OptionOf("list"), S("a"),
    FunctionExpression("get_variable", <<S("y"), Array(S("a"))>>), Call1("files", S("f")),
    ConditionalExpression(Flag, Array(S("a")), Array(N(1))), Array(Flag), ArrayLiteral(<<>>) }
Upper(e) == Let("y", On(e, "to_upper", <<>>))
Bodies ==
  { <<Upper(I)>>, <<Let("y", BinaryExpression("+", I, N(1)))>>, <<Let("y", On(I, "get", <<S("k"), N(0)>>))>>,
    <<Case(I, <<Let("x", N(2))>>)>>, <<Let("z", On(I, "full_path", <<>>))>>,
    <<Case(Flag, <<BreakNode>>), Let("x", I), Upper(X)>>,
    <<Case(Flag, <<ContinueNode>>), Set("x", I)>> }
Loops ==
  Family({<<Anywhere, Let("x", e)>> : e \in Iterated},
         {<<For("i", X, b)>> : b \in Bodies} \cup {<<ForKeys("i", "v", X, b)>> : b \in Bodies}
           \cup {<<ForKeys("v", "i", X, b)>> : b \in Bodies},
         {<<>>, <<Upper(I)>>, <<Upper(X)>>})

\* A target that may be used, or not.
Exe == FunctionExpression("executable", <<S("e"), S("f")>>)
Dep == Call1("dependency", S("p"))
D == IdExpression("d")
UsesOfTarget ==
  { X, On(X, "full_path", <<>>), Let("y", X), Let("y", Array(X)), Let("y", FormatString(<<"@x@">>)),
    Let("y", Call1("get_variable", S("x"))), Let("y", DictionaryLiteral(<<KeyValueItem(X, N(1))>>)),
    
    Let("y", DictionaryLiteral(<<KeyValueItem(S("k"), X)>>)), For("i", Array(X), <<Message(S("a"))>>),
    Let("x", X), Let("x", Array(X)), More("x", S("b")), Set("x", X), Set("y", X),
    Let("y", ConditionalExpression(Flag, X, S("a"))), Let("y", BinaryExpression("==", X, X)),
    Case(On(X, "found", <<>>), <<Message(S("a"))>>) }
Targets ==
  { <<Let("x", Exe)>>, <<Let("x", Dep)>>, <<Case(Flag, <<Let("x", Dep)>>)>>,
    <<Cases(Flag, <<Let("x", Dep)>>, <<Let("x", Exe)>>)>>, <<For("i", Array(S("a")), <<Let("x", Dep)>>)>>,
    <<Let("x", Call1("join_paths", S("a")))>>, <<Set("x", Dep)>>, <<Let("x", Dep), Let("x", Exe)>>,
    <<Let("x", Exe), Case(Flag, <<Let("x", Dep), X>>)>> }
Unused ==
  Family({<<Anywhere>>}, Targets,
         {<<>>} \cup {<<r>> : r \in UsesOfTarget} \cup {<<Case(Flag, <<r>>)>> : r \in UsesOfTarget}
           \cup {<<For("i", Array(S("a")), <<r>>)>> : r \in UsesOfTarget}
           \cup {<<r, Let("x", Dep)>> : r \in UsesOfTarget}
           \cup {<<For("i", ArrayLiteral(<<S("a"), S("b")>>), <<r, Let("x", Dep)>>)>> : r \in UsesOfTarget})

\* Names that are texts.
Named(name, args) == FunctionExpression(name, args)
NamedBy(e) == {Named("set_variable", <<e, v>>) : v \in {S("a"), Array(S("a"))}}
Nm == IdExpression("n")
GetX == Named("get_variable", <<S("x")>>)
GetN == Named("get_variable", <<Nm>>)
GetXOr == Named("get_variable", <<S("x"), N(1)>>)
IsX == Named("is_variable", <<S("x")>>)
Names ==
  Family({<<Anywhere, Let("n", S("x"))>>, <<Anywhere, Let("n", OptionOf("name"))>>},
         {<<>>} \cup UNION {{<<s>>, <<Case(Flag, <<s>>)>>, <<For("i", Array(S("a")), <<s>>)>>,
             <<Let("x", N(1)), Case(Flag, <<s>>)>>, <<Let("x", N(1)), s>>,
             <<Cases(Flag, <<s>>, <<Let("x", N(1))>>)>>,
             <<Let("x", N(1)), Cases(Flag, <<s>>, <<Let("y", On(X, "to_string", <<>>))>>)>>,
             <<Let("x", N(1)), Cases(Flag, <<Let("x", S("a"))>>, <<Let("y", On(GetX, "to_string", <<>>))>>)>>,
             <<Cases(Flag, <<s>>, <<Let("y", GetX)>>)>>} : s \in NamedBy(S("x")) \cup NamedBy(Nm)},
         {<<Let("y", e)>> : e \in {GetX, GetXOr, On(GetX, "to_upper", <<>>), On(GetXOr, "to_string", <<>>),
                                   GetN, BinaryExpression("+", GetX, S("a"))}}
         \cup {<<Case(IsX, <<Upper(X)>>)>>, <<Case(BinaryExpression("and", IsX, Flag), <<Upper(X)>>)>>,
               <<Cases(IsX, <<Upper(X)>>, <<Let("x", S("b"))>>), Upper(X)>>,
               <<Case(UnaryExpression("not", IsX), <<Let("x", S("b"))>>), Upper(X)>>,
               <<Case(IsX, <<For("i", X, <<Upper(I)>>)>>)>>, <<Upper(X)>>})

\* Guards on the version of Meson.
MesonVersion == On(IdExpression("meson"), "version", <<>>)
AtLeast(e, v) == On(e, "version_compare", <<StringLiteral(<<">=">> \o v)>>)
V1 == <<"1", ".", "1">>
V2 == <<"1", ".", "2">>
Guards ==
  { AtLeast(MesonVersion, V2), AtLeast(MesonVersion, V1), AtLeast(IdExpression("v"), V2), Flag,
    BinaryExpression("and", Flag, AtLeast(MesonVersion, V2)),
    BinaryExpression("or", AtLeast(MesonVersion, V2), Flag),
    UnaryExpression("not", AtLeast(MesonVersion, V2)),
    On(MesonVersion, "version_compare", <<StringLiteral(<<"<">> \o V2)>>) }
NewCalls ==
  { On(S("a"), "splitlines", <<>>), On(OptionOf("feature"), "disable_if", <<BooleanLiteral(TRUE)>>),
    FunctionExpression("install_symlink",
      <<S("l"), KeywordItem("install_dir", S("d")), KeywordItem("pointing_to", S("f"))>>) }
V == IdExpression("v")
Guarded ==
  Family({<<Project(v), Let("v", MesonVersion)>> : v \in {<<"0", ".", "6", "0">>, <<"1", ".", "0">>, V1}}
           \cup {<<Project(<<"1", ".", "0">>), Let("v", MesonVersion), Let("v", StringLiteral(<<"2">>))>>},
         {<<>>} \cup {<<Case(g, <<Message(S("a"))>>)>> : g \in {AtLeast(MesonVersion, V2)}},
         UNION {{<<c>>, <<Let("y", c)>>} : c \in NewCalls}
         \cup UNION {{<<Case(g, <<c>>)>>, <<Cases(g, <<Message(S("a"))>>, <<c>>)>>,
                     <<Case(Flag, <<Case(g, <<c>>), c>>)>>, <<Case(g, <<For("i", Array(S("a")), <<c>>)>>)>>,
                     <<Case(g, <<Case(AtLeast(MesonVersion, V1), <<c>>), c>>)>>} :
                    g \in Guards, c \in NewCalls})

\* Directories, files and facts about them.
Subdir(e) == Call1("subdir", e)
Done == FunctionExpression("subdir_done", <<>>)
Fs == Call1("import", S("fs"))
Is0(name, path) == On(IdExpression("fs"), name, <<S(path)>>)
Facts ==
  { Is0("exists", "f"), Is0("is_dir", "d"), UnaryExpression("not", Is0("exists", "k")),
    BinaryExpression("and", Is0("exists", "f"), Flag), BinaryExpression("or", Is0("exists", "f"), Flag) }
Inner0 ==
  { <<Let("x", N(1))>>, <<Upper(X)>>, <<Case(Flag, <<Let("x", N(1))>>)>>, <<Let("x", Exe)>>,
    <<Case(Flag, <<Done>>), Let("x", N(1))>>, <<Done, Let("x", N(1))>>, <<Subdir(S("g")), Upper(X)>>,
    <<Let("y", Exe), IdExpression("y")>> }
   \cup {<<Cases(f, <<Let("x", N(1))>>, <<Let("x", Array(S("a")))>>)>> : f \in Facts}
Entered ==
  { Subdir(S("d")), Subdir(S("m")), Subdir(OptionOf("dir")), Case(Flag, <<Subdir(S("d"))>>),
    For("i", Array(S("d")), <<Subdir(I)>>), Cases(Flag, <<Subdir(S("d"))>>, <<Let("x", Array(N(1)))>>) }
Directories ==
  [Family({<<Anywhere, Let("fs", Fs)>>, <<Anywhere, Let("fs", Fs), Let("x", S("a"))>>},
          {<<e>> : e \in Entered},
          {<<Let("y", e)>> : e \in {On(X, "to_upper", <<>>), On(X, "to_string", <<>>)}})
   EXCEPT !.dirs = {<<"d">> :> stmts @@ <<"d", "/", "g">> :> <<Let("x", Dep)>> @@ <<"e">> :> <<Let("x", Flag)>> :
                      stmts \in Inner0}]
Conditional ==
  Family({<<Anywhere, Let("fs", Fs)>>, <<Anywhere, Let("fs", Fs), Let("x", S("a"))>>},
         {<<Cases(f, <<Let("x", N(1))>>, <<Let("x", Array(S("a")))>>)>> : f \in Facts}
           \cup {<<Case(f, <<Let("x", N(1))>>)>> : f \in Facts}
           \cup {<<SelectionStatement(<<Flag, f>>, <<<<Let("x", N(1))>>, <<Let("x", Flag)>>, <<Let("x", Array(S("a")))>>>>)>> :
                    f \in Facts},
         {<<Let("y", e)>> : e \in {On(X, "to_upper", <<>>), On(X, "to_string", <<>>), On(X, "length", <<>>)}})

\* Statements after which nothing, or not what follows, is run.
Stop == Call1("error", S("a"))
Jumps ==
  { <<Case(Flag, <<Stop, Let("x", N(1))>>)>>, <<Cases(Flag, <<Let("x", N(1))>>, <<Stop>>)>>,
    <<For("i", Array(S("a")), <<BreakNode, Upper(X)>>)>>, <<Done>>, <<BreakNode>>, <<ContinueNode>>,
    <<Case(Flag, <<Done>>)>>, <<Case(Flag, <<BreakNode>>)>>,
    <<For("i", ArrayLiteral(<<S("a"), S("b")>>), <<Case(Flag, <<Let("x", I), BreakNode>>)>>)>>,
    <<For("i", ArrayLiteral(<<S("a"), S("b")>>), <<Case(Flag, <<ContinueNode>>), Case(Flag, <<Let("x", N(1))>>)>>)>> }
Stopped == Family({<<Anywhere, Let("x", e)>> : e \in Few}, Jumps, {<<Upper(X)>>, <<Let("y", On(X, "length", <<>>))>>})

\* What an edit leaves, or takes away.
Edited ==
  [Family({<<Anywhere>>}, {<<Let("x", e)>> : e \in Few} \cup {<<Case(Flag, <<Set("x", N(1))>>)>>}, {<<Upper(X)>>})
   EXCEPT !.edits = {<<<<Anywhere>> \o stmts \o <<Let("y", u)>>>> :
      stmts \in {<<>>, <<Let("x", S("a"))>>, <<Case(Flag, <<Let("x", S("a"))>>)>>,
                 <<Cases(Flag, <<Let("x", S("a"))>>, <<Let("y", GetX)>>)>>, <<Case(IsX, <<Upper(X)>>)>>},
      u \in {X, On(X, "to_upper", <<>>), GetXOr}}]

AllProjects == {Typed, Loops, Unused, Names, Guarded, Directories, Conditional, Stopped, Edited}
LoopProjects == {Loops}
AllVersions == {<<0, 60, 0>>, <<1, 0, 0>>, <<1, 1, 0>>, <<1, 2, 0>>}
================================================================================
