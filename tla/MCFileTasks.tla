---------------------------- MODULE MCFileTasks ----------------------------
(* A host with two directories and a cache, and recipes that write, copy,    *)
(* remove and download into them.                                            *)
EXTENDS FileTasks

d == <<"d">>
e == <<"e">>
MCPaths ==
  {Tmp, Temp, d, e, <<"d", "f">>, <<"d", "g">>, <<"e", "s">>, <<"e", "s", "f">>,
   <<"n">>, <<"n", "node">>, <<"n", "esbuild">>}

f == <<"f">>
g == <<"g">>
sf == <<"s", "f">>
MCAssets == f :> "new" @@ g :> "other" @@ sf :> "deep"
MCRendered == "new" :> "new rendered" @@ "other" :> "other rendered" @@ "deep" :> "deep rendered"
MCZipped == <<[path |-> <<"s">>, holds |-> Dir], [path |-> sf, holds |-> "deep"]>>

WriteTo(p, c) == [module |-> "write", path |-> p, content |-> c]
CopyOne(n, to, slash, template) ==
  [module |-> "copy", from |-> n, to |-> to, slash |-> slash, template |-> template]
CopyAll(files, to, template) ==
  [module |-> "copyGlob", files |-> files, to |-> to, template |-> template]
Delete(ps, force, recursive) ==
  [module |-> "rm", paths |-> ps, force |-> force, recursive |-> recursive]
DeleteFiles(p) == [module |-> "rmGlob", under |-> p]
MakeDir(p, recursive) == [module |-> "mkdir", path |-> p, recursive |-> recursive]
Look(p, throw) == [module |-> "stat", path |-> p, throw |-> throw]
Get(dest, extract) ==
  [module |-> "download", dest |-> dest, extract |-> extract, content |-> "new"]
Tool(m, p) == [module |-> m, path |-> p, content |-> "program"]

MCRecipes == {
  <<MakeDir(d, TRUE), WriteTo(<<"d", "f">>, "new"), CopyOne(g, d, TRUE, {}), Look(d, TRUE)>>,
  <<CopyOne(f, <<"d", "f">>, FALSE, All), WriteTo(<<"d", "f">>, "old"), Look(d, TRUE)>>,
  <<Delete(<<d, e>>, TRUE, TRUE), CopyAll(<<f, g>>, d, {f}), CopyAll(<<sf>>, e, {})>>,
  <<Get(e, "tar"), DeleteFiles(d), WriteTo(<<"e", "s", "f">>, "old")>>,
  <<Get(e, "zip"), [module |-> "temp"], Look(<<"e", "s", "f">>, TRUE)>>,
  <<MakeDir(d, FALSE), Get(<<"d", "f">>, "none"), Delete(<<<<"d", "f">>>>, FALSE, FALSE)>>,
  <<Tool("node", <<"n", "node">>), Tool("esbuild", <<"n", "esbuild">>)>> ,
  <<Tool("esbuild", <<"n", "esbuild">>), CopyOne(g, e, FALSE, {})>>}

Empty == [p \in MCPaths |-> Absent]
Used == [p \in MCPaths |->
           CASE p \in {d, e, <<"n">>} -> Dir
             [] p = <<"d", "f">> -> "old"
             [] p = <<"d", "g">> -> "other"
             [] p = <<"n", "node">> -> "program"
             [] OTHER -> Absent]
MCTrees == {Empty, Used}
=============================================================================
