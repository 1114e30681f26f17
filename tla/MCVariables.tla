------------------------------ MODULE MCVariables ------------------------------
(***************************************************************************)
(* An inventory for TLC with a host written in it, whose variables come    *)
(* from any two of eight sources, and a host from one of six lists of host *)
(* sources, one of which is not there; two groups, and the group of all.   *)
(***************************************************************************)
EXTENDS Variables

T(x) == [text |-> x]

MCDisk ==
     <<"db", ".yml">>   :> [raw |-> T("yml"), parsed |-> Object("a" :> T("db") @@ "b" :> T("db"))]
  @@ <<"db", ".json">>  :> [raw |-> T("json"), parsed |-> Object("a" :> T("json"))]
  @@ <<"h2", ".yaml">>  :> [raw |-> T("h2"), parsed |-> Object("c" :> T("h2"))]
  @@ <<"note", ".txt">> :> [raw |-> T("note"), parsed |-> T("note")]
MCFileOrder == <<<<"db", ".json">>, <<"db", ".yml">>, <<"h2", ".yaml">>>>

MCRemote ==
     <<"u">>         :> Object("a" :> T("u") @@ "sub" :> Object("b" :> T("u")))
  @@ <<"h">>         :> [ids |-> {"x", "h2"}, entries |-> [x |-> Object("a" :> T("x")), h2 |-> Object("a" :> T("y") @@ "b" :> T("y"))]]
  @@ <<"h", "x">>    :> Object("a" :> T("x1"))
  @@ <<"h", "h2">>   :> Object("b" :> T("y1"))

File(p, flat) == [kind |-> "file", path |-> p, flatten |-> flat]
Http(part) == [kind |-> "http", url |-> <<"u">>, select |-> part, flatten |-> FALSE]
Glob(flat) == [kind |-> "glob", matches |-> {<<"db", ".yml">>, <<"h2", ".yaml">>}, flatten |-> flat]
HttpList(each, flat) == [kind |-> "httpList", url |-> <<"h">>, each |-> each, flatten |-> flat]

Sources ==
  {File(<<"db", "">>, FALSE), File(<<"db", ".json">>, TRUE), File(<<"note", ".txt">>, FALSE),
   [kind |-> "fileRaw", path |-> <<"note", ".txt">>, flatten |-> FALSE],
   Http("sub"), Glob(FALSE), HttpList(FALSE, TRUE), HttpList(TRUE, FALSE)}

RawHost == [kind |-> "raw", hosts |-> [h2 |-> Object("a" :> T("raw"))]]
HostSources ==
  {<<RawHost>>, <<HttpList(FALSE, FALSE)>>, <<HttpList(TRUE, FALSE)>>,
   <<[kind |-> "file", path |-> <<"h2", "">>], RawHost>>,
   <<RawHost, [kind |-> "httpList", url |-> <<"gone">>, each |-> TRUE, flatten |-> FALSE]>>,
   <<[kind |-> "glob", matches |-> {<<"h2", ".yaml">>}]>>}

MCInventories ==
  {[inventory |-> [vars |-> "a" :> T("inv") @@ "i" :> T("inv") @@ "e" :> T("inv")
                            @@ "assetsDir" :> T("inv"),
                  sources |-> <<Http("sub")>>],
    recipe |-> [vars |-> "r" :> T("recipe"), sources |-> <<Http("all")>>, assets |-> TRUE,
                load |-> <<File(<<"h2", ".yaml">>, FALSE)>>,
                groupVars |-> "all" :> ("b" :> T("ra") @@ "l" :> T("ra"))
                  @@ "g" :> ("r" :> T("rg") @@ "c" :> T("rg") @@ "f" :> T("rg")) @@ "k" :> ("r" :> T("rk")),
                hostVars |-> "h1" :> ("d" :> T("rh")) @@ "h2" :> ("r" :> T("rh2"))],
    hosts |-> [h1 |-> [vars |-> "a" :> T("h1") @@ "d" :> T("h1") @@ "f" :> T("h1"), sources |-> sources]],
    hostSources |-> hostSources,
    groups |-> "g" :> [vars |-> "b" :> T("g") @@ "c" :> T("g") @@ "i" :> T("g"),
                       sources |-> <<Glob(TRUE)>>, members |-> {"h1"}]
      @@ "k" :> [vars |-> "i" :> T("k"), sources |-> <<>>, members |-> {"h2"}]
      @@ "all" :> [vars |-> "i" :> T("all") @@ "e" :> T("all") @@ "l" :> T("all"), sources |-> <<>>, members |-> {}],
    order |-> <<"all", "g", "k">>,
    related |-> "h1" :> <<"h1">> @@ "h2" :> <<"h2", "h1">>] :
     sources \in {<<>>} \cup {<<s>> : s \in Sources} \cup {<<s, t>> : s, t \in Sources},
     hostSources \in HostSources}
=============================================================================
