---------------------------- MODULE MCHostArchive ----------------------------
(***************************************************************************)
(* Instances of HostArchive for TLC: two groups, three hosts the provider  *)
(* knows and one it does not, and two recipes.  "w*" matches the group     *)
(* `web' as well as hosts, "w?" hosts only.                                *)
(***************************************************************************)
EXTENDS HostArchive

MCHostIds == {"w1", "w9", "d1", "d2"}
MCGroups == {"web", "db"}
MCGlobs == {"w*", "w?"}
MCMatched == [g \in MCGlobs |-> IF g = "w*" THEN {"w1", "w9", "web"} ELSE {"w1", "w9"}]

Alphabet == <<"all", "d1", "d2", "db", "grouped", "ungrouped", "w*", "w?", "w1", "w9", "web">>
MCRank == [n \in ToSet(Alphabet) |-> CHOOSE i \in DOMAIN Alphabet : Alphabet[i] = n]

One(n) == <<Plain(n)>>
Less(m, n) == <<[mod |-> "!", name |-> n], Plain(m)>>
Both(m, n) == <<[mod |-> "&", name |-> m], Plain(n)>>

(* Flat groups, groups named by a group, by a glob, by exclusion.          *)
WebEntries == {<<One("w?")>>, <<One("w1"), One("d1")>>, <<One("w*")>>}
DbEntries == {<<One("d1")>>, <<One("web")>>, <<One("w*")>>, <<Less("all", "web")>>}

NoRelations == [x \in MCHostIds \cup MCGroups |-> <<>>]
GroupRelations == [NoRelations EXCEPT !["d1"] = <<One("web")>>, !["web"] = <<<<>>, One("db")>>]
HostRelations == [NoRelations EXCEPT !["w1"] = <<One("d1")>>, !["d1"] = <<One("d2")>>,
                                     !["db"] = <<One("w*")>>]

MCInventories ==
  {[groups |-> gs, pattern |-> [g \in MCGroups |-> IF g = "web" THEN w ELSE d],
    relations |-> rs, static |-> IF rs = NoRelations THEN {"d1"} ELSE {},
    sourced |-> IF rs = NoRelations THEN {"w1", "d2"} ELSE {"w1", "d1", "d2"}] :
     gs \in {<<"web", "db">>, <<"db", "web">>}, w \in WebEntries, d \in DbEntries,
     rs \in {NoRelations, GroupRelations, HostRelations}}

Targets == {One("web"), One("db"), One("w*"), One("grouped"), Less("all", "db"),
            Both("web", "w*"), One("ungrouped"), <<Plain("db"), Plain("w1")>>}
MCArchives ==
  {<<[targets |-> t, others |-> <<>>], [targets |-> u, others |-> <<One("db")>>]>> :
     t \in {One("web"), One("w1"), Less("all", "db")}, u \in Targets}
=============================================================================
