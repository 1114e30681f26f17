---------------------------- MODULE MCArchiveBuild ----------------------------
(***************************************************************************)
(* Instances of ArchiveBuild for TLC: two directories with a root recipe   *)
(* "r" each, a shared directory, and a git repository with two revisions;  *)
(* "x" and "y" are recipes to depend on.                                   *)
(***************************************************************************)
EXTENDS ArchiveBuild

MCHeld ==
  [d \in {"a", "b", "shared", "main", "dev"} |->
     CASE d = "a" -> {"r", "x"}
       [] d = "b" -> {"r", "x", "y"}
       [] d = "shared" -> {"x", "y"}
       [] OTHER -> {"y"}]
Directories == DOMAIN MCHeld
Checkouts == {"repo@main", "repo@dev"}
MCUrl == [c \in Checkouts |-> "repo"]

(* "../shared" leads to the shared directory from everywhere else.         *)
MCPlace ==
  [p \in (Directories \X {".", "../shared"}) \cup (Checkouts \X {"recipes"}) |->
     CASE p[2] = "." -> p[1]
       [] p[2] = "../shared" -> "shared"
       [] p = <<"repo@main", "recipes">> -> "main"
       [] OTHER -> "dev"]

MCPacked == {"a", "shared"}

Shared(trusted, propagate) ==
  [Source(FALSE, None, "../shared") EXCEPT !.name = "shared", !.trusted = trusted,
                                           !.propagate = propagate]
Git(checkout, trusted) ==
  [Source(TRUE, checkout, "recipes") EXCEPT !.trusted = trusted, !.cached = TRUE]
CommandLine == [Shared(TRUE, TRUE) EXCEPT !.base = "a"]

On(ids) == [i \in DOMAIN ids |-> [id |-> ids[i], from |-> None]]

(* What the two roots depend on, and what "x" and "y" do.                  *)
RootDeps == {On(<<"x">>), On(<<"y">>), On(<<"x", "y">>), <<[id |-> "x", from |-> "shared"]>>}
MCProjects ==
  {[args |-> args, cli |-> cli,
    own |-> [f \in Files |-> CASE f = <<"a", "r">> -> mine
                           [] f = <<"b", "r">> -> other
                           [] f = <<"shared", "x">> -> deep
                           [] OTHER -> <<>>],
    ignore |-> ignore,
    deps |-> [f \in Files |-> CASE f = <<"a", "r">> -> first
                                [] f = <<"b", "r">> -> On(<<"x">>)
                                [] f[2] = "x" /\ f[1] # "a" -> x
                                [] f[2] = "y" -> y
                                [] OTHER -> <<>>]] :
     args \in {<<<<"a", "r">>>>, <<<<"a", "r">>, <<"a", "r">>>>, <<<<"a", "r">>, <<"b", "r">>>>},
     cli \in {<<>>, <<CommandLine>>},
     mine \in {<<>>, <<Shared(TRUE, TRUE)>>, <<Shared(FALSE, FALSE)>>, <<Git("repo@main", TRUE)>>},
     other \in {<<>>, <<Git("repo@dev", FALSE), Shared(TRUE, TRUE)>>},
     deep \in {<<>>, <<Git("repo@main", TRUE)>>},
     ignore \in {{}, {<<"a", "r">>}},
     first \in RootDeps,
     x \in {<<>>, On(<<"y">>)},
     y \in {<<>>, On(<<"x">>)}}
=============================================================================
