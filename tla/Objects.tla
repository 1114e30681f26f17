-------------------------------- MODULE Objects --------------------------------
(***************************************************************************)
(* Objects of JavaScript as functions from names, and its arrays.          *)
(***************************************************************************)
EXTENDS SequencesExt

Nothing == [n \in {} |-> 0]
Sole(name, value) == [n \in {name} |-> value]
(* Object.assign(f, new), and the spread {...f, ...new}.                   *)
Over(new, f) ==
  [n \in DOMAIN new \cup DOMAIN f |-> IF n \in DOMAIN new THEN new[n] ELSE f[n]]

IsMap(f) == f = [n \in DOMAIN f |-> f[n]]
IsList(l) == l \in Seq(ToSet(l))
=============================================================================
