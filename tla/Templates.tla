------------------------------- MODULE Templates -------------------------------
(***************************************************************************)
(* Rendering templates (util/tpl/tpl.ts). A variable may hold a template;  *)
(* named in another template it is put into the text as a marker, which is *)
(* rendered when the outer template is done. That a marker is put, and not *)
(* the source of the inner template, depends on one variable of the        *)
(* process, which all renders set and clear; the filters that wait for     *)
(* something let other renders run in between.                             *)
(***************************************************************************)
EXTENDS Naturals, SequencesExt

CONSTANTS
  Renderers,  \* what renders templates: the recipes being run
  MaxRenders  \* how many renders nested in each other fill the memory of the process

VARIABLES
  renderContext,  \* is `Template.#renderContext' set?
  render          \* the renders of each renderer, each nested in the one before

(* A template is a sequence of parts: text, a variable, or a filter that   *)
(* waits; `tpl' is the one that renders a template itself. A cell of an    *)
(* object of variables is [tokens |-> what it reads as] or a template.     *)
IsTemplate(cell) == "parts" \in DOMAIN cell
Tokens(cell) == cell.tokens
Plain(x) == [tokens |-> <<[text |-> x]>>]

-----------------------------------------------------------------------------
(* One render: the template, the part it is at, what it has put out, and   *)
(* the variables; `awaits' a filter, or `ended' and about to be resolved.  *)

NewRender(t, scope) == [template |-> t, part |-> 1, out |-> <<>>, scope |-> scope, at |-> "begin"]

(* toString: the marker of a template, or its source (`by' tells the       *)
(* properties which template was rendered).                                *)
PutCell(cell, by, inContext) ==
  IF IsTemplate(cell) THEN <<IF inContext THEN [mark |-> cell] ELSE [source |-> cell, by |-> by]>>
  ELSE Tokens(cell)

PutPart(part, r, inContext) ==
  CASE part.kind = "text" -> <<[text |-> part.text]>>
    [] part.kind = "var" /\ part.name \in DOMAIN r.scope ->
         PutCell(r.scope[part.name], r.template, inContext)
    [] part.kind = "var" /\ part.name \notin DOMAIN r.scope -> <<>>
    [] OTHER -> <<[text |-> "filtered"]>>

(* The parts up to the next filter that waits, at once.                    *)
Waits(r) == {i \in r.part .. Len(r.template.parts) : r.template.parts[i].kind = "async"}
Stop(r) == IF Waits(r) = {} THEN Len(r.template.parts) + 1
           ELSE CHOOSE i \in Waits(r) : \A k \in Waits(r) : i <= k
Puts(r, inContext) ==
  FlattenSeq([i \in 1 .. Stop(r) - r.part |->
                PutPart(r.template.parts[r.part + i - 1], r, inContext)])
Advance(r, inContext) ==
  [r EXCEPT !.out = @ \o Puts(r, inContext), !.part = Stop(r),
            !.at = IF Waits(r) = {} THEN "rendered" ELSE "awaits"]

Top(p) == Last(render[p])
At(p, state) == render[p] # <<>> /\ Top(p).at = state
SetTop(p, r) == render' = [render EXCEPT ![p] = Append(Front(@), r)]

(* Mutant of BeginRender: something is awaited before the template is run. *)
BeginRenderLater(p) ==
  \/ /\ At(p, "begin")
     /\ renderContext' = TRUE
     /\ SetTop(p, [Top(p) EXCEPT !.at = "late"])
  \/ /\ At(p, "late")
     /\ SetTop(p, Advance(Top(p), renderContext))
     /\ UNCHANGED renderContext

(* Template.render: the context is set and the template run.               *)
BeginRender(p) ==
  /\ At(p, "begin")
  /\ renderContext' = TRUE
  /\ SetTop(p, Advance(Top(p), TRUE))

(* The filter is done: `tpl' has cleared the context, with its own render. *)
Filtered(p) ==
  /\ At(p, "awaits")
  /\ LET part == Top(p).template.parts[Top(p).part]
         r == [Top(p) EXCEPT !.out = @ \o PutPart(part, Top(p), FALSE), !.part = @ + 1]
     IN /\ renderContext' = (renderContext /\ ~part.tpl)
        /\ SetTop(p, Advance(r, renderContext'))

(* The callback of nunjucks comes later, and `finally' clears the context. *)
EndRender(p) ==
  /\ At(p, "rendered")
  /\ renderContext' = FALSE
  /\ SetTop(p, [Top(p) EXCEPT !.at = "ended"])

(* Markers are replaced one by one, what replaces them is not looked at;   *)
(* the expression that finds them does not match over lines.               *)
Marks(r) == {i \in DOMAIN r.out : "mark" \in DOMAIN r.out[i] /\ r.out[i].mark.oneLine}
FirstMark(r) == CHOOSE i \in Marks(r) : \A k \in Marks(r) : i <= k

(* Mutant of Replaced: the text with the result is not kept, and is looked *)
(* through from the start.                                                 *)
ReplacedNot(r, out) == r

Replaced(r, out) == [r EXCEPT !.out = SubSeq(@, 1, FirstMark(r) - 1) \o out \o SubSeq(@, FirstMark(r) + 1, Len(@))]

Nests(p) == At(p, "ended") /\ Marks(Top(p)) # {}
HeapIsFull(p) == Nests(p) /\ Len(render[p]) = MaxRenders

ResolveMark(p) ==
  /\ Nests(p) /\ ~HeapIsFull(p)
  /\ render' = [render EXCEPT ![p] =
       Append(@, NewRender(Top(p).out[FirstMark(Top(p))].mark, Top(p).scope))]
  /\ UNCHANGED renderContext

Resolved(p) == At(p, "ended") /\ Marks(Top(p)) = {}

Return(p) ==
  /\ Resolved(p) /\ Len(render[p]) > 1
  /\ render' = [render EXCEPT ![p] =
       Append(SubSeq(@, 1, Len(@) - 2), Replaced(@[Len(@) - 1], Top(p).out))]
  /\ UNCHANGED renderContext

(* A filter fails; the render in progress clears the context, and all it is*)
(* nested in end with it.                                                  *)
FilterFails(p) ==
  /\ At(p, "awaits")
  /\ renderContext' = FALSE
  /\ render' = [render EXCEPT ![p] = <<>>]

RenderStep(p) ==
  BeginRender(p) \/ Filtered(p) \/ EndRender(p) \/ ResolveMark(p) \/ Return(p)

-----------------------------------------------------------------------------
(* No variable of the template comes after a filter that waits.            *)
Tame(t) ==
  \A i, k \in DOMAIN t.parts : t.parts[i].kind = "async" /\ t.parts[k].kind = "var" => k < i
=============================================================================
