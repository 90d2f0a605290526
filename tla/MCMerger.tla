------------------------------ MODULE MCMerger ------------------------------
(***************************************************************************)
(* Expander::schema on a root whose allOf has one to three branches, each  *)
(* an inline fragment or a $ref to the definition `x`. The fragments       *)
(* overlap on property `a` (so nested properties are merged), on          *)
(* `required` and on `type`.                                               *)
(***************************************************************************)
EXTENDS Merger

CONSTANT NoView   \* the view before the call

VARIABLES doc, view

MCPascalOf == ("a" :> "A") @@ ("b" :> "B") @@ ("c" :> "C") @@ ("x" :> "X")
MCNameOrder == <<"a", "b", "c", "x">>
MCSnakeOf == <<>>

Str == [Blank EXCEPT !.type_ = <<"string">>]
Obj(props, req) ==
  [Blank EXCEPT !.type_ = <<"object">>, !.properties = props, !.required = req]

Fragments ==
  {Obj("a" :> Str, {"a"}),
   Obj("b" :> Str, {"b"}),
   [Blank EXCEPT !.type_ = <<"object", "null">>],
   [Blank EXCEPT !.ref_ = <<"#", "definitions", "x">>],
   Obj("a" :> [Blank EXCEPT !.required = {"c"}], {})}

DefX == Obj("a" :> Obj("c" :> Str, {}), {"a"})

AllOfDocs ==
  {[Blank EXCEPT !.all_of = bs, !.definitions = "x" :> DefX, !.title = "Root"] :
     bs \in UNION {[1..n -> Fragments] : n \in 1..3}}

(* The document is parsed; nothing has been resolved yet.                  *)
Init == doc \in AllOfDocs /\ view = NoView

(* The call schema(root) that expand_fields makes (lib.rs 262).            *)
Resolve ==
  /\ view = NoView
  /\ view' = schema(doc, doc, 0)
  /\ UNCHANGED doc

Spec == Init /\ [][Resolve]_<<doc, view>>

(***************************************************************************)
(* Refinement: Expander::schema, the allOf fold with merge_all_of,         *)
(* implements the declarative effective view of spec section 4.2. The     *)
(* mapping reads the view the call returned through the abstract View     *)
(* projection; before the call both sides are pending.                     *)
(***************************************************************************)
EV == INSTANCE EffectiveView WITH Docs <- AllOfDocs, Pending <- NoView, eff <- NoView
Abstract == INSTANCE EffectiveView
              WITH Docs <- AllOfDocs, Pending <- NoView,
                   eff <- IF view = NoView THEN NoView ELSE EV!View(view.node)
ImplementsEffectiveView == Abstract!Spec
=============================================================================
