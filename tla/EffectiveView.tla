---------------------------- MODULE EffectiveView ----------------------------
(***************************************************************************)
(* What the Composition Merger promises (spec section 4.2), stated without *)
(* the fold: the effective view of a node is its $ref target's, and for a  *)
(* non-empty allOf the composition of its branches' effective views.      *)
(* Composition is defined over the whole branch sequence at once: a        *)
(* property is the composition of the branches that have it, `required`    *)
(* is the union, the type set the intersection and $ref the last given.   *)
(* A view keeps what section 4.2 speaks about: properties, required, the   *)
(* type set and $ref.                                                      *)
(***************************************************************************)
EXTENDS Resolver

CONSTANTS
  Docs,      \* the documents whose root is resolved
  Pending    \* the view before it is computed

VARIABLES doc, eff

(* The view of a node as written, properties included.                     *)
RECURSIVE View(_)
View(n) ==
  [props |-> [k \in DOMAIN n.properties |-> View(n.properties[k])],
   required |-> n.required, types |-> ToSet(n.type_), ref |-> n.ref_]

(* The views of property k in the views vs that have it, in order.         *)
PropViews(vs, k) ==
  LET h == SelectSeq(vs, LAMBDA v : k \in DOMAIN v.props)
  IN [i \in DOMAIN h |-> h[i].props[k]]

RECURSIVE Compose(_)
Compose(vs) ==
  LET idx == DOMAIN vs
      given == {i \in idx : vs[i].ref # None}
  IN [props |-> [k \in UNION {DOMAIN vs[i].props : i \in idx} |-> Compose(PropViews(vs, k))],
      required |-> UNION {vs[i].required : i \in idx},
      types |-> {t \in vs[1].types : \A i \in idx : t \in vs[i].types},
      ref |-> IF given = {} THEN None ELSE vs[Max(given)].ref]

RECURSIVE Effective(_, _)
Effective(root, n) ==
  LET m == IF n.ref_ = None THEN n ELSE schema_ref(root, n.ref_).node
  IN IF m.all_of = <<>> THEN View(m)
     ELSE Compose([i \in DOMAIN m.all_of |-> Effective(root, m.all_of[i])])

Init == doc \in Docs /\ eff = Pending

(* The effective view of the document's root is computed.                  *)
Compute ==
  /\ eff = Pending
  /\ eff' = Effective(doc, doc)
  /\ UNCHANGED doc

Spec == Init /\ [][Compute]_<<doc, eff>>
=============================================================================
