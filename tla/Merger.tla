------------------------------- MODULE Merger -------------------------------
(***************************************************************************)
(* The effective view of a schema node: `Expander::schema` (369-383) with  *)
(* `merge_all_of` (188-213) and `merge_option` (176-186).                  *)
(* `schema` borrows &self only, so it changes no Expander state; its one   *)
(* hazard is unbounded recursion, modelled as the "StackOverflow" panic    *)
(* once a recursion chain is longer than MaxDepth.                         *)
(***************************************************************************)
EXTENDS Resolver

CONSTANT MaxDepth   \* longest recursion chain before the stack overflows

(* Mutant: a property both have is overwritten by r's instead of merged.   *)
merge_all_of_overwrite(result, r) ==
  [result EXCEPT !.properties = r.properties @@ @,
                 !.ref_ = IF r.ref_ = None THEN @ ELSE r.ref_,
                 !.required = @ \cup r.required,
                 !.type_ = SelectSeq(@, LAMBDA e : e \in ToSet(r.type_))]

(***************************************************************************)
(* merge_all_of(result, r): properties of r are added, and a property both *)
(* have is merged recursively; r's $ref replaces result's; the required    *)
(* lists are concatenated (merge_option); `type` keeps result's entries    *)
(* that r also has, in result's order.                                     *)
(***************************************************************************)
RECURSIVE merge_all_of(_, _)
merge_all_of(result, r) ==
  LET rp == result.properties
      props == [k \in DOMAIN rp \cup DOMAIN r.properties |->
                  IF k \notin DOMAIN rp THEN r.properties[k]
                  ELSE IF k \in DOMAIN r.properties
                       THEN merge_all_of(rp[k], r.properties[k])
                       ELSE rp[k]]
  IN [result EXCEPT !.properties = props,
                    !.ref_ = IF r.ref_ = None THEN @ ELSE r.ref_,
                    !.required = @ \cup r.required,
                    !.type_ = SelectSeq(@, LAMBDA e : e \in ToSet(r.type_))]

(***************************************************************************)
(* schema(node): a $ref is replaced by its target (one step only); then a  *)
(* non-empty allOf is folded: start from schema(all_of[0]) and merge       *)
(* schema(all_of[i]) into it for i = 1, 2, ... The node's own keywords     *)
(* other than $ref and allOf are not part of the fold.                     *)
(***************************************************************************)
RECURSIVE schema(_, _, _), FoldAllOf(_, _, _, _, _)
schema(root, node, d) ==
  IF d > MaxDepth THEN Panic("StackOverflow")
  ELSE LET s == IF node.ref_ = None THEN Ok(node) ELSE schema_ref(root, node.ref_)
       IN IF s.err # "none" \/ s.node.all_of = <<>> THEN s
          ELSE LET first == schema(root, s.node.all_of[1], d + 1)
               IN IF first.err # "none" THEN first
                  ELSE FoldAllOf(root, s.node.all_of, 2, first.node, d)

FoldAllOf(root, all_of, i, acc, d) ==
  IF i > Len(all_of) THEN Ok(acc)
  ELSE LET def == schema(root, all_of[i], d + 1)
       IN IF def.err # "none" THEN def
          ELSE FoldAllOf(root, all_of, i + 1, merge_all_of(acc, def.node), d)
=============================================================================
