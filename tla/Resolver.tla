------------------------------ MODULE Resolver ------------------------------
(***************************************************************************)
(* Reference resolution of lib.rs: `type_ref` (345-367) turns a $ref into  *)
(* a type name, `schema_ref` (385-398) into the node it designates.        *)
(* A $ref is represented by its components split at '/': "#" is <<"#">>,   *)
(* "#/definitions/X" is <<"#", "definitions", "X">>.                       *)
(* A panic is a result whose `err` is not "none".                          *)
(***************************************************************************)
EXTENDS SchemaModel, Sanitizer

CONSTANT RootName   \* the `root_name` given to Expander::new, or None

Ok(n) == [err |-> "none", node |-> n]
Panic(e) == [err |-> e, node |-> Blank]

(* Mutant: the last component used as written, not Pascal cased.          *)
type_ref_unpascaled(s) ==
  LET ref_ == IF s \in {<<"#">>, <<"">>} THEN RootName ELSE Last(s)
  IN IF ref_ = None THEN [err |-> "MissingRootName", name |-> ""]
     ELSE [err |-> "none",
           name |-> replace_numeric_start(replace_invalid_identifier_chars(ref_))]

(***************************************************************************)
(* type_ref: the fragment of the reference (the text after '#', or the     *)
(* whole string when it does not parse as a URI). An empty fragment means  *)
(* the root (root_name.expect panics without one); otherwise the last      *)
(* '/'-component is Pascal cased, its invalid characters replaced and a    *)
(* leading digit prefixed with '_'.                                        *)
(***************************************************************************)
type_ref(s) ==
  LET ref_ == IF s \in {<<"#">>, <<"">>} THEN RootName ELSE Last(s)
  IN IF ref_ = None THEN [err |-> "MissingRootName", name |-> ""]
     ELSE [err |-> "none",
           name |-> replace_numeric_start(
                      replace_invalid_identifier_chars(Pascal(ref_)))]

EndsWithHash(c) == Len(c) > 0 /\ Char(c, Len(c)) = "#"

(***************************************************************************)
(* schema_ref: fold the components from the root. A component ending in    *)
(* '#' goes back to the root, "definitions" is skipped, any other one      *)
(* must name a definition of the current node (else the panic at 395).     *)
(***************************************************************************)
RECURSIVE SchemaRefFrom(_, _, _)
SchemaRefFrom(root, schema, comps) ==
  IF comps = <<>> THEN Ok(schema)
  ELSE LET comp == Head(comps)
       IN IF EndsWithHash(comp) THEN SchemaRefFrom(root, root, Tail(comps))
          ELSE IF comp = "definitions" THEN SchemaRefFrom(root, schema, Tail(comps))
          ELSE IF comp \in DOMAIN schema.definitions
               THEN SchemaRefFrom(root, schema.definitions[comp], Tail(comps))
          ELSE Panic("UnresolvedReference")

schema_ref(root, s) == SchemaRefFrom(root, root, s)
=============================================================================
