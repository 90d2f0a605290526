---------------------------- MODULE SchemaModel ----------------------------
(***************************************************************************)
(* The data the Expander works on: a schema node (the `Schema` struct of   *)
(* schemafy's schema.rs, generated from the draft-4 meta-schema), the type *)
(* expressions the synthesizer builds (`FieldType.typ`, a String in the    *)
(* code), the Pascal casing of the inflector crate and BTreeMap key order. *)
(*                                                                         *)
(* Only the keywords lib.rs reads are kept. `description`, `title` of      *)
(* nested nodes and the validation keywords never influence a type.        *)
(***************************************************************************)
EXTENDS Naturals, SequencesExt

CONSTANTS
  None,       \* an absent Option<_>
  PascalOf,   \* inflector's to_pascal_case on the raw names of the model
  SnakeOf,    \* inflector's to_snake_case on the property names of the model
  NameOrder   \* every property and definition name, in BTreeMap (byte) order

(***************************************************************************)
(* `to_pascal_case`. Names built by the Expander are already Pascal case   *)
(* and are left alone (the MC module assumes PascalOf is idempotent).      *)
(***************************************************************************)
Pascal(s) == IF s \in DOMAIN PascalOf THEN PascalOf[s] ELSE s

(* `to_snake_case`, used for field identifiers; a name outside the table   *)
(* is taken to be snake case already.                                      *)
Snake(s) == IF s \in DOMAIN SnakeOf THEN SnakeOf[s] ELSE s

(* Iteration order of a BTreeMap<String, _> with the keys DOMAIN m.        *)
SortedKeys(m) == SelectSeq(NameOrder, LAMBDA k : k \in DOMAIN m)

(***************************************************************************)
(* A schema node. `type_` keeps its order (the code reads type_[0]).       *)
(* `required` abstracts Option<Vec<String>> to a set (None = {}).          *)
(* `additional_properties: Option<Value>` is split in two: `closed` for    *)
(* Some(false), and `addl` for a sub-schema (a sequence of length 0 or 1). *)
(* `dflt_obj` is `default == Some({})`; `pattern` is a non-empty           *)
(* patternProperties. `ref_` is the $ref string split at '/'.              *)
(***************************************************************************)
Blank ==
  [type_ |-> <<>>, properties |-> <<>>, required |-> {}, items |-> <<>>,
   ref_ |-> None, all_of |-> <<>>, any_of |-> <<>>, one_of |-> <<>>,
   enum_ |-> None, enum_names |-> None, closed |-> FALSE, addl |-> <<>>,
   pattern |-> FALSE, dflt_obj |-> FALSE, id |-> None, definitions |-> <<>>,
   title |-> None]

(* A JSON value inside `enum`: its kind decides the variant it becomes.    *)
EnumValue(kind, val) == [kind |-> kind, val |-> val]

(***************************************************************************)
(* Type expressions. The code builds them as strings ("Option<{}>",        *)
(* "Vec<{}>", "Box<{}>", "::std::collections::BTreeMap<String, {}>"); the  *)
(* model keeps their structure, which is what the string tests read:      *)
(* `starts_with("Option<")` is con = "Option".                             *)
(***************************************************************************)
Prim(p) == [con |-> p, name |-> "", args |-> <<>>]
Named(n) == [con |-> "name", name |-> n, args |-> <<>>]
Wrap(c, t) == [con |-> c, name |-> "", args |-> <<t>>]
Value == Prim("serde_json::Value")

(* The type names a type expression mentions.                              *)
RECURSIVE NamesIn(_)
NamesIn(t) ==
  IF t.con = "name" THEN {t.name}
  ELSE UNION {NamesIn(t.args[i]) : i \in DOMAIN t.args}
=============================================================================
