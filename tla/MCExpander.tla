----------------------------- MODULE MCExpander -----------------------------
(***************************************************************************)
(* Expander over every document of a small grammar: a root object titled  *)
(* "Root" with properties `a` and `aB`, and definitions `leaf` and `node`. *)
(* The property values cover each branch of expand_type_: $ref to a       *)
(* definition and to the root, nullable pair, inline objects (nested two   *)
(* deep), arrays of leaves and of inline objects, oneOf with a $ref and an *)
(* inline variant, the one-or-many anyOf, and a map.                       *)
(***************************************************************************)
EXTENDS Expander

MCPascalOf ==
  ("a" :> "A") @@ ("b" :> "B") @@ ("aB" :> "Ab") @@ ("leaf" :> "Leaf")
  @@ ("node" :> "Node") @@ ("x" :> "X") @@ ("+" :> "") @@ ("-" :> "")
  @@ ("a-b" :> "AB") @@ ("a_b" :> "AB") @@ ("1a" :> "1a") @@ ("op" :> "Op")
  @@ ("cyc" :> "Cyc")
MCSnakeOf == ("aB" :> "a_b") @@ ("a-b" :> "a_b")
MCNameOrder ==
  <<"+", "-", "1a", "a", "a-b", "aB", "a_b", "b", "cyc", "leaf", "node", "op">>

Str == [Blank EXCEPT !.type_ = <<"string">>]
OptInt == [Blank EXCEPT !.type_ = <<"integer", "null">>]
RefTo(n) == [Blank EXCEPT !.ref_ = <<"#", "definitions", n>>]
RefRoot == [Blank EXCEPT !.ref_ = <<"#">>]
Obj(props, req) ==
  [Blank EXCEPT !.type_ = <<"object">>, !.properties = props, !.required = req]
Arr(item) == [Blank EXCEPT !.type_ = <<"array">>, !.items = <<item>>]
OneOf(x, y) == [Blank EXCEPT !.one_of = <<x, y>>]
OneOrMany(x) == [Blank EXCEPT !.any_of = <<x, Arr(x)>>]
MapOf(v) == [Blank EXCEPT !.type_ = <<"object">>, !.addl = <<v>>]
StrEnum(vals) == [Str EXCEPT !.enum_ = vals]

Leaves == {Str, OptInt, RefTo("node"), RefRoot}

FieldValues ==
  Leaves
  \cup {Obj("b" :> l, r) : l \in Leaves, r \in {{}, {"b"}}}
  \cup {Arr(l) : l \in Leaves} \cup {Arr(Obj("b" :> Str, {}))}
  \cup {Obj("b" :> Obj("b" :> Str, {}), {})}
  \cup {OneOf(RefTo("node"), Obj("b" :> Str, {})),
        OneOf(Obj("b" :> RefTo("node"), {"b"}), Str)}
  \cup {OneOrMany(Str), OneOrMany(RefTo("node")), MapOf(RefTo("node"))}
  \cup {[Blank EXCEPT !.any_of = <<Str, OptInt>>], [MapOf(Str) EXCEPT !.dflt_obj = TRUE]}

(* `a` takes any field value; `aB` (Pascal "Ab") a few, next to `a`.     *)
RootProperties ==
  {<<>>} \cup {"a" :> v : v \in FieldValues}
  \cup {("a" :> v) @@ ("aB" :> w) : v \in FieldValues,
                                    w \in {Obj("b" :> Str, {}), RefTo("node")}}

RootObjects ==
  {Obj(p, r \cap DOMAIN p) : p \in RootProperties, r \in {{}, {"a"}, {"a", "aB"}}}

NodeDefs ==
  {Obj("a" :> RefTo("node"), {"a"}),
   Obj("a" :> RefTo("node"), {}),
   Obj("b" :> OneOrMany(Str), {}),
   Arr(Obj("a" :> Str, {})),
   OneOf(RefTo("leaf"), Obj("b" :> Str, {})),
   StrEnum(<<EnumValue("string", "x"), EnumValue("null", "")>>),
   [Obj("a" :> [Blank EXCEPT !.ref_ = <<"#", "definitions", "node",
                                        "definitions", "leaf">>], {"a"})
      EXCEPT !.definitions = "leaf" :> Str]}

LeafDefs == {Str, Obj("b" :> Str, {"b"})}

Definitions ==
  {<<>>} \cup {"node" :> n : n \in NodeDefs}
  \cup {("leaf" :> l) @@ ("node" :> n) : l \in LeafDefs, n \in NodeDefs}

MCDocs ==
  {[r EXCEPT !.title = "Root", !.definitions = defs] : r \in RootObjects,
                                                      defs \in Definitions}

Titled(doc) == [doc EXCEPT !.title = "Root"]

(* Members whose identifiers collide: fields "a-b" and "a_b", and a string *)
(* enum of operator symbols, which Pascal case to the empty string.       *)
MCDocsMembers ==
  {Titled(Obj(("a-b" :> Str) @@ ("a_b" :> Str), {})),
   Titled([Obj("a" :> RefTo("op"), {"a"}) EXCEPT !.definitions =
             "op" :> StrEnum(<<EnumValue("string", "+"), EnumValue("string", "-")>>)])}

(* anyOf whose second branch is an array without `items`.                  *)
MCDocsAnyOf ==
  {Titled(Obj("a" :> [Blank EXCEPT !.any_of =
                        <<Str, [Blank EXCEPT !.type_ = <<"array">>]>>], {}))}

(* A definition whose name starts with a digit, used through a $ref.       *)
MCDocsDigit ==
  {Titled([Obj("a" :> RefTo("1a"), {}) EXCEPT !.definitions = "1a" :> Obj("b" :> Str, {})])}

(* A definition whose allOf reaches itself through $ref.                   *)
MCDocsCycle ==
  {Titled([Obj("a" :> RefTo("cyc"), {}) EXCEPT !.definitions =
             "cyc" :> [Blank EXCEPT !.all_of = <<RefTo("cyc")>>]])}

(* A oneOf branch whose `id` is not an identifier.                         *)
MCDocsVariantId ==
  {Titled([Obj("a" :> OneOf([RefTo("leaf") EXCEPT !.id = "a-b"], RefTo("leaf")), {})
             EXCEPT !.definitions = "leaf" :> Str])}

(* A struct that holds itself through an inline object: Root.a : RootA,   *)
(* RootA.b : Root, both required.                                          *)
MCDocsSize == {Titled(Obj("a" :> Obj("b" :> RefRoot, {"b"}), {"a"}))}

ASSUME \A n \in DOMAIN MCPascalOf : Pascal(Pascal(n)) = Pascal(n)
=============================================================================
