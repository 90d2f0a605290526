------------------------------ MODULE Expander ------------------------------
(***************************************************************************)
(* The Expander of lib.rs: type synthesizer (expand_type, expand_type_,    *)
(* expand_one_of), declaration emitter (expand_fields, expand_definitions, *)
(* expand_schema) and registry (`types`, expand).                          *)
(*                                                                         *)
(* Every method taking &mut self is an operator that takes the Expander's  *)
(* fields as a record st = [root, ct, cf, types, err] and returns the      *)
(* fields after the call, so a recursive call sees exactly what its caller *)
(* left in current_type (ct) and current_field (cf). `err` is the first    *)
(* panic; once it is set every operator returns st unchanged.              *)
(* `d` is the recursion depth, bounded by MaxDepth.                        *)
(***************************************************************************)
EXTENDS Merger, TLC

CONSTANT Docs   \* the schema documents Expander::new may be given

VARIABLES
  root,            \* Expander.root: the document, read-only
  types,           \* Expander.types: <<name, declaration>> in push order
  current_type,    \* Expander.current_type
  current_field,   \* Expander.current_field
  status           \* "idle" before expand, "done" after, else the panic

vars == <<root, types, current_type, current_field, status>>

(* The token stream one registry entry holds; kind "empty" is the empty    *)
(* TokenStream of a suppressed self alias.                                 *)
Decl(kind, name) ==
  [kind |-> kind, name |-> name, fields |-> <<>>, default |-> FALSE,
   deny |-> FALSE, optional |-> FALSE, repr |-> FALSE, variants |-> <<>>,
   target |-> Prim("()"), rename |-> <<>>]
NoDecl == Decl("empty", "")

FieldType(t, attrs, dflt) == [typ |-> t, attributes |-> attrs, default |-> dflt]
Untyped == FieldType(Value, {}, FALSE)

Fail(st, e) == IF st.err # "none" THEN st ELSE [st EXCEPT !.err = e]
push(st, name, decl) ==
  IF st.err # "none" THEN st ELSE [st EXCEPT !.types = Append(@, <<name, decl>>)]

(***************************************************************************)
(* The anyOf heuristic (421-427): "yes" when the second branch's effective *)
(* view is an array whose first item has the same effective view as the   *)
(* first branch, "no" otherwise, or the panic met on the way; an array     *)
(* without items panics on `array.items[0]`.                               *)
(***************************************************************************)
(* Mutant: the items test made before the array type test.                 *)
one_or_many_items_first(doc, any_of) ==
  LET simple == schema(doc, any_of[1], 0)
      array == schema(doc, any_of[2], 0)
  IN IF simple.err # "none" THEN simple.err
     ELSE IF array.err # "none" THEN array.err
     ELSE IF array.node.items = <<>> THEN "IndexOutOfBounds"
     ELSE IF array.node.type_ = <<>> \/ array.node.type_[1] # "array" THEN "no"
     ELSE LET item == schema(doc, array.node.items[1], 0)
          IN IF item.err # "none" THEN item.err
             ELSE IF simple.node = item.node THEN "yes" ELSE "no"

one_or_many(doc, any_of) ==
  LET simple == schema(doc, any_of[1], 0)
      array == schema(doc, any_of[2], 0)
  IN IF simple.err # "none" THEN simple.err
     ELSE IF array.err # "none" THEN array.err
     ELSE IF array.node.type_ = <<>> \/ array.node.type_[1] # "array" THEN "no"
     ELSE IF array.node.items = <<>> THEN "IndexOutOfBounds"
     ELSE LET item == schema(doc, array.node.items[1], 0)
          IN IF item.err # "none" THEN item.err
             ELSE IF simple.node = item.node THEN "yes" ELSE "no"

(***************************************************************************)
(* `to_pascal_case` of the text of a type (404): the code compares the     *)
(* Pascal case of the whole string, so "Vec<String>" reads "VecString" and *)
(* "Option<Node>" reads "OptionNode". Separators vanish and every word is  *)
(* capitalised. The map's text gets one fixed word, which no name of the   *)
(* documents checked comes near.                                           *)
(***************************************************************************)
PrimText ==
  ("String" :> "String") @@ ("i64" :> "I64") @@ ("bool" :> "Bool")
  @@ ("f64" :> "F64") @@ ("serde_json::Value" :> "SerdeJsonValue") @@ ("()" :> "")
WrapperText ==
  ("Vec" :> "Vec") @@ ("Option" :> "Option") @@ ("Box" :> "Box")
  @@ ("Map" :> "StdCollectionsBtreeMapString")
RECURSIVE PascalType(_)
PascalType(t) ==
  CASE t.con = "name" -> Pascal(t.name)
    [] t.con \in DOMAIN PrimText -> PrimText[t.con]
    [] OTHER -> WrapperText[t.con] \o PascalType(t.args[1])

(* Mutant: the raw enclosing name compared with the type, not Pascal cased. *)
self_referential_raw(type_name, t) == t.con = "name" /\ type_name = t.name

(* The test of expand_type 404: the enclosing type's name and the type's   *)
(* text are equal after Pascal casing.                                     *)
self_referential(type_name, t) == Pascal(type_name) = PascalType(t)

(***************************************************************************)
(* field (154-174): the identifier of a struct field and the serde renames *)
(* put before it. A name str_to_ident changes is renamed by                *)
(* rename_keyword; a name already in snake case is used as is; any other   *)
(* is snake cased and sanitized ("underscore" when nothing is left).       *)
(***************************************************************************)
(* Mutant: a snake-cased identifier emitted without the rename.            *)
field_unrenamed(s) ==
  LET k == rename_keyword(s)
  IN IF k.some THEN [ident |-> k.ident, renames |-> <<s>>]
     ELSE [ident |-> IF Snake(s) = "" THEN "underscore" ELSE str_to_ident(Snake(s)),
           renames |-> <<>>]

field(s) ==
  LET k == rename_keyword(s)
  IN IF k.some THEN [ident |-> k.ident, renames |-> <<s>>]
     ELSE IF Snake(s) = s /\ \A i \in 1..Len(s) : Char(s, i) \notin {"$", "#"}
     THEN [ident |-> s, renames |-> <<>>]
     ELSE [ident |-> IF Snake(s) = "" THEN "underscore" ELSE str_to_ident(Snake(s)),
           renames |-> <<s>>]

(***************************************************************************)
(* One enum variant named `name` for the enum value `value` (631-655 and   *)
(* 666-681): the identifier is the Pascal case of the name, passed through *)
(* rename_keyword, which adds #[serde(rename = <pascal>)] when str_to_ident *)
(* changes it; a string value adds #[serde(rename = <value>)] in front,    *)
(* always when the name comes from enumNames, and when the Pascal case     *)
(* differs from the value otherwise. `wire` is the string a variant must   *)
(* (de)serialize as, None for a number.                                    *)
(***************************************************************************)
EnumVariant(paired, name, value) ==
  LET pascal == Pascal(name)
      k == rename_keyword(pascal)
      outer == IF value.kind = "string" /\ (paired \/ pascal # value.val)
               THEN <<value.val>> ELSE <<>>
  IN [name |-> IF k.some THEN k.ident ELSE pascal, typ |-> Prim("()"),
      renames |-> outer \o (IF k.some THEN <<pascal>> ELSE <<>>),
      wire |-> IF value.kind = "string" THEN value.val ELSE None]

(***************************************************************************)
(* The enum part of expand_schema (615-690). With non-empty enumNames the  *)
(* variants are named by enumNames and a number selects #[repr(i64)];      *)
(* otherwise by the string values. A null value makes the enum optional    *)
(* and is not a variant; any other kind panics.                            *)
(***************************************************************************)
enum_decl(node, name) ==
  LET values == IF node.enum_ = None THEN <<>> ELSE node.enum_
      paired == node.enum_names # None /\ node.enum_names # <<>>
      names == IF paired THEN node.enum_names
               ELSE [i \in DOMAIN values |-> values[i].val]
      allowed == IF paired THEN {"string", "number", "null"} ELSE {"string", "null"}
      kept == SelectSeq([i \in DOMAIN values |-> i],
                        LAMBDA i : values[i].kind # "null")
      err == IF paired /\ Len(names) # Len(values) THEN "EnumNamesLengthMismatch"
             ELSE IF \E i \in DOMAIN values : values[i].kind \notin allowed
                  THEN "InvalidEnumValue"
             ELSE "none"
  IN [err |-> err,
      decl |-> IF err # "none" THEN NoDecl
               ELSE [Decl("enum", name) EXCEPT
                      !.optional = \E i \in DOMAIN values : values[i].kind = "null",
                      !.repr = paired /\ \E i \in DOMAIN values : values[i].kind = "number",
                      !.variants = [j \in DOMAIN kept |->
                                      EnumVariant(paired, names[kept[j]], values[kept[j]])]]]

(* A map type is defaultable when the schema's default is `{}` (496).      *)
map_default(typ) == typ.dflt_obj

(* A declaration built by a call that returned [st, decl], pushed under    *)
(* `name` (self.types.push((name, decl))).                                 *)
Pushed(name, r) == push(r.st, name, r.decl)

(***************************************************************************)
(* The part of expand_type (400-416) after expand_type_ returned r:        *)
(* current_type is restored; a type named like the enclosing type is       *)
(* boxed; a field that is not required and not defaultable is wrapped in   *)
(* Option, and every Option of a field that is not required is skipped     *)
(* when None.                                                              *)
(***************************************************************************)
ExpandTypeResult(type_name, required, saved_type, r) ==
  LET boxed == IF self_referential(type_name, r.res.typ)
               THEN Wrap("Box", r.res.typ) ELSE r.res.typ
      t == IF ~required /\ ~r.res.default THEN Wrap("Option", boxed) ELSE boxed
      attrs == IF ~required /\ t.con = "Option"
               THEN r.res.attributes \cup {"skip_serializing_if_none"}
               ELSE r.res.attributes
  IN [st |-> [r.st EXCEPT !.ct = saved_type], res |-> FieldType(t, attrs, r.res.default)]

(* Results of expand_type_ for the one-or-many anyOf (428-435), an inline  *)
(* oneOf (440-444) and the nullable pair (445-454).                        *)
OneOrManyResult(r) ==
  [st |-> r.st, res |-> FieldType(Wrap("Vec", r.res.typ), {"with_one_or_many"}, TRUE)]
OneOfResult(r) ==
  [st |-> Pushed(r.name, r), res |-> FieldType(Named(r.name), {}, FALSE)]
NullableResult(r) ==
  [st |-> r.st, res |-> FieldType(Wrap("Option", r.res.typ), {}, TRUE)]

(* Results of the single-type dispatch for an inline struct (471-482), a   *)
(* map (484-497) and an array (499-505).                                   *)
StructResult(name, r) == [st |-> Pushed(name, r), res |-> FieldType(Named(name), {}, FALSE)]
MapResult(typ, r) == [st |-> r.st, res |-> FieldType(Wrap("Map", r.res.typ), {}, map_default(typ))]
ArrayResult(r) == [st |-> r.st, res |-> FieldType(Wrap("Vec", r.res.typ), {}, FALSE)]

(* format_ident! (530, 535) panics on a variant name or a type name that   *)
(* is not an identifier.                                                   *)
FormatIdents(st, name, type_name) ==
  Fail(st, IF IsIdentToken(name) /\ IsIdentToken(type_name) THEN "none" ELSE "InvalidIdent")

(* A variant of an untagged union: format_ident!("{}", name), no rename.  *)
UnionVariant(name, t) == [name |-> name, typ |-> t, renames |-> <<>>, wire |-> None]

(* The union declaration of expand_one_of (539-547); Ident::new (539)     *)
(* panics on a union name that is not an identifier.                       *)
UnionResult(saved_type, r) ==
  [st |-> Fail(r.st, IF IsIdentToken(saved_type) THEN "none" ELSE "InvalidIdent"),
   name |-> saved_type,
   decl |-> [Decl("union", saved_type) EXCEPT !.variants = r.res]]

(* The alias branch of expand_schema (731-739): dropped when it names      *)
(* itself.                                                                 *)
AliasResult(pascal_case_name, a) ==
  [st |-> a.st,
   decl |-> IF a.res.typ = Named(pascal_case_name) THEN NoDecl
            ELSE [Decl("alias", pascal_case_name) EXCEPT !.target = a.res.typ]]

RECURSIVE expand_type(_, _, _, _, _), expand_type_(_, _, _), SingleType(_, _, _),
          expand_one_of(_, _, _), ExpandVariants(_, _, _, _, _, _),
          expand_fields(_, _, _, _), ExpandFieldList(_, _, _, _, _, _, _),
          FieldsAfter(_, _, _, _, _, _, _, _, _),
          expand_definitions(_, _, _), ExpandDefList(_, _, _, _),
          expand_schema(_, _, _, _), SchemaAfterDefs(_, _, _, _),
          SchemaAfterFields(_, _, _, _, _)

(* expand_type (400-416): current_type is saved around expand_type_.       *)
expand_type(type_name, required, typ, st, d) ==
  ExpandTypeResult(type_name, required, st.ct, expand_type_(typ, st, d + 1))

(***************************************************************************)
(* expand_type_ (418-457, 508-510): $ref, then anyOf with two or more      *)
(* branches, then oneOf with two or more, then a pair of types one of      *)
(* which is null, then a single type; anything else is untyped.            *)
(***************************************************************************)
expand_type_(typ, st, d) ==
  IF st.err # "none" THEN [st |-> st, res |-> Untyped]
  ELSE IF d > MaxDepth THEN [st |-> Fail(st, "StackOverflow"), res |-> Untyped]
  ELSE IF typ.ref_ # None THEN
    LET n == type_ref(typ.ref_)
    IN [st |-> Fail(st, n.err), res |-> FieldType(Named(n.name), {}, FALSE)]
  ELSE IF Len(typ.any_of) >= 2 THEN
    LET m == one_or_many(st.root, typ.any_of)
    IN IF m = "yes" THEN OneOrManyResult(expand_type_(typ.any_of[1], st, d + 1))
       ELSE [st |-> IF m = "no" THEN st ELSE Fail(st, m), res |-> Untyped]
  ELSE IF Len(typ.one_of) >= 2 THEN OneOfResult(expand_one_of(typ.one_of, st, d + 1))
  ELSE IF Len(typ.type_) = 2 THEN
    IF "null" \in ToSet(typ.type_)
    THEN NullableResult(expand_type_([typ EXCEPT !.type_ = SelectSeq(@, LAMBDA x : x # "null")],
                                     st, d + 1))
    ELSE [st |-> st, res |-> Untyped]
  ELSE IF Len(typ.type_) = 1 THEN SingleType(typ, st, d)
  ELSE [st |-> st, res |-> Untyped]

(***************************************************************************)
(* The single-type dispatch of expand_type_ (458-507). An inline object    *)
(* with properties or additionalProperties: false becomes a struct named   *)
(* Pascal(current_type) ++ Pascal(current_field), pushed after it is       *)
(* built; another object is a map; an array appends "Item" to              *)
(* current_type before expanding its first item.                           *)
(***************************************************************************)
SingleType(typ, st, d) ==
  LET t == typ.type_[1]
      same(ty) == [st |-> st, res |-> FieldType(ty, {}, FALSE)]
      name == Pascal(st.ct) \o Pascal(st.cf)
  IN CASE t = "string" -> same(IF typ.enum_ = <<>> THEN Value ELSE Prim("String"))
       [] t = "integer" -> same(Prim("i64"))
       [] t = "boolean" -> same(Prim("bool"))
       [] t = "number" -> same(Prim("f64"))
       [] t = "object" /\ (DOMAIN typ.properties # {} \/ typ.closed) ->
            StructResult(name, expand_schema(name, typ, st, d + 1))
       [] t = "object" /\ DOMAIN typ.properties = {} /\ ~typ.closed ->
            MapResult(typ, IF typ.addl = <<>> THEN [st |-> st, res |-> Untyped]
                           ELSE expand_type_(typ.addl[1], st, d + 1))
       [] t = "array" ->
            ArrayResult(IF typ.items = <<>> THEN [st |-> st, res |-> Untyped]
                        ELSE expand_type_(typ.items[1], [st EXCEPT !.ct = @ \o "Item"], d + 1))
       [] OTHER -> same(Value)

(***************************************************************************)
(* expand_one_of (513-548): the union is named current_type ++             *)
(* Pascal(str_to_ident(current_field)); a variant is named by its `id` or  *)
(* "Variant<i>"; a $ref variant carries the referenced type, any other     *)
(* variant is expanded as a declaration named union ++ variant and pushed; *)
(* both names then go through format_ident!.                               *)
(***************************************************************************)
expand_one_of(schemas, st, d) ==
  LET field_part == IF st.cf = "" THEN "" ELSE Pascal(str_to_ident(st.cf))
  IN UnionResult(st.ct \o field_part,
                 ExpandVariants(schemas, st.ct \o field_part, 1, st, d, <<>>))

ExpandVariants(schemas, saved_type, i, st, d, acc) ==
  IF i > Len(schemas) \/ st.err # "none" THEN [st |-> st, res |-> acc]
  ELSE LET s == schemas[i]
           name == IF s.id = None THEN "Variant" \o ToString(i - 1) ELSE s.id
           n == type_ref(s.ref_)
       IN IF s.ref_ # None
          THEN ExpandVariants(schemas, saved_type, i + 1,
                              FormatIdents(Fail(st, n.err), name, n.name), d,
                              Append(acc, UnionVariant(name, Named(n.name))))
          ELSE ExpandVariants(schemas, saved_type, i + 1,
                              FormatIdents(Pushed(saved_type \o name,
                                                  expand_schema(saved_type \o name, s, st, d + 1)),
                                           name, saved_type \o name), d,
                              Append(acc, UnionVariant(name, Named(saved_type \o name))))

(***************************************************************************)
(* FieldExpander::expand_fields (261-302): over the effective view's       *)
(* properties in key order, set current_field, expand the type with        *)
(* `required` from the effective view, and keep `default` true only while  *)
(* every field type starts with "Option<".                                 *)
(***************************************************************************)
expand_fields(type_name, node, st, d) ==
  LET eff == schema(st.root, node, 0)
  IN IF eff.err # "none"
     THEN [st |-> Fail(st, eff.err), res |-> [fields |-> <<>>, default |-> TRUE]]
     ELSE ExpandFieldList(type_name, eff.node, SortedKeys(eff.node.properties),
                          st, d, <<>>, TRUE)

ExpandFieldList(type_name, eff, keys, st, d, fields, default) ==
  IF keys = <<>> \/ st.err # "none"
  THEN [st |-> st, res |-> [fields |-> fields, default |-> default]]
  ELSE FieldsAfter(type_name, eff, keys, d, fields, default, Head(keys),
                   Head(keys) \in eff.required,
                   expand_type(type_name, Head(keys) \in eff.required,
                               eff.properties[Head(keys)],
                               [st EXCEPT !.cf = Head(keys)], d + 1))

(* One field appended once expand_type returned r (267-299).               *)
FieldsAfter(type_name, eff, keys, d, fields, default, field_name, required, r) ==
  ExpandFieldList(type_name, eff, Tail(keys), r.st, d,
    Append(fields, [name |-> field_name, key |-> field(field_name), required |-> required,
                    typ |-> r.res.typ, default |-> r.res.default,
                    attributes |-> r.res.attributes]),
    default /\ r.res.typ.con = "Option")

(* expand_definitions (550-565): each definition, in key order, is         *)
(* expanded and pushed under its own (raw) name.                           *)
expand_definitions(node, st, d) == ExpandDefList(node, SortedKeys(node.definitions), st, d)

ExpandDefList(node, keys, st, d) ==
  IF keys = <<>> \/ st.err # "none" THEN st
  ELSE ExpandDefList(node, Tail(keys),
                     Pushed(Head(keys), expand_schema(Head(keys),
                                                      node.definitions[Head(keys)], st, d + 1)),
                     d)

(***************************************************************************)
(* expand_schema (567-742): expand the nested definitions, set             *)
(* current_type (never restored), expand the fields; then a struct when    *)
(* there are fields or additionalProperties is false, an enum when `enum`  *)
(* is non-empty, else an alias to expand_type("", true, node), dropped     *)
(* when it names itself. Ident::new panics on an invalid name (577).       *)
(***************************************************************************)
expand_schema(original_name, node, st, d) ==
  IF st.err # "none" THEN [st |-> st, decl |-> NoDecl]
  ELSE IF d > MaxDepth THEN [st |-> Fail(st, "StackOverflow"), decl |-> NoDecl]
  ELSE SchemaAfterDefs(original_name, node, d, expand_definitions(node, st, d + 1))

(* Lines 570-575: current_type is set to the sanitized Pascal name.        *)
SchemaAfterDefs(original_name, node, d, st1) ==
  SchemaAfterFields(original_name, node, d,
    replace_invalid_identifier_chars(Pascal(original_name)),
    expand_fields(original_name, node,
      [st1 EXCEPT !.ct = replace_invalid_identifier_chars(Pascal(original_name))], d + 1))

(* serde_rename (580-586): a struct or enum whose identifier differs from  *)
(* its schema name is renamed to that name.                                *)
WithRename(decl, original_name) ==
  IF decl.kind \in {"struct", "enum"} /\ decl.name # original_name
  THEN [decl EXCEPT !.rename = <<original_name>>] ELSE decl

(* Lines 577-736, once the fields f are known.                             *)
SchemaAfterFields(original_name, node, d, pascal_case_name, f) ==
  LET st2 == IF IsIdentToken(pascal_case_name) THEN f.st ELSE Fail(f.st, "InvalidIdent")
      is_struct == f.res.fields # <<>> \/ node.closed
      is_enum == node.enum_ # None /\ node.enum_ # <<>>
      e == enum_decl(node, pascal_case_name)
  IN IF st2.err # "none" THEN [st |-> st2, decl |-> NoDecl]
     ELSE IF is_struct
     THEN [st |-> st2,
           decl |-> WithRename([Decl("struct", pascal_case_name) EXCEPT
                                  !.fields = f.res.fields, !.default = f.res.default,
                                  !.deny = node.closed /\ ~node.pattern], original_name)]
     ELSE IF is_enum THEN [st |-> Fail(st2, e.err), decl |-> WithRename(e.decl, original_name)]
     ELSE AliasResult(pascal_case_name, expand_type("", TRUE, node, st2, d + 1))

(* expand (744-770): the root under its title (title.unwrap() panics       *)
(* without one), pushed last.                                              *)
expand(st) ==
  IF st.root.title = None THEN Fail(st, "MissingTitle")
  ELSE Pushed(st.root.title, expand_schema(st.root.title, st.root, st, 1))

-----------------------------------------------------------------------------
(* Expander::new (330-343): empty registry and naming context.             *)
Init ==
  /\ root \in Docs
  /\ types = <<>>
  /\ current_type = ""
  /\ current_field = ""
  /\ status = "idle"

(* The Expander's fields after expand returned r; a panic ends the run.    *)
Outcome(r) ==
  /\ types' = r.types
  /\ current_type' = r.ct
  /\ current_field' = r.cf
  /\ status' = IF r.err = "none" THEN "done" ELSE r.err

(* One call of `expand` on the root (expand_root, 772-774).                *)
Expand ==
  /\ status = "idle"
  /\ Outcome(expand([root |-> root, ct |-> current_type, cf |-> current_field,
                     types |-> types, err |-> "none"]))
  /\ UNCHANGED root

Next == Expand

Spec == Init /\ [][Next]_vars

-----------------------------------------------------------------------------
(* The identifiers one declaration defines: an optional enum is the alias  *)
(* `Name = Option<Name_>` plus the enum `Name_`.                           *)
DeclIdents(decl) ==
  CASE decl.kind = "empty" -> {}
    [] decl.kind = "enum" /\ decl.optional -> {decl.name, decl.name \o "_"}
    [] OTHER -> {decl.name}

Declared == UNION {DeclIdents(types[i][2]) : i \in DOMAIN types}

(* The type names a declaration uses in field, variant and alias types.    *)
Mentions(decl) ==
  UNION {NamesIn(decl.fields[i].typ) : i \in DOMAIN decl.fields}
  \cup UNION {NamesIn(decl.variants[i].typ) : i \in DOMAIN decl.variants}
  \cup NamesIn(decl.target)

Structs == {types[i][2] : i \in {j \in DOMAIN types : types[j][2].kind = "struct"}}

(* Every node of a document and every $ref in it.                          *)
Children(n) ==
  ToSet(n.items) \cup ToSet(n.all_of) \cup ToSet(n.any_of) \cup ToSet(n.one_of)
  \cup ToSet(n.addl) \cup Range(n.properties) \cup Range(n.definitions)
RECURSIVE Nodes(_)
Nodes(n) == {n} \cup UNION {Nodes(c) : c \in Children(n)}
RefsOf(doc) == {n.ref_ : n \in {m \in Nodes(doc) : m.ref_ # None}}

(* A document whose every $ref designates a node, none of them a bare      *)
(* `{"$ref": <itself>}` (the alias expand_schema suppresses, 733-736).     *)
RefsWellFormed(doc) ==
  \A r \in RefsOf(doc) :
    /\ schema_ref(doc, r).err = "none"
    /\ schema_ref(doc, r).node # [Blank EXCEPT !.ref_ = r]

Panics == {"MissingRootName", "UnresolvedReference", "EnumNamesLengthMismatch",
           "InvalidEnumValue", "IndexOutOfBounds", "MissingTitle",
           "InvalidIdent", "StackOverflow"}

(***************************************************************************)
(* No dangling type name: when every $ref of the document resolves, every  *)
(* type name the generated declarations use is declared by one of them.    *)
(* The names come from two places that must agree: type_ref (the Pascal    *)
(* cased last component of a $ref) and expand_definitions/expand_schema    *)
(* (the sanitized Pascal case of each definition, nested ones included).   *)
(***************************************************************************)
RefsDeclared ==
  status = "done" /\ RefsWellFormed(root) =>
    \A i \in DOMAIN types : Mentions(types[i][2]) \subseteq Declared

(* The declared names a type holds inline: a named type, also under an    *)
(* Option; Box, Vec and maps hold theirs behind a pointer.                 *)
RECURSIVE HeldByValue(_)
HeldByValue(t) ==
  CASE t.con = "name" -> {t.name}
    [] t.con = "Option" -> HeldByValue(t.args[1])
    [] OTHER -> {}

(* Declaration X holds Y by value through a field, a tuple variant or the  *)
(* target of `type X = Y`.                                                 *)
MemberTypes(d) ==
  {d.fields[i].typ : i \in DOMAIN d.fields}
  \cup {d.variants[i].typ : i \in DOMAIN d.variants} \cup {d.target}

HoldsByValue ==
  UNION {{<<types[i][2].name, y>> : y \in UNION {HeldByValue(t) : t \in MemberTypes(types[i][2])}}
           : i \in DOMAIN types}

ContainedNames == {e[1] : e \in HoldsByValue} \cup {e[2] : e \in HoldsByValue}

(* The names reached from `frontier` in one or more by-value steps.        *)
RECURSIVE ReachedByValue(_, _)
ReachedByValue(frontier, seen) ==
  LET next == {e[2] : e \in {f \in HoldsByValue : f[1] \in frontier}} \ seen
  IN IF next = {} THEN seen ELSE ReachedByValue(next, seen \cup next)

(***************************************************************************)
(* No struct or alias holds itself by value in one step: a struct field or *)
(* an alias target whose type is the declaration itself, under Options, is *)
(* boxed by expand_type (404) or dropped (733-736). The test compares the  *)
(* Pascal case of the raw enclosing name with that of the type text built  *)
(* from type_ref's name, two pipelines that must agree. Union variants are *)
(* left out: expand_one_of (528-530) never boxes, so a oneOf naming its    *)
(* own definition is a cycle of NoInfiniteSize.                            *)
(***************************************************************************)
SelfRefBoxed ==
  status = "done" =>
    \A i \in DOMAIN types :
      types[i][2].kind \in {"struct", "alias"} =>
        types[i][2].name \notin UNION {HeldByValue(t) : t \in MemberTypes(types[i][2])}

(***************************************************************************)
(* Every generated type has a finite size: no declaration reaches itself   *)
(* through by-value containment. expand_type (404) boxes only a field      *)
(* whose type is named like the enclosing type, so nothing breaks a cycle  *)
(* that passes through another declaration, such as an inline object      *)
(* whose field refers back to the root.                                    *)
(***************************************************************************)
NoInfiniteSize ==
  status = "done" =>
    \A n \in ContainedNames : n \notin ReachedByValue({n}, {})

(***************************************************************************)
(* Inline type names depend on the ancestor chain only (spec section 3 and *)
(* 8, test embedded_type_names): every name a definition, or the root      *)
(* without its definitions, registers when expanded on a fresh Expander is *)
(* also registered when it is expanded after its siblings.                 *)
(***************************************************************************)
Fresh == [root |-> root, ct |-> "", cf |-> "", types |-> <<>>, err |-> "none"]
AloneNames(name, node) ==
  LET r == expand_schema(name, node, Fresh, 1)
  IN {r.st.types[i][1] : i \in DOMAIN r.st.types}
Registered == {types[i][1] : i \in DOMAIN types}
NamesIndependentOfSiblings ==
  status = "done" =>
    /\ \A k \in DOMAIN root.definitions :
         AloneNames(k, root.definitions[k]) \subseteq Registered
    /\ AloneNames(root.title, [root EXCEPT !.definitions = <<>>]) \subseteq Registered

(***************************************************************************)
(* Declaration names are unique in one pass (spec section 3: guaranteed by *)
(* deriving nested names from the full ancestor chain).                    *)
(***************************************************************************)
UniqueDeclNames ==
  status = "done" =>
    \A i, j \in DOMAIN types :
      i # j => DeclIdents(types[i][2]) \cap DeclIdents(types[j][2]) = {}

(***************************************************************************)
(* The only conditions spec section 4 names as fatal are a missing root    *)
(* name, an unresolved reference and the two enum errors. Every other      *)
(* input of the subset is to be expanded: a multi-branch anyOf of another  *)
(* shape degrades to an untyped value (4.3), a name with a leading digit   *)
(* is prefixed with '_' (4.5), and the pass terminates (section 2). The    *)
(* code can also panic at items[0] (427), in Ident::new (577) and overflow *)
(* the stack in schema's allOf fold (376).                                 *)
(***************************************************************************)
SpecFailures ==
  {"MissingRootName", "UnresolvedReference", "EnumNamesLengthMismatch", "InvalidEnumValue"}
FailsOnlyAsSpecified == status \in Panics => status \in SpecFailures

(***************************************************************************)
(* Every declaration compiles as far as its members go: the field          *)
(* identifiers field() produces are distinct within a struct, and the      *)
(* variant identifiers within an enum or union (spec section 1: the        *)
(* declarations must be syntactically valid). Two names that sanitize or   *)
(* Pascal case alike collide.                                              *)
(***************************************************************************)
MemberIdents(decl) ==
  IF decl.kind = "struct" THEN [i \in DOMAIN decl.fields |-> decl.fields[i].key.ident]
  ELSE [i \in DOMAIN decl.variants |-> decl.variants[i].name]
MembersDistinct ==
  status = "done" => \A i \in DOMAIN types : IsInjective(MemberIdents(types[i][2]))

(***************************************************************************)
(* Spec section 4.5: whenever sanitizing or case conversion changes a      *)
(* name, one rename attribute keeps the original wire name. For every      *)
(* struct field and every string enum variant: at most one                 *)
(* #[serde(rename)], and the name serde uses (the rename, else the         *)
(* identifier) is the property name or the enum value.                     *)
(***************************************************************************)
WireName(ident, renames) == IF renames = <<>> THEN ident ELSE renames[1]
WireNamesPreserved ==
  status = "done" =>
    \A i \in DOMAIN types :
      LET decl == types[i][2]
      IN /\ \A j \in DOMAIN decl.fields :
              LET f == decl.fields[j]
              IN Len(f.key.renames) <= 1 /\ WireName(f.key.ident, f.key.renames) = f.name
         /\ \A j \in DOMAIN decl.variants :
              LET v == decl.variants[j]
              IN v.wire # None => Len(v.renames) <= 1 /\ WireName(v.name, v.renames) = v.wire

(***************************************************************************)
(* Spec section 4.4 and its test: a struct all of whose fields are         *)
(* implicitly defaultable derives Default. expand_fields decides it from  *)
(* the type text (272): only "Option<" types count, so a one-or-many Vec   *)
(* with #[serde(default)] does not.                                        *)
(***************************************************************************)
DefaultMatchesSpec ==
  status = "done" =>
    \A s \in Structs :
      s.default = \A i \in DOMAIN s.fields : s.fields[i].default \/ s.fields[i].typ.con = "Option"
=============================================================================
