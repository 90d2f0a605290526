# TLA+ models of the schemafy Expander

This directory models `src/schemafy-near/schemafy_lib/src/lib.rs`. That code is the
JSON-Schema-to-Rust type generator that near-sdk-rs vendors. The other source file,
`src/near-sdk-macros/src/core_impl/code_generator/mod.rs`, only re-exports modules
that are not in this repository, so nothing in it changes state.

## 1. Inventory

The program is one synchronous recursive pass over a parsed schema document. Nothing
runs concurrently, nothing is persisted and there is no I/O, so crashes, lost messages
and interleavings do not apply. What makes the code hard is **recursion over shared
mutable state**. `Expander` keeps three mutable fields that every recursive call reads
and writes:

| state (lib.rs) | what it is | who writes it | who reads it |
|---|---|---|---|
| `current_type` (309) | enclosing type name | `expand_schema` 571 (never restored); `expand_type_` array case 501; `expand_type` restores it 401-403 | inline object names 477, `expand_one_of` 519 |
| `current_field` (310) | current property name | `expand_fields` 267 only (never saved or restored) | inline object names 478, `expand_one_of` 514 |
| `types` (311) | the registry: `(name, tokens)` pairs in push order | pushes at 443, 481, 534, 563, 763 | `expand` 765 (output), test 828 |

Components, leaf first:

| component | code (lib.rs) | state | operations |
|---|---|---|---|
| Schema model | `schema.rs` (not under src/) | none: a read-only tree | none |
| Identifier sanitizer | 76-174 `replace_invalid_identifier_chars`, `replace_numeric_start`, `remove_excess_underscores`, `str_to_ident`, `rename_keyword`, `field` | none (pure) | string transforms |
| Reference resolver | 345-367 `type_ref`, 385-398 `schema_ref` | reads `root`, `root_name` | name of a `$ref`; node of a `$ref` (panics when absent) |
| Composition merger | 176-213 `merge_option`, `merge_all_of`; 369-383 `schema` | none (`&self`) | effective view: follow one `$ref`, fold `allOf` |
| Type synthesizer | 400-548 `expand_type`, `expand_type_`, `expand_one_of` | all three fields | the type of one field, variant or alias |
| Declaration emitter | 255-302 `FieldExpander::expand_fields`; 550-742 `expand_definitions`, `expand_schema` | all three fields | struct, enum or alias for one named node |
| Registry and entry point | 305-343 `Expander::new`; 744-774 `expand`, `expand_root` | `types` | run the pass and concatenate `types` |
| Doc-comment formatter | 215-252 `make_doc_comment` | none | wraps a description into `///` lines |

How they interact: `expand` calls `expand_schema(title, root)`. `expand_schema` first
runs `expand_definitions`, which calls `expand_schema` on each definition in BTreeMap
(sorted) order and pushes the result. It then sets `current_type` and runs
`expand_fields` on the effective schema (`schema`). `expand_fields` sets
`current_field` and calls `expand_type` for each property. `expand_type_` recurses into
items, `additionalProperties`, `anyOf` and nullable pairs. For inline objects it
calls `expand_schema`, and for `oneOf` it calls `expand_one_of`, which calls
`expand_schema` once per variant that has no `$ref`. A nested declaration is pushed
after the call that built it returns, so nested types come before the types that use them.

Hard behaviours:
* The naming context leaks. `current_field` is never restored. An alias (732) or an
  `expand_one_of` variant (533) therefore reads the field name that the previous
  sibling definition or variant left behind.
* Names are built by concatenation (`current_type ++ Pascal(field)`, `++ "Item"`,
  `++ id`). Concatenation is not injective, and nested definitions register under
  their bare name, so two different types can get the same name.
* `$ref` in a field type is only *named* (`type_ref`) and never resolved. A
  reference to a missing definition goes into the output unnoticed.
* `schema` follows `$ref` and folds `allOf` recursively. An `allOf` that points back
  at an ancestor recurses forever.
* Panics: `schema_ref` on a miss (395), `root_name.expect` (359), `enumNames`
  length (622), enum values (655, 687), `title.unwrap()` (752), `array.items[0]`
  (427), `syn::Ident::new` on an invalid identifier (577, 692), and `format_ident!` on a `oneOf` variant id (530, 535).

Correctness properties, per component:
* Sanitizer: every produced identifier is a legal Rust identifier, and it follows the spec's
  §4.5 definition.
* Resolver and emitter: every type name the output mentions is declared (no dangling
  references). Declaration names are unique.
* Merger: the effective view has the union of `required`, the intersection of `type`,
  and the union of properties (§4.2).
* Synthesizer: a direct self-reference is boxed, and no generated type has
  infinite size. A field that
  is not required still decodes when it is absent. Inline type names depend only on the
  ancestor chain (§3, §8, and the `embedded_type_names` test).
* Emitter: the members of one struct or enum are distinct, and every serde rename
  keeps the wire name. The Default derive follows §4.4.
* Doc comments: wrapping keeps every word in order, and lines fit the width.
* Whole pass: it terminates. It fails only with the §7 conditions.

## 2. Plan

Modules, in build order:

1. `SchemaModel` is the schema node record (schema.rs), the type terms the
   synthesizer builds, Pascal and snake casing, and BTreeMap key order.
2. `Sanitizer` covers `str_to_ident`, its helpers and `rename_keyword` on TLA+
   strings. `MCSanitizer` enumerates every string of up to 3 characters.
3. `Resolver` covers `type_ref` and `schema_ref`. `Merger` covers `merge_all_of`
   and `schema`. `EffectiveView` is the abstract §4.2 specification that
   `MCMerger` shows `Merger` implements.
4. `Expander` covers the synthesizer, the emitter (with `field` and the enum
   variants) and the registry as mutually RECURSIVE operators. `MCExpander`
   generates documents from a small grammar.
5. `DocComment` covers `make_doc_comment`. `MCDocComment` enumerates short
   descriptions.

Still open:
* larger generated documents (two levels of nested definitions).

## 3. Modules and correspondence

| Module | Models | State / operators |
|---|---|---|
| `SchemaModel` | `Schema` (schema.rs, not in the repository's src/: modelled from spec §2), `to_pascal_case`, `to_snake_case`, BTreeMap order | `Blank` node record, type terms `Prim/Named/Wrap` (the type strings lib.rs builds at 404-409, 418-420, 458-468), `Pascal`, `Snake`, `SortedKeys` |
| `Sanitizer` | lib.rs 76-152 | `replace_invalid_identifier_chars`, `replace_numeric_start`, `remove_excess_underscores`, `str_to_ident`, `Keywords`, `rename_keyword` (the identifier and whether a rename is attached) |
| `Resolver` | lib.rs 345-398 | `type_ref` (fragment → last component → Pascal → sanitize), `schema_ref` / `SchemaRefFrom` (the fold over `/`-components, panic at 395) |
| `Merger` | lib.rs 176-213, 369-383 | `merge_all_of`, `schema`, `FoldAllOf` |
| `EffectiveView` | spec §4.2 (abstract) | VARIABLES `doc`, `eff`; `View` (a node's properties, required set, type set and `$ref`), `Compose` (union, union, intersection, last `$ref`), `Effective`; one action `Compute` |
| `Expander` | lib.rs 154-174, 261-343, 400-774 | VARIABLES `root`, `types`, `current_type`, `current_field` (the struct fields at 305-312) and `status`; `Init` = `Expander::new`, `Expand` = `expand_root`; `field` and `EnumVariant` give each member its identifier and its serde renames |
| `DocComment` | lib.rs 218-252 | `FirstWord`, `Wraps` (the test at 227), `DocLoop` (the while-let loop), `TrimTrailingSpace`, `make_doc_comment`; `MCDocComment` has the action `Render` (the call at 293, 555, 755) |

How `Expander` is written. Each `&mut self` method is an operator. It takes the
record `st = [root, ct, cf, types, err]` and returns the record after the call.
A recursive call therefore sees exactly what its caller left in
`current_type`/`current_field`. The whole recursive expansion is the single
step `Expand`, which is what `expand_root` is: one synchronous call.

Where the Rust code uses the result of a recursive call several times, the
model passes it to a continuation operator: `ExpandTypeResult`, `Pushed`,
`OneOfResult`, `StructResult`, `FieldsAfter`, `SchemaAfterDefs`,
`SchemaAfterFields`, `AliasResult` and `Outcome`. Each of these is named for
the lines after the call that it models.

A panic (`expect`, `unwrap`, `panic!`, a bad index, `Ident::new` on an invalid
name) sets `err`. Every operator then returns unchanged, and `status` records
the panic. `d` counts recursion depth. Past `MaxDepth` a call panics with
`StackOverflow`, which stands for the real stack overflow on a cyclic `allOf`.

Abstractions:
* type strings are terms, and a `starts_with("Option<")` test is `con = "Option"`;
* `required` is a set;
* token streams are `Decl` records that keep the kind, the name, the fields with
  their key (identifier and serde renames), required, type and attributes, the
  `Default` and `deny_unknown_fields` flags, the container `serde(rename)`, enum variants (identifier, renames,
  wire value) and the alias target;
* `to_pascal_case` and `to_snake_case` are constant tables over the names the
  documents use; doc comments are modelled on their own (`DocComment`), not
  inside declarations.

Refinement. `MCMerger` defines `Abstract == INSTANCE EffectiveView WITH eff <- ...`,
mapping the implementation's computed node to `View` of that node. The property
`ImplementsEffectiveView == Abstract!Spec` says every step of `Resolve` (the
call `schema(node)`) is a `Compute` step of the abstract specification.

## 4. Runs

| Run | Cfg | Expect | What it shows |
|---|---|---|---|
| `expander_core` | `MCExpander.cfg` | pass | On 4422 generated documents: `RefsDeclared` (every type name a declaration uses is declared when every `$ref` resolves), `SelfRefBoxed` (no struct or alias holds itself by value in one step; the test at 404 compares the Pascal case of the whole type text, modelled by `PascalType`), `FailsOnlyAsSpecified` (every panic is one §7 lists) and `WireNamesPreserved` (a renamed field carries one rename, its property name). |
| `expander_leak` | `MCExpander_leak.cfg` | violation | `NamesIndependentOfSiblings`: the inline union name of `node` becomes `NodeB` because `current_field` still holds `b` from the sibling `leaf` (lib.rs 514, 267). |
| `expander_unique` | `MCExpander_unique.cfg` | violation | `UniqueDeclNames`: a nested definition `leaf` and the root definition `leaf` both declare `Leaf` (lib.rs 563). |
| `expander_members` | `MCExpander_members.cfg` | violation | `MembersDistinct`: properties `a-b` and `a_b` both become field `a_b` (lib.rs 154); enum values `+` and `-` both become variant `empty_` (666). |
| `expander_wire` | `MCExpander_wire.cfg` | violation | `WireNamesPreserved`: the variant for `+` gets `serde(rename = "+")` and `serde(rename = "")` (666-681 with 133-152). |
| `expander_panics` | `MCExpander_panics.cfg` | violation | `FailsOnlyAsSpecified` on `anyOf [string, {type: array}]`: the one-or-many test indexes `items[0]` (427) and panics, where §4.3 says such an `anyOf` degrades to an untyped value. |
| `expander_default` | `MCExpander_default.cfg` | violation | `DefaultMatchesSpec`: an optional one-or-many field (`Vec` with `serde(default)`) stops the struct deriving `Default` (272), against §4.4. |
| `expander_size` | `MCExpander_size.cfg` | violation | `NoInfiniteSize`: for `{a: {b: $ref "#"}}` with both fields required, `Root { a: RootA }` and `RootA { b: Root }` hold each other unboxed, because `expand_type` boxes only direct self-reference (404). §4.3 item 6 specifies only the direct case. |
| `merger_effective` | `MCMerger.cfg` | pass | `ImplementsEffectiveView`: the `allOf` fold refines the §4.2 abstract specification on every combination of 1-3 of 5 overlapping fragments. |
| `sanitizer_shape` | `MCSanitizer.cfg` | pass | `IdentShape`: every input of up to 3 characters yields a valid, non-keyword identifier without `__`. |
| `sanitizer_underscore` | `MCSanitizer_underscore.cfg` | violation | `NoBareUnderscore`: `str_to_ident("-")` returns `_` (lib.rs 107-113), contrary to spec §4.5. |
| `doc_comment` | `MCDocComment.cfg` | pass | `TextKept` (the output's words are the input's, in order) and `LinesBounded` (each line's visible text is shorter than the width, or is one overlong word). |

Each property of a passing run has a mutant in PROJECT.json. The mutant is a
plausible bug in the mapped code, and TLC finds the property violated when the
mutant replaces the code:
* Pascal casing dropped in `type_ref`;
* the raw name compared in the self-reference test;
* a shallow property merge;
* the digit test on the wrong character;
* the empty-`items` test before the array test in the one-or-many check;
* `field` emitting the snake name without a rename;
* `>` for `>=` in the wrap test;
* the last character popped whatever it is.

Bounds.
* `MCExpander` takes the root properties `a` and `aB` and the definitions
  `leaf` and `node`. Property values cover every branch of `expand_type_`.
  Definitions of `node` cover:
  * required and optional self-reference;
  * one-or-many, and an `anyOf` that is not one-or-many;
  * arrays of inline objects;
  * `oneOf` with a `$ref` and an inline variant;
  * an optional enum;
  * a nested definition reached by a path `$ref`.
* The names `a`, `aB` and `b` are enough to produce the concatenation and
  leak cases. `MaxDepth = 40` exceeds the deepest non-cyclic nesting of any
  generated document, so `StackOverflow` fires only on the cyclic document.
* The violation runs each use one or two hand-written documents (`MCDocs*`)
  that reach the disagreement. `MCDocsSize` is the smallest by-value cycle
  through two declarations; the generated documents of `expander_core` also
  contain it, so `NoInfiniteSize` is not part of that run.
* `MCSanitizer` uses `{a, s, 1, _, $, -}`. It reaches the keyword `as`, a
  leading digit, `$`, a replaced character and runs of `_`.
* `MCMerger` folds up to 3 branches. They overlap on a property, on
  `required` and on `type`, and they include a `$ref`.
* `MCDocComment` takes every text of up to 6 characters over `a`, space, tab
  and newline, at widths 7 and 8. Short words wrap there, a word of 4 or more
  letters overflows a line on its own, and runs of whitespace, paragraph
  breaks and trailing spaces all occur.

Fairness and liveness. Each run is a single synchronous call with no
concurrency, so no fairness is assumed and there is no liveness to check: a
`StackOverflow` is a panic, which `FailsOnlyAsSpecified` catches as a safety
violation. The runs say CHECK_DEADLOCK FALSE because the program really stops
after its one call.

Divergences seen but not checked by a run. Each shows when `Docs` of
`MCExpander_panics.cfg` is set to the document named. Every one was seen that
way. The run keeps only the `anyOf` document, because TLC reports the first
violation only:
* `MCDocsDigit`: definition `1a` makes `Ident::new` panic (577), while
  `type_ref` names its references `_1a` (§4.5 says a leading digit gets `_`);
* `MCDocsCycle`: an `allOf` that refers to its own definition recurses until
  the stack overflows (376); the spec does not say what a cyclic `allOf` gives;
* `MCDocsVariantId`: a `oneOf` branch with `id` `a-b` makes `format_ident!`
  panic (530), since the id is never sanitized;
* a union is never boxed (528-530): `node = oneOf [$ref node, string]` gives
  `enum Node { Variant0(Node), Variant1(String) }`, of infinite size. That is
  a one-step cycle of `NoInfiniteSize`, which is why `SelfRefBoxed` covers
  structs and aliases only;
* the box test (404) compares the Pascal case of the whole type text. In a
  struct named `VecString`, an optional one-or-many string field is
  `Box<Vec<String>>` with `with = one_or_many`, and the derive does not
  compile. This was seen with a property that every `with` field is a `Vec`.
  That property was dropped from `expander_core`, because none of its
  documents names a struct like a type text, so there it held by construction;
* spec.md's end-to-end scenario says `oneOf [$ref Cat, $ref Dog]` yields
  variants `Cat(Cat)` and `Dog(Dog)`. The code (525) names a branch without
  `id` `Variant<i>`, so it yields `Variant0(Cat)` and `Variant1(Dog)`. The
  model follows the code, and the project's runs go to properties of wider
  reach.

Not modelled:
* the `LitInt::new` panic of a paired enum (`enumNames` with non-integer
  numeric values, 646): no document has a paired enum;
* the token text of declarations (`quote!` output, type strings): the model
  keeps the identifiers, renames and types as terms;
* `generator.rs` (file I/O, not in src/);
* the near-sdk-macros `code_generator/mod.rs` (re-exports only);
* the `Schema` struct's own code (`schema.rs`, not in src/): it is modelled
  from spec §2 as a read-only record, so the Schema model stays "partly";
* the remaining unmapped lines of lib.rs: the crate documentation, `use`
  items, constants and the unit tests (776-833).

Every operation of lib.rs that changes the Expander's state, or computes a
name, a type, a declaration or a doc comment, is an operator or action of a
module. What is left is I/O, generated or re-exported code, or token
spelling. Concurrency, persistence and message faults do not exist in this
code, so there is no fault model to add.
