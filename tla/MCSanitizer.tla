---------------------------- MODULE MCSanitizer ----------------------------
(***************************************************************************)
(* str_to_ident (lib.rs 102-131) on every string of at most MaxLen         *)
(* characters over a small alphabet: a letter pair that spells a keyword   *)
(* ("as"), a digit, '_', '$' and '-' (a character that is replaced).       *)
(***************************************************************************)
EXTENDS Sanitizer, FiniteSets

CONSTANTS
  Alphabet,   \* one-character strings
  MaxLen,     \* longest input
  NoIdent     \* ident before the call

VARIABLES input, ident

RECURSIVE Words(_)
Words(n) ==
  IF n = 0 THEN {""}
  ELSE Words(n - 1) \cup {w \o c : w \in Words(n - 1), c \in Alphabet}

(* A caller holds some name, typically a schema property name.             *)
Init == input \in Words(MaxLen) /\ ident = NoIdent

(* The call str_to_ident(input).                                           *)
Sanitize ==
  /\ ident = NoIdent
  /\ ident' = str_to_ident(input)
  /\ UNCHANGED input

Spec == Init /\ [][Sanitize]_<<input, ident>>

HasDoubleUnderscore(s) == \E i \in 1..(Len(s) - 1) : SubSeq(s, i, i + 1) = "__"

(***************************************************************************)
(* Every identifier str_to_ident returns is accepted by Ident::new (not    *)
(* empty, no leading digit, only letters, digits and '_'), is not a Rust   *)
(* keyword and has no run of underscores, whatever the input.              *)
(***************************************************************************)
IdentShape ==
  ident # NoIdent =>
    /\ IsIdentToken(ident)
    /\ ident \notin Keywords
    /\ ~HasDoubleUnderscore(ident)

(***************************************************************************)
(* Spec section 4.5: a result that consists only of '_' is replaced by the *)
(* sentinel "underscore_", so str_to_ident never returns a bare "_", which *)
(* Rust rejects as a field or type name (`field` emits `pub _: T`).        *)
(***************************************************************************)
NoBareUnderscore ==
  ident # NoIdent => \E i \in 1..Len(ident) : Char(ident, i) # "_"
=============================================================================
