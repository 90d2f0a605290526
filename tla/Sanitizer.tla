----------------------------- MODULE Sanitizer -----------------------------
(***************************************************************************)
(* Identifier sanitizing of lib.rs (lines 76-131) on TLA+ strings.         *)
(* `char::is_alphanumeric` is restricted to ASCII letters and digits.      *)
(***************************************************************************)
EXTENDS Naturals, Sequences

Digits == {"0", "1", "2", "3", "4", "5", "6", "7", "8", "9"}
Letters ==
  {"a", "b", "c", "d", "e", "f", "g", "h", "i", "j", "k", "l", "m", "n", "o",
   "p", "q", "r", "s", "t", "u", "v", "w", "x", "y", "z",
   "A", "B", "C", "D", "E", "F", "G", "H", "I", "J", "K", "L", "M", "N", "O",
   "P", "Q", "R", "S", "T", "U", "V", "W", "X", "Y", "Z"}
Alnum == Letters \cup Digits

Char(s, i) == SubSeq(s, i, i)
Rest(s) == SubSeq(s, 2, Len(s))

(* The Rust keywords str_to_ident suffixes with '_'.                       *)
Keywords ==
  {"as", "break", "const", "continue", "crate", "else", "enum", "extern",
   "false", "fn", "for", "if", "impl", "in", "let", "loop", "match", "mod",
   "move", "mut", "pub", "ref", "return", "self", "static", "struct", "super",
   "trait", "true", "type", "unsafe", "use", "where", "while", "abstract",
   "become", "box", "do", "final", "macro", "override", "priv", "typeof",
   "unsized", "virtual", "yield", "async", "await", "try"}

RECURSIVE ReplaceChars(_)
ReplaceChars(s) ==
  IF Len(s) = 0 THEN s
  ELSE (IF Char(s, 1) \in Alnum \cup {"_"} THEN Char(s, 1) ELSE "_")
       \o ReplaceChars(Rest(s))

(* Strip one leading '$', then map every non-alphanumeric, non-'_' to '_'. *)
replace_invalid_identifier_chars(s) ==
  ReplaceChars(IF Len(s) > 0 /\ Char(s, 1) = "$" THEN Rest(s) ELSE s)

(* Mutant: the digit test made on the character after the first.          *)
replace_numeric_start_second(s) ==
  IF Len(s) > 1 /\ Char(s, 2) \in Digits THEN "_" \o s ELSE s

replace_numeric_start(s) ==
  IF Len(s) > 0 /\ Char(s, 1) \in Digits THEN "_" \o s ELSE s

(* Drop every '_' that is followed by another '_'.                         *)
RECURSIVE remove_excess_underscores(_)
remove_excess_underscores(s) ==
  IF Len(s) = 0 THEN s
  ELSE (IF Char(s, 1) = "_" /\ Len(s) > 1 /\ Char(s, 2) = "_"
        THEN "" ELSE Char(s, 1))
       \o remove_excess_underscores(Rest(s))

(* The empty and all-'_' tests look at the input, before sanitizing.       *)
str_to_ident(s) ==
  IF Len(s) = 0 THEN "empty_"
  ELSE IF \A i \in 1..Len(s) : Char(s, i) = "_" THEN "underscore_"
  ELSE LET t == remove_excess_underscores(
                  replace_numeric_start(replace_invalid_identifier_chars(s)))
       IN IF Len(t) = 0 THEN "invalid_"
          ELSE IF t \in Keywords THEN t \o "_"
          ELSE t

(***************************************************************************)
(* rename_keyword (133-152): when str_to_ident changes the name, the       *)
(* sanitized identifier is emitted under #[serde(rename = s)]; otherwise   *)
(* None. The prefix argument ("pub" for fields) only adds a token.        *)
(***************************************************************************)
rename_keyword(s) == [some |-> str_to_ident(s) # s, ident |-> str_to_ident(s)]

(***************************************************************************)
(* What proc_macro2's Ident::new accepts without panicking: a non-empty    *)
(* word of letters, digits and '_' that does not start with a digit.       *)
(***************************************************************************)
IsIdentToken(s) ==
  /\ Len(s) > 0
  /\ Char(s, 1) \notin Digits
  /\ \A i \in 1..Len(s) : Char(s, i) \in Alnum \cup {"_"}
=============================================================================
