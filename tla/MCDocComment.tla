---------------------------- MODULE MCDocComment ----------------------------
(***************************************************************************)
(* make_doc_comment (lib.rs 217-252) on every description of at most       *)
(* MaxLen characters over letters and the whitespace kinds the code tells  *)
(* apart ('\n' and any other), for line widths small enough that short     *)
(* words wrap and a long word alone overflows a line. The code calls it    *)
(* with LINE_LENGTH - INDENT_LENGTH for fields (293) and LINE_LENGTH for   *)
(* types (555, 755); Widths stands for these two at a smaller scale.       *)
(***************************************************************************)
EXTENDS DocComment

CONSTANTS
  Alphabet,   \* one-character strings
  MaxLen,     \* longest description
  Widths,     \* values of remaining_line
  NoDoc       \* output before the call

VARIABLES comment, remaining_line, doc

RECURSIVE Texts(_)
Texts(n) ==
  IF n = 0 THEN {""}
  ELSE Texts(n - 1) \cup {w \o c : w \in Texts(n - 1), c \in Alphabet}

(* A schema node holds a description; a caller picks the width.           *)
Init == comment \in Texts(MaxLen) /\ remaining_line \in Widths /\ doc = NoDoc

(* The call make_doc_comment(comment, remaining_line).                     *)
Render ==
  /\ doc = NoDoc
  /\ doc' = make_doc_comment(comment, remaining_line)
  /\ UNCHANGED <<comment, remaining_line>>

Spec == Init /\ [][Render]_<<comment, remaining_line, doc>>

(* The maximal non-whitespace runs of a text, in order.                    *)
RECURSIVE WordsOf(_)
WordsOf(s) ==
  IF s = "" THEN <<>>
  ELSE IF Char(s, 1) \in Whitespace THEN WordsOf(Rest(s))
  ELSE <<FirstWord(s)>> \o WordsOf(SubSeq(s, Len(FirstWord(s)) + 1, Len(s)))

(* The text of a line without the "///" marker.                            *)
TextWords(s) == SelectSeq(WordsOf(s), LAMBDA w : w # "///")

(* The lines of the output, split at '\n'.                                 *)
RECURSIVE LinesOf(_)
LinesOf(s) ==
  IF s = "" THEN <<>>
  ELSE LET k == CHOOSE k \in 1..(Len(s) + 1) :
                  /\ \A j \in 1..(k - 1) : Char(s, j) # "\n"
                  /\ k = Len(s) + 1 \/ Char(s, k) = "\n"
       IN <<SubSeq(s, 1, k - 1)>> \o LinesOf(SubSeq(s, k + 1, Len(s)))

(* A line without its trailing spaces.                                     *)
RECURSIVE TrimEnd(_)
TrimEnd(s) == IF s # "" /\ Char(s, Len(s)) = " " THEN TrimEnd(SubSeq(s, 1, Len(s) - 1)) ELSE s

(***************************************************************************)
(* Wrapping loses and reorders nothing: the words of the doc comment, its  *)
(* `///` markers aside, are the words of the description in their order,   *)
(* across the wrap test, the '\n' breaks and the final trailing-space pop. *)
(***************************************************************************)
TextKept ==
  doc # NoDoc => TextWords(doc) = WordsOf(comment)

(***************************************************************************)
(* Every line fits: its visible text is shorter than remaining_line, or it *)
(* is a single word that no line could hold. An off-by-one in the wrap     *)
(* test of line 227 lets a line reach the width.                           *)
(***************************************************************************)
LinesBounded ==
  doc # NoDoc =>
    \A i \in 1..Len(LinesOf(doc)) :
      Len(TrimEnd(LinesOf(doc)[i])) < remaining_line
      \/ Len(TextWords(LinesOf(doc)[i])) = 1
=============================================================================
