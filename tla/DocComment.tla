----------------------------- MODULE DocComment -----------------------------
(***************************************************************************)
(* make_doc_comment (lib.rs 217-252): a description wrapped into `///`     *)
(* lines of at most remaining_line characters. It walks the text word by   *)
(* word (a word ends at the first whitespace character); a word that would *)
(* reach remaining_line starts a new line; the whitespace after a word     *)
(* becomes a line break when it is '\n' and a single space otherwise.      *)
(***************************************************************************)
EXTENDS Sanitizer

Whitespace == {" ", "\n", "\t"}

(* comment.split(char::is_whitespace).next(): the text up to the first     *)
(* whitespace character.                                                   *)
RECURSIVE FirstWord(_)
FirstWord(s) ==
  IF s = "" \/ Char(s, 1) \in Whitespace THEN "" ELSE Char(s, 1) \o FirstWord(Rest(s))

(* Mutant: a word wraps only once it would pass remaining_line.            *)
WrapsLate(length, word, remaining_line) == length + Len(word) > remaining_line

(* The wrap test of line 227.                                              *)
Wraps(length, word, remaining_line) == length + Len(word) >= remaining_line

(***************************************************************************)
(* The while-let loop (221-245) from the text still to be read, the output *)
(* so far and the length of its last line.                                 *)
(***************************************************************************)
RECURSIVE DocLoop(_, _, _, _)
DocLoop(comment, out, length, remaining_line) ==
  IF comment = "" THEN out
  ELSE LET word == FirstWord(comment)
           rest == SubSeq(comment, Len(word) + 1, Len(comment))
           wrap == Wraps(length, word, remaining_line)
           out1 == (IF wrap THEN out \o "\n/// " ELSE out) \o word
           len1 == (IF wrap THEN 4 ELSE length) + Len(word)
       IN IF rest = "" THEN out1
          ELSE IF Char(rest, 1) = "\n"
               THEN DocLoop(Rest(rest), out1 \o "\n/// ", 4, remaining_line)
               ELSE DocLoop(Rest(rest), out1 \o " ", len1 + 1, remaining_line)

(* Mutant: the last character dropped whatever it is.                      *)
TrimAlways(out) == SubSeq(out, 1, Len(out) - 1)

(* One trailing space is removed (246-248).                                *)
TrimTrailingSpace(out) ==
  IF Len(out) > 0 /\ Char(out, Len(out)) = " " THEN SubSeq(out, 1, Len(out) - 1) ELSE out

make_doc_comment(comment, remaining_line) ==
  TrimTrailingSpace(DocLoop(comment, "/// ", 4, remaining_line)) \o "\n"
=============================================================================
