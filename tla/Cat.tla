---------------------------------- MODULE Cat ----------------------------------
(***************************************************************************)
(* libsu's cat (cmds/cat.c).  Without options the files are copied raw,    *)
(* through a buffer that is written in one or more pieces; with one of     *)
(* b, e, n, s, t, v every character is looked at (cook_buf).  A character  *)
(* is "text", "nl", "tab", "ctrl" (another control character), "high" (not *)
(* ASCII) or "highnl" (not ASCII, and a newline without its eighth bit).   *)
(***************************************************************************)
EXTENDS ToolState, SequencesExt

CONSTANTS Contents,  \* what files hold: sequences of characters
          BufferSize \* characters that one read may return

Character == {"text", "nl", "tab", "ctrl", "high", "highnl"}

ASSUME ContentsAssumption == Contents \subseteq Seq(Character) /\ BufferSize \in Nat

VARIABLES
  left,    \* what is left of the file that is open
  buffer,  \* raw: what is read and not written
  out,     \* what was written of this file: <<what, character or number>>
  taken,   \* the characters read of it
  prev, gobble, line, \* cook_buf: the previous character, blank lines eaten, lines numbered
  opened   \* is a file open

catVars == <<left, buffer, out, taken, prev, gobble, line, opened>>

CatInit ==
  /\ left = <<>> /\ buffer = <<>> /\ out = <<>> /\ taken = <<>>
  /\ prev = "nl" /\ gobble = FALSE /\ line = 0 /\ opened = FALSE

(* -b implies -n, -e and -t imply -v; -l waits for a lock.                 *)
Has(o) == \/ o \in opts
          \/ o = "n" /\ "b" \in opts
          \/ o = "v" /\ opts \cap {"e", "t"} # {}
Cooked == opts \cap {"b", "e", "n", "s", "t", "v"} # {}

CatBegins ==
  /\ place = "main" /\ tool = "cat"
  /\ \/ place' = "cat" /\ UNCHANGED <<said, code>>
     \/ "l" \in opts /\ Finish("nothing", "failed")
  /\ UNCHANGED <<direct, tool, opts, args, catVars>>

(* Fault: the numbers and blank lines of the last file are kept.           *)
CatContinues ==
  /\ place = "cat" /\ ~opened /\ args # <<>>
  /\ opened' = TRUE
  /\ left' = Head(args)
  /\ args' = Tail(args)
  /\ out' = <<>> /\ taken' = <<>>
  /\ UNCHANGED <<place, direct, tool, opts, said, code, buffer, prev, gobble, line>>

(* raw_args and cook_args: the next file, and cook_buf starts afresh.      *)
CatOpens ==
  /\ place = "cat" /\ ~opened /\ args # <<>>
  /\ opened' = TRUE
  /\ left' = Head(args)
  /\ args' = Tail(args)
  /\ prev' = "nl" /\ gobble' = FALSE /\ line' = 0
  /\ out' = <<>> /\ taken' = <<>>
  /\ UNCHANGED <<place, direct, tool, opts, said, code, buffer>>

(* A file that cannot be opened is passed over, and the status is 1.       *)
CatSkips ==
  /\ place = "cat" /\ ~opened /\ args # <<>>
  /\ args' = Tail(args)
  /\ code' = "failed"
  /\ UNCHANGED <<place, direct, tool, opts, said, catVars>>

RawRead ==
  /\ place = "cat" /\ opened /\ ~Cooked /\ buffer = <<>> /\ left # <<>>
  /\ \E k \in 1 .. BufferSize :
       /\ k <= Len(left)
       /\ buffer' = SubSeq(left, 1, k)
       /\ taken' = taken \o buffer'
       /\ left' = SubSeq(left, k + 1, Len(left))
  /\ UNCHANGED <<toolVars, out, prev, gobble, line, opened>>

As(c) == <<"as", c>>
AsAll(s) == [k \in 1 .. Len(s) |-> As(s[k])]

(* Fault: a write that is cut short is not continued.                      *)
RawWriteOnce ==
  /\ place = "cat" /\ ~Cooked /\ buffer # <<>>
  /\ \E k \in 1 .. Len(buffer) : out' = out \o AsAll(SubSeq(buffer, 1, k))
  /\ buffer' = <<>>
  /\ UNCHANGED <<toolVars, left, taken, prev, gobble, line, opened>>

RawWrite ==
  /\ place = "cat" /\ ~Cooked /\ buffer # <<>>
  /\ \E k \in 1 .. Len(buffer) :
       /\ out' = out \o AsAll(SubSeq(buffer, 1, k))
       /\ buffer' = SubSeq(buffer, k + 1, Len(buffer))
  /\ UNCHANGED <<toolVars, left, taken, prev, gobble, line, opened>>

RawWriteFails ==
  /\ place = "cat" /\ ~Cooked /\ buffer # <<>>
  /\ Finish("nothing", "failed")
  /\ UNCHANGED <<direct, tool, opts, args, catVars>>

(* The end of the file, or an error, which makes the status 1 in raw_cat   *)
(* and is taken for the end of the file in cook_buf.                       *)
CatCloses ==
  /\ place = "cat" /\ opened /\ buffer = <<>>
  /\ \/ (left = <<>> \/ Cooked) /\ UNCHANGED code
     \/ ~Cooked /\ code' = "failed"
  /\ opened' = FALSE /\ left' = <<>>
  /\ UNCHANGED <<place, direct, tool, opts, args, said, buffer, out, taken, prev, gobble, line>>
-----------------------------------------------------------------------------
(* Does cook_buf swallow the newline that it has read?  A blank line is    *)
(* squeezed if the one before was blank.                                   *)
Blank(ch) == prev = "nl" /\ ch = "nl"
Squeezed(ch) == Blank(ch) /\ Has("s")

(* A line gets a number if it is not blank, or blank without -b.           *)
Numbered(ch) == prev = "nl" /\ ~Squeezed(ch) /\ Has("n") /\ (ch = "nl" => ~Has("b"))

(* The marks before the character: at the beginning of a line a number, or *)
(* blanks with -be; then $ for the end of a line, ^I, ^X, M-.              *)
LineMark(ch) ==
  IF Numbered(ch) THEN <<<<"number", line + 1>>>>
  ELSE IF Blank(ch) /\ ~Squeezed(ch) /\ Has("b") /\ Has("e") THEN <<<<"blanks", 0>>>> ELSE <<>>
CharMark(ch) ==
  IF ch = "nl" /\ ~Squeezed(ch) /\ Has("e") THEN <<<<"mark", "$">>>>
  ELSE IF ch = "tab" /\ Has("t") THEN <<<<"mark", "^">>>>
  ELSE IF ch \in {"high", "highnl"} /\ Has("v") THEN <<<<"mark", "M-">>>>
  ELSE IF ch = "ctrl" /\ Has("v") THEN <<<<"mark", "^">>>> ELSE <<>>
Marks(ch) == LineMark(ch) \o CharMark(ch)

(* One character: the next one comes after a newline also if this one was  *)
(* made one by -v, for it is the character without its eighth bit that is  *)
(* remembered.                                                             *)
Cook ==
  /\ place = "cat" /\ opened /\ Cooked /\ left # <<>>
  /\ LET ch == Head(left) IN
     /\ taken' = Append(taken, ch)
     /\ out' = out \o Marks(ch) \o (IF Squeezed(ch) /\ gobble THEN <<>> ELSE <<As(ch)>>)
     /\ line' = IF Numbered(ch) THEN line + 1 ELSE line
     /\ gobble' = Squeezed(ch)
     /\ prev' = IF ch = "highnl" /\ Has("v") THEN "nl" ELSE ch
  /\ left' = Tail(left)
  /\ UNCHANGED <<toolVars, buffer, opened>>

(* A write fails: the rest of the file is left, and only a number that     *)
(* could not be written makes the status 1.                                *)
CookFails ==
  /\ place = "cat" /\ opened /\ Cooked /\ left # <<>>
  /\ code' \in IF Numbered(Head(left)) THEN {"failed"} ELSE {code}
  /\ opened' = FALSE /\ left' = <<>>
  /\ UNCHANGED <<place, direct, tool, opts, args, said, buffer, out, taken, prev, gobble, line>>

CatEnds ==
  /\ place = "cat" /\ ~opened /\ args = <<>>
  /\ \E c \in {code, "failed"} : Finish("nothing", c)
  /\ UNCHANGED <<direct, tool, opts, args, catVars>>

CatStep == \/ CatBegins \/ CatOpens \/ CatSkips \/ CatCloses \/ CatEnds
           \/ RawRead \/ RawWrite \/ RawWriteFails \/ Cook \/ CookFails
-----------------------------------------------------------------------------
(* The elements of s that are in S, and in its turn the one at k.          *)
Positions(s, S) == {k \in 1 .. Len(s) : s[k] \in S}
Turn(s, S, k) == Cardinality({j \in Positions(s, S) : j <= k})

(* The same elements of S come in the same order in s and in t.            *)
SameOf(S, s, t) ==
  /\ Cardinality(Positions(s, S)) = Cardinality(Positions(t, S))
  /\ \A j \in Positions(s, S), k \in Positions(t, S) : Turn(s, S, j) = Turn(t, S, k) => s[j] = t[k]

Written(C) == {As(c) : c \in C}

(* The type invariant.                                                     *)
CatTypeOK ==
  /\ prev \in Character /\ line \in Nat
  /\ gobble \in BOOLEAN /\ opened \in BOOLEAN

(* Nothing that was read is lost or moved, however the writes are cut and  *)
(* whichever marks are put in (raw_cat and cook_buf); only -s leaves out   *)
(* newlines.                                                               *)
CatKeepsAll ==
  /\ ~Has("s") => SameOf(Written(Character), out \o AsAll(buffer), AsAll(taken))
  /\ SameOf(Written(Character \ {"nl"}), out \o AsAll(buffer), AsAll(taken))

(* Of each file, -s leaves at most one blank line in a row, and -n counts  *)
(* from 1, with a number only at the beginning of a line; a newline that   *)
(* -v writes as M-^J is taken for the end of a line (line 105), so that    *)
(* its line is numbered twice.                                             *)
CatLines ==
  /\ Has("s") => ~\E k \in 1 .. Len(out) - 2 : \A j \in k .. k + 2 : out[j] = As("nl")
  /\ \A k \in 2 .. Len(out) : out[k][1] = "number" => out[k - 1][2] \in {"nl", "highnl"}
  /\ \A k \in 1 .. Len(out) : out[k][1] = "number" => out[k][2] = Cardinality({j \in 1 .. k : out[j][1] = "number"})
=============================================================================
