----------------------------- MODULE EditedLine -----------------------------
(***************************************************************************)
(* What the line editor of the CLI promises: a text, a cursor in it and a   *)
(* kill buffer.  A key that has nothing to act on changes nothing.          *)
(***************************************************************************)
EXTENDS Naturals, Sequences

CONSTANTS
  Letter,   \* the characters of a text
  History   \* the lines that can be recalled

VARIABLES
  text,     \* the line
  cursor,   \* characters before the cursor
  cut       \* what Ctrl-K took last

lineVars == <<text, cursor, cut>>

Before == SubSeq(text, 1, cursor)
Beyond == SubSeq(text, cursor + 1, Len(text))

LineInit == text = <<>> /\ cursor = 0 /\ cut = <<>>

InsertText(s) ==
  /\ text' = Before \o s \o Beyond
  /\ cursor' = cursor + Len(s)
  /\ UNCHANGED cut

EraseBefore ==
  /\ cursor > 0
  /\ text' = SubSeq(text, 1, cursor - 1) \o Beyond
  /\ cursor' = cursor - 1
  /\ UNCHANGED cut

CutBeyond == text' = Before /\ cut' = Beyond /\ UNCHANGED cursor

MoveTo(i) == i \in 0 .. Len(text) /\ cursor' = i /\ UNCHANGED <<text, cut>>

NewLine(s) == text' = s /\ cursor' = Len(s) /\ UNCHANGED cut

\* a motion goes one character, or to an end of the line
LineNext ==
  \/ \E c \in Letter : InsertText(<<c>>)
  \/ InsertText(cut)
  \/ EraseBefore
  \/ CutBeyond
  \/ \E i \in {0, cursor + 1, Len(text)} : MoveTo(i)
  \/ cursor > 0 /\ MoveTo(cursor - 1)
  \/ \E s \in History \cup {<<>>} : NewLine(s)

LineSpec == LineInit /\ [][LineNext]_lineVars
=============================================================================
