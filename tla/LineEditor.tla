----------------------------- MODULE LineEditor -----------------------------
(***************************************************************************)
(* The keys of the CLI on its gap buffer (cli_vt100.c and cli_input.c).  A  *)
(* motion over a word is a loop of single steps.  The text a key such as    *)
(* the up arrow puts in the line is any of a few lines.                     *)
(***************************************************************************)
EXTENDS GapBuffer

CONSTANTS
  Chars,     \* printable characters, Space among them
  Space,
  Lines,     \* lines of the history
  MaxLine,   \* bound on the length of the line
  EdgeKeys   \* does the user also press keys where there is nothing to act on?

ASSUME LineAssumption ==
  /\ Space \in Chars /\ Chars \cap {"null", "freed"} = {}
  /\ Lines \subseteq Seq(Chars)
  /\ MaxLine \in Nat /\ EdgeKeys \in BOOLEAN

VARIABLES
  gb,        \* the gap buffer
  kill,      \* cli->kill: NULL at first, or the text Ctrl-K took
  byWord     \* the word motion in hand

editorVars == <<gb, kill, byWord>>

\* a pointer that is NULL, one whose memory was freed
Null  == <<"null">>
Freed == <<"freed">>

EditorTypeOK ==
  /\ {gb.gap, gb.egap, gb.ebuf, gb.point} \subseteq Nat
  /\ DOMAIN gb.mem = 0 .. gb.ebuf - 1
  /\ \A i \in DOMAIN gb.mem : gb.mem[i] \in Chars \cup {Blank}
  /\ kill \in {Null, Freed} \cup Seq(Chars)
  /\ byWord \in {"none", "left", "right"}

EditorInit == gb = Cleared(GapSize) /\ kill = Null /\ byWord = "none"

Size(g) == Len(Contents(g))

\* the cursor is at the start of the text, on the far side of the gap
Strayed == gb.gap = 0 /\ gb.point = gb.egap /\ gb.egap > 0

Key(g) == byWord = "none" /\ gb' = g /\ UNCHANGED <<kill, byWord>>

TypeChar == \E c \in Chars : Size(gb) < MaxLine /\ Key(Inserted(gb, <<c>>))

RightArrow == ~AtEof(gb) /\ Key(StepRight(gb))

LeftArrow == ~AtStart(gb) /\ Key(StepLeft(gb))

\* key_backspace and key_suppr
Backspace ==
  /\ ~AtStart(gb)
  /\ Strayed => EdgeKeys
  /\ Key(Deleted(StepLeft(gb), 1))

CtrlA == Key(PointAt(gb, 0))
CtrlE == Key(PointAt(gb, -1))

\* Ctrl-K frees the kill buffer and fills a new one when there is text to take
CtrlK ==
  LET at   == GapAtPoint(gb)
      some == ~AtEof(at)
  IN  /\ byWord = "none"
      /\ some \/ EdgeKeys \/ kill = Null
      /\ kill' = IF some THEN RightOfGap(at) ELSE IF kill = Null THEN Null ELSE Freed
      /\ gb' = Deleted(at, IF some THEN Len(RightOfGap(at)) ELSE 0)
      /\ UNCHANGED byWord

\* Ctrl-Y; what a freed buffer holds is anybody's guess
CtrlY ==
  /\ kill # Null
  /\ \E s \in IF kill = Freed THEN Lines ELSE {kill} :
       Size(gb) + Len(s) <= MaxLine /\ Key(GapAtPoint(Inserted(gb, s)))

\* the up and down arrows, which find a line in the history
Recall == \E s \in Lines :
  LET g == Inserted(Cleared(gb.ebuf), s) IN Key(PointAt(g, Len(s)))

\* return executes the line and starts another; Ctrl-C drops it
Return == Key(Cleared(gb.ebuf))

\* Ctrl-L displays the line again, which moves the gap
Redisplay == Key(GapAtPoint(gb))

StartWord == \E d \in {"left", "right"} :
  /\ byWord = "none"
  /\ d = "right" => ~AtEnd(gb)
  /\ byWord' = d /\ UNCHANGED <<gb, kill>>

\* key_word_left: a step, then stop behind a space or at the start
WordLeft ==
  LET g == OnLeft(IF AtStart(gb) THEN gb ELSE StepLeft(gb))
  IN  /\ byWord = "left"
      /\ gb' = g
      /\ byWord' = IF AtStart(g) \/ g.mem[g.point - 1] = Space THEN "none" ELSE "left"
      /\ UNCHANGED kill

\* key_word_right: a step, then stop at a space or at the end
WordRight ==
  LET g == OnRight(IF AtEof(gb) THEN gb ELSE StepRight(gb))
  IN  /\ byWord = "right"
      /\ gb' = g
      /\ byWord' = IF AtEnd(g) \/ g.mem[g.point] = Space THEN "none" ELSE "right"
      /\ UNCHANGED kill

EditorNext ==
  \/ TypeChar \/ RightArrow \/ LeftArrow \/ Backspace \/ CtrlA \/ CtrlE
  \/ CtrlK \/ CtrlY \/ Recall \/ Return \/ Redisplay
  \/ StartWord \/ WordLeft \/ WordRight

EditorSpec == EditorInit /\ [][EditorNext]_editorVars
-----------------------------------------------------------------------------
(* The editor is a text with a cursor, wherever the gap happens to be and   *)
(* on whichever side of it the point rests.                                 *)
CursorAt == IF gb.point > gb.gap THEN gb.point - (gb.egap - gb.gap) ELSE gb.point

Line == INSTANCE EditedLine WITH
  Letter <- Chars, History <- Lines, text <- Contents(gb), cursor <- CursorAt,
  cut <- IF kill \in {Null, Freed} THEN <<>> ELSE kill

LineRefined == Line!LineSpec

(* The gap lies within the buffer and the point in the text, never in the   *)
(* spare room, whose bytes would then be taken for text.                    *)
GapInBuffer ==
  /\ gb.gap <= gb.egap /\ gb.egap <= gb.ebuf
  /\ gb.point \in (0 .. gb.gap) \cup (gb.egap .. gb.ebuf)
=============================================================================
