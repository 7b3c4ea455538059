----------------------------- MODULE GapBuffer ------------------------------
(***************************************************************************)
(* The gap buffer of the CLI.  Pointers are offsets from buf: the text is   *)
(* mem[0 .. gap - 1] followed by mem[egap .. ebuf - 1], what lies between   *)
(* is spare room.  The point may rest on either side of the gap.            *)
(***************************************************************************)
EXTENDS Integers, Sequences

CONSTANTS
  GapSize,   \* GB_DEFAULT_GAP_SIZE
  Blank      \* the character an unused byte holds

ASSUME GapAssumption == GapSize \in Nat \ {0}

\* gb_reset_buf of a buffer of n bytes
Cleared(n) == [mem |-> [i \in 0 .. n - 1 |-> Blank], gap |-> 0, egap |-> n, ebuf |-> n, point |-> 0]

\* gb_point_at_start, gb_point_at_end and gb_eof
AtStart(g) == g.point = 0
AtEnd(g) == g.point = g.ebuf
AtEof(g) == IF g.point = g.gap THEN g.egap = g.ebuf ELSE g.point = g.ebuf

\* gb_copy_to_buf
Contents(g) == [i \in 1 .. g.ebuf - (g.egap - g.gap) |->
                  IF i <= g.gap THEN g.mem[i - 1] ELSE g.mem[i - 1 + g.egap - g.gap]]

\* the bytes gb_end_of_gap and gb_right_data_size delimit
RightOfGap(g) == [i \in 1 .. g.ebuf - g.egap |-> g.mem[g.egap + i - 1]]

\* memmove of n bytes
Moved(mem, to, from, n) ==
  [i \in DOMAIN mem |-> IF i \in to .. to + n - 1 THEN mem[from + i - to] ELSE mem[i]]

\* gb_set_point; -1 stands for the end
PointAt(g, i) == [g EXCEPT !.point = IF i = -1 THEN g.ebuf
                                     ELSE IF i > g.gap THEN i + g.egap - g.gap ELSE i]

\* gb_move_gap_to_point
GapAtPoint(g) ==
  CASE g.point = g.gap  -> g
    [] g.point = g.egap /\ g.point # g.gap -> [g EXCEPT !.point = g.gap]
    [] g.point < g.gap  ->
         LET n == g.gap - g.point
         IN  [g EXCEPT !.mem = Moved(g.mem, g.egap - n, g.point, n), !.egap = g.egap - n,
                       !.gap = g.point]
    [] g.point > g.egap ->
         LET n == g.point - g.egap
         IN  [g EXCEPT !.mem = Moved(g.mem, g.gap, g.egap, n), !.gap = g.gap + n,
                       !.egap = g.point, !.point = g.gap + n]
    [] g.point \in g.gap + 1 .. g.egap - 1 ->
         LET n == g.point - g.gap
         IN  [g EXCEPT !.mem = Moved(g.mem, g.gap, g.egap, n), !.gap = g.gap + n,
                       !.egap = g.egap + n, !.point = g.gap + n]

\* gb_expand_gap, with the room gb_expand_buf adds
WithRoom(g, n) ==
  IF n <= g.egap - g.gap THEN g
  ELSE LET more == n + GapSize
       IN  [g EXCEPT !.mem = [i \in 0 .. g.ebuf + more - 1 |->
                                CASE i < g.egap -> g.mem[i]
                                  [] i >= g.egap + more -> g.mem[i - more]
                                  [] OTHER -> Blank],
                     !.egap = g.egap + more, !.ebuf = g.ebuf + more]

\* gb_putc of each character of s in turn, where the gap has room for them
Put(g, s) ==
  [g EXCEPT !.mem = [i \in DOMAIN g.mem |->
                       IF i \in g.gap .. g.gap + Len(s) - 1 THEN s[i - g.gap + 1] ELSE g.mem[i]],
            !.gap = g.gap + Len(s), !.point = g.point + Len(s)]

\* gb_str_insert; gb_insert is the same for one character
Inserted(g, s) == Put(WithRoom(GapAtPoint(g), Len(s)), s)

\* mutant of Deleted: the gap stays where it is
DeletedInPlace(g, n) == [g EXCEPT !.egap = g.egap + n]

\* gb_del: the gap swallows what follows the point
Deleted(g, n) == LET at == GapAtPoint(g) IN [at EXCEPT !.egap = at.egap + n]

\* gb_get and gb_get_prev put the point on the side of the gap they read
OnRight(g) == [g EXCEPT !.point = IF g.point = g.gap THEN g.egap ELSE g.point]
OnLeft(g)  == [g EXCEPT !.point = IF g.point = g.egap THEN g.gap ELSE g.point]

\* gb_move_right and gb_move_left
StepRight(g) ==
  LET at == OnRight(g) IN [at EXCEPT !.point = IF at.point < at.ebuf THEN at.point + 1 ELSE at.ebuf]

\* mutant of StepLeft: the point walks into the gap
StepLeftNear(g) == [g EXCEPT !.point = IF g.point > 0 THEN g.point - 1 ELSE 0]

StepLeft(g) ==
  LET at == OnLeft(g) IN [at EXCEPT !.point = IF at.point > 0 THEN at.point - 1 ELSE 0]
=============================================================================
