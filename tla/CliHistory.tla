----------------------------- MODULE CliHistory -----------------------------
(***************************************************************************)
(* The command history of the CLI (cli_history.c) as cli_execute and the    *)
(* keys use it.  A line takes a node from the free list or, when there is   *)
(* none, the node of the oldest line.  A line that is an alias is executed  *)
(* by entering it, deleting it again and entering what it stands for; the   *)
(* node of the deleted line goes to no list, and the alias that takes the   *)
(* last one is the end of the CLI.                                          *)
(***************************************************************************)
EXTENDS Naturals, Sequences, SequencesExt

CONSTANTS
  HistLines,   \* nb_hist, the number of nodes
  Commands,    \* lines that name a command
  AliasLine,   \* a line that names an alias
  Meaning,     \* the command it stands for
  MaxEntered   \* bound on the lines entered

ASSUME HistoryAssumption ==
  /\ HistLines \in Nat \ {0} /\ MaxEntered \in Nat
  /\ Meaning \in Commands /\ AliasLine \notin Commands

Nodes == 1 .. HistLines
NoNode == 0                   \* curr_hist is NULL

VARIABLES
  hist,      \* hd_hist, oldest first: nodes and their lines
  freeHist,  \* the nodes of free_hist
  currHist,  \* curr_hist
  cliDead,   \* was the head of the empty list freed as if it were a node?
  \* history
  entered,   \* the lines entered, an immediate repetition once
  aliases    \* alias lines executed

historyVars == <<hist, freeHist, currHist, cliDead, entered, aliases>>

Entry == [node : Nodes, line : Commands \cup {AliasLine}]

HistoryTypeOK ==
  /\ hist \in Seq(Entry) /\ freeHist \subseteq Nodes
  /\ currHist \in Nodes \cup {NoNode} /\ cliDead \in BOOLEAN
  /\ entered \in Seq(Commands) /\ aliases \in Nat

HistoryInit ==
  /\ hist = <<>> /\ freeHist = Nodes /\ currHist = NoNode /\ cliDead = FALSE
  /\ entered = <<>> /\ aliases = 0

\* Is the line the one entered last?
Repeats(h, l) == h.hist # <<>> /\ Last(h.hist).line = l

\* mutant of Recycle: the newest line gives way
RecycleNewest(h, l) ==
  [h EXCEPT !.hist = Append(Front(h.hist), [node |-> Last(h.hist).node, line |-> l])]

\* no node is free: the oldest line gives way
Recycle(h, l) ==
  [h EXCEPT !.hist = Append(Tail(h.hist), [node |-> Head(h.hist).node, line |-> l])]

\* cli_history_add
Add(h, l) ==
  IF Repeats(h, l) THEN h
  ELSE IF h.free = {} THEN Recycle(h, l)
  ELSE LET n == CHOOSE n \in h.free : TRUE
       IN  [hist |-> Append(h.hist, [node |-> n, line |-> l]), free |-> h.free \ {n}]

\* cli_history_del: the node is in no list any more
DropNewest(h) == [h EXCEPT !.hist = Front(h.hist)]

Now == [hist |-> hist, free |-> freeHist]

Becomes(h) == hist' = h.hist /\ freeHist' = h.free

Note(l) == entered' = IF entered # <<>> /\ Last(entered) = l THEN entered ELSE Append(entered, l)

\* Return on a command, known or not
EnterCommand == \E l \in Commands :
  /\ Len(entered) < MaxEntered
  /\ Becomes(Add(Now, l)) /\ Note(l)
  /\ currHist' = NoNode
  /\ UNCHANGED <<cliDead, aliases>>

\* What is left when the line of an alias has been entered and deleted again
AfterAlias == DropNewest(Add(Now, AliasLine))
HasNode(h) == h.hist # <<>> \/ h.free # {}

\* Return on an alias
EnterAlias ==
  /\ Len(entered) < MaxEntered
  /\ HasNode(AfterAlias)
  /\ Becomes(Add(AfterAlias, Meaning)) /\ Note(Meaning)
  /\ currHist' = NoNode /\ aliases' = aliases + 1
  /\ UNCHANGED cliDead

\* The alias took the last node: cli_history_add takes the head of the empty list for its
\* first node and frees a "line" that is other fields of struct cli
RunOut ==
  /\ Len(entered) < MaxEntered
  /\ ~HasNode(AfterAlias)
  /\ Becomes(AfterAlias)
  /\ cliDead' = TRUE /\ aliases' = aliases + 1
  /\ UNCHANGED <<entered, currHist>>

\* Tab executes the line with "-?" and returns to it: cli_history_reset leaves the oldest current
TabHelp == \E l \in Commands :
  LET h == Add(Now, l)
  IN  /\ Len(entered) < MaxEntered
      /\ Becomes(h) /\ Note(l)
      /\ currHist' = Head(h.hist).node
      /\ UNCHANGED <<cliDead, aliases>>

\* Ctrl-C, a comment or "!n": nothing is entered
DropLine == currHist' = NoNode /\ UNCHANGED <<hist, freeHist, cliDead, entered, aliases>>

Place(n) == CHOOSE i \in 1 .. Len(hist) : hist[i].node = n

\* cli_history_prev
Previous ==
  /\ hist # <<>>
  /\ currHist' = CASE currHist = NoNode -> Last(hist).node
                   [] currHist = Head(hist).node -> currHist
                   [] OTHER -> hist[Place(currHist) - 1].node
  /\ UNCHANGED <<hist, freeHist, cliDead, entered, aliases>>

\* cli_history_next
Following ==
  /\ hist # <<>> /\ currHist # NoNode
  /\ currHist' = IF currHist = Last(hist).node THEN currHist ELSE hist[Place(currHist) + 1].node
  /\ UNCHANGED <<hist, freeHist, cliDead, entered, aliases>>

HistoryNext ==
  /\ ~cliDead
  /\ EnterCommand \/ EnterAlias \/ RunOut \/ TabHelp \/ DropLine \/ Previous \/ Following

HistorySpec == HistoryInit /\ [][HistoryNext]_historyVars
-----------------------------------------------------------------------------
(* The history is the newest lines entered, in order and without a gap: all *)
(* nb_hist of them as long as no alias has been executed, and the last one  *)
(* at least while the CLI lives.  No node holds two lines, and the current  *)
(* line is one of the history.  The CLI outlives HistLines - 1 aliases.     *)
KeepsNewest ==
  /\ Len(hist) <= Len(entered)
  /\ [i \in 1 .. Len(hist) |-> hist[i].line] =
       SubSeq(entered, Len(entered) - Len(hist) + 1, Len(entered))
  /\ aliases = 0 => Len(hist) = HistLines \/ Len(hist) = Len(entered)
  /\ entered # <<>> /\ ~cliDead => hist # <<>>
  /\ currHist # NoNode /\ ~cliDead => \E i \in 1 .. Len(hist) : hist[i].node = currHist
  /\ \A i, j \in 1 .. Len(hist) : hist[i].node = hist[j].node => i = j
  /\ cliDead => aliases >= HistLines
=============================================================================
