--------------------------- MODULE MCPcapSource ----------------------------
EXTENDS PcapSource

Entry(name, n) ==
  [name |-> name, n |-> n, suffix |-> TRUE, cut |-> FALSE, magic |-> "native"]

File(e) == [kind |-> "file", entries |-> {e}]
Directory(es) == [kind |-> "directory", entries |-> es]

\* Sound captures: one file, several, some of them empty, one byte-swapped.
GoodSources ==
  { File(Entry(1, 3)), File(Entry(1, 11)),
    Directory({Entry(1, 2), Entry(2, 0), [Entry(3, 3) EXCEPT !.magic = "swapped"]}),
    Directory({Entry(1, 0), Entry(2, 5), Entry(3, 0)}) }

\* Sources the program refuses, at once, in the scan or while loading.
BadSources ==
  { [kind |-> "other", entries |-> {}], Directory({}),
    Directory({Entry(1, 2), [Entry(2, 2) EXCEPT !.suffix = FALSE]}),
    Directory({Entry(1, 2), [Entry(2, 2) EXCEPT !.magic = "pcapng"]}),
    Directory({Entry(1, 0), Entry(2, 0)}),
    Directory({Entry(1, 2), [Entry(2, 3) EXCEPT !.cut = TRUE]}) }

AllSources == GoodSources \union BadSources
=============================================================================
