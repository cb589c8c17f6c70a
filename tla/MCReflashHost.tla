---------------------------- MODULE MCReflashHost ----------------------------
(***************************************************************************)
(* The values TLC gives the constants of ReflashHost: a boot region of two *)
(* sectors, and a user region whose sector 1 has a GPT header.  The table  *)
(* has two labels that differ in case only, a partition that ends after    *)
(* the card and one that ends before it begins; the headers differ in the  *)
(* size of the entries (the second leaves a gap in each sector if entries  *)
(* were not read over its end), and some lead to nothing.                  *)
(***************************************************************************)
EXTENDS ReflashHost, TLC

CONSTANTS a, b, short, User, Boot1

MCRegions == {User, Boot1}
MCSize == User :> 7 @@ Boot1 :> 2
MCPattern(k) == [pattern |-> k]

MCLabels == {"p", "P", "q", "long", "none", "void"}
MCLower == [l \in MCLabels |-> IF l = "P" THEN "p" ELSE l]
Part(name, first, last) == [name |-> name, first |-> first, last |-> last]
Gpt(lba, num_, size) == [lba |-> lba, num |-> num_, size |-> size]

Headers ==
  {Gpt(2, 5, 2), Gpt(2, 3, 3), Gpt(2, 5, 1), Gpt(2, 2, 5), Gpt(6, 4, 2)}
P == Part("P", 5, 5)
Table(entries) == [table |-> entries]
MCTables ==
  {Table(<<P, Part("q", 5, 6), Unused, Part("p", 6, 6)>>),
   Table(<<Part("void", 6, 5), Unused, Part("p", 6, 6), Part("q", 5, 6)>>)}
LastTable == Table(<<Part("long", 5, 7), P, Unused, P>>)
MCData == {a, b, [padded |-> short]} \cup {MCPattern(k) : k \in 0..1}
            \cup Headers \cup MCTables \cup {LastTable}
MCMisreads == {b, MCPattern(0)}
MCHeader == [d \in MCData |-> IF d \in Headers THEN d ELSE NoGpt]
MCEntries == [d \in MCData |-> IF d \in MCTables \cup {LastTable} THEN d.table ELSE <<Unused, Unused, Unused, Unused>>]
MCChunks == {a, b, short}
MCPadded == [c \in MCChunks |-> IF c = short THEN [padded |-> short] ELSE c]

Op(kind, region, start_, num_, label) ==
  [kind |-> kind, region |-> region, start |-> start_, num |-> num_, label |-> label]
MCOperations ==
  {Op("read", Boot1, s, n, "none") : s \in -1..1, n \in {-1, 0, 2}}
    \cup {Op("write", Boot1, s, 0, "none") : s \in {-1, 1}}
    \cup {Op("write", User, 1, 0, "none")}
    \cup {Op("roundtrip", Boot1, s, n, "none") : s \in 0..1, n \in {2}}
    \cup {Op(k, User, 0, 0, l) : k \in {"readPartition", "writePartition"}, l \in MCLabels}
MCFiles == {<<>>, <<b>>, <<b, short>>, <<b, b, a>>}
MCStores ==
  {User :> <<a, h, t, u, LastTable, a, b>> @@ Boot1 :> <<a, b>> :
     h \in Headers \cup {b}, t \in MCTables, u \in MCTables}
=============================================================================
