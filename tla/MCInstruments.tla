--------------------------- MODULE MCInstruments ---------------------------
(***************************************************************************)
(* Small instances of Instruments for TLC.                                 *)
(***************************************************************************)
EXTENDS Instruments

\* Every version of every class has every site.
FullContent == [p \in Pairs |-> Sites]

\* Both loaders load every class, or only "B".
AllVersions == Pairs
TwoOfB == Pairs \ {<<"A", "l2">>}

\* As FullContent, but "B" lacks its line, so a line ending in B cannot be applied.
NoLineInB == [p \in Pairs |-> IF p[1] = "B" THEN Methods ELSE Sites]

\* "A" is complete; the version of "B" that loader "l2" defines is empty, so
\* what was applied to B cannot be reapplied once l2 loads it.
OldAndNew == [p \in Pairs |-> IF p = <<"B", "l2">> THEN {} ELSE Sites]
=============================================================================
