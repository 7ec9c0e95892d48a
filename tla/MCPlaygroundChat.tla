---- MODULE MCPlaygroundChat ----
EXTENDS PlaygroundChat

\* Three answers.  The first stutters: its chunks are "1" and "12".  The second
\* does not, though a letter comes again ("12", "1"); the third is cumulative and
\* has the letters of the first, sent as "1" and "11".
Words     == <<<<1, 1, 2>>, <<1, 2, 1>>, <<1, 1, 2>>>>
ChunkEnds == <<{1, 3}, {2, 3}, {1, 2}>>

\* What follows an edit that overwrote unrendered updates is not explored: no
\* property speaks of it.
NotClobbered == ~clobbered
====
