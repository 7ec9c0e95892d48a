SPECIFICATION CSpec
CONSTANTS
  MaxGen = 3
  MaxLetters = 3
  MaxMessages = 4
  Word <- Words
  Ends <- ChunkEnds
  Cumulative = {3}
INVARIANTS CTypeOK ShowsOwnText NothingStuck
PROPERTIES WholeWhenDone
CHECK_DEADLOCK FALSE
CONSTRAINT NotClobbered
