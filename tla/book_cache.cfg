\* The broadcaster and an immediate fetch, two commits, one crash.
SPECIFICATION FairSpec
CONSTANTS
  tick = tick
  sub = sub
  Null = Null
  Readers <- MCReaders
  Broadcaster <- tick
  MaxCommits = 2
  MaxRestarts = 1
INVARIANTS
  TypeOK
  InvalidatedBooksAreGone
PROPERTIES
  BroadcastsCatchUp
