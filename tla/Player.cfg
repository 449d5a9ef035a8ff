SPECIFICATION PlayerFairSpec
CONSTANTS
  NumSongs = 3
  NumNext = 4
  Stored <- MCStored
  Nothing = Nothing
  MaxPlays = 3
INVARIANTS
  PlayerTypeOK
  AwaitedIsOnItsWay
PROPERTIES
  AnswersDoNotInterrupt
  SomethingPlays
\* When nobody asks for another song, everything comes to rest.
CHECK_DEADLOCK FALSE
