SPECIFICATION MCSpec
CONSTANTS
  Vertices <- Six
  Entries <- Addresses
  MaxCount = 1
VIEW UpToAddresses
INVARIANTS
  ToursSound
  CountersOwned
  AnswersRight
  IterationCovers
PROPERTY ForestSpec
