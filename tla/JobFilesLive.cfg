CONSTANTS
  Plans = {"note", "transcribe"}
  Images = 3
  Segments = 1
  Results = 1
  Limit = 2
  Stuck = {1}
  MaxFiles = 4
  MaxRuns = 1
  MaxTroubles = 1
SPECIFICATION FairSpec
PROPERTIES ExpiredFilesAreRemoved
