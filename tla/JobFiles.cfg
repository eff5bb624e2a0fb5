CONSTANTS
  Plans = {"transcribe", "note"}
  Images = 1
  Segments = 1
  Results = 1
  Limit = 1
  Stuck = {}
  MaxFiles = 6
  MaxRuns = 2
  MaxTroubles = 1
SPECIFICATION Spec
INVARIANTS TypeOK ListedFilesExist OneRunIsListed ResultsAreComplete SourceIsThere NothingIsForgotten
PROPERTIES DeletionsTakeTheFiles
