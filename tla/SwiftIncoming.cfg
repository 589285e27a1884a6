SPECIFICATION FairSpec
CONSTANTS
  Files = {f1, f2}
  Settings <- MCSettings
  MaxFailures = 1
  Movers = {1, 2}
  MaxCrashes = 1
INVARIANTS TypeOK DeliveredOnce NoFileLost
PROPERTIES IsDelivery OnlyWholeFilesMove NothingLeftBehind EveryFileTaken
